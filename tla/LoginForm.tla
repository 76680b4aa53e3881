----------------------------- MODULE LoginForm ------------------------------
(***************************************************************************)
(* The dialog that registers an account with two codes: its steps, the     *)
(* request it waits for and the ones it has given up, the token of the     *)
(* human check, and the idempotency key of the registration.  Source:      *)
(* apps/web/src/App.tsx, LoginForm.                                        *)
(*                                                                         *)
(* Giving a request up aborts it: what comes of it is not looked at, while *)
(* the server may have it already.  operationGenerationRef is modelled by  *)
(* whether a request is still the current one.  The server's side, in      *)
(* detail in Registration, is here the rows its answers depend on; codes   *)
(* are right or wrong.  Password, confirmation and invite code are one     *)
(* value.                                                                  *)
(***************************************************************************)
EXTENDS Naturals, Sequences, FiniteSets

CONSTANTS
    Mailboxes, Mobiles, Secrets,    \* what can be typed
    Blank,                          \* an empty field
    MaxChallenges, MaxKeys,         \* bounds on the challenges and keys ever made
    MaxAbandoned                    \* bound on the requests given up when another begins

VARIABLES
    form,           \* the dialog
    submitting,     \* its button is disabled and spins
    requests,       \* on the way: what is asked, whether it is still waited for, the answer
    formRows,       \* cod_registration_challenges, by challenge id
    keys,           \* keys drawn so far
    sentForms       \* history: registrations sent, with their keys

formVars == <<form, submitting, requests, formRows, keys, sentForms>>

-----------------------------------------------------------------------------
Steps == {"email", "email-code", "phone", "phone-code", "password"}

EmptyForm == [mode |-> "register", step |-> "email", email |-> Blank, challenge |-> 0,
              phone |-> Blank, secret |-> Blank, human |-> "none", key |-> 0]

FormInit ==
    /\ form = EmptyForm
    /\ submitting = FALSE
    /\ requests = {}
    /\ formRows = <<>>
    /\ keys = 0
    /\ sentForms = {}

\* A step that is entered clears the token of the human check.
AtStep(f, step) == [f EXCEPT !.step = step, !.human = IF f.step = step THEN @ ELSE "none"]

\* createClientId.
NewKey == keys' = keys + 1
DrawsKey == keys < MaxKeys

\* resetRegistration: everything but the address.
Reset(f) == [EmptyForm EXCEPT !.email = f.email, !.mode = f.mode]

\* cancelPendingRequest: nobody waits for an answer any more.
GivenUp == {[r EXCEPT !.current = FALSE] : r \in requests}
Abandoned == {r \in requests : ~r.current}

\* execute gives the former request up, starts another and waits for it.
Execute(kind) ==
    /\ ~submitting /\ Cardinality(Abandoned) <= MaxAbandoned
    /\ submitting' = TRUE
    /\ requests' = GivenUp \cup
          {[kind |-> kind, email |-> form.email, phone |-> form.phone, key |-> form.key,
            challenge |-> form.challenge, current |-> TRUE, answer |-> "none", id |-> 0]}

-----------------------------------------------------------------------------
(* What the user does. *)

Register == form.mode = "register"

TypeEmail(e) ==
    /\ Register /\ form.step = "email" /\ e # form.email
    /\ form' = [form EXCEPT !.email = e]
    /\ UNCHANGED <<submitting, requests, formRows, keys, sentForms>>

TypePhone(p) ==
    /\ Register /\ form.step = "phone" /\ p # form.phone
    /\ form' = [form EXCEPT !.phone = p]
    /\ UNCHANGED <<submitting, requests, formRows, keys, sentForms>>

\* updateFinalCredential: other data, another key.
Retyped(f, s, key) == [f EXCEPT !.secret = s, !.key = key]

TypeSecret(s) ==
    /\ Register /\ form.step = "password" /\ s # form.secret
    /\ DrawsKey /\ NewKey
    /\ form' = Retyped(form, s, keys')
    /\ UNCHANGED <<submitting, requests, formRows, sentForms>>

\* The widget hands a token, or lets it expire.
HumanToken ==
    /\ Register /\ form.step \in {"email", "phone"}
    /\ form' = [form EXCEPT !.human = IF @ = "none" THEN "fresh" ELSE "none"]
    /\ UNCHANGED <<submitting, requests, formRows, keys, sentForms>>

\* startEmailVerification and startPhoneVerification, up to the request.
SubmitStart ==
    /\ Register /\ form.human # "none"
    /\ \/ form.step = "email" /\ form.email # Blank /\ Execute("startEmail")
       \/ form.step = "phone" /\ form.phone # Blank /\ Execute("startPhone")
    /\ form' = [form EXCEPT !.human = IF @ = "fresh" THEN "spent" ELSE "twice"]
    /\ UNCHANGED <<formRows, keys, sentForms>>

\* verifyEmailCode and verifyPhoneCode.
SubmitCode ==
    /\ Register
    /\ \/ form.step = "email-code" /\ Execute("verifyEmail")
       \/ form.step = "phone-code" /\ Execute("verifyPhone")
    /\ UNCHANGED <<form, formRows, keys, sentForms>>

\* completeRegistration.
SubmitRegistration ==
    /\ Register /\ form.step = "password" /\ form.secret # Blank
    /\ Execute("complete")
    /\ sentForms' = sentForms \cup
          {[key |-> form.key, email |-> form.email, phone |-> form.phone, secret |-> form.secret,
            challenge |-> form.challenge]}
    /\ UNCHANGED <<form, formRows, keys>>

\* resendEmailVerification and resendPhoneVerification, when the cooldown has passed.
Resend ==
    /\ Register /\ ~submitting
    /\ \/ form.step = "email-code" /\ form' = AtStep(form, "email")
       \/ form.step = "phone-code" /\ form' = AtStep(form, "phone")
    /\ UNCHANGED <<submitting, requests, formRows, keys, sentForms>>

\* changeEmail.
ChangeEmail ==
    /\ Register /\ ~submitting /\ form.step \in {"email-code", "phone"}
    /\ form' = Reset(form)
    /\ requests' = GivenUp
    /\ UNCHANGED <<submitting, formRows, keys, sentForms>>

\* changePhone.
ChangePhone ==
    /\ Register /\ ~submitting /\ form.step \in {"phone-code", "password"}
    /\ DrawsKey /\ NewKey
    /\ form' = [AtStep(form, "phone") EXCEPT !.secret = Blank, !.key = keys']
    /\ requests' = GivenUp
    /\ UNCHANGED <<submitting, formRows, sentForms>>

\* switchMode, which a request under way does not disable.
SwitchMode ==
    /\ form' = Reset([form EXCEPT !.mode = IF Register THEN "login" ELSE "register"])
    /\ requests' = GivenUp
    /\ submitting' = FALSE
    /\ UNCHANGED <<formRows, keys, sentForms>>

\* The server stops offering registration: the fields stay as they are.
RegistrationEnds ==
    /\ Register
    /\ form' = [form EXCEPT !.mode = "login"]
    /\ requests' = GivenUp
    /\ submitting' = FALSE
    /\ UNCHANGED <<formRows, keys, sentForms>>

-----------------------------------------------------------------------------
(* The server. *)

Open(c, e) == c \in DOMAIN formRows /\ formRows[c].open /\ formRows[c].email = e

Row(e) == [email |-> e, open |-> TRUE, emailOk |-> FALSE, phone |-> Blank, phoneOk |-> FALSE,
           key |-> 0]

\* Another code closes the row it replaces, unless its address is verified already.
CanSend(e) == \A c \in DOMAIN formRows : Open(c, e) => ~formRows[c].emailOk

Answered(r, answer, id) == requests' = (requests \ {r}) \cup {[r EXCEPT !.answer = answer, !.id = id]}
Update(c, row) == formRows' = [formRows EXCEPT ![c] = row]

HasAccount(r) == \E c \in DOMAIN formRows : formRows[c].key # 0 /\ formRows[c].email = r.email

\* It does what a request asks for, when it may.
Serve(r) ==
    LET row == formRows[r.challenge]
    IN  /\ r.answer = "none"
        /\ \/ /\ r.kind = "startEmail" /\ CanSend(r.email) /\ ~HasAccount(r)
              /\ Len(formRows) < MaxChallenges
              /\ formRows' = Append([c \in DOMAIN formRows |->
                                   IF Open(c, r.email) THEN [formRows[c] EXCEPT !.open = FALSE]
                                   ELSE formRows[c]], Row(r.email))
              /\ Answered(r, "ok", Len(formRows) + 1)
           \/ /\ r.kind = "verifyEmail" /\ Open(r.challenge, r.email)
              /\ Update(r.challenge, [row EXCEPT !.emailOk = TRUE])
              /\ Answered(r, "ok", r.challenge)
           \/ /\ r.kind = "startPhone" /\ Open(r.challenge, r.email)
              /\ row.emailOk /\ ~row.phoneOk /\ row.phone \in {Blank, r.phone}
              /\ Update(r.challenge, [row EXCEPT !.phone = r.phone])
              /\ Answered(r, "ok", r.challenge)
           \/ /\ r.kind = "verifyPhone" /\ Open(r.challenge, r.email)
              /\ row.emailOk /\ row.phone = r.phone
              /\ Update(r.challenge, [row EXCEPT !.phoneOk = TRUE])
              /\ Answered(r, "ok", r.challenge)
           \/ /\ r.kind = "complete" /\ Open(r.challenge, r.email)
              /\ row.emailOk /\ row.phoneOk /\ row.phone = r.phone
              /\ Update(r.challenge, [row EXCEPT !.open = FALSE, !.key = r.key])
              /\ Answered(r, "ok", r.challenge)
           \/ /\ r.kind = "complete" /\ r.challenge \in DOMAIN formRows /\ row.key = r.key
              /\ Answered(r, "ok", r.challenge)
              /\ UNCHANGED formRows
    /\ UNCHANGED <<form, submitting, keys, sentForms>>

\* A refusal, or an answer that is lost with what was done or not.
RefuseCall(r) ==
    /\ r.answer # "refused"
    /\ Answered(r, "refused", 0)
    /\ UNCHANGED <<form, submitting, formRows, keys, sentForms>>

-----------------------------------------------------------------------------
(* What the dialog makes of an answer. *)

IsStart(r) == r.kind \in {"startEmail", "startPhone"}

\* consumeHumanChallenge comes after every start, given up or not.
Consumed(f, r) == IF IsStart(r) THEN [f EXCEPT !.human = "none"] ELSE f

\* The key is that of the registration that follows; what was typed meanwhile goes.
Advanced(f, r, key) ==
    CASE r.kind = "startEmail"  -> [AtStep(f, "email-code") EXCEPT !.email = r.email,
                                        !.challenge = r.id, !.key = key]
      [] r.kind = "verifyEmail" -> AtStep(f, "phone")
      [] r.kind = "startPhone"  -> [AtStep(f, "phone-code") EXCEPT !.phone = r.phone,
                                        !.challenge = r.id, !.key = key]
      [] r.kind = "verifyPhone" -> AtStep(f, "password")
      [] OTHER                  -> [f EXCEPT !.mode = "closed"]

\* Mutation of Heeded: an answer is heeded although its request was given up.
HeededLate(r) == r.answer = "ok"

Heeded(r) == r.current /\ r.answer = "ok"

AnswerHeard(r) ==
    /\ r.answer # "none"
    /\ requests' = requests \ {r}
    /\ IF Heeded(r) /\ IsStart(r) THEN DrawsKey /\ NewKey ELSE UNCHANGED keys
    /\ form' = IF Heeded(r) THEN Advanced(Consumed(form, r), r, keys') ELSE Consumed(form, r)
    /\ submitting' = (submitting /\ ~r.current)
    /\ UNCHANGED <<formRows, sentForms>>

\* An aborted request fails at once.
AbandonCall(r) ==
    /\ ~r.current
    /\ requests' = requests \ {r}
    /\ form' = Consumed(form, r)
    /\ UNCHANGED <<submitting, formRows, keys, sentForms>>

UserActs ==
    \/ \E e \in Mailboxes : TypeEmail(e)
    \/ \E p \in Mobiles \cup {Blank} : TypePhone(p)
    \/ \E s \in Secrets : TypeSecret(s)
    \/ HumanToken \/ SubmitStart \/ SubmitCode \/ SubmitRegistration
    \/ Resend \/ ChangeEmail \/ ChangePhone \/ SwitchMode \/ RegistrationEnds

FormNext ==
    \/ form.mode # "closed" /\ UserActs
    \/ \E r \in requests : Serve(r) \/ RefuseCall(r) \/ AnswerHeard(r) \/ AbandonCall(r)

FormSpec == FormInit /\ [][FormNext]_formVars

-----------------------------------------------------------------------------
(* A step of the registration is shown for what the server has done for the  *)
(* addresses in the form: the phone is asked for when the address is         *)
(* verified, the password when both are, whatever was typed, given up or     *)
(* answered late meanwhile.                                                  *)
ShownIsVerified ==
    form.step \in {"phone", "phone-code", "password"} =>
        LET row == formRows[form.challenge]
        IN  /\ form.challenge \in DOMAIN formRows
            /\ row.email = form.email /\ row.emailOk
            /\ form.step = "phone-code" => row.phone = form.phone
            /\ form.step = "password" => row.phone = form.phone /\ row.phoneOk

(* One key stands for one registration: the server refuses a key that comes  *)
(* back with other data.                                                     *)
KeyIsOfForm ==
    \A a, b \in sentForms : a.key = b.key => a = b

(* The button spins exactly while the dialog waits for a request, and a token*)
(* of the human check is sent once.                                          *)
SpinsForRequest ==
    /\ submitting <=> \E r \in requests : r.current
    /\ form.human # "twice"

\* Interrupted, late and repeated requests leave the dialog consistent.
FormSafe == ShownIsVerified /\ KeyIsOfForm /\ SpinsForRequest

=============================================================================
