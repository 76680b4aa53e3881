----------------------------- MODULE Registration -----------------------------
(***************************************************************************)
(* Public registration with two one-time codes: the challenge of an email  *)
(* address, the codes on their way, verification, and the account that     *)
(* completes it.  Sources: services/control-plane/src/database.ts,         *)
(* registration-verification.ts and the routes of server.ts.               *)
(*                                                                         *)
(* Of the challenges of an address only the last is modelled: the others   *)
(* are closed and answer every request with an error.  A code that a newer *)
(* one has replaced is a wrong code, since its hash covers the id of the   *)
(* row, which a resend changes.  The hourly limits by network address and  *)
(* destination are left out.                                               *)
(***************************************************************************)
EXTENDS Naturals, FiniteSets

CONSTANTS
    Emails, Phones,
    RegistrationKeys,   \* idempotency keys of completions
    NoPhone, NoKey,
    MaxFailures,        \* maxFailedAttempts
    MaxSends            \* maxSendsPerChannel

ASSUME RegistrationAssumption ==
    /\ NoPhone \notin Phones /\ NoKey \notin RegistrationKeys
    /\ MaxFailures \in Nat \ {0} /\ MaxSends \in Nat

VARIABLES
    challenge,          \* email -> its latest row of cod_registration_challenges
    account,            \* email -> its row of cod_users
    delivering,         \* email -> channels whose last code is being delivered
    reached,            \* history: email -> addresses that codes of its challenge reached
    wrong               \* history: email -> wrong codes tried on its challenge

registrationVars == <<challenge, account, delivering, reached, wrong>>

-----------------------------------------------------------------------------
\* A code is none, sent, or got: it has reached its address.  passed: which of its
\* deadlines have passed.
NoChallenge == [status |-> "none", phone |-> NoPhone, emailCode |-> "none", emailOk |-> FALSE,
                phoneCode |-> "none", phoneOk |-> FALSE, failures |-> 0, emailSends |-> 0,
                phoneSends |-> 0, key |-> NoKey, passed |-> {}]

NoAccount == [method |-> "none", phone |-> NoPhone]

RegistrationInit ==
    /\ challenge = [e \in Emails |-> NoChallenge]
    /\ account = [e \in Emails |-> NoAccount]
    /\ delivering = [e \in Emails |-> {}]
    /\ reached = [e \in Emails |-> {}]
    /\ wrong = [e \in Emails |-> 0]

Registered(e) == account[e] # NoAccount
PhoneOwned(p) == \E e \in Emails : account[e].phone = p

\* end: expires_at of a pending row, replay_until of a consumed one; resend: the
\* cooldown of the channel that is being verified.
Deadlines == {"end", "resend"}

Pending(e) == challenge[e].status = "pending"
Live(e) == Pending(e) /\ "end" \notin challenge[e].passed
Cool(e) == "resend" \in challenge[e].passed

\* Nothing is asked of a row that is no longer pending but its status and its key.
Closed(status) == [NoChallenge EXCEPT !.status = status]
Close(e, status) == challenge' = [challenge EXCEPT ![e] = Closed(status)]

\* A new code is committed and then delivered.
Send(e, channel) == delivering' = [delivering EXCEPT ![e] = @ \cup {channel}]

historyVars == <<reached, wrong>>

-----------------------------------------------------------------------------
(* Sending codes. *)

Resent(row) == [row EXCEPT !.emailCode = "sent", !.emailSends = @ + 1, !.passed = {}]

FirstSent == [NoChallenge EXCEPT !.status = "pending", !.emailCode = "sent", !.emailSends = 1]

\* startEmailRegistration: a challenge that has ended is replaced.
StartEmail(e) ==
    /\ ~Registered(e)
    /\ IF Live(e)
       THEN /\ ~challenge[e].emailOk /\ Cool(e) /\ challenge[e].emailSends < MaxSends
            /\ challenge' = [challenge EXCEPT ![e] = Resent(@)]
            /\ UNCHANGED historyVars
       ELSE /\ challenge' = [challenge EXCEPT ![e] = FirstSent]
            /\ reached' = [reached EXCEPT ![e] = {}]
            /\ wrong' = [wrong EXCEPT ![e] = 0]
    /\ Send(e, "email")
    /\ UNCHANGED account

\* One code too many locks the challenge instead.
StartEmailTooOften(e) ==
    /\ ~Registered(e) /\ Live(e) /\ ~challenge[e].emailOk
    /\ Cool(e) /\ challenge[e].emailSends >= MaxSends
    /\ Close(e, "locked")
    /\ UNCHANGED <<account, delivering, historyVars>>

\* The other open challenges of a phone: those that have ended lose it.
Rivals(e, p) == {x \in Emails \ {e} : Pending(x) /\ challenge[x].phone = p}

\* Mutation of Freed: challenges that have ended do not count, but stay open.
FreedNone(e, p) == {}

Freed(e, p) == {x \in Rivals(e, p) : "end" \in challenge[x].passed}

FreePhone(e, p) ==
    [x \in Emails |-> IF x \in Freed(e, p) THEN Closed("superseded")
                      ELSE challenge[x]]

\* startPhoneRegistration of a live challenge whose email is verified.
PhoneAllowed(e, p) ==
    /\ Live(e) /\ challenge[e].emailOk
    /\ challenge[e].phone \in {NoPhone, p}
    /\ ~PhoneOwned(p)

PhoneTaken(e, p) == \E x \in Rivals(e, p) : "end" \notin challenge[x].passed

\* The first code is sent at once, another one after the cooldown.
PhoneReady(e) == ~challenge[e].phoneOk /\ (challenge[e].phoneSends = 0 \/ Cool(e))

PhoneSent(row, p) ==
    [row EXCEPT !.phone = p, !.phoneCode = "sent", !.phoneSends = @ + 1, !.passed = {}]

StartPhone(e, p) ==
    /\ PhoneAllowed(e, p) /\ ~PhoneTaken(e, p) /\ PhoneReady(e)
    /\ \/ /\ challenge[e].phoneSends < MaxSends
          /\ challenge' = [FreePhone(e, p) EXCEPT ![e] = PhoneSent(@, p)]
          /\ Send(e, "phone")
       \/ /\ challenge[e].phoneSends >= MaxSends
          /\ challenge' = [FreePhone(e, p) EXCEPT ![e] = Closed("locked")]
          /\ UNCHANGED delivering
    /\ UNCHANGED <<account, historyVars>>

\* A start that is refused after this point has freed the phone all the same.
StartPhoneRefused(e, p) ==
    /\ PhoneAllowed(e, p) /\ (PhoneTaken(e, p) \/ ~PhoneReady(e))
    /\ challenge' = FreePhone(e, p)
    /\ UNCHANGED <<account, delivering, historyVars>>

-----------------------------------------------------------------------------
(* Delivery: a code may arrive late, and after its delivery was reported failed. *)

ArriveEmail(e) ==
    /\ challenge[e].emailCode = "sent"
    /\ challenge' = [challenge EXCEPT ![e].emailCode = "got"]
    /\ reached' = [reached EXCEPT ![e] = @ \cup {e}]
    /\ UNCHANGED <<account, delivering, wrong>>

ArrivePhone(e) ==
    /\ challenge[e].phoneCode = "sent"
    /\ challenge' = [challenge EXCEPT ![e].phoneCode = "got"]
    /\ reached' = [reached EXCEPT ![e] = @ \cup {challenge[e].phone}]
    /\ UNCHANGED <<account, delivering, wrong>>

Undelivered(row, channel) ==
    IF channel = "email" THEN Closed("superseded")
    ELSE [row EXCEPT !.phoneCode = "none", !.phoneOk = FALSE]

\* deliver ends; when it failed, invalidateRegistrationCode takes the code back
\* unless it has been used.
Delivery(e, channel) ==
    /\ channel \in delivering[e]
    /\ delivering' = [delivering EXCEPT ![e] = @ \ {channel}]
    /\ \/ UNCHANGED challenge
       \/ /\ Pending(e)
          /\ IF channel = "email" THEN challenge[e].emailCode # "none"
                                  ELSE challenge[e].phoneCode # "none"
          /\ challenge' = [challenge EXCEPT ![e] = Undelivered(@, channel)]
    /\ UNCHANGED <<account, historyVars>>

-----------------------------------------------------------------------------
(* Verification: verifyRegistrationEmail and verifyRegistrationPhone. *)

VerifyEmail(e) ==
    /\ Live(e) /\ challenge[e].emailCode = "got"
    /\ challenge' = [challenge EXCEPT ![e] = [@ EXCEPT !.emailOk = TRUE, !.emailCode = "none"]]
    /\ UNCHANGED <<account, delivering, historyVars>>

VerifyPhone(e) ==
    /\ Live(e) /\ challenge[e].emailOk /\ challenge[e].phoneCode = "got"
    /\ challenge' = [challenge EXCEPT ![e] = [@ EXCEPT !.phoneOk = TRUE, !.phoneCode = "none"]]
    /\ UNCHANGED <<account, delivering, historyVars>>

Failed(row) ==
    LET tried == [row EXCEPT !.failures = @ + 1] IN
    IF tried.failures >= MaxFailures THEN Closed("locked") ELSE tried

\* A wrong code for whichever is still to be verified.
VerifyWrong(e) ==
    /\ Live(e)
    /\ ~challenge[e].emailOk \/ (challenge[e].phone # NoPhone /\ ~challenge[e].phoneOk)
    /\ challenge' = [challenge EXCEPT ![e] = Failed(@)]
    /\ wrong' = [wrong EXCEPT ![e] = @ + 1]
    /\ UNCHANGED <<account, delivering, reached>>

-----------------------------------------------------------------------------
(* Accounts. *)

Proven(row) == row.emailOk /\ row.phoneOk

\* The key of a request has completed this challenge.
Replays(e, k) == challenge[e].status = "consumed" /\ challenge[e].key = k

Ready(e, p) == Live(e) /\ challenge[e].phone = p /\ Proven(challenge[e])

\* assertVerifiedRegistration and completeVerifiedRegistration: the key first.
Answer(e, p, k) ==
    IF Replays(e, k) THEN IF "end" \in challenge[e].passed THEN "consumed" ELSE "replayed"
    ELSE IF \E x \in Emails \ {e} : Replays(x, k) THEN "conflict"
    ELSE IF ~Ready(e, p) THEN "refused"
    ELSE IF Registered(e) \/ PhoneOwned(p) THEN "registered"
    ELSE "created"

CompleteRegistration(e, p, k) ==
    /\ Answer(e, p, k) = "created"
    /\ account' = [account EXCEPT ![e] = [method |-> "dual_otp", phone |-> p]]
    /\ challenge' = [challenge EXCEPT ![e] = [Closed("consumed") EXCEPT !.key = k]]
    /\ UNCHANGED <<delivering, historyVars>>

\* registerExternalIdentity: a first login through OIDC registers the address.
Federate(e) ==
    /\ ~Registered(e)
    /\ account' = [account EXCEPT ![e] = [method |-> "federated", phone |-> NoPhone]]
    /\ UNCHANGED <<challenge, delivering, historyVars>>

\* cleanupRegistrationChallenges.  Any other request that finds a challenge at its
\* end closes it the same way.
CleanUp(e) ==
    /\ \/ Pending(e) /\ "end" \in challenge[e].passed /\ Close(e, "superseded")
          /\ UNCHANGED historyVars
       \/ /\ \/ challenge[e].status \in {"locked", "superseded"}
             \/ challenge[e].status = "consumed" /\ "end" \in challenge[e].passed
          /\ challenge' = [challenge EXCEPT ![e] = NoChallenge]
          /\ wrong' = [wrong EXCEPT ![e] = 0]
          /\ reached' = IF Registered(e) THEN reached ELSE [reached EXCEPT ![e] = {}]
    /\ UNCHANGED <<account, delivering>>

\* The cooldown outlasts the 8 s that a delivery may take.
Pass(e, d) ==
    /\ d \notin challenge[e].passed
    /\ \/ Pending(e) /\ (d = "resend" => delivering[e] = {})
       \/ challenge[e].status = "consumed" /\ d = "end"
    /\ challenge' = [challenge EXCEPT ![e].passed = @ \cup {d}]
    /\ UNCHANGED <<account, delivering, historyVars>>

Codes(e) ==
    \/ StartEmail(e) \/ StartEmailTooOften(e)
    \/ ArriveEmail(e) \/ ArrivePhone(e)
    \/ \E channel \in {"email", "phone"} : Delivery(e, channel)
    \/ VerifyEmail(e) \/ VerifyPhone(e) \/ VerifyWrong(e)

RegistrationNext ==
    \/ \E e \in Emails : Codes(e) \/ Federate(e) \/ CleanUp(e)
    \/ \E e \in Emails, p \in Phones : StartPhone(e, p) \/ StartPhoneRefused(e, p)
    \/ \E e \in Emails, p \in Phones, k \in RegistrationKeys : CompleteRegistration(e, p, k)
    \/ \E e \in Emails, d \in Deadlines : Pass(e, d)

RegistrationSpec == RegistrationInit /\ [][RegistrationNext]_registrationVars

-----------------------------------------------------------------------------
\* An account of public registration has been reached at its email and its phone;
\* no phone has two accounts or two open challenges; and nobody tries more than
\* maxFailedAttempts codes on one challenge, however often codes are sent again.
AccountsAreProven ==
    /\ \A e \in Emails :
          /\ account[e].method = "dual_otp" => {e, account[e].phone} \subseteq reached[e]
          /\ wrong[e] <= MaxFailures
    /\ \A e, x \in Emails : e # x =>
          /\ account[e].phone = account[x].phone => account[e].phone = NoPhone
          /\ Pending(e) /\ Pending(x) /\ challenge[e].phone = challenge[x].phone =>
                challenge[e].phone = NoPhone

\* A completion repeated because its answer was lost finds the account it made
\* until its replay time has passed, and is never told that the address is taken.
RetryFindsAccount ==
    \A e \in Emails :
        account[e].method = "dual_otp" /\ challenge[e].status = "consumed" /\ "end" \notin challenge[e].passed =>
            Answer(e, account[e].phone, challenge[e].key) = "replayed"

\* Both of them.
RegistrationSafe == AccountsAreProven /\ RetryFindsAccount

=============================================================================
