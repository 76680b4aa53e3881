----------------------------- MODULE AppsProofs -----------------------------
(***************************************************************************)
(* Theorems about registration, accounts, logins through an identity       *)
(* provider, the event feed, compute orders, the desktop's agent, and the  *)
(* sessions and the registration dialog of the mobile and the web          *)
(* application, for any addresses, keys, callers, tasks, orders,           *)
(* processes, tokens and whatever is typed.                                *)
(***************************************************************************)
EXTENDS Registration, OidcLogin, GooseSidecar, ComputeOrders, EventFeed, MobileSession, WorkspaceSession,
        LoginForm, SumTheorems, FiniteSetTheorems, SequenceTheorems, TLAPS

-----------------------------------------------------------------------------
(* Registration with two codes *)

ChallengeRow ==
    [status : {"none", "pending", "consumed", "locked", "superseded"}, phone : Phones \cup {NoPhone},
     emailCode : {"none", "sent", "got"}, emailOk : BOOLEAN,
     phoneCode : {"none", "sent", "got"}, phoneOk : BOOLEAN, failures : Nat, emailSends : Nat,
     phoneSends : Nat, key : RegistrationKeys \cup {NoKey}, passed : SUBSET Deadlines]

\* What the row of a challenge of e says is true, given what its codes have reached
\* and how many wrong ones were tried; nothing is left of it once it is closed.
RowTrue(row, e, seen, tries) ==
    /\ row \in ChallengeRow
    /\ row.emailCode = "got" \/ row.emailOk => e \in seen
    /\ row.phoneCode # "none" \/ row.phoneOk => row.phone \in Phones
    /\ row.phoneCode = "got" \/ row.phoneOk => row.phone \in seen
    /\ row.status = "pending" => tries = row.failures /\ row.failures < MaxFailures
    /\ row.status # "pending" => /\ row.phone = NoPhone /\ row.emailCode = "none"
                                 /\ row.phoneCode = "none" /\ ~row.emailOk /\ ~row.phoneOk

AccountRow == [method : {"none", "dual_otp", "federated"}, phone : Phones \cup {NoPhone}]

RegistrationInv ==
    /\ challenge \in [Emails -> ChallengeRow]
    /\ account \in [Emails -> AccountRow]
    /\ reached \in [Emails -> SUBSET (Emails \cup Phones)]
    /\ wrong \in [Emails -> Nat]
    /\ \A e \in Emails : account[e].method = "none" => account[e] = NoAccount
    /\ \A e \in Emails : RowTrue(challenge[e], e, reached[e], wrong[e])
    /\ AccountsAreProven

LEMMA RegistrationBegins == RegistrationInit => RegistrationInv
<1> SUFFICES ASSUME RegistrationInit PROVE RegistrationInv OBVIOUS
<1>1. NoChallenge \in ChallengeRow BY RegistrationAssumption DEF NoChallenge, ChallengeRow, Deadlines
<1>2. NoAccount \in AccountRow BY DEF NoAccount, AccountRow
<1>3. \A e \in Emails : RowTrue(challenge[e], e, reached[e], wrong[e])
  BY <1>1 DEF RowTrue, RegistrationInit, NoChallenge
<1>4. AccountsAreProven
  BY RegistrationAssumption DEF AccountsAreProven, RegistrationInit, NoAccount, NoChallenge
<1> QED BY <1>1, <1>2, <1>3, <1>4 DEF RegistrationInv, RegistrationInit

\* A closed row says nothing.
LEMMA ClosedIsTrue ==
  ASSUME NEW e \in Emails, NEW seen, NEW tries, NEW status \in {"none", "consumed", "locked", "superseded"}
  PROVE  /\ RowTrue(Closed(status), e, seen, tries)
         /\ Closed(status).status = status /\ Closed(status).phone = NoPhone
BY RegistrationAssumption DEF Closed, NoChallenge, RowTrue, ChallengeRow, Deadlines

\* A step that changes the challenge of one address and gives it no phone.
LEMMA OneChallenge ==
  ASSUME RegistrationInv, NEW e \in Emails, NEW row, NEW seen \in SUBSET (Emails \cup Phones),
         NEW tries \in Nat,
         challenge' = [challenge EXCEPT ![e] = row],
         reached' = [reached EXCEPT ![e] = seen],
         wrong' = [wrong EXCEPT ![e] = tries],
         UNCHANGED account,
         RowTrue(row, e, seen, tries), tries <= MaxFailures,
         account[e].method = "dual_otp" => reached[e] \subseteq seen,
         row.status = "pending" => \/ row.phone = NoPhone
                                   \/ challenge[e].status = "pending" /\ row.phone = challenge[e].phone
  PROVE  RegistrationInv'
<1>1. row \in ChallengeRow BY DEF RowTrue
<1>2. /\ challenge' \in [Emails -> ChallengeRow] /\ account' \in [Emails -> AccountRow]
      /\ reached' \in [Emails -> SUBSET (Emails \cup Phones)] /\ wrong' \in [Emails -> Nat]
  BY <1>1 DEF RegistrationInv
<1>3. \A x \in Emails : /\ challenge'[x] = IF x = e THEN row ELSE challenge[x]
                        /\ reached'[x] = IF x = e THEN seen ELSE reached[x]
                        /\ wrong'[x] = IF x = e THEN tries ELSE wrong[x]
  BY DEF RegistrationInv
<1>4. \A x \in Emails : RowTrue(challenge'[x], x, reached'[x], wrong'[x])
  BY <1>3 DEF RegistrationInv
<1>5. AccountsAreProven'
  <2>1. ASSUME NEW x \in Emails
        PROVE  /\ account'[x].method = "dual_otp" => {x, account'[x].phone} \subseteq reached'[x]
               /\ wrong'[x] <= MaxFailures
    BY <1>3, <2>1 DEF RegistrationInv, AccountsAreProven
  <2>2. ASSUME NEW x \in Emails, NEW y \in Emails, x # y
        PROVE  account'[x].phone = account'[y].phone => account'[x].phone = NoPhone
    BY <2>2 DEF RegistrationInv, AccountsAreProven
  <2>3. ASSUME NEW x \in Emails, NEW y \in Emails, x # y,
               challenge'[x].status = "pending", challenge'[y].status = "pending",
               challenge'[x].phone = challenge'[y].phone
        PROVE  challenge'[x].phone = NoPhone
    <3>1. CASE x # e /\ y # e
      BY <1>3, <2>3, <3>1 DEF RegistrationInv, AccountsAreProven, Pending
    <3>2. CASE x = e
      BY <1>3, <2>3, <3>2 DEF RegistrationInv, AccountsAreProven, Pending
    <3>3. CASE y = e
      BY <1>3, <2>3, <3>3 DEF RegistrationInv, AccountsAreProven, Pending
    <3> QED BY <3>1, <3>2, <3>3
  <2> QED BY <2>1, <2>2, <2>3 DEF AccountsAreProven, Pending
<1> QED BY <1>2, <1>4, <1>5 DEF RegistrationInv

\* The same for a step that leaves the histories alone.
LEMMA OnlyChallenge ==
  ASSUME RegistrationInv, NEW e \in Emails, NEW row,
         challenge' = [challenge EXCEPT ![e] = row],
         UNCHANGED <<account, reached, wrong>>,
         RowTrue(row, e, reached[e], wrong[e]),
         row.status = "pending" => \/ row.phone = NoPhone
                                   \/ challenge[e].status = "pending" /\ row.phone = challenge[e].phone
  PROVE  RegistrationInv'
<1>1. /\ reached' = [reached EXCEPT ![e] = reached[e]]
      /\ wrong' = [wrong EXCEPT ![e] = wrong[e]]
  BY DEF RegistrationInv
<1>2. wrong[e] \in Nat /\ wrong[e] <= MaxFailures /\ reached[e] \in SUBSET (Emails \cup Phones)
  BY DEF RegistrationInv, AccountsAreProven
<1> QED BY <1>1, <1>2, OneChallenge

LEMMA CodesKeep ==
  ASSUME RegistrationInv, NEW e \in Emails, Codes(e)
  PROVE  RegistrationInv'
<1> DEFINE row == challenge[e]
<1>0. /\ RowTrue(row, e, reached[e], wrong[e]) /\ row \in ChallengeRow
      /\ reached[e] \in SUBSET (Emails \cup Phones) /\ wrong[e] \in Nat /\ wrong[e] <= MaxFailures
  BY DEF RegistrationInv, AccountsAreProven
<1> HIDE DEF row
<1>1. CASE StartEmail(e)
  <2>1. CASE Live(e)
    <3>1. challenge' = [challenge EXCEPT ![e] = Resent(row)] /\ UNCHANGED <<account, reached, wrong>>
      BY <1>1, <2>1 DEF StartEmail, historyVars, row
    <3>2. PICK n \in Nat : n = row.emailSends + 1 BY <1>0 DEF ChallengeRow
    <3>3. Resent(row) = [row EXCEPT !.emailCode = "sent", !.emailSends = n, !.passed = {}]
      BY <3>2 DEF Resent
    <3>4. ~row.emailOk /\ row.status = "pending" BY <1>1, <2>1 DEF StartEmail, Live, Pending, row
    <3>5. Resent(row) \in ChallengeRow BY <1>0, <3>3 DEF ChallengeRow
    <3>6. RowTrue(Resent(row), e, reached[e], wrong[e]) /\ Resent(row).phone = row.phone
      BY <1>0, <3>3, <3>4, <3>5 DEF RowTrue, ChallengeRow
    <3> QED BY <3>1, <3>4, <3>6, OnlyChallenge DEF row
  <2>2. CASE ~Live(e)
    <3>1. /\ challenge' = [challenge EXCEPT ![e] = FirstSent] /\ UNCHANGED account
          /\ reached' = [reached EXCEPT ![e] = {}] /\ wrong' = [wrong EXCEPT ![e] = 0]
      BY <1>1, <2>2 DEF StartEmail
    <3>2. NoChallenge \in ChallengeRow BY DEF NoChallenge, ChallengeRow
    <3>6. /\ FirstSent \in ChallengeRow /\ FirstSent.phone = NoPhone /\ FirstSent.failures = 0
          /\ FirstSent.emailCode = "sent" /\ FirstSent.phoneCode = "none"
          /\ ~FirstSent.emailOk /\ ~FirstSent.phoneOk /\ FirstSent.status = "pending"
      <4>1. NoChallenge.phone = NoPhone /\ NoChallenge.failures = 0 /\ NoChallenge.phoneCode = "none"
            /\ ~NoChallenge.emailOk /\ ~NoChallenge.phoneOk
        BY DEF NoChallenge
      <4> HIDE DEF NoChallenge
      <4> QED BY <3>2, <4>1 DEF FirstSent, ChallengeRow
    <3>7. RowTrue(FirstSent, e, {}, 0) /\ FirstSent.phone = NoPhone
      BY <3>6, RegistrationAssumption DEF RowTrue
    <3>3. account[e].method # "dual_otp"
      BY <1>1 DEF StartEmail, Registered, NoAccount
    <3>4. 0 <= MaxFailures /\ 0 \in Nat BY RegistrationAssumption
    <3>5. {} \in SUBSET (Emails \cup Phones) OBVIOUS
    <3> QED BY <3>1, <3>3, <3>4, <3>5, <3>7, OneChallenge
  <2> QED BY <2>1, <2>2
<1>2. CASE StartEmailTooOften(e)
  <2>1. challenge' = [challenge EXCEPT ![e] = Closed("locked")] /\ UNCHANGED <<account, reached, wrong>>
    BY <1>2 DEF StartEmailTooOften, Close, historyVars
  <2> QED BY <2>1, ClosedIsTrue, OnlyChallenge
<1>3. CASE ArriveEmail(e)
  <2> DEFINE new == [row EXCEPT !.emailCode = "got"]
             seen == reached[e] \cup {e}
  <2>1. challenge' = [challenge EXCEPT ![e] = new]
    BY <1>3 DEF ArriveEmail, row
  <2>2. reached' = [reached EXCEPT ![e] = seen] /\ UNCHANGED <<account, wrong>>
    BY <1>3 DEF ArriveEmail
  <2>3. wrong' = [wrong EXCEPT ![e] = wrong[e]] BY <2>2 DEF RegistrationInv
  <2>4. RowTrue(new, e, seen, wrong[e]) /\ new.phone = row.phone /\ row.status = new.status
    BY <1>0, <1>3 DEF RowTrue, ChallengeRow, ArriveEmail, row
  <2>5. seen \in SUBSET (Emails \cup Phones) BY <1>0
  <2>6. reached[e] \subseteq seen OBVIOUS
  <2> HIDE DEF new, seen
  <2> QED BY <1>0, <2>1, <2>2, <2>3, <2>4, <2>5, <2>6, OneChallenge DEF row
<1>4. CASE ArrivePhone(e)
  <2> DEFINE new == [row EXCEPT !.phoneCode = "got"]
             seen == reached[e] \cup {row.phone}
  <2>1. challenge' = [challenge EXCEPT ![e] = new]
    BY <1>4 DEF ArrivePhone, row
  <2>2. reached' = [reached EXCEPT ![e] = seen] /\ UNCHANGED <<account, wrong>>
    BY <1>4 DEF ArrivePhone, row
  <2>3. wrong' = [wrong EXCEPT ![e] = wrong[e]] BY <2>2 DEF RegistrationInv
  <2>4. RowTrue(new, e, seen, wrong[e]) /\ new.phone = row.phone /\ row.status = new.status
    BY <1>0, <1>4 DEF RowTrue, ChallengeRow, ArrivePhone, row
  <2>5. seen \in SUBSET (Emails \cup Phones) BY <1>0, <1>4 DEF RowTrue, ArrivePhone, row
  <2>6. reached[e] \subseteq seen OBVIOUS
  <2> HIDE DEF new, seen
  <2> QED BY <1>0, <2>1, <2>2, <2>3, <2>4, <2>5, <2>6, OneChallenge DEF row
<1>5. ASSUME NEW channel \in {"email", "phone"}, Delivery(e, channel) PROVE RegistrationInv'
  <2>1. UNCHANGED <<account, reached, wrong>> BY <1>5 DEF Delivery, historyVars
  <2>2. CASE UNCHANGED challenge
    <3>1. challenge' = [challenge EXCEPT ![e] = row] BY <2>2 DEF RegistrationInv, row
    <3> QED BY <1>0, <2>1, <3>1, OnlyChallenge DEF row
  <2>3. CASE challenge' = [challenge EXCEPT ![e] = Undelivered(row, channel)] /\ Pending(e)
    <3>1. CASE channel = "email"
      BY <2>1, <2>3, <3>1, ClosedIsTrue, OnlyChallenge DEF Undelivered
    <3>2. CASE channel = "phone"
      <4>1. /\ RowTrue(Undelivered(row, channel), e, reached[e], wrong[e])
            /\ Undelivered(row, channel).phone = row.phone
        BY <1>0, <3>2 DEF RowTrue, Undelivered, ChallengeRow
      <4> QED BY <2>1, <2>3, <4>1, OnlyChallenge DEF row, Pending
    <3> QED BY <3>1, <3>2
  <2> QED BY <1>5, <2>2, <2>3 DEF Delivery, row
<1>6. CASE VerifyEmail(e)
  <2> DEFINE new == [row EXCEPT !.emailOk = TRUE, !.emailCode = "none"]
  <2>1. challenge' = [challenge EXCEPT ![e] = new] /\ UNCHANGED <<account, reached, wrong>>
    BY <1>6 DEF VerifyEmail, historyVars, row
  <2>2. RowTrue(new, e, reached[e], wrong[e]) /\ new.phone = row.phone /\ row.status = new.status
    BY <1>0, <1>6 DEF RowTrue, ChallengeRow, VerifyEmail, Live, Pending, row
  <2> HIDE DEF new
  <2> QED BY <2>1, <2>2, OnlyChallenge DEF row
<1>7. CASE VerifyPhone(e)
  <2> DEFINE new == [row EXCEPT !.phoneOk = TRUE, !.phoneCode = "none"]
  <2>1. challenge' = [challenge EXCEPT ![e] = new] /\ UNCHANGED <<account, reached, wrong>>
    BY <1>7 DEF VerifyPhone, historyVars, row
  <2>2. RowTrue(new, e, reached[e], wrong[e]) /\ new.phone = row.phone /\ row.status = new.status
    BY <1>0, <1>7 DEF RowTrue, ChallengeRow, VerifyPhone, Live, Pending, row
  <2> HIDE DEF new
  <2> QED BY <2>1, <2>2, OnlyChallenge DEF row
<1>8. CASE VerifyWrong(e)
  <2> DEFINE tries == wrong[e] + 1
  <2>1. /\ challenge' = [challenge EXCEPT ![e] = Failed(row)] /\ UNCHANGED account
        /\ wrong' = [wrong EXCEPT ![e] = tries] /\ UNCHANGED reached
    BY <1>8 DEF VerifyWrong, row
  <2>2. reached' = [reached EXCEPT ![e] = reached[e]] BY <2>1 DEF RegistrationInv
  <2>3. row.status = "pending" /\ wrong[e] = row.failures /\ row.failures < MaxFailures
    BY <1>0, <1>8 DEF RowTrue, VerifyWrong, Live, Pending, row
  <2>4. tries \in Nat /\ tries <= MaxFailures
    BY <1>0, <2>3, RegistrationAssumption DEF ChallengeRow
  <2>5. CASE row.failures + 1 >= MaxFailures
    <3>1. Failed(row) = Closed("locked") BY <1>0, <2>5 DEF Failed, ChallengeRow
    <3> HIDE DEF tries
    <3>2. RowTrue(Closed("locked"), e, reached[e], tries) /\ Closed("locked").status = "locked"
      BY ClosedIsTrue
    <3> QED BY <1>0, <2>1, <2>2, <2>4, <3>1, <3>2, OneChallenge
  <2>6. CASE ~(row.failures + 1 >= MaxFailures)
    <3>1. Failed(row) = [row EXCEPT !.failures = @ + 1] BY <1>0, <2>6 DEF Failed, ChallengeRow
    <3>2. /\ RowTrue(Failed(row), e, reached[e], tries) /\ Failed(row).phone = row.phone
          /\ row.status = Failed(row).status
      BY <1>0, <2>3, <2>6, <3>1, RegistrationAssumption DEF RowTrue, ChallengeRow
    <3> HIDE DEF tries
    <3> QED BY <1>0, <2>1, <2>2, <2>4, <3>2, OneChallenge DEF row
  <2> QED BY <2>5, <2>6
<1> QED BY <1>1, <1>2, <1>3, <1>4, <1>5, <1>6, <1>7, <1>8 DEF Codes

\* Freeing a phone closes rows; its other rows are then those that are live.
LEMMA FreeingKeeps ==
  ASSUME RegistrationInv, NEW e \in Emails, NEW p \in Phones
  PROVE  /\ \A x \in Emails : RowTrue(FreePhone(e, p)[x], x, reached[x], wrong[x])
         /\ \A x \in Emails : \/ FreePhone(e, p)[x] = challenge[x]
                              \/ FreePhone(e, p)[x] = Closed("superseded")
         /\ FreePhone(e, p)[e] = challenge[e]
         /\ ~PhoneTaken(e, p) => \A x \in Emails \ {e} :
                ~(FreePhone(e, p)[x].status = "pending" /\ FreePhone(e, p)[x].phone = p)
<1>1. \A x \in Emails : FreePhone(e, p)[x] = IF x \in Freed(e, p) THEN Closed("superseded") ELSE challenge[x]
  BY DEF FreePhone
<1>2. e \notin Freed(e, p) BY DEF Freed, Rivals
<1>3. \A x \in Emails : RowTrue(FreePhone(e, p)[x], x, reached[x], wrong[x])
  BY <1>1, ClosedIsTrue DEF RegistrationInv
<1>4. ASSUME ~PhoneTaken(e, p), NEW x \in Emails \ {e},
             FreePhone(e, p)[x].status = "pending", FreePhone(e, p)[x].phone = p
      PROVE  FALSE
  <2>1. x \notin Freed(e, p) BY <1>1, <1>4, ClosedIsTrue
  <2>2. x \in Rivals(e, p) BY <1>1, <1>4, <2>1 DEF Rivals, Pending
  <2> QED BY <1>4, <2>1, <2>2 DEF PhoneTaken, Freed
<1> QED BY <1>1, <1>2, <1>3, <1>4

\* A step that changes challenges, closes those it frees, and gives the phone p to at
\* most one of them, when no other open one has it.
LEMMA ManyChallenges ==
  ASSUME RegistrationInv, UNCHANGED <<account, reached, wrong>>,
         NEW e \in Emails, NEW p \in Phones, NEW row,
         challenge' = [FreePhone(e, p) EXCEPT ![e] = row],
         RowTrue(row, e, reached[e], wrong[e]),
         \/ row.status # "pending"
         \/ challenge[e].status = "pending" /\ row.phone = challenge[e].phone
         \/ row.phone = p /\ ~PhoneTaken(e, p)
  PROVE  RegistrationInv'
<1> USE FreeingKeeps
<1>1. \A x \in Emails : challenge'[x] = IF x = e THEN row ELSE FreePhone(e, p)[x]
  BY DEF FreePhone
<1>2. \A x \in Emails : RowTrue(challenge'[x], x, reached[x], wrong[x])
  BY <1>1
<1>3. \A x \in Emails \ {e} : challenge'[x].status = "pending" => challenge'[x] = challenge[x]
  BY <1>1, ClosedIsTrue
<1>4. challenge' \in [Emails -> ChallengeRow]
  <2>1. \A x \in Emails : challenge'[x] \in ChallengeRow BY <1>2 DEF RowTrue
  <2> QED BY <2>1 DEF FreePhone
<1>5. ASSUME NEW x \in Emails, NEW y \in Emails, x # y,
             challenge'[x].status = "pending", challenge'[y].status = "pending",
             challenge'[x].phone = challenge'[y].phone
      PROVE  challenge'[x].phone = NoPhone
  <2>0. ASSUME NEW z \in Emails \ {e}, challenge'[z].status = "pending", challenge'[e].status = "pending",
               challenge'[z].phone = challenge'[e].phone
        PROVE  challenge'[z].phone = NoPhone
    <3>1. CASE challenge[e].status = "pending" /\ row.phone = challenge[e].phone
      BY <1>1, <1>3, <2>0, <3>1 DEF RegistrationInv, AccountsAreProven, Pending
    <3>2. CASE row.phone = p /\ ~PhoneTaken(e, p)
      BY <1>1, <2>0, <3>2
    <3> QED BY <1>1, <2>0, <3>1, <3>2
  <2>1. CASE x # e /\ y # e
    BY <1>3, <1>5, <2>1 DEF RegistrationInv, AccountsAreProven, Pending
  <2> QED BY <1>5, <2>0, <2>1
<1>6. AccountsAreProven' BY <1>5 DEF RegistrationInv, AccountsAreProven, Pending
<1> QED BY <1>2, <1>4, <1>6 DEF RegistrationInv

LEMMA PhonesKeep ==
  ASSUME RegistrationInv, NEW e \in Emails, NEW p \in Phones, StartPhone(e, p) \/ StartPhoneRefused(e, p)
  PROVE  RegistrationInv'
<1> DEFINE row == challenge[e]
<1>0. /\ RowTrue(row, e, reached[e], wrong[e]) /\ row \in ChallengeRow
      /\ FreePhone(e, p)[e] = row
  BY FreeingKeeps DEF RegistrationInv
<1>1. CASE StartPhoneRefused(e, p)
  <2>1. challenge' = [FreePhone(e, p) EXCEPT ![e] = row] /\ UNCHANGED <<account, reached, wrong>>
    BY <1>0, <1>1 DEF StartPhoneRefused, historyVars, FreePhone
  <2>2. row.status = "pending" BY <1>1 DEF StartPhoneRefused, PhoneAllowed, Live, Pending
  <2> QED BY <1>0, <2>1, <2>2, ManyChallenges
<1>2. CASE StartPhone(e, p)
  <2> HIDE DEF row
  <2>1. UNCHANGED <<account, reached, wrong>> /\ ~PhoneTaken(e, p) BY <1>2 DEF StartPhone, historyVars
  <2>2. CASE challenge' = [FreePhone(e, p) EXCEPT ![e] = Closed("locked")]
    BY <2>1, <2>2, ClosedIsTrue, ManyChallenges
  <2>3. CASE challenge' = [FreePhone(e, p) EXCEPT ![e] = PhoneSent(row, p)]
    <3>1. PICK n \in Nat : n = row.phoneSends + 1 BY <1>0 DEF ChallengeRow
    <3> DEFINE new == [row EXCEPT !.phone = p, !.phoneCode = "sent", !.phoneSends = n, !.passed = {}]
    <3>2. challenge' = [FreePhone(e, p) EXCEPT ![e] = new]
      BY <2>3, <3>1 DEF PhoneSent
    <3>3. row.status = "pending" /\ ~row.phoneOk
      BY <1>2 DEF StartPhone, PhoneAllowed, PhoneReady, Live, Pending, row
    <3>4. new \in ChallengeRow BY <1>0 DEF ChallengeRow
    <3>5. RowTrue(new, e, reached[e], wrong[e]) /\ new.phone = p
      BY <1>0, <3>3, <3>4 DEF RowTrue, ChallengeRow
    <3> HIDE DEF new
    <3> QED BY <2>1, <3>2, <3>5, ManyChallenges
  <2> QED BY <1>0, <1>2, <2>2, <2>3 DEF StartPhone, FreePhone
<1> QED BY <1>1, <1>2

LEMMA CompletionKeeps ==
  ASSUME RegistrationInv, NEW e \in Emails, NEW p \in Phones, NEW k \in RegistrationKeys,
         CompleteRegistration(e, p, k)
  PROVE  RegistrationInv'
<1> DEFINE row == [Closed("consumed") EXCEPT !.key = k]
           made == [method |-> "dual_otp", phone |-> p]
<1>1. /\ account' = [account EXCEPT ![e] = made] /\ UNCHANGED <<reached, wrong>>
      /\ challenge' = [challenge EXCEPT ![e] = row]
  BY DEF CompleteRegistration, historyVars
<1>2. Ready(e, p) /\ ~Registered(e) /\ ~PhoneOwned(p)
  BY DEF CompleteRegistration, Answer
<1>3. e \in reached[e] /\ p \in reached[e]
  BY <1>2 DEF Ready, Proven, RegistrationInv, RowTrue
<1>4. row \in ChallengeRow /\ RowTrue(row, e, reached[e], wrong[e]) /\ row.status = "consumed"
  BY ClosedIsTrue, ZenonT(30) DEF RowTrue, ChallengeRow, Closed, NoChallenge
<1> HIDE DEF row
<1>5. made \in AccountRow /\ made.phone = p /\ made.method = "dual_otp" BY DEF AccountRow
<1> HIDE DEF made
<1>6. /\ challenge' \in [Emails -> ChallengeRow] /\ account' \in [Emails -> AccountRow]
      /\ reached' \in [Emails -> SUBSET (Emails \cup Phones)] /\ wrong' \in [Emails -> Nat]
  BY <1>1, <1>4, <1>5 DEF RegistrationInv
<1>7. \A x \in Emails : /\ challenge'[x] = IF x = e THEN row ELSE challenge[x]
                        /\ account'[x] = IF x = e THEN made ELSE account[x]
  BY <1>1 DEF RegistrationInv
<1>8. \A x \in Emails : RowTrue(challenge'[x], x, reached'[x], wrong'[x])
  BY <1>1, <1>4, <1>7 DEF RegistrationInv
<1>9. \A x \in Emails : account'[x].method = "none" => account'[x] = NoAccount
  BY <1>5, <1>7 DEF RegistrationInv
<1>10. \A x \in Emails \ {e} : account[x].phone # p BY <1>2 DEF PhoneOwned
<1>11. AccountsAreProven'
  <2>1. \A x \in Emails : /\ account'[x].method = "dual_otp" => {x, account'[x].phone} \subseteq reached'[x]
                          /\ wrong'[x] <= MaxFailures
    BY <1>1, <1>3, <1>5, <1>7 DEF RegistrationInv, AccountsAreProven
  <2>2. \A x, y \in Emails : x # y /\ account'[x].phone = account'[y].phone => account'[x].phone = NoPhone
    BY <1>5, <1>7, <1>10 DEF RegistrationInv, AccountsAreProven
  <2>3. \A x \in Emails : challenge'[x].status = "pending" =>
            challenge'[x] = challenge[x]
    BY <1>4, <1>7
  <2>4. \A x, y \in Emails : x # y =>
          (challenge'[x].status = "pending" /\ challenge'[y].status = "pending"
             /\ challenge'[x].phone = challenge'[y].phone => challenge'[x].phone = NoPhone)
    BY <2>3 DEF RegistrationInv, AccountsAreProven, Pending
  <2> QED BY <2>1, <2>2, <2>4 DEF AccountsAreProven, Pending
<1> QED BY <1>6, <1>8, <1>9, <1>11 DEF RegistrationInv

LEMMA FederationKeeps ==
  ASSUME RegistrationInv, NEW e \in Emails, Federate(e)
  PROVE  RegistrationInv'
<1> DEFINE made == [method |-> "federated", phone |-> NoPhone]
<1>1. account' = [account EXCEPT ![e] = made] /\ UNCHANGED <<challenge, reached, wrong>>
  BY DEF Federate, historyVars
<1>2. made \in AccountRow /\ made.phone = NoPhone /\ made.method = "federated" BY DEF AccountRow
<1> HIDE DEF made
<1>3. account' \in [Emails -> AccountRow] BY <1>1, <1>2 DEF RegistrationInv
<1>4. \A x \in Emails : account'[x] = IF x = e THEN made ELSE account[x]
  BY <1>1 DEF RegistrationInv
<1>5. AccountsAreProven' BY <1>1, <1>2, <1>4 DEF RegistrationInv, AccountsAreProven, Pending
<1>6. \A x \in Emails : account'[x].method = "none" => account'[x] = NoAccount
  BY <1>2, <1>4 DEF RegistrationInv
<1> QED BY <1>1, <1>3, <1>5, <1>6 DEF RegistrationInv

LEMMA CleaningKeeps ==
  ASSUME RegistrationInv, NEW e \in Emails, CleanUp(e)
  PROVE  RegistrationInv'
<1>1. CASE challenge' = [challenge EXCEPT ![e] = Closed("superseded")] /\ UNCHANGED <<account, reached, wrong>>
  BY <1>1, ClosedIsTrue, OnlyChallenge
<1>2. ASSUME challenge' = [challenge EXCEPT ![e] = NoChallenge], wrong' = [wrong EXCEPT ![e] = 0],
             reached' = IF Registered(e) THEN reached ELSE [reached EXCEPT ![e] = {}],
             UNCHANGED account
      PROVE  RegistrationInv'
  <2> DEFINE seen == IF Registered(e) THEN reached[e] ELSE {}
  <2>1. reached' = [reached EXCEPT ![e] = seen] BY <1>2 DEF RegistrationInv
  <2>2. RowTrue(NoChallenge, e, seen, 0) /\ NoChallenge.status = "none"
    BY RegistrationAssumption DEF RowTrue, NoChallenge, ChallengeRow
  <2>3. account[e].method = "dual_otp" => reached[e] \subseteq seen
    BY DEF Registered, NoAccount
  <2>4. seen \in SUBSET (Emails \cup Phones) BY DEF RegistrationInv
  <2>5. 0 \in Nat /\ 0 <= MaxFailures BY RegistrationAssumption
  <2> HIDE DEF seen
  <2> QED BY <1>2, <2>1, <2>2, <2>3, <2>4, <2>5, OneChallenge
<1> QED BY <1>1, <1>2 DEF CleanUp, Close, historyVars

LEMMA TimeKeeps ==
  ASSUME RegistrationInv, NEW e \in Emails, NEW d \in Deadlines, Pass(e, d)
  PROVE  RegistrationInv'
<1> DEFINE row == challenge[e]
           new == [row EXCEPT !.passed = row.passed \cup {d}]
<1>1. challenge' = [challenge EXCEPT ![e] = new] /\ UNCHANGED <<account, reached, wrong>>
  BY DEF Pass, historyVars
<1>2. RowTrue(row, e, reached[e], wrong[e]) /\ row \in ChallengeRow BY DEF RegistrationInv
<1> HIDE DEF row
<1>3. RowTrue(new, e, reached[e], wrong[e]) /\ new.phone = row.phone /\ new.status = row.status
  BY <1>2 DEF RowTrue, ChallengeRow
<1> HIDE DEF new
<1> QED BY <1>1, <1>3, OnlyChallenge DEF row

LEMMA RegistrationSteps == RegistrationInv /\ [RegistrationNext]_registrationVars => RegistrationInv'
<1> SUFFICES ASSUME RegistrationInv, [RegistrationNext]_registrationVars PROVE RegistrationInv' OBVIOUS
<1>1. CASE UNCHANGED registrationVars
  BY <1>1 DEF registrationVars, RegistrationInv, AccountsAreProven, Pending
<1> QED BY <1>1, CodesKeep, PhonesKeep, CompletionKeeps, FederationKeeps, CleaningKeeps, TimeKeeps
        DEF RegistrationNext

\* An account of public registration has been reached at its address and its phone, a
\* phone has one account, codes cannot be guessed without end, and a completion that is
\* repeated finds its account: database.ts, with codes that come late and channels that
\* fail, expire and are locked in any order.
THEOREM RegistrationIsSafe == RegistrationSpec => []RegistrationSafe
<1>1. RegistrationSpec => []RegistrationInv
  BY RegistrationBegins, RegistrationSteps, PTL DEF RegistrationSpec
<1>2. RegistrationInv => RegistrationSafe
  BY DEF RegistrationInv, RegistrationSafe, RetryFindsAccount, Answer, Replays
<1> QED BY <1>1, <1>2, PTL

-----------------------------------------------------------------------------
(* Accounts that are made in several ways while servers start *)

\* A valid index has kept the addresses apart; who serves has seen it valid; whoever is
\* about to build it holds the lock; and who is linked has a row.
IndexInv ==
    /\ boot \in [Servers -> {"down", "locked", "counted", "building", "serving"}]
    /\ index = "valid" => Unique
    /\ \A i \in Servers : /\ boot[i] = "serving" => index = "valid"
                          /\ boot[i] = "counted" => index = "absent"
                          /\ boot[i] = "building" => index = "invalid"
    /\ \A i, j \in Servers : LocksIndex(i) /\ LocksIndex(j) => i = j
    /\ \A s \in linked : OfSubject(s) \in users
    /\ linked \subseteq Subjects

LEMMA ServerKeepsIndex ==
  ASSUME IndexInv, NEW i \in Servers, Lock(i) \/ Inspect(i) \/ Create(i) \/ Build(i) \/ Stop(i)
  PROVE  IndexInv'
<1>1. UNCHANGED rowVars BY DEF Lock, Inspect, Create, Build, Stop
<1>2. Unique' <=> Unique BY <1>1 DEF rowVars, Unique
<1>3. \A s \in linked' : OfSubject(s) \in users' BY <1>1 DEF IndexInv, rowVars
<1>4. linked' \subseteq Subjects BY <1>1 DEF IndexInv, rowVars
<1> HIDE DEF Unique
<1>5. CASE Lock(i)
  BY <1>2, <1>3, <1>4, <1>5 DEF IndexInv, Lock, Move, LocksIndex
<1>6. CASE Inspect(i)
  BY <1>2, <1>3, <1>4, <1>6 DEF IndexInv, Inspect, Move, LocksIndex, Usable
<1>7. CASE Create(i)
  BY <1>2, <1>3, <1>4, <1>7 DEF IndexInv, Create, Move, LocksIndex
<1>8. CASE Build(i)
  BY <1>2, <1>3, <1>4, <1>8 DEF IndexInv, Build, Move, LocksIndex
<1>9. CASE Stop(i)
  BY <1>2, <1>3, <1>4, <1>9 DEF IndexInv, Stop, Move, LocksIndex
<1> QED BY <1>5, <1>6, <1>7, <1>8, <1>9

\* A new row of an address that nobody has keeps addresses apart, as does none.
LEMMA NewRow ==
  ASSUME Unique, NEW u, users' = users \cup {u}, Owners(u.mail) \subseteq {u}
  PROVE  Unique'
BY DEF Unique, Owners

\* What a login through the provider does to the rows.
LEMMA ExternalKeeps ==
  ASSUME NEW s, RegisterExternal(s), External(s) # "link_required", Unique,
         \A t \in linked : OfSubject(t) \in users
  PROVE  /\ Unique'
         /\ \A t \in linked' : OfSubject(t) \in users'
<1>1. OfSubject(s).mail = MailOf(s) BY DEF OfSubject
<1>2. users' = users \cup {OfSubject(s)} /\ linked' = linked \cup {s} BY DEF RegisterExternal
<1>3. Owners(MailOf(s)) \subseteq {OfSubject(s)}
  <2>1. CASE s \in linked BY <1>1, <2>1 DEF Owners, Unique
  <2>2. CASE s \notin linked BY <2>2 DEF External
  <2> QED BY <2>1, <2>2
<1> QED BY <1>1, <1>2, <1>3, NewRow

LEMMA IdentitiesKeep == IndexInv /\ [IdentitiesNext]_identityVars => IndexInv'
<1> SUFFICES ASSUME IndexInv, [IdentitiesNext]_identityVars PROVE IndexInv' OBVIOUS
<1> USE DEF IndexInv
<1>1. CASE UNCHANGED identityVars
  BY <1>1 DEF identityVars, Unique, LocksIndex
<1>2. CASE Repair
  <2>1. UNCHANGED <<linked, boot>> /\ \A i \in Servers : boot[i] = "down" BY <1>2 DEF Repair
  <2>2. CASE index' = "absent" /\ UNCHANGED users BY <2>1, <2>2 DEF LocksIndex
  <2>3. ASSUME NEW u \in users, u.by = "old", users' = users \ {u}, UNCHANGED index
        PROVE  IndexInv'
    <3>1. \A s \in linked : OfSubject(s) # u BY <2>3, SubjectAssumption DEF OfSubject
    <3>2. index = "valid" => Unique' BY <2>3 DEF Unique
    <3> QED BY <2>1, <2>3, <3>1, <3>2 DEF LocksIndex
  <2> QED BY <1>2, <2>2, <2>3 DEF Repair
<1>3. ASSUME NEW m \in Mails, AddOld(m) PROVE IndexInv'
  <2>1. Old(m).mail = m BY DEF Old
  <2>2. index = "valid" => Unique'
    BY <1>3, <2>1, NewRow DEF AddOld
  <2> QED BY <1>3, <2>2 DEF AddOld, LocksIndex
<1>4. ASSUME NEW m \in Mails, RegisterIdentity(m) PROVE IndexInv'
  <2>1. OfMail(m).mail = m BY DEF OfMail
  <2>2. UNCHANGED <<linked, index, boot>> /\ users \subseteq users' BY <1>4 DEF RegisterIdentity
  <2>3. index = "valid" => Unique'
    <3>1. CASE UNCHANGED users BY <3>1 DEF Unique
    <3>2. CASE Owners(m) = {} /\ users' = users \cup {OfMail(m)} BY <2>1, <3>2, NewRow
    <3> QED BY <1>4, <3>1, <3>2 DEF RegisterIdentity
  <2> QED BY <2>2, <2>3 DEF LocksIndex
<1>5. ASSUME NEW m \in Mails, EnsurePrincipal(m) PROVE IndexInv'
  <2>1. OfMail(m).mail = m BY DEF OfMail
  <2>2. index = "valid" => Unique' BY <1>5, <2>1, NewRow DEF EnsurePrincipal
  <2> QED BY <1>5, <2>2 DEF EnsurePrincipal, LocksIndex
<1>6. ASSUME NEW s \in Subjects, SignInExternal(s) PROVE IndexInv'
  <2>1. RegisterExternal(s) /\ External(s) # "link_required" /\ UNCHANGED <<index, boot>>
    BY <1>6 DEF SignInExternal, RegisterExternal
  <2>2. Unique BY <1>6 DEF SignInExternal, Serving
  <2>3. Unique' /\ \A t \in linked' : OfSubject(t) \in users' BY <2>1, <2>2, ExternalKeeps
  <2>4. linked' \subseteq Subjects BY <2>1 DEF RegisterExternal
  <2> QED BY <2>1, <2>3, <2>4 DEF LocksIndex
<1> QED BY <1>1, <1>2, <1>3, <1>4, <1>5, <1>6, ServerKeepsIndex DEF IdentitiesNext

\* The rows of a linked subject's address are its own row.
LEMMA LinkedOwns ==
  ASSUME Unique, NEW s, OfSubject(s) \in users
  PROVE  Owners(MailOf(s)) = {OfSubject(s)}
BY DEF Unique, Owners, OfSubject

\* While a server serves, an address has one account, however servers start, stop and
\* build the index, and whichever way accounts are made: ensureGlobalEmailUniqueIndex,
\* registerExternalIdentity, registerIdentity and ensurePrincipal of database.ts.
THEOREM AddressesHaveOneAccount == IdentitiesSpec => []OneAccountPerAddress
<1>1. IdentitiesInit => IndexInv
  BY DEF IdentitiesInit, IndexInv, LocksIndex
<1>2. IndexInv => OneAccountPerAddress
  BY LinkedOwns DEF IndexInv, OneAccountPerAddress, Serving
<1> QED BY <1>1, <1>2, IdentitiesKeep, PTL DEF IdentitiesSpec

-----------------------------------------------------------------------------
(* Logins through an identity provider *)

\* A callback that has taken the record of its login and has not been refused.
Went(c) == call[c].at \notin {"idle", "refused"}

CallRow ==
    [at : {"idle", "exchanging", "asking", "asking_again", "verified", "missing", "refused", "registered"},
     login : Logins \cup {NoLogin}, kid : Nat, answer : SUBSET Nat]

LoginShape ==
    /\ call \in [Returns -> CallRow]
    /\ login \in [Logins -> [at : {"idle", "waiting", "redirected", "failed", "returned", "redeemed"},
                             person : Subjects \cup {Nobody}]]
    /\ sessions \in [Returns -> Nat]
    /\ transactions \subseteq Logins

\* The provider has the keys 1, 2, ... up to the newest, with which it signs; the keys
\* that are on their way to a callback include the one its token names.
KeysOK ==
    /\ \E n \in Nat \ {0} : providerKeys = 1..n
    /\ \A c \in Returns :
          /\ call[c].at \in {"asking", "asking_again"} => call[c].kid \in providerKeys
          /\ call[c].answer # {} => /\ call[c].at \in {"asking", "asking_again"}
                                    /\ call[c].kid \in call[c].answer
          /\ call[c].at # "missing"

\* A login is remembered until one callback takes it, which is then the only one.
RecordsOK ==
    /\ \A l \in transactions : login[l].at \in {"redirected", "returned", "redeemed"}
    /\ \A c \in Returns : Went(c) =>
          /\ call[c].login \in Logins
          /\ login[call[c].login].at \in {"returned", "redeemed"}
          /\ call[c].login \notin transactions
    /\ \A c, d \in Returns : Went(c) /\ Went(d) /\ call[c].login = call[d].login => c = d

\* A ticket is for a registered callback whose session it has not been exchanged for.
TicketsOK ==
    \A c \in Returns :
        /\ sessions[c] > 0 \/ c \in tickets => call[c].at = "registered"
        /\ sessions[c] <= 1
        /\ c \in tickets => sessions[c] = 0
        /\ call[c].at = "registered" => Person(c) \in linked

\* The rows of the accounts: those who are linked have one without a password.
RowsOfLogins ==
    /\ index = "valid" /\ Unique /\ passwords \subseteq users
    /\ \A s \in linked : OfSubject(s) \in users \ passwords

LoginInv == LoginShape /\ KeysOK /\ RecordsOK /\ TicketsOK /\ RowsOfLogins

LEMMA LoginBegins == Serves /\ LoginInit => LoginInv
<1> SUFFICES ASSUME Serves, LoginInit PROVE LoginInv OBVIOUS
<1>1. LoginShape BY DEF LoginInit, LoginShape, IdleCall, CallRow
<1>2. KeysOK
  <2>1. 1 \in Nat \ {0} /\ {1} = 1..1 OBVIOUS
  <2> QED BY <2>1 DEF LoginInit, KeysOK, IdleCall
<1>3. RecordsOK /\ TicketsOK BY DEF LoginInit, RecordsOK, TicketsOK, Went, IdleCall
<1>4. RowsOfLogins BY DEF Serves, RowsOfLogins, Unique, OfMail
<1> QED BY <1>1, <1>2, <1>3, <1>4 DEF LoginInv

\* The newest key is among the provider's, and it is a number.
LEMMA NewestKey ==
  ASSUME KeysOK
  PROVE  /\ Cardinality(providerKeys) \in Nat /\ Cardinality(providerKeys) \in providerKeys
         /\ providerKeys \subseteq Nat /\ providerKeys # {}
         /\ \E n \in Nat \ {0} : providerKeys \cup {Cardinality(providerKeys) + 1} = 1..n
<1>1. PICK n \in Nat \ {0} : providerKeys = 1..n BY DEF KeysOK
<1>2. Cardinality(providerKeys) = n BY <1>1, FS_Interval
<1>3. providerKeys \cup {n + 1} = 1..(n + 1) BY <1>1
<1>4. n + 1 \in Nat \ {0} BY <1>1
<1> QED BY <1>1, <1>2, <1>3, <1>4

\* A step that leaves the rows of accounts alone leaves what is said of them.
LEMMA RowsStay == RowsOfLogins /\ UNCHANGED identityVars => RowsOfLogins'
BY DEF RowsOfLogins, identityVars, Unique

\* A step of a callback that is under way, to a state in which it is no further
\* and that names the keys it has been promised.
LEMMA CallMoves ==
  ASSUME LoginInv, UNCHANGED identityVars, NEW c \in Returns, NEW row,
         Went(c), call[c].at # "registered",
         call' = [call EXCEPT ![c] = row],
         row \in CallRow, row.login = call[c].login,
         row.at \in {"exchanging", "asking", "asking_again", "verified", "refused"},
         row.at \in {"asking", "asking_again"} => row.kid \in providerKeys,
         row.answer # {} => row.at \in {"asking", "asking_again"} /\ row.kid \in row.answer,
         UNCHANGED <<transactions, tickets, providerKeys, sessions>>,
         login' \in [Logins -> [at : {"idle", "waiting", "redirected", "failed", "returned", "redeemed"},
                                person : Subjects \cup {Nobody}]],
         \A l \in Logins : \/ login'[l] = login[l]
                           \/ login'[l].person = login[l].person /\ login'[l].at = "redeemed"
                              /\ login[l].at = "returned"
  PROVE  LoginInv'
<1>1. \A d \in Returns : call'[d] = IF d = c THEN row ELSE call[d] BY DEF LoginInv, LoginShape
<1>2. LoginShape' BY DEF LoginInv, LoginShape
<1>3. KeysOK' BY <1>1 DEF LoginInv, KeysOK
<1>4. RecordsOK'
  <2>1. \A d \in Returns : Went(d)' => Went(d) /\ call'[d].login = call[d].login
    BY <1>1 DEF Went
  <2>2. \A l \in transactions' : login'[l].at \in {"redirected", "returned", "redeemed"}
    BY DEF LoginInv, LoginShape, RecordsOK
  <2> QED BY <2>1, <2>2 DEF LoginInv, RecordsOK
<1>5. TicketsOK'
  <2>1. \A d \in Returns : call'[d].at = "registered" => Person(d)' = Person(d)
    <3>1. \A d \in Returns : call'[d].at = "registered" => call[d].login \in Logins /\ call'[d] = call[d]
      BY <1>1 DEF LoginInv, RecordsOK, Went
    <3> QED BY <3>1 DEF Person
  <2>2. sessions[c] <= 1 /\ ~(sessions[c] > 0) /\ c \notin tickets BY DEF LoginInv, TicketsOK
  <2>3. \A d \in Returns : call'[d].at = "registered" <=> call[d].at = "registered"
    BY <1>1
  <2> QED BY <2>1, <2>2, <2>3 DEF LoginInv, TicketsOK, identityVars
<1> QED BY <1>2, <1>3, <1>4, <1>5, RowsStay DEF LoginInv

\* A step that only moves logins that no callback has taken, and remembers them.
LEMMA LoginMoves ==
  ASSUME LoginInv, UNCHANGED identityVars, UNCHANGED <<tickets, call, providerKeys, sessions>>,
         login' \in [Logins -> [at : {"idle", "waiting", "redirected", "failed", "returned", "redeemed"},
                                person : Subjects \cup {Nobody}]],
         transactions' \subseteq Logins,
         \A l \in Logins : login[l].at \in {"returned", "redeemed"} => login'[l] = login[l],
         \A l \in transactions' : /\ login'[l].at \in {"redirected", "returned", "redeemed"}
                                  /\ l \in transactions \/ login[l].at \notin {"returned", "redeemed"}
  PROVE  LoginInv'
<1>1. LoginShape' BY DEF LoginInv, LoginShape
<1>2. KeysOK' BY DEF LoginInv, KeysOK
<1>3. RecordsOK'
  <2>1. \A d \in Returns : Went(d)' => Went(d) BY DEF Went
  <2> QED BY <2>1 DEF LoginInv, RecordsOK
<1>4. TicketsOK'
  <2>1. \A d \in Returns : call[d].at = "registered" => Person(d)' = Person(d)
    BY DEF LoginInv, RecordsOK, Went, Person
  <2> QED BY <2>1 DEF LoginInv, TicketsOK, identityVars
<1> QED BY <1>1, <1>2, <1>3, <1>4, RowsStay DEF LoginInv

LEMMA LoginStepsKeep ==
  ASSUME LoginInv, LoginSteps, UNCHANGED identityVars
  PROVE  LoginInv'
<1> USE DEF LoginInv
<1>1. ASSUME NEW l \in Logins, Begin(l) PROVE LoginInv'
  <2>1. UNCHANGED <<tickets, call, providerKeys, sessions>> /\ login[l].at = "idle" BY <1>1 DEF Begin
  <2>2. \/ login' = [login EXCEPT ![l].at = "redirected"] /\ transactions' = transactions \cup {l}
        \/ login' = [login EXCEPT ![l].at = "waiting"] /\ transactions' = transactions
    BY <1>1 DEF Begin, PutLogin
  <2>3. l \notin transactions BY <2>1 DEF RecordsOK
  <2> QED BY <2>1, <2>2, <2>3, LoginMoves DEF LoginShape, RecordsOK
<1>2. ASSUME NEW l \in Logins, NEW s \in Subjects, SignInAtProvider(l, s) PROVE LoginInv'
  <2>1. /\ UNCHANGED <<transactions, tickets, call, providerKeys, sessions>> /\ login[l].at = "redirected"
        /\ login' = [login EXCEPT ![l] = [at |-> "returned", person |-> s]]
    BY <1>2 DEF SignInAtProvider, memoryVars
  <2> QED BY <2>1, LoginMoves DEF LoginShape, RecordsOK
<1>3. ASSUME NEW ok \in BOOLEAN, MetadataAnswer(ok) PROVE LoginInv'
  <2>1. /\ UNCHANGED <<tickets, call, providerKeys, sessions>>
        /\ transactions' = IF ok THEN transactions \cup Waiting ELSE transactions
        /\ login' = [l \in Logins |-> IF l \in Waiting
                                      THEN [login[l] EXCEPT !.at = IF ok THEN "redirected" ELSE "failed"]
                                      ELSE login[l]]
    BY <1>3 DEF MetadataAnswer
  <2>2. \A l \in Waiting : l \in Logins /\ login[l].at = "waiting" BY DEF Waiting
  <2>3. \A l \in transactions : l \notin Waiting BY <2>2 DEF RecordsOK
  <2> QED BY <2>1, <2>2, <2>3, LoginMoves DEF LoginShape, RecordsOK
<1>4. ASSUME NEW c \in Returns, NEW l \in Logins, Callback(c, l) PROVE LoginInv'
  <2> DEFINE row == [IdleCall EXCEPT !.login = l, !.at = IF l \in transactions THEN "exchanging" ELSE "refused"]
  <2>1. /\ call[c].at = "idle" /\ login[l].at \in {"returned", "redeemed"}
        /\ call' = [call EXCEPT ![c] = row] /\ transactions' = transactions \ {l}
        /\ UNCHANGED <<tickets, login, providerKeys, sessions>>
    BY <1>4 DEF Callback
  <2>2. /\ row \in CallRow /\ row.login = l /\ row.answer = {}
        /\ row.at = IF l \in transactions THEN "exchanging" ELSE "refused"
    BY DEF IdleCall, CallRow
  <2> HIDE DEF row
  <2>3. \A d \in Returns : call'[d] = IF d = c THEN row ELSE call[d] BY <2>1 DEF LoginShape
  <2>4. LoginShape' BY <2>1, <2>2 DEF LoginShape
  <2>5. KeysOK' BY <2>1, <2>2, <2>3 DEF KeysOK
  <2>6. RecordsOK' BY <2>1, <2>2, <2>3 DEF RecordsOK, Went
  <2>7. TicketsOK'
    <3>1. \A d \in Returns : call'[d].at = "registered" => call[d].at = "registered" /\ Person(d)' = Person(d)
      BY <2>1, <2>2, <2>3 DEF Person
    <3>2. \A d \in Returns : call[d].at = "registered" => call'[d].at = "registered"
      BY <2>1, <2>3
    <3> QED BY <2>1, <3>1, <3>2 DEF TicketsOK, identityVars
  <2> QED BY <2>4, <2>5, <2>6, <2>7, RowsStay
<1>5. ASSUME NEW c \in Returns, NEW ok \in BOOLEAN, TokenAnswer(c, ok) PROVE LoginInv'
  <2> DEFINE kid == Cardinality(providerKeys)
             looked == IF jwks = {} THEN [at |-> "asking", jwks |-> {}] ELSE Looked(FALSE, kid, jwks)
             l == call[c].login
             went == [call[c] EXCEPT !.at = looked.at, !.kid = kid]
             gone == [call[c] EXCEPT !.at = "refused"]
  <2>1. /\ call[c].at = "exchanging" /\ call[c].answer = {} /\ call[c] \in CallRow /\ Went(c)
        /\ UNCHANGED <<transactions, tickets, providerKeys, sessions>>
    BY <1>5 DEF TokenAnswer, KeysOK, LoginShape, Went
  <2>2. kid \in Nat /\ kid \in providerKeys BY NewestKey
  <2>3. looked.at \in {"asking", "asking_again", "verified"}
    BY DEF Looked, OnMissing
  <2>4. \/ call' = [call EXCEPT ![c] = went] /\ login' = [login EXCEPT ![l].at = "redeemed"]
           /\ login[l].at = "returned"
        \/ call' = [call EXCEPT ![c] = gone] /\ login' = login
    BY <1>5 DEF TokenAnswer, PutLogin, PutCall, LoginShape
  <2> HIDE DEF kid, looked
  <2>5. /\ went \in CallRow /\ went.login = l /\ went.at = looked.at /\ went.kid = kid /\ went.answer = {}
        /\ gone \in CallRow /\ gone.login = l /\ gone.at = "refused" /\ gone.answer = {}
    BY <2>1, <2>2, <2>3 DEF CallRow
  <2>6. l \in Logins BY <2>1 DEF RecordsOK
  <2> HIDE DEF went, gone
  <2>7. CASE call' = [call EXCEPT ![c] = went] /\ login' = [login EXCEPT ![l].at = "redeemed"]
             /\ login[l].at = "returned"
    <3>1. /\ login' \in [Logins -> [at : {"idle", "waiting", "redirected", "failed", "returned", "redeemed"},
                                    person : Subjects \cup {Nobody}]]
          /\ \A x \in Logins : \/ login'[x] = login[x]
                               \/ login'[x].person = login[x].person /\ login'[x].at = "redeemed"
                                  /\ login[x].at = "returned"
      BY <2>6, <2>7 DEF LoginShape
    <3>2. /\ went.at \in {"exchanging", "asking", "asking_again", "verified", "refused"}
          /\ went.at \in {"asking", "asking_again"} => went.kid \in providerKeys
          /\ went.answer = {} /\ went.login = call[c].login
      BY <2>2, <2>3, <2>5
    <3>3. Went(c) /\ call[c].at # "registered" BY <2>1
    <3> HIDE DEF l, LoginInv
    <3> QED BY <2>1, <2>5, <2>7, <3>1, <3>2, <3>3, CallMoves
  <2>8. CASE call' = [call EXCEPT ![c] = gone] /\ login' = login
    BY <2>1, <2>5, <2>8, CallMoves DEF LoginShape
  <2> QED BY <2>4, <2>7, <2>8
<1>6. ASSUME NEW c \in Returns, NEW ok \in BOOLEAN, KeysArrive(c, ok) PROVE LoginInv'
  <2> DEFINE looked == Looked(call[c].at = "asking_again", call[c].kid, call[c].answer)
             went == [call[c] EXCEPT !.at = looked.at, !.answer = {}]
             gone == [call[c] EXCEPT !.at = "refused", !.answer = {}]
  <2>1. /\ call[c].at \in {"asking", "asking_again"} /\ call[c] \in CallRow /\ Went(c)
        /\ call[c].kid \in call[c].answer
        /\ UNCHANGED <<transactions, tickets, providerKeys, sessions, login>>
    BY <1>6 DEF KeysArrive, KeysOK, LoginShape, Went
  <2>2. looked.at = "verified" BY <2>1 DEF Looked
  <2>3. call' = [call EXCEPT ![c] = went] \/ call' = [call EXCEPT ![c] = gone]
    BY <1>6 DEF KeysArrive, LoginShape
  <2> HIDE DEF looked
  <2>4. /\ went \in CallRow /\ went.login = call[c].login /\ went.at = "verified" /\ went.answer = {}
        /\ gone \in CallRow /\ gone.login = call[c].login /\ gone.at = "refused" /\ gone.answer = {}
    BY <2>1, <2>2 DEF CallRow
  <2> HIDE DEF went, gone
  <2> QED BY <2>1, <2>3, <2>4, CallMoves DEF LoginShape
<1>7. ASSUME NEW c \in Returns, ServeKeys(c) PROVE LoginInv'
  <2> DEFINE row == [call[c] EXCEPT !.answer = providerKeys]
  <2>1. /\ call[c].at \in {"asking", "asking_again"} /\ call[c] \in CallRow /\ Went(c)
        /\ call[c].kid \in providerKeys
        /\ UNCHANGED <<transactions, tickets, providerKeys, sessions, login>>
    BY <1>7 DEF ServeKeys, memoryVars, KeysOK, LoginShape, Went
  <2>2. call' = [call EXCEPT ![c] = row] BY <1>7 DEF ServeKeys, LoginShape
  <2>3. /\ row \in CallRow /\ row.login = call[c].login /\ row.at = call[c].at /\ row.kid = call[c].kid
        /\ row.answer = providerKeys
    BY <2>1, NewestKey DEF CallRow
  <2> HIDE DEF row
  <2> QED BY <2>1, <2>2, <2>3, CallMoves DEF LoginShape
<1>8. ASSUME NEW c \in Returns, Reject(c) PROVE LoginInv'
  <2> DEFINE row == [call[c] EXCEPT !.at = "refused"]
  <2>1. /\ call[c].at = "verified" /\ call[c] \in CallRow /\ Went(c) /\ call[c].answer = {}
        /\ UNCHANGED <<transactions, tickets, providerKeys, sessions, login>>
    BY <1>8 DEF Reject, memoryVars, KeysOK, LoginShape, Went
  <2>2. call' = [call EXCEPT ![c] = row] BY <1>8 DEF Reject, PutCall, LoginShape
  <2>3. row \in CallRow /\ row.login = call[c].login /\ row.at = "refused" /\ row.answer = {}
    BY <2>1 DEF CallRow
  <2> HIDE DEF row
  <2> QED BY <2>1, <2>2, <2>3, CallMoves DEF LoginShape
<1>9. ASSUME NEW c \in Returns, Exchange(c) PROVE LoginInv'
  <2>1. /\ c \in tickets /\ tickets' = tickets \ {c} /\ sessions' = [sessions EXCEPT ![c] = @ + 1]
        /\ UNCHANGED <<transactions, login, call, providerKeys>>
    BY <1>9 DEF Exchange, UsedUp
  <2>2. LoginShape' BY <2>1 DEF LoginShape
  <2>3. KeysOK' BY <2>1 DEF KeysOK
  <2>4. RecordsOK' BY <2>1 DEF RecordsOK, Went
  <2>5. TicketsOK'
    <3>1. sessions[c] = 0 /\ call[c].at = "registered" BY <2>1 DEF TicketsOK
    <3>2. \A d \in Returns : sessions'[d] = IF d = c THEN 1 ELSE sessions[d]
      BY <2>1, <3>1 DEF LoginShape
    <3>3. \A d \in Returns : Person(d)' = Person(d) BY <2>1 DEF Person
    <3> QED BY <2>1, <3>1, <3>2, <3>3 DEF TicketsOK, identityVars
  <2> QED BY <2>2, <2>3, <2>4, <2>5, RowsStay
<1>10. CASE ForgetOld
  <2>1. UNCHANGED <<login, call, providerKeys, sessions>> /\ transactions' \subseteq transactions
        /\ tickets' \subseteq tickets
    BY <1>10 DEF ForgetOld
  <2>2. LoginShape' /\ KeysOK' BY <2>1 DEF LoginShape, KeysOK
  <2>3. RecordsOK' BY <2>1 DEF RecordsOK, Went
  <2>4. TicketsOK' BY <2>1 DEF TicketsOK, Person, identityVars
  <2> QED BY <2>2, <2>3, <2>4, RowsStay
<1>11. CASE RestartServer
  <2>1. /\ transactions' = {} /\ tickets' = {} /\ UNCHANGED <<providerKeys, sessions>>
        /\ login' = [l \in Logins |-> IF l \in Waiting THEN [login[l] EXCEPT !.at = "failed"] ELSE login[l]]
        /\ call' = [c \in Returns |-> IF call[c].at \in CallOver THEN call[c]
                                      ELSE [call[c] EXCEPT !.at = "refused", !.answer = {}]]
    BY <1>11 DEF RestartServer
  <2>2. \A c \in Returns : \/ call[c].at \in CallOver /\ call'[c] = call[c]
                           \/ /\ call'[c] \in CallRow /\ call'[c].at = "refused"
                              /\ call'[c].answer = {} /\ call[c].at \notin CallOver
    <3>1. ASSUME NEW c \in Returns
          PROVE  \/ call[c].at \in CallOver /\ call'[c] = call[c]
                 \/ /\ call'[c] \in CallRow /\ call'[c].at = "refused"
                    /\ call'[c].answer = {} /\ call[c].at \notin CallOver
      <4> DEFINE row == [call[c] EXCEPT !.at = "refused", !.answer = {}]
      <4>1. call[c] \in CallRow BY DEF LoginShape
      <4>2. row \in CallRow /\ row.at = "refused" /\ row.answer = {} BY <4>1 DEF CallRow
      <4>3. call'[c] = IF call[c].at \in CallOver THEN call[c] ELSE row BY <2>1
      <4> HIDE DEF row, LoginInv
      <4> QED BY <4>2, <4>3
    <3> HIDE DEF LoginInv
    <3> QED BY <3>1
  <2>3. \A l \in Logins : login[l].at \in {"returned", "redeemed"} => login'[l] = login[l]
    BY <2>1 DEF Waiting
  <2>4. LoginShape'
    <3>1. call' \in [Returns -> CallRow] BY <2>1, <2>2 DEF LoginShape
    <3> QED BY <2>1, <3>1 DEF LoginShape
  <2>5. KeysOK' BY <2>1, <2>2 DEF KeysOK, CallOver
  <2>6. \A c \in Returns : Went(c)' => Went(c) /\ call'[c] = call[c] BY <2>2 DEF Went
  <2>7. RecordsOK'
    <3>1. \A c \in Returns : Went(c) => /\ call[c].login \in Logins
                                        /\ login[call[c].login].at \in {"returned", "redeemed"}
      BY DEF RecordsOK
    <3>2. \A c \in Returns : Went(c)' => /\ call'[c].login \in Logins
                                         /\ login'[call'[c].login].at \in {"returned", "redeemed"}
      BY <2>3, <2>6, <3>1
    <3>3. \A c, d \in Returns : Went(c) /\ Went(d) /\ call[c].login = call[d].login => c = d
      BY DEF RecordsOK
    <3>4. \A c, d \in Returns : Went(c)' /\ Went(d)' /\ call'[c].login = call'[d].login => c = d
      BY <2>6, <3>3
    <3>5. transactions' = {} BY <1>11 DEF RestartServer
    <3> QED BY <3>2, <3>4, <3>5 DEF RecordsOK
  <2>8. TicketsOK'
    <3>1. \A c \in Returns : call'[c].at = "registered" <=> call[c].at = "registered"
      BY <2>2 DEF CallOver
    <3>2. \A c \in Returns : call'[c].at = "registered" => Person(c)' = Person(c)
      BY <2>3, <2>6 DEF Person, Went, RecordsOK
    <3> QED BY <2>1, <3>1, <3>2 DEF TicketsOK, identityVars
  <2> QED BY <2>4, <2>5, <2>7, <2>8, RowsStay
<1>12. CASE RotateKeys
  <2>1. /\ providerKeys' = providerKeys \cup {Cardinality(providerKeys) + 1}
        /\ UNCHANGED <<transactions, tickets, login, call, sessions>>
    BY <1>12 DEF RotateKeys, memoryVars
  <2>2. KeysOK'
    <3>1. \E n \in Nat \ {0} : providerKeys' = 1..n BY <2>1, NewestKey
    <3> QED BY <2>1, <3>1 DEF KeysOK
  <2>3. LoginShape' /\ RecordsOK' /\ TicketsOK'
    BY <2>1 DEF LoginShape, RecordsOK, TicketsOK, Went, Person, identityVars
  <2> QED BY <2>2, <2>3, RowsStay
<1> QED BY <1>1, <1>2, <1>3, <1>4, <1>5, <1>6, <1>7, <1>8, <1>9, <1>10, <1>11, <1>12 DEF LoginSteps

LEMMA TicketKeeps ==
  ASSUME LoginInv, NEW c \in Returns, GiveTicket(c), UNCHANGED <<index, boot>>
  PROVE  LoginInv'
<1> USE DEF LoginInv
<1>1. /\ call[c].at = "verified" /\ Went(c) /\ call[c].answer = {} /\ call[c] \in CallRow
      /\ UNCHANGED <<transactions, login, providerKeys, sessions>>
  BY DEF GiveTicket, Went, KeysOK, LoginShape
<1>2. CASE External(Person(c)) = "link_required"
  <2> DEFINE row == [call[c] EXCEPT !.at = "refused"]
  <2>1. call' = [call EXCEPT ![c] = row] /\ UNCHANGED tickets /\ UNCHANGED identityVars
    BY <1>2 DEF GiveTicket, PutCall, LoginShape, rowVars, identityVars
  <2>2. row \in CallRow /\ row.login = call[c].login /\ row.at = "refused" /\ row.answer = {}
    BY <1>1 DEF CallRow
  <2> HIDE DEF row
  <2> QED BY <1>1, <2>1, <2>2, CallMoves DEF LoginShape
<1>3. CASE External(Person(c)) # "link_required"
  <2> DEFINE row == [call[c] EXCEPT !.at = "registered"]
  <2>1. /\ call' = [call EXCEPT ![c] = row] /\ tickets' = tickets \cup {c}
        /\ RegisterExternal(Person(c))
    BY <1>3 DEF GiveTicket, PutCall, LoginShape
  <2>2. row \in CallRow /\ row.login = call[c].login /\ row.at = "registered" /\ row.answer = {}
    BY <1>1 DEF CallRow
  <2> HIDE DEF row
  <2>3. \A d \in Returns : call'[d] = IF d = c THEN row ELSE call[d] BY <2>1 DEF LoginShape
  <2>4. linked' = linked \cup {Person(c)} /\ users' = users \cup {OfSubject(Person(c))} /\ UNCHANGED passwords
    BY <2>1 DEF RegisterExternal
  <2>5. LoginShape' BY <1>1, <2>1, <2>2 DEF LoginShape
  <2>6. KeysOK' BY <1>1, <2>2, <2>3 DEF KeysOK
  <2>7. RecordsOK'
    <3>1. \A d \in Returns : (Went(d)' <=> Went(d)) /\ call'[d].login = call[d].login
      BY <1>1, <2>2, <2>3 DEF Went
    <3> QED BY <1>1, <3>1 DEF RecordsOK
  <2>8. TicketsOK'
    <3>1. \A d \in Returns : Person(d)' = Person(d) BY <1>1, <2>2, <2>3 DEF Person
    <3>2. sessions[c] = 0 BY <1>1 DEF TicketsOK, LoginShape
    <3> QED BY <1>1, <2>1, <2>2, <2>3, <2>4, <3>1, <3>2 DEF TicketsOK
  <2>9. RowsOfLogins'
    <3>1. Unique' BY <1>3, <2>1, ExternalKeeps DEF RowsOfLogins
    <3>2. Person(c) \notin linked => OfSubject(Person(c)) \notin users
      BY <1>3 DEF External, Owners, OfSubject
    <3> QED BY <2>4, <3>1, <3>2 DEF RowsOfLogins
  <2> QED BY <2>5, <2>6, <2>7, <2>8, <2>9
<1> QED BY <1>2, <1>3

\* A login at the provider gives one session at most, of the account of who signed in,
\* and never one with a password; callbacks and exchanges may be repeated, the server
\* replaced and the provider's keys changed at any step: oidc.ts and its routes.
THEOREM LoginsAreOwn == LoginSpec => []AccountsSafe
<1>1. Serves /\ LoginInit => LoginInv BY LoginBegins
<1>2. LoginInv /\ [LoginNext]_<<loginVars, identityVars>> => LoginInv'
  <2> SUFFICES ASSUME LoginInv, [LoginNext]_<<loginVars, identityVars>> PROVE LoginInv' OBVIOUS
  <2>1. CASE UNCHANGED <<loginVars, identityVars>>
    <3>1. UNCHANGED <<transactions, tickets, login, call, providerKeys, sessions, identityVars>>
      BY <2>1 DEF loginVars, memoryVars
    <3>2. LoginShape' /\ KeysOK' BY <3>1 DEF LoginInv, LoginShape, KeysOK
    <3>3. RecordsOK' /\ TicketsOK' BY <3>1 DEF LoginInv, RecordsOK, TicketsOK, Went, Person, identityVars
    <3> QED BY <3>1, <3>2, <3>3, RowsStay DEF LoginInv
  <2> QED BY <2>1, LoginStepsKeep, TicketKeeps DEF LoginNext
<1>3. LoginInv => AccountsSafe
  <2> SUFFICES ASSUME LoginInv PROVE AccountsSafe OBVIOUS
  <2>1. OneAccountPerAddress
    BY LinkedOwns DEF LoginInv, RowsOfLogins, OneAccountPerAddress
  <2>2. \A c \in Returns : sessions[c] > 0 => call[c].at = "registered" /\ Went(c)
    BY DEF LoginInv, TicketsOK, Went
  <2>3. \A c \in Returns : sessions[c] \in Nat BY DEF LoginInv, LoginShape
  <2>4. \A c, d \in Returns : c # d /\ call[c].login = call[d].login => sessions[c] = 0 \/ sessions[d] = 0
    BY <2>2, <2>3 DEF LoginInv, RecordsOK
  <2>5. \A c \in Returns : sessions[c] > 0 => Person(c) \in linked /\ OfSubject(Person(c)) \in users \ passwords
    BY <2>2 DEF LoginInv, TicketsOK, RowsOfLogins
  <2>6. \A c \in Returns : sessions[c] <= 1 /\ call[c].at # "missing"
    BY DEF LoginInv, TicketsOK, KeysOK
  <2> QED BY <2>1, <2>4, <2>5, <2>6 DEF AccountsSafe, LoginSafe
<1> QED BY <1>1, <1>2, <1>3, PTL DEF LoginSpec

-----------------------------------------------------------------------------
(* The agent of COD Desktop *)


\* A call that the renderer has made, and a launch that has got past its queue.
Began(c) == progress[c].at # "unused"
AtWork(c) == progress[c].at \notin {"unused", "queued", "done", "failed"}

SidecarSteps == {"unused", "queued", "approving", "minting", "saving", "waiting", "proxying", "dropping",
          "closing", "terminating", "clearing", "removing", "done", "failed"}
StopSteps == {"unused", "closing", "terminating", "clearing", "removing", "done"}

CallState == [at : SidecarSteps, generation : Nat, waits : SUBSET Calls, key : Keys \cup {Nothing},
              pid : Pids \cup {Nothing}, proxy : Launches \cup {Nothing}]

SidecarShape ==
    /\ progress \in [Calls -> CallState]
    /\ \A s \in Stops : progress[s].at \in StopSteps
    /\ process \in [Pids -> {"free", "agent", "other", "orphan"}]
    /\ generation \in Nat /\ tail \subseteq Calls
    /\ gooseSidecar \in Pids \cup {Nothing} /\ gooseAcpProxy \in Launches \cup {Nothing}
    /\ openProxies \subseteq Launches

\* before[l] are the calls made before the launch l.  They are those it waits for and
\* those made before a launch it waits for; all of them have ended once it is at work;
\* and a stop that is not among them has interrupted it.
LinedUp(before) ==
    /\ \A c \in Calls : Began(c) => c \in tail \/ \E d \in tail \cap Launches : c \in before[d]
    /\ \A l \in Launches :
          /\ ~Began(l) => before[l] = {}
          /\ progress[l].generation <= generation
          /\ \A c \in before[l] : c \in progress[l].waits
                                  \/ \E d \in progress[l].waits \cap Launches : c \in before[d]
          /\ progress[l].at # "queued" => \A c \in before[l] : CallEnded(c)
          /\ \A k \in Launches \ {l} : Began(l) /\ Began(k) => k \in before[l] \/ l \in before[k]
          /\ \A s \in Stops : Began(l) /\ Began(s) => s \in before[l] \/ progress[l].generation < generation

QueueOK == \E before \in [Launches -> SUBSET Calls] : LinedUp(before)

Taken(p) == \E c \in Calls : progress[c].at \in {"closing", "terminating"} /\ progress[c].pid = p

Emptied == {"closing", "terminating", "clearing", "removing", "minting"}
HasAgent == {"saving", "waiting", "proxying", "dropping"}

\* An agent is the one in use or has been taken over by who stops it; a launch that
\* is about to start one has left none.
AgentsOK ==
    /\ \A p, q \in Pids : process[p] = "agent" /\ process[q] = "agent" => p = q
    /\ \A p \in Pids : process[p] = "agent" => gooseSidecar = p \/ Taken(p)
    /\ \A l \in Launches :
          /\ progress[l].at \in Emptied => gooseSidecar = Nothing
          /\ AtWork(l) /\ progress[l].at # "approving" => published = NotPublished /\ gooseAcpProxy = Nothing
          /\ progress[l].at \in HasAgent => progress[l].pid \in Pids

\* The proxy in use is that of a launch that has ended; whoever closes one has taken it.
ProxiesOK ==
    /\ UrlIsCurrent
    /\ gooseAcpProxy # Nothing => progress[gooseAcpProxy].at = "done"
    /\ \A l \in Launches : progress[l].at = "proxying" => l \in openProxies
    /\ \A c \in Calls : progress[c].at = "closing" /\ progress[c].proxy # Nothing =>
          progress[progress[c].proxy].at = "done" /\ progress[c].proxy # gooseAcpProxy

AbandonedOK ==
    /\ AbandonedIsStopped
    /\ \A p \in abandoned : p \in Pids /\ process[p] = "orphan" /\ record.pid = p

SidecarInv == SidecarShape /\ QueueOK /\ AgentsOK /\ ProxiesOK /\ AbandonedOK

LEMMA SidecarBegins == SidecarInit => SidecarInv
<1> SUFFICES ASSUME SidecarInit PROVE SidecarInv OBVIOUS
<1>1. SidecarShape
  <2>1. Unused \in CallState BY DEF Unused, CallState, SidecarSteps
  <2>2. Unused.at = "unused" BY DEF Unused
  <2>3. \A c \in Calls : progress[c] = Unused BY DEF SidecarInit
  <2>4. \A s \in Stops : progress[s].at \in StopSteps BY <2>2, <2>3 DEF StopSteps, Calls
  <2> QED BY <2>1, <2>4 DEF SidecarInit, SidecarShape
<1>2. QueueOK
  <2> DEFINE none == [l \in Launches |-> {}]
  <2>1. none \in [Launches -> SUBSET Calls] OBVIOUS
  <2>2. LinedUp(none) BY DEF SidecarInit, LinedUp, Began, Unused, Calls
  <2> QED BY <2>1, <2>2 DEF QueueOK
<1>3. AgentsOK BY DEF SidecarInit, AgentsOK, AtWork, Unused, Emptied, HasAgent, Calls
<1>4. ProxiesOK BY DEF SidecarInit, ProxiesOK, UrlIsCurrent, Unused, Calls
<1>5. AbandonedOK BY DEF SidecarInit, AbandonedOK, AbandonedIsStopped
<1> QED BY <1>1, <1>2, <1>3, <1>4, <1>5 DEF SidecarInv

-----------------------------------------------------------------------------
\* The call c goes to the step s; the other calls stay where they are.
MovesTo(c, s) ==
    /\ progress' \in [Calls -> CallState]
    /\ \A t \in Stops : progress'[t].at \in StopSteps
    /\ progress'[c].at = s
    /\ progress'[c].generation = progress[c].generation /\ progress'[c].waits = progress[c].waits
    /\ \A d \in Calls : d # c => progress'[d] = progress[d]

LEMMA GoesTo ==
  ASSUME SidecarShape, NEW c \in Calls, NEW s \in SidecarSteps, Goto(c, s), c \in Stops => s \in StopSteps
  PROVE  /\ MovesTo(c, s)
         /\ progress'[c].pid = progress[c].pid /\ progress'[c].proxy = progress[c].proxy
<1> DEFINE row == [progress[c] EXCEPT !.at = s]
<1>1. progress' = [progress EXCEPT ![c] = row] BY DEF Goto, SidecarShape
<1>2. progress[c] \in CallState BY DEF SidecarShape
<1>3. /\ row \in CallState /\ row.at = s /\ row.generation = progress[c].generation
      /\ row.waits = progress[c].waits /\ row.pid = progress[c].pid /\ row.proxy = progress[c].proxy
  BY <1>2 DEF CallState
<1> HIDE DEF row
<1>4. \A d \in Calls : progress'[d] = IF d = c THEN row ELSE progress[d] BY <1>1 DEF SidecarShape
<1>5. progress' \in [Calls -> CallState] BY <1>1, <1>3 DEF SidecarShape
<1>6. \A t \in Stops : progress'[t].at \in StopSteps BY <1>3, <1>4 DEF SidecarShape, Calls
<1> QED BY <1>3, <1>4, <1>5, <1>6 DEF MovesTo

\* Two launches are never at work at once.
LEMMA OneAtWork ==
  ASSUME QueueOK, NEW k \in Launches, NEW l \in Launches, AtWork(k), AtWork(l)
  PROVE  k = l
<1>1. PICK before \in [Launches -> SUBSET Calls] : LinedUp(before) BY DEF QueueOK
<1>2. SUFFICES ASSUME k # l PROVE FALSE OBVIOUS
<1>3. k \in before[l] \/ l \in before[k] BY <1>1, <1>2 DEF LinedUp, Began, AtWork
<1> QED BY <1>1, <1>3 DEF LinedUp, AtWork, CallEnded

\* While a launch that nobody interrupted is at work, no stop is.
LEMMA NoStopAtWork ==
  ASSUME SidecarShape, QueueOK, NEW l \in Launches, AtWork(l), Uninterrupted(l), NEW s \in Stops
  PROVE  ~AtWork(s)
<1>1. PICK before \in [Launches -> SUBSET Calls] : LinedUp(before) BY DEF QueueOK
<1>2. SUFFICES ASSUME AtWork(s) PROVE FALSE OBVIOUS
<1>3. s \in before[l] \/ progress[l].generation < generation
  BY <1>1, <1>2 DEF LinedUp, Began, AtWork
<1>4. s \notin before[l] BY <1>1, <1>2 DEF LinedUp, AtWork, CallEnded
<1> QED BY <1>3, <1>4 DEF Uninterrupted, SidecarShape

\* Who is at work goes on or ends: the queue stays as it is.
LEMMA QueueMoves ==
  ASSUME SidecarShape, QueueOK, NEW c \in Calls, NEW s \in SidecarSteps \ {"unused", "queued"}, MovesTo(c, s),
         AtWork(c), UNCHANGED <<generation, tail>>
  PROVE  QueueOK'
<1>1. PICK before \in [Launches -> SUBSET Calls] : LinedUp(before) BY DEF QueueOK
<1>2. \A d \in Calls : /\ progress'[d].generation = progress[d].generation
                       /\ progress'[d].waits = progress[d].waits
                       /\ Began(d)' <=> Began(d)
                       /\ CallEnded(d) => CallEnded(d)'
                       /\ progress'[d].at = "queued" <=> progress[d].at = "queued"
  BY DEF MovesTo, Began, AtWork, CallEnded
<1>3. LinedUp(before)'
  <2>1. Launches \subseteq Calls /\ Stops \subseteq Calls BY DEF Calls
  <2> QED BY <1>1, <1>2, <2>1 DEF LinedUp
<1> QED BY <1>1, <1>3 DEF QueueOK

LEMMA QueueStays ==
  ASSUME QueueOK, UNCHANGED <<progress, generation, tail>>
  PROVE  QueueOK'
<1>1. PICK before \in [Launches -> SUBSET Calls] : LinedUp(before) BY DEF QueueOK
<1>2. LinedUp(before)' BY <1>1 DEF LinedUp, Began, CallEnded
<1> QED BY <1>1, <1>2 DEF QueueOK

\* A launch enters when those it waits for have ended: so have all made before it.
LEMMA QueueEnters ==
  ASSUME SidecarShape, QueueOK, NEW l \in Launches, NEW s \in {"approving", "failed"}, MovesTo(l, s),
         progress[l].at = "queued", \A c \in progress[l].waits : CallEnded(c),
         UNCHANGED <<generation, tail>>
  PROVE  QueueOK'
<1>1. PICK before \in [Launches -> SUBSET Calls] : LinedUp(before) BY DEF QueueOK
<1>2. Launches \subseteq Calls /\ Stops \subseteq Calls BY DEF Calls
<1>3. \A d \in Calls : /\ progress'[d].generation = progress[d].generation
                       /\ progress'[d].waits = progress[d].waits
                       /\ Began(d)' <=> Began(d)
                       /\ CallEnded(d) => CallEnded(d)'
                       /\ d # l => progress'[d].at = progress[d].at
  BY <1>2 DEF MovesTo, Began, CallEnded
<1>4. \A c \in before[l] : CallEnded(c)
  <2> SUFFICES ASSUME NEW c \in before[l] PROVE CallEnded(c) OBVIOUS
  <2>1. CASE c \in progress[l].waits BY <2>1
  <2>2. ASSUME NEW d \in progress[l].waits \cap Launches, c \in before[d] PROVE CallEnded(c)
    <3>1. progress[d].at # "queued" BY <2>2 DEF CallEnded
    <3> QED BY <1>1, <2>2, <3>1 DEF LinedUp
  <2> QED BY <1>1, <2>1, <2>2 DEF LinedUp
<1>5. LinedUp(before)' BY <1>1, <1>2, <1>3, <1>4 DEF LinedUp
<1> QED BY <1>1, <1>5 DEF QueueOK

\* A launch queues behind all calls there are.
LEMMA QueueRuns ==
  ASSUME SidecarShape, QueueOK, NEW l \in Launches, NEW key \in Keys, run(l, key)
  PROVE  SidecarShape' /\ QueueOK'
<1> DEFINE row == [Unused EXCEPT !.at = "queued", !.generation = generation, !.waits = Before, !.key = key]
<1>1. /\ row \in CallState /\ row.at = "queued" /\ row.generation = generation /\ row.waits = tail
  BY DEF Unused, CallState, SidecarSteps, Before, SidecarShape
<1>2. progress' = [progress EXCEPT ![l] = row] /\ tail' = {l} /\ progress[l].at = "unused"
      /\ UNCHANGED <<generation, process, gooseSidecar, gooseAcpProxy, openProxies>>
  BY DEF run
<1> HIDE DEF row
<1>3. \A d \in Calls : progress'[d] = IF d = l THEN row ELSE progress[d] BY <1>2 DEF SidecarShape
<1>4. SidecarShape'
  <2>1. \A s \in Stops : progress'[s].at \in StopSteps
    BY <1>3, SidecarAssumption DEF SidecarShape, Calls
  <2>2. progress' \in [Calls -> CallState] BY <1>1, <1>2 DEF SidecarShape
  <2>3. tail' \subseteq Calls BY <1>2 DEF Calls
  <2> QED BY <1>2, <2>1, <2>2, <2>3 DEF SidecarShape
<1>5. PICK before \in [Launches -> SUBSET Calls] : LinedUp(before) BY DEF QueueOK
<1>8. PICK all \in SUBSET Calls : \A c \in Calls : c \in all <=> Began(c)
  <2>1. {c \in Calls : Began(c)} \in SUBSET Calls OBVIOUS
  <2> QED BY <2>1
<1>6. PICK now \in [Launches -> SUBSET Calls] : \A k \in Launches : now[k] = IF k = l THEN all ELSE before[k]
  <2>1. [before EXCEPT ![l] = all] \in [Launches -> SUBSET Calls] OBVIOUS
  <2> QED BY <2>1
<1>7. \A k \in Launches : now[k] = IF k = l THEN all ELSE before[k] BY <1>6
<1>9. Launches \subseteq Calls /\ Stops \subseteq Calls /\ Launches \cap Stops = {}
  BY SidecarAssumption DEF Calls
<1>10. \A c \in Calls : c # l => (Began(c)' <=> Began(c)) /\ (CallEnded(c)' <=> CallEnded(c))
  BY <1>3 DEF Began, CallEnded
<1>11. Began(l)' /\ progress'[l].at = "queued" /\ progress'[l].generation = generation
       /\ progress'[l].waits = tail /\ ~Began(l) /\ before[l] = {} /\ l \notin all
  BY <1>1, <1>2, <1>3, <1>5, <1>8, <1>9 DEF Began, LinedUp
<1>12. all \subseteq Calls /\ tail \subseteq Calls BY DEF SidecarShape
<1>13. \A c \in all : c \in tail \/ \E d \in tail \cap Launches : c \in now[d]
  BY <1>5, <1>7, <1>8, <1>11, <1>12 DEF LinedUp
<1>14. \A k \in Launches : k # l => progress'[k] = progress[k] /\ now[k] = before[k]
  BY <1>3, <1>7, <1>9
<1>15. \A k \in Launches : k # l => \A c \in before[k] :
           c \in progress[k].waits \/ \E d \in progress[k].waits \cap Launches : c \in now[d]
  BY <1>5, <1>7, <1>11 DEF LinedUp
<1>16. ASSUME NEW k \in Launches, k # l
       PROVE  /\ progress'[k].at # "queued" => \A c \in now[k] : CallEnded(c)'
              /\ ~Began(k)' => now[k] = {}
              /\ progress'[k].generation <= generation
  <2>1. progress'[k] = progress[k] /\ now[k] = before[k] /\ before[k] \subseteq Calls BY <1>14, <1>16
  <2>2. CallEnded(l) => FALSE BY <1>2 DEF CallEnded
  <2> QED BY <1>5, <1>9, <1>10, <1>16, <2>1, <2>2 DEF LinedUp
<1>17. LinedUp(now)'
  <2>1. \A c \in Calls : Began(c)' => c \in tail' \/ \E d \in tail' \cap Launches : c \in now[d]
    BY <1>2, <1>7, <1>8, <1>10
  <2>2. ASSUME NEW k \in Launches
        PROVE  /\ ~Began(k)' => now[k] = {}
               /\ progress'[k].generation <= generation'
               /\ \A c \in now[k] : c \in progress'[k].waits
                                     \/ \E d \in progress'[k].waits \cap Launches : c \in now[d]
               /\ progress'[k].at # "queued" => \A c \in now[k] : CallEnded(c)'
    <3>1. CASE k = l BY <1>2, <1>7, <1>11, <1>13, <3>1 DEF SidecarShape
    <3>2. CASE k # l
      <4>1. progress'[k] = progress[k] /\ now[k] = before[k] BY <1>14, <3>2
      <4>2. \A c \in before[k] : c \in progress[k].waits
                               \/ \E d \in progress[k].waits \cap Launches : c \in now[d]
        BY <1>15, <3>2
      <4>3. generation' = generation BY <1>2
      <4>4. /\ progress'[k].at # "queued" => \A c \in now[k] : CallEnded(c)'
            /\ ~Began(k)' => now[k] = {}
            /\ progress'[k].generation <= generation
        BY <1>16, <3>2
      <4> QED BY <4>1, <4>2, <4>3, <4>4
    <3> QED BY <3>1, <3>2
  <2>3. ASSUME NEW k \in Launches, NEW j \in Launches \ {k}, Began(k)', Began(j)'
        PROVE  j \in now[k] \/ k \in now[j]
    BY <1>5, <1>7, <1>8, <1>9, <1>10, <2>3 DEF LinedUp
  <2>4. ASSUME NEW k \in Launches, NEW s \in Stops, Began(k)', Began(s)'
        PROVE  s \in now[k] \/ progress'[k].generation < generation'
    <3>1. s # l /\ Began(s) BY <1>9, <1>10, <2>4
    <3> QED BY <1>2, <1>5, <1>7, <1>8, <1>9, <1>10, <1>14, <2>4, <3>1 DEF LinedUp
  <2> QED BY <2>1, <2>2, <2>3, <2>4 DEF LinedUp
<1> QED BY <1>4, <1>6, <1>17 DEF QueueOK

\* A stop interrupts every launch there is.
LEMMA QueueInvalidates ==
  ASSUME SidecarShape, QueueOK, NEW s \in Stops, invalidate(s)
  PROVE  SidecarShape' /\ QueueOK'
<1> DEFINE row == [Unused EXCEPT !.at = "closing", !.pid = gooseSidecar, !.proxy = gooseAcpProxy]
<1>1. row \in CallState /\ row.at = "closing"
  BY DEF Unused, CallState, SidecarSteps, SidecarShape
<1>2. /\ progress' = [progress EXCEPT ![s] = row] /\ tail' = tail \cup {s} /\ progress[s].at = "unused"
      /\ generation' = generation + 1 /\ UNCHANGED <<process, openProxies>>
      /\ gooseSidecar' = Nothing /\ gooseAcpProxy' = Nothing
  BY DEF invalidate, TakeOver
<1> HIDE DEF row
<1>3. \A d \in Calls : progress'[d] = IF d = s THEN row ELSE progress[d] BY <1>2 DEF SidecarShape
<1>4. Launches \subseteq Calls /\ Stops \subseteq Calls /\ Launches \cap Stops = {}
  BY SidecarAssumption DEF Calls
<1>5. SidecarShape'
  <2>1. \A t \in Stops : progress'[t].at \in StopSteps
    BY <1>1, <1>3, <1>4 DEF SidecarShape, StopSteps
  <2>2. progress' \in [Calls -> CallState] BY <1>1, <1>2 DEF SidecarShape
  <2> QED BY <1>2, <1>4, <2>1, <2>2 DEF SidecarShape
<1>6. PICK before \in [Launches -> SUBSET Calls] : LinedUp(before) BY DEF QueueOK
<1>7. \A c \in Calls : c # s => (Began(c)' <=> Began(c)) /\ (CallEnded(c)' <=> CallEnded(c))
  BY <1>3 DEF Began, CallEnded
<1>8. \A l \in Launches : progress'[l] = progress[l] /\ (Began(l)' <=> Began(l)) BY <1>3, <1>4, <1>7
<1>9. \A l \in Launches : progress[l].generation <= generation /\ progress[l].generation \in Nat
  BY <1>4, <1>6 DEF LinedUp, SidecarShape, CallState
<1>10. \A l \in Launches : progress'[l].generation < generation' BY <1>2, <1>8, <1>9 DEF SidecarShape
<1>11. ~CallEnded(s) BY <1>2 DEF CallEnded
<1>12. \A l \in Launches : progress[l].at # "queued" => \A c \in before[l] : CallEnded(c)'
  BY <1>4, <1>6, <1>7, <1>11 DEF LinedUp
<1>13. LinedUp(before)'
  <2>1. \A c \in Calls : Began(c)' => c \in tail' \/ \E d \in tail' \cap Launches : c \in before[d]
    BY <1>2, <1>6, <1>7 DEF LinedUp
  <2>2. \A l \in Launches : progress'[l].generation <= generation'
    BY <1>2, <1>8, <1>9 DEF SidecarShape
  <2>3. ASSUME NEW l \in Launches
        PROVE  /\ ~Began(l)' => before[l] = {}
               /\ \A c \in before[l] : c \in progress'[l].waits
                                     \/ \E d \in progress'[l].waits \cap Launches : c \in before[d]
               /\ \A k \in Launches \ {l} : Began(l)' /\ Began(k)' => k \in before[l] \/ l \in before[k]
    BY <1>6, <1>8 DEF LinedUp
  <2> QED BY <1>8, <1>10, <1>12, <2>1, <2>2, <2>3 DEF LinedUp
<1> QED BY <1>5, <1>6, <1>13 DEF QueueOK

\* COD Desktop ends, and with it every call.
LEMMA QueueEnds ==
  ASSUME AppEnds, SidecarShape
  PROVE  SidecarShape' /\ QueueOK'
<1>1. /\ progress' = [c \in Calls |-> Unused] /\ tail' = {} /\ generation' = 0
      /\ gooseSidecar' = Nothing /\ gooseAcpProxy' = Nothing /\ openProxies' = {}
  BY DEF AppEnds
<1>2. Unused \in CallState /\ Unused.at = "unused" /\ Unused.generation = 0
  BY DEF Unused, CallState, SidecarSteps
<1>3. process' \in [Pids -> {"free", "agent", "other", "orphan"}] BY DEF AppEnds, SidecarShape
<1>4. Launches \subseteq Calls /\ Stops \subseteq Calls BY DEF Calls
<1>5. SidecarShape' BY <1>1, <1>2, <1>3, <1>4 DEF SidecarShape, StopSteps
<1> DEFINE none == [l \in Launches |-> {}]
<1>6. none \in [Launches -> SUBSET Calls] OBVIOUS
<1>7. \A c \in Calls : ~Began(c)' BY <1>1, <1>2 DEF Began
<1>8. \A l \in Launches : none[l] = {} OBVIOUS
<1> HIDE DEF none
<1>9. LinedUp(none)' BY <1>1, <1>2, <1>4, <1>7, <1>8 DEF LinedUp
<1> QED BY <1>5, <1>6, <1>9 DEF QueueOK

-----------------------------------------------------------------------------
LEMMA AbandonedUp ==
  ASSUME AbandonedOK, Up, UNCHANGED <<app, abandoned, killedOther>>
  PROVE  AbandonedOK'
BY DEF AbandonedOK, AbandonedIsStopped, Up

\* A step of a call that touches neither agents nor proxies.
LEMMA PlainMove ==
  ASSUME SidecarShape, AgentsOK, ProxiesOK, NEW c \in Calls, NEW s \in SidecarSteps, MovesTo(c, s),
         progress'[c].pid = progress[c].pid,
         UNCHANGED <<process, generation, gooseSidecar, gooseAcpProxy, published, openProxies>>,
         progress[c].at \notin {"closing", "terminating", "proxying", "done"},
         s \notin {"closing", "terminating", "proxying"},
         c \in Launches /\ s \in Emptied => gooseSidecar = Nothing,
         c \in Launches /\ s \notin {"unused", "queued", "approving", "done", "failed"} =>
             published = NotPublished /\ gooseAcpProxy = Nothing,
         c \in Launches /\ s \in {"saving", "waiting", "dropping"} => progress[c].pid \in Pids
  PROVE  AgentsOK' /\ ProxiesOK'
<1>1. Launches \subseteq Calls BY DEF Calls
<1>2. progress'[c].at = s /\ \A d \in Calls : d # c => progress'[d] = progress[d] BY DEF MovesTo
<1>3. AgentsOK'
  <2>1. \A p \in Pids : Taken(p) => Taken(p)' BY <1>2 DEF Taken
  <2>2. ASSUME NEW l \in Launches
        PROVE  /\ progress'[l].at \in Emptied => gooseSidecar' = Nothing
               /\ AtWork(l)' /\ progress'[l].at # "approving" => published' = NotPublished /\ gooseAcpProxy' = Nothing
               /\ progress'[l].at \in HasAgent => progress'[l].pid \in Pids
    <3>1. CASE l = c BY <1>2, <3>1 DEF AtWork, HasAgent
    <3>2. CASE l # c
      <4>1. progress'[l] = progress[l] BY <1>1, <1>2, <3>2
      <4> QED BY <4>1 DEF AgentsOK, AtWork
    <3> QED BY <3>1, <3>2
  <2> QED BY <2>1, <2>2 DEF AgentsOK
<1>4. ProxiesOK'
  <2>1. UrlIsCurrent'
    <3>1. ASSUME NEW l \in openProxies
          PROVE  \/ gooseAcpProxy = l \/ progress'[l].at = "proxying"
                 \/ \E d \in Calls : progress'[d].at = "closing" /\ progress'[d].proxy = l
      BY <1>1, <1>2 DEF ProxiesOK, UrlIsCurrent, SidecarShape
    <3> QED BY <3>1 DEF ProxiesOK, UrlIsCurrent
  <2>2. \A d \in Calls : progress'[d].at = "closing" => progress'[d] = progress[d] /\ progress[d].at = "closing"
    BY <1>2
  <2>3. \A l \in Launches : progress'[l].at = "proxying" => progress[l].at = "proxying" BY <1>1, <1>2
  <2>4. \A l \in Launches : progress[l].at = "done" => progress'[l].at = "done" BY <1>1, <1>2
  <2>5. \A d \in Calls : progress[d].proxy \in Launches \cup {Nothing} BY DEF SidecarShape, CallState
  <2>6. gooseAcpProxy \in Launches \cup {Nothing} BY DEF SidecarShape
  <2> QED BY <2>1, <2>2, <2>3, <2>4, <2>5, <2>6 DEF ProxiesOK
<1> QED BY <1>3, <1>4

\* What is left when the only agent has exited.
LEMMA ExitLeaves ==
  ASSUME SidecarShape, AgentsOK, ProxiesOK, NEW p \in Pids, process[p] = "agent", Exited(p)
  PROVE  /\ process' \in [Pids -> {"free", "agent", "other", "orphan"}]
         /\ \A q \in Pids : process'[q] # "agent"
         /\ published' = NotPublished
         /\ gooseSidecar' \in {gooseSidecar, Nothing}
         /\ \/ gooseAcpProxy' = Nothing /\ openProxies' = openProxies \ {gooseAcpProxy}
            \/ UNCHANGED <<gooseAcpProxy, openProxies>>
<1>1. process' = [process EXCEPT ![p] = "free"] BY DEF Exited
<1>2. \A q \in Pids : process'[q] # "agent" BY <1>1 DEF SidecarShape, AgentsOK
<1>3. process' \in [Pids -> {"free", "agent", "other", "orphan"}] BY <1>1 DEF SidecarShape
<1>4. CASE gooseSidecar = p BY <1>2, <1>3, <1>4 DEF Exited, TakeOver
<1>5. CASE gooseSidecar # p
  <2>1. published = NotPublished
    BY <1>5 DEF ProxiesOK, UrlIsCurrent, AgentsOK, SidecarShape
  <2> QED BY <1>2, <1>3, <1>5, <2>1 DEF Exited
<1> QED BY <1>4, <1>5

\* With the agent gone, and a call that moves on or none, agents and proxies agree.
LEMMA AfterExit ==
  ASSUME SidecarShape, AgentsOK, ProxiesOK,
         \A q \in Pids : process'[q] # "agent", published' = NotPublished, gooseSidecar' \in {gooseSidecar, Nothing},
         \/ gooseAcpProxy' = Nothing /\ openProxies' = openProxies \ {gooseAcpProxy}
         \/ UNCHANGED <<gooseAcpProxy, openProxies>>,
         \A d \in Calls : \/ progress'[d] = progress[d]
                          \/ /\ progress[d].at \in {"terminating", "dropping"}
                             /\ \/ progress'[d].at = "clearing" /\ progress[d].at = "terminating"
                                \/ progress'[d].at = "failed"
  PROVE  AgentsOK' /\ ProxiesOK'
<1>1. Launches \subseteq Calls BY DEF Calls
<1>2. AgentsOK'
  <2>1. ASSUME NEW l \in Launches
        PROVE  /\ progress'[l].at \in Emptied => gooseSidecar' = Nothing
               /\ AtWork(l)' /\ progress'[l].at # "approving" => published' = NotPublished /\ gooseAcpProxy' = Nothing
               /\ progress'[l].at \in HasAgent => progress'[l].pid \in Pids
    <3>1. CASE progress'[l] = progress[l] BY <3>1 DEF AgentsOK, AtWork
    <3>2. CASE progress[l].at = "terminating" /\ progress'[l].at = "clearing"
      BY <3>2 DEF AgentsOK, AtWork, Emptied, HasAgent
    <3>3. CASE progress'[l].at = "failed" BY <3>3 DEF AtWork, Emptied, HasAgent
    <3> QED BY <1>1, <3>1, <3>2, <3>3
  <2> QED BY <2>1 DEF AgentsOK
<1>3. ProxiesOK'
  <2>1. \A d \in Calls : progress'[d].at \in {"closing", "proxying"} \/ progress[d].at \in {"closing", "proxying", "done"}
                            => progress'[d] = progress[d]
    OBVIOUS
  <2>2. openProxies' \subseteq openProxies /\ openProxies \subseteq Launches /\ Nothing \notin Launches
    BY SidecarAssumption DEF SidecarShape
  <2>3. UrlIsCurrent'
    <3>1. ASSUME NEW l \in openProxies'
          PROVE  \/ gooseAcpProxy' = l \/ progress'[l].at = "proxying"
                 \/ \E d \in Calls : progress'[d].at = "closing" /\ progress'[d].proxy = l
      <4>1. CASE progress[l].at = "proxying" BY <1>1, <2>1, <2>2, <4>1
      <4>2. CASE \E d \in Calls : progress[d].at = "closing" /\ progress[d].proxy = l BY <2>1, <4>2
      <4>3. CASE gooseAcpProxy = l BY <4>3
      <4> QED BY <2>2, <4>1, <4>2, <4>3 DEF ProxiesOK, UrlIsCurrent
    <3> QED BY <3>1 DEF UrlIsCurrent
  <2>4. gooseAcpProxy' # Nothing => progress'[gooseAcpProxy'].at = "done"
    BY <1>1, <2>1 DEF ProxiesOK, SidecarShape
  <2>5. \A l \in Launches : progress'[l].at = "proxying" => l \in openProxies'
    <3>1. ASSUME NEW l \in Launches, progress'[l].at = "proxying" PROVE l \in openProxies'
      <4>1. progress[l].at = "proxying" /\ l \in openProxies BY <1>1, <2>1, <3>1 DEF ProxiesOK
      <4>2. gooseAcpProxy = Nothing BY <4>1 DEF AgentsOK, AtWork
      <4> QED BY <2>2, <4>1, <4>2
    <3> QED BY <3>1
  <2>6. \A c \in Calls : progress'[c].at = "closing" /\ progress'[c].proxy # Nothing =>
           progress'[progress'[c].proxy].at = "done" /\ progress'[c].proxy # gooseAcpProxy'
    <3>1. ASSUME NEW c \in Calls, progress'[c].at = "closing", progress'[c].proxy # Nothing
          PROVE  progress'[progress'[c].proxy].at = "done" /\ progress'[c].proxy # gooseAcpProxy'
      <4>1. progress'[c] = progress[c] BY <2>1, <3>1
      <4>2. progress[c].proxy \in Launches BY <3>1, <4>1 DEF SidecarShape, CallState
      <4> QED BY <1>1, <2>1, <3>1, <4>1, <4>2 DEF ProxiesOK
    <3> QED BY <3>1
  <2> QED BY <2>3, <2>4, <2>5, <2>6 DEF ProxiesOK
<1> QED BY <1>2, <1>3

\* Somebody takes over the agent and the proxy in use, to stop them.
LEMMA TakesOver ==
  ASSUME SidecarShape, AgentsOK, ProxiesOK, NEW c \in Calls, TakeOver, UNCHANGED <<process, openProxies>>,
         progress[c].at \in {"unused", "approving"},
         progress'[c].at = "closing", progress'[c].pid = gooseSidecar, progress'[c].proxy = gooseAcpProxy,
         \A d \in Calls : d # c => progress'[d] = progress[d]
  PROVE  AgentsOK' /\ ProxiesOK'
<1>1. Launches \subseteq Calls BY DEF Calls
<1>2. gooseSidecar' = Nothing /\ gooseAcpProxy' = Nothing /\ published' = NotPublished BY DEF TakeOver
<1>3. AgentsOK'
  <2>1. \A p \in Pids : gooseSidecar = p \/ Taken(p) => Taken(p)' BY DEF Taken
  <2>2. ASSUME NEW l \in Launches, progress'[l].at \in HasAgent PROVE progress'[l].pid \in Pids
    <3>1. l # c BY <2>2 DEF HasAgent
    <3> QED BY <1>1, <2>2, <3>1 DEF AgentsOK
  <2> QED BY <1>2, <2>1, <2>2 DEF AgentsOK
<1>4. ProxiesOK'
  <2>1. UrlIsCurrent'
    <3>1. ASSUME NEW l \in openProxies
          PROVE  \/ progress'[l].at = "proxying"
                 \/ \E d \in Calls : progress'[d].at = "closing" /\ progress'[d].proxy = l
      BY <1>1 DEF ProxiesOK, UrlIsCurrent, SidecarShape
    <3> QED BY <1>2, <3>1 DEF UrlIsCurrent
  <2>2. \A l \in Launches : progress'[l].at = "proxying" => l \in openProxies'
    BY <1>1 DEF ProxiesOK
  <2>3. ASSUME NEW d \in Calls, progress'[d].at = "closing", progress'[d].proxy # Nothing
        PROVE  progress'[progress'[d].proxy].at = "done" /\ progress'[d].proxy # gooseAcpProxy'
    <3>1. progress'[d].proxy \in Launches /\ progress[progress'[d].proxy].at = "done"
      BY <2>3 DEF ProxiesOK, SidecarShape, CallState
    <3> QED BY <1>1, <1>2, <2>3, <3>1
  <2> QED BY <1>2, <2>1, <2>2, <2>3 DEF ProxiesOK
<1> QED BY <1>3, <1>4

-----------------------------------------------------------------------------
LEMMA LaunchMoves ==
  ASSUME SidecarInv, NEW l \in Launches,
         Enter(l) \/ Compare(l) \/ MintFails(l) \/ SaveRecord(l)
  PROVE  SidecarInv'
<1> USE DEF SidecarInv
<1>1. l \in Calls /\ l \notin Stops BY SidecarAssumption DEF Calls
<1>2. CASE Enter(l)
  <2> DEFINE s == IF Uninterrupted(l) THEN "approving" ELSE "failed"
  <2>1. /\ progress[l].at = "queued" /\ Up /\ \A c \in progress[l].waits : CallEnded(c)
        /\ Goto(l, s) /\ s \in {"approving", "failed"} /\ s \in SidecarSteps
        /\ UNCHANGED <<app, generation, tail, gooseSidecar, gooseAcpProxy, published, process, openProxies,
                       abandoned, killedOther>>
    BY <1>2 DEF Enter, At, SidecarSteps
  <2> HIDE DEF s
  <2>2. MovesTo(l, s) /\ progress'[l].pid = progress[l].pid BY <1>1, <2>1, GoesTo
  <2>3. SidecarShape' BY <2>1, <2>2 DEF SidecarShape, MovesTo
  <2>4. QueueOK' BY <2>1, <2>2, QueueEnters
  <2>5. AgentsOK' /\ ProxiesOK' BY <1>1, <2>1, <2>2, PlainMove DEF Emptied
  <2> QED BY <2>1, <2>3, <2>4, <2>5, AbandonedUp
<1>3. CASE MintFails(l)
  <2>1. /\ progress[l].at = "minting" /\ Up /\ Goto(l, "failed") /\ "failed" \in SidecarSteps
        /\ UNCHANGED <<app, generation, tail, gooseSidecar, gooseAcpProxy, published, process, openProxies,
                       abandoned, killedOther>>
    BY <1>3 DEF MintFails, At, SidecarSteps
  <2>2. MovesTo(l, "failed") /\ progress'[l].pid = progress[l].pid BY <1>1, <2>1, GoesTo
  <2>3. SidecarShape' BY <2>1, <2>2 DEF SidecarShape, MovesTo
  <2>4. QueueOK' BY <1>1, <2>1, <2>2, QueueMoves DEF AtWork
  <2>5. AgentsOK' /\ ProxiesOK' BY <1>1, <2>1, <2>2, PlainMove DEF Emptied
  <2> QED BY <2>1, <2>3, <2>4, <2>5, AbandonedUp
<1>4. CASE SaveRecord(l)
  <2>1. /\ progress[l].at = "saving" /\ Up /\ Goto(l, "waiting") /\ "waiting" \in SidecarSteps
        /\ UNCHANGED <<app, generation, tail, gooseSidecar, gooseAcpProxy, published, process, openProxies,
                       abandoned, killedOther>>
    BY <1>4 DEF SaveRecord, At, SidecarSteps
  <2>2. MovesTo(l, "waiting") /\ progress'[l].pid = progress[l].pid BY <1>1, <2>1, GoesTo
  <2>3. SidecarShape' BY <2>1, <2>2 DEF SidecarShape, MovesTo
  <2>4. QueueOK' BY <1>1, <2>1, <2>2, QueueMoves DEF AtWork
  <2>5. published = NotPublished /\ gooseAcpProxy = Nothing /\ progress[l].pid \in Pids
    BY <2>1 DEF AgentsOK, AtWork, HasAgent
  <2>6. AgentsOK' /\ ProxiesOK' BY <1>1, <2>1, <2>2, <2>5, PlainMove DEF Emptied
  <2> QED BY <2>1, <2>3, <2>4, <2>6, AbandonedUp
<1>5. CASE Compare(l)
  <2>1. /\ progress[l].at = "approving" /\ Up
        /\ UNCHANGED <<app, generation, tail, process, openProxies, abandoned, killedOther>>
    BY <1>5 DEF Compare, At
  <2>2. ASSUME NEW s \in {"failed", "done", "minting"}, Goto(l, s),
               UNCHANGED <<gooseSidecar, gooseAcpProxy, published>>,
               s = "minting" => gooseSidecar = Nothing /\ gooseAcpProxy = Nothing
        PROVE  SidecarInv'
    <3>1. s \in SidecarSteps BY DEF SidecarSteps
    <3>2. MovesTo(l, s) /\ progress'[l].pid = progress[l].pid BY <1>1, <2>2, <3>1, GoesTo
    <3>3. SidecarShape' BY <2>1, <2>2, <3>2 DEF SidecarShape, MovesTo
    <3>4. QueueOK' BY <1>1, <2>1, <2>2, <3>1, <3>2, QueueMoves DEF AtWork
    <3>5. s = "minting" => published = NotPublished BY <2>2 DEF ProxiesOK, UrlIsCurrent
    <3>6. AgentsOK' /\ ProxiesOK' BY <1>1, <2>1, <2>2, <3>1, <3>2, <3>5, PlainMove DEF Emptied
    <3> QED BY <2>1, <3>3, <3>4, <3>6, AbandonedUp
  <2>3. ASSUME progress' = [progress EXCEPT ![l].at = "closing", ![l].pid = gooseSidecar, ![l].proxy = gooseAcpProxy],
               TakeOver
        PROVE  SidecarInv'
    <3> DEFINE row == [progress[l] EXCEPT !.at = "closing", !.pid = gooseSidecar, !.proxy = gooseAcpProxy]
    <3>1. progress' = [progress EXCEPT ![l] = row] BY <2>3
    <3>2. progress[l] \in CallState BY <1>1 DEF SidecarShape
    <3>3. /\ row \in CallState /\ row.at = "closing" /\ row.generation = progress[l].generation
          /\ row.waits = progress[l].waits /\ row.pid = gooseSidecar /\ row.proxy = gooseAcpProxy
      BY <3>2 DEF CallState, SidecarSteps, SidecarShape
    <3> HIDE DEF row
    <3>4. \A d \in Calls : progress'[d] = IF d = l THEN row ELSE progress[d] BY <3>1 DEF SidecarShape
    <3>5. progress' \in [Calls -> CallState] BY <3>1, <3>3 DEF SidecarShape
    <3>6. MovesTo(l, "closing") BY <1>1, <3>3, <3>4, <3>5 DEF MovesTo, SidecarShape, Calls
    <3>7. SidecarShape' BY <2>1, <2>3, <3>6 DEF SidecarShape, MovesTo, TakeOver
    <3>8. QueueOK' BY <1>1, <2>1, <3>6, QueueMoves DEF AtWork, SidecarSteps
    <3>9. AgentsOK' /\ ProxiesOK' BY <1>1, <2>1, <2>3, <3>3, <3>4, TakesOver
    <3> QED BY <2>1, <3>7, <3>8, <3>9, AbandonedUp
  <2> QED BY <1>5, <2>2, <2>3 DEF Compare
<1> QED BY <1>2, <1>3, <1>4, <1>5

LEMMA StopMoves ==
  ASSUME SidecarInv, NEW c \in Calls, CloseProxy(c) \/ TerminateTaken(c) \/ ClearRecord(c)
  PROVE  SidecarInv'
<1> USE DEF SidecarInv
<1>1. Launches \subseteq Calls BY DEF Calls
<1>2. CASE CloseProxy(c)
  <2>1. /\ progress[c].at = "closing" /\ Up /\ Goto(c, "terminating")
        /\ "terminating" \in SidecarSteps \cap StopSteps
        /\ openProxies' = openProxies \ {progress[c].proxy}
        /\ UNCHANGED <<app, generation, tail, gooseSidecar, gooseAcpProxy, published, process,
                       abandoned, killedOther>>
    BY <1>2 DEF CloseProxy, At, SidecarSteps, StopSteps
  <2>2. MovesTo(c, "terminating") /\ progress'[c].pid = progress[c].pid BY <2>1, GoesTo
  <2>3. SidecarShape' BY <2>1, <2>2 DEF SidecarShape, MovesTo
  <2>4. QueueOK' BY <2>1, <2>2, QueueMoves DEF AtWork
  <2>5. progress'[c].at = "terminating" /\ \A d \in Calls : d # c => progress'[d] = progress[d]
    BY <2>2 DEF MovesTo
  <2>6. AgentsOK'
    <3>1. \A p \in Pids : Taken(p) => Taken(p)' BY <2>1, <2>2, <2>5 DEF Taken
    <3>2. ASSUME NEW l \in Launches
          PROVE  /\ progress'[l].at \in Emptied => gooseSidecar' = Nothing
                 /\ AtWork(l)' /\ progress'[l].at # "approving" => published' = NotPublished /\ gooseAcpProxy' = Nothing
                 /\ progress'[l].at \in HasAgent => progress'[l].pid \in Pids
      <4>1. CASE l = c BY <2>1, <2>5, <4>1 DEF AgentsOK, AtWork, HasAgent, Emptied
      <4>2. CASE l # c
        <5>1. progress'[l] = progress[l] BY <1>1, <2>5, <4>2
        <5> QED BY <2>1, <5>1 DEF AgentsOK, AtWork
      <4> QED BY <4>1, <4>2
    <3> QED BY <2>1, <3>1, <3>2 DEF AgentsOK
  <2>7. ProxiesOK'
    <3>1. progress[c].proxy \in Launches \cup {Nothing} BY DEF SidecarShape, CallState
    <3>2. UrlIsCurrent'
      <4>1. ASSUME NEW l \in openProxies'
            PROVE  \/ gooseAcpProxy = l \/ progress'[l].at = "proxying"
                   \/ \E d \in Calls : progress'[d].at = "closing" /\ progress'[d].proxy = l
        BY <1>1, <2>1, <2>5 DEF ProxiesOK, UrlIsCurrent, SidecarShape
      <4>2. published # NotPublished => gooseAcpProxy \in openProxies'
        <5>1. published # NotPublished => gooseAcpProxy \in openProxies BY DEF ProxiesOK, UrlIsCurrent
        <5>2. openProxies \subseteq Launches /\ Nothing \notin Launches BY SidecarAssumption DEF SidecarShape
        <5> QED BY <2>1, <3>1, <5>1, <5>2 DEF ProxiesOK
      <4> QED BY <2>1, <4>1, <4>2 DEF ProxiesOK, UrlIsCurrent
    <3>3. ASSUME NEW l \in Launches, progress'[l].at = "proxying" PROVE l \in openProxies'
      <4>1. progress[l].at = "proxying" /\ l \in openProxies BY <1>1, <2>5, <3>3 DEF ProxiesOK
      <4>2. progress[c].proxy # l BY <2>1, <3>1, <4>1, SidecarAssumption DEF ProxiesOK
      <4> QED BY <2>1, <4>1, <4>2
    <3>4. ASSUME NEW d \in Calls, progress'[d].at = "closing", progress'[d].proxy # Nothing
          PROVE  progress'[progress'[d].proxy].at = "done" /\ progress'[d].proxy # gooseAcpProxy'
      <4>1. progress'[d] = progress[d] BY <2>5, <3>4
      <4>2. progress[d].proxy \in Launches BY <3>4, <4>1 DEF SidecarShape, CallState
      <4> QED BY <1>1, <2>1, <2>5, <3>4, <4>1, <4>2 DEF ProxiesOK
    <3>5. gooseAcpProxy' # Nothing => progress'[gooseAcpProxy'].at = "done"
      BY <1>1, <2>1, <2>5 DEF ProxiesOK, SidecarShape
    <3> QED BY <3>2, <3>3, <3>4, <3>5 DEF ProxiesOK
  <2> QED BY <2>1, <2>3, <2>4, <2>6, <2>7, AbandonedUp
<1>3. CASE TerminateTaken(c)
  <2>1. /\ progress[c].at = "terminating" /\ Up /\ Goto(c, "clearing")
        /\ "clearing" \in SidecarSteps \cap StopSteps
        /\ Terminate(progress[c].pid)
        /\ UNCHANGED <<app, generation, tail, abandoned, killedOther>>
    BY <1>3 DEF TerminateTaken, At, SidecarSteps, StopSteps
  <2>2. MovesTo(c, "clearing") /\ progress'[c].pid = progress[c].pid BY <2>1, GoesTo
  <2>3. QueueOK' BY <2>1, <2>2, QueueMoves DEF AtWork
  <2>4. progress'[c].at = "clearing" /\ \A d \in Calls : d # c => progress'[d] = progress[d]
    BY <2>2 DEF MovesTo
  <2>5. progress[c].pid \in Pids \cup {Nothing} BY DEF SidecarShape, CallState
  <2>6. CASE progress[c].pid # Nothing /\ process[progress[c].pid] = "agent"
    <3>1. Exited(progress[c].pid) /\ progress[c].pid \in Pids BY <2>1, <2>5, <2>6 DEF Terminate
    <3>2. /\ process' \in [Pids -> {"free", "agent", "other", "orphan"}]
          /\ \A q \in Pids : process'[q] # "agent"
          /\ published' = NotPublished /\ gooseSidecar' \in {gooseSidecar, Nothing}
          /\ \/ gooseAcpProxy' = Nothing /\ openProxies' = openProxies \ {gooseAcpProxy}
             \/ UNCHANGED <<gooseAcpProxy, openProxies>>
      BY <2>6, <3>1, ExitLeaves
    <3>3. \A d \in Calls : \/ progress'[d] = progress[d]
                           \/ progress[d].at = "terminating" /\ progress'[d].at = "clearing"
      BY <2>1, <2>4
    <3>4. AgentsOK' /\ ProxiesOK' BY <3>2, <3>3, AfterExit
    <3>5. SidecarShape' BY <2>1, <2>2, <3>2 DEF SidecarShape, MovesTo
    <3> QED BY <2>1, <2>3, <3>4, <3>5, AbandonedUp
  <2>7. CASE ~(progress[c].pid # Nothing /\ process[progress[c].pid] = "agent")
    <3>1. UNCHANGED <<process, gooseSidecar, gooseAcpProxy, published, openProxies>>
      BY <2>1, <2>7 DEF Terminate
    <3>2. SidecarShape' BY <2>1, <2>2, <3>1 DEF SidecarShape, MovesTo
    <3>3. AgentsOK'
      <4>1. \A p \in Pids : process[p] = "agent" /\ Taken(p) => Taken(p)'
        BY <2>4, <2>7, SidecarAssumption DEF Taken
      <4>2. ASSUME NEW l \in Launches
            PROVE  /\ progress'[l].at \in Emptied => gooseSidecar' = Nothing
                   /\ AtWork(l)' /\ progress'[l].at # "approving" => published' = NotPublished /\ gooseAcpProxy' = Nothing
                   /\ progress'[l].at \in HasAgent => progress'[l].pid \in Pids
        <5>1. CASE l = c BY <2>1, <2>4, <3>1, <5>1 DEF AgentsOK, AtWork, HasAgent, Emptied
        <5>2. CASE l # c
          <6>1. progress'[l] = progress[l] BY <1>1, <2>4, <5>2
          <6> QED BY <3>1, <6>1 DEF AgentsOK, AtWork
        <5> QED BY <5>1, <5>2
      <4> QED BY <3>1, <4>1, <4>2 DEF AgentsOK
    <3>4. ProxiesOK'
      <4>1. UrlIsCurrent'
        <5>1. ASSUME NEW l \in openProxies
              PROVE  \/ gooseAcpProxy = l \/ progress'[l].at = "proxying"
                     \/ \E d \in Calls : progress'[d].at = "closing" /\ progress'[d].proxy = l
          BY <1>1, <2>1, <2>4 DEF ProxiesOK, UrlIsCurrent, SidecarShape
        <5> QED BY <2>1, <3>1, <5>1 DEF ProxiesOK, UrlIsCurrent
      <4>2. \A d \in Calls : progress'[d].at = "closing" => progress'[d] = progress[d] BY <2>4
      <4>3. \A l \in Launches : /\ progress'[l].at = "proxying" => progress[l].at = "proxying"
                                /\ progress[l].at = "done" => progress'[l].at = "done"
        BY <1>1, <2>1, <2>4
      <4>4. \A d \in Calls : progress[d].proxy \in Launches \cup {Nothing} BY DEF SidecarShape, CallState
      <4>5. gooseAcpProxy \in Launches \cup {Nothing} BY DEF SidecarShape
      <4> QED BY <3>1, <4>1, <4>2, <4>3, <4>4, <4>5 DEF ProxiesOK
    <3> QED BY <2>1, <2>3, <3>2, <3>3, <3>4, AbandonedUp
  <2> QED BY <2>6, <2>7
<1>4. CASE ClearRecord(c)
  <2> DEFINE mine == progress[c].pid # Nothing /\ Names(progress[c].pid)
             s == IF progress[c].at = "clearing" /\ mine THEN "removing"
                  ELSE IF c \in Stops THEN "done" ELSE IF Uninterrupted(c) THEN "minting" ELSE "failed"
  <2>1. /\ progress[c].at \in {"clearing", "removing"} /\ Up /\ Goto(c, s)
        /\ s \in {"removing", "done", "minting", "failed"} /\ s \in SidecarSteps
        /\ c \in Stops => s \in StopSteps
        /\ UNCHANGED <<app, generation, tail, gooseSidecar, gooseAcpProxy, published, process, openProxies,
                       abandoned, killedOther>>
    BY <1>4 DEF ClearRecord, At, SidecarSteps, StopSteps
  <2> HIDE DEF s
  <2>2. MovesTo(c, s) /\ progress'[c].pid = progress[c].pid BY <2>1, GoesTo
  <2>3. SidecarShape' BY <2>1, <2>2 DEF SidecarShape, MovesTo
  <2>4. QueueOK' BY <2>1, <2>2, QueueMoves DEF AtWork
  <2>5. c \in Launches => gooseSidecar = Nothing /\ published = NotPublished /\ gooseAcpProxy = Nothing
    BY <2>1 DEF AgentsOK, AtWork, Emptied
  <2>6. AgentsOK' /\ ProxiesOK' BY <2>1, <2>2, <2>5, PlainMove
  <2> QED BY <2>1, <2>3, <2>4, <2>6, AbandonedUp
<1> QED BY <1>2, <1>3, <1>4

LEMMA LaunchRuns ==
  ASSUME SidecarInv,
         NEW l \in Launches,
         StartProxy(l) \/ Withdraw(l) \/ Drop(l) \/ Publish(l) \/ \E p \in Pids : Spawn(l, p)
  PROVE  SidecarInv'
<1> USE DEF SidecarInv
<1>1. l \in Calls /\ l \notin Stops /\ Launches \subseteq Calls /\ Nothing \notin Launches \cup Pids
  BY SidecarAssumption DEF Calls
<1>2. ASSUME NEW p \in Pids, Spawn(l, p) PROVE SidecarInv'
  <2> DEFINE row == [progress[l] EXCEPT !.at = "saving", !.pid = p]
  <2>1. /\ progress[l].at = "minting" /\ Up /\ Uninterrupted(l)
        /\ process' = [process EXCEPT ![p] = "agent"] /\ gooseSidecar' = p
        /\ UNCHANGED <<app, generation, tail, gooseAcpProxy, published, openProxies, abandoned, killedOther>>
    BY <1>2 DEF Spawn, At
  <2>2. progress' = [progress EXCEPT ![l] = row] BY <1>2, ZenonT(30) DEF Spawn, SidecarShape
  <2>3. progress[l] \in CallState BY <1>1 DEF SidecarShape
  <2>4. /\ row \in CallState /\ row.at = "saving" /\ row.generation = progress[l].generation
        /\ row.waits = progress[l].waits /\ row.pid = p
    BY <2>3 DEF CallState, SidecarSteps
  <2> HIDE DEF row
  <2>5. \A d \in Calls : progress'[d] = IF d = l THEN row ELSE progress[d] BY <2>2 DEF SidecarShape
  <2>6. progress' \in [Calls -> CallState] BY <2>2, <2>4 DEF SidecarShape
  <2>7. MovesTo(l, "saving") BY <1>1, <2>4, <2>5, <2>6 DEF MovesTo, SidecarShape, Calls
  <2>8. SidecarShape' BY <2>1, <2>7 DEF SidecarShape, MovesTo
  <2>9. QueueOK' BY <1>1, <2>1, <2>7, QueueMoves DEF AtWork, SidecarSteps
  <2>10. AtWork(l) /\ published = NotPublished /\ gooseAcpProxy = Nothing /\ gooseSidecar = Nothing
    BY <2>1 DEF AgentsOK, AtWork, Emptied
  <2>11. \A k \in Launches : AtWork(k) => k = l BY <2>10, OneAtWork
  <2>12. ASSUME NEW q \in Pids, process[q] = "agent" PROVE FALSE
    <3>1. Taken(q) BY <1>1, <2>10, <2>12 DEF AgentsOK
    <3>2. PICK c \in Calls : progress[c].at \in {"closing", "terminating"} BY <3>1 DEF Taken
    <3>3. AtWork(c) BY <3>2 DEF AtWork
    <3>4. c \notin Stops BY <2>1, <2>10, <3>3, NoStopAtWork
    <3> QED BY <2>1, <2>11, <3>2, <3>3, <3>4 DEF Calls
  <2>13. AgentsOK'
    <3>1. \A q \in Pids : process'[q] = "agent" => q = p BY <2>1, <2>12 DEF SidecarShape
    <3>2. ASSUME NEW k \in Launches
          PROVE  /\ progress'[k].at \in Emptied => FALSE
                 /\ AtWork(k)' /\ progress'[k].at # "approving" => published' = NotPublished /\ gooseAcpProxy' = Nothing
                 /\ progress'[k].at \in HasAgent => progress'[k].pid \in Pids
      <4>1. CASE k = l BY <1>1, <2>1, <2>4, <2>5, <2>10, <4>1 DEF Emptied
      <4>2. CASE k # l
        <5>1. progress'[k] = progress[k] /\ ~AtWork(k) BY <1>1, <2>5, <2>11, <4>2
        <5> QED BY <5>1 DEF AtWork, Emptied, HasAgent
      <4> QED BY <4>1, <4>2
    <3> QED BY <2>1, <3>1, <3>2 DEF AgentsOK
  <2>14. ProxiesOK'
    <3>1. \A d \in Calls : d # l => progress'[d] = progress[d] BY <2>5
    <3>2. UrlIsCurrent'
      <4>1. ASSUME NEW k \in openProxies
            PROVE  \/ gooseAcpProxy = k \/ progress'[k].at = "proxying"
                   \/ \E d \in Calls : progress'[d].at = "closing" /\ progress'[d].proxy = k
        BY <1>1, <2>1, <3>1 DEF ProxiesOK, UrlIsCurrent, SidecarShape
      <4> QED BY <2>1, <2>10, <4>1 DEF UrlIsCurrent
    <3>3. \A k \in Launches : progress'[k].at = "proxying" => k \in openProxies
      BY <1>1, <2>4, <2>5 DEF ProxiesOK
    <3>4. ASSUME NEW d \in Calls, progress'[d].at = "closing", progress'[d].proxy # Nothing
          PROVE  progress'[progress'[d].proxy].at = "done" /\ progress'[d].proxy # gooseAcpProxy'
      <4>1. progress'[d] = progress[d] BY <2>4, <2>5, <3>4
      <4>2. progress[d].proxy \in Launches BY <3>4, <4>1 DEF SidecarShape, CallState
      <4> QED BY <1>1, <2>1, <3>1, <3>4, <4>1, <4>2 DEF ProxiesOK
    <3> QED BY <2>1, <2>10, <3>2, <3>3, <3>4 DEF ProxiesOK
  <2> QED BY <2>1, <2>8, <2>9, <2>13, <2>14, AbandonedUp
<1>3. ASSUME NEW s \in {"proxying", "dropping", "failed", "done"}, progress[l].at \in {"saving", "waiting", "proxying"},
             Up, Goto(l, s), UNCHANGED <<app, generation, tail, gooseSidecar, process, abandoned, killedOther>>,
             \/ s = "proxying" /\ openProxies' = openProxies \cup {l} /\ UNCHANGED <<gooseAcpProxy, published>>
             \/ s \in {"dropping", "failed"} /\ openProxies' = openProxies \ {l} /\ UNCHANGED <<gooseAcpProxy, published>>
             \/ /\ s = "done" /\ progress[l].at = "proxying" /\ Mine(l) /\ gooseAcpProxy' = l
                /\ published'.generation = generation /\ UNCHANGED openProxies
      PROVE  SidecarInv'
  <2>1. s \in SidecarSteps BY DEF SidecarSteps
  <2>2. MovesTo(l, s) /\ progress'[l].pid = progress[l].pid BY <1>1, <1>3, <2>1, GoesTo
  <2>3. SidecarShape' BY <1>1, <1>3, <2>2 DEF SidecarShape, MovesTo
  <2>4. QueueOK' BY <1>1, <1>3, <2>1, <2>2, QueueMoves DEF AtWork
  <2>5. AtWork(l) /\ published = NotPublished /\ gooseAcpProxy = Nothing /\ progress[l].pid \in Pids
    BY <1>3 DEF AgentsOK, AtWork, HasAgent
  <2>6. \A k \in Launches : AtWork(k) => k = l BY <2>5, OneAtWork
  <2>7. progress'[l].at = s /\ \A d \in Calls : d # l => progress'[d] = progress[d] BY <2>2 DEF MovesTo
  <2>8. AgentsOK'
    <3>1. \A p \in Pids : Taken(p) => Taken(p)' BY <1>3, <2>7 DEF Taken
    <3>2. ASSUME NEW k \in Launches
          PROVE  /\ progress'[k].at \in Emptied => gooseSidecar' = Nothing
                 /\ AtWork(k)' /\ progress'[k].at # "approving" => published' = NotPublished /\ gooseAcpProxy' = Nothing
                 /\ progress'[k].at \in HasAgent => progress'[k].pid \in Pids
      <4>1. CASE k = l BY <1>3, <2>2, <2>5, <2>7, <4>1 DEF Emptied, AtWork
      <4>2. CASE k # l
        <5>1. progress'[k] = progress[k] /\ ~AtWork(k) BY <1>1, <2>6, <2>7, <4>2
        <5> QED BY <5>1 DEF AtWork, Emptied, HasAgent
      <4> QED BY <4>1, <4>2
    <3> QED BY <1>3, <3>1, <3>2 DEF AgentsOK
  <2>9. ProxiesOK'
    <3>1. ASSUME NEW k \in openProxies'
          PROVE  \/ gooseAcpProxy' = k \/ progress'[k].at = "proxying"
                 \/ \E d \in Calls : progress'[d].at = "closing" /\ progress'[d].proxy = k
      <4>1. CASE k = l BY <1>3, <2>7, <4>1
      <4>2. CASE k # l
        <5>1. k \in openProxies /\ k \in Calls /\ k # Nothing BY <1>1, <1>3, <4>2 DEF SidecarShape
        <5>2. \/ progress[k].at = "proxying" \/ \E d \in Calls : progress[d].at = "closing" /\ progress[d].proxy = k
          BY <2>5, <5>1 DEF ProxiesOK, UrlIsCurrent
        <5> QED BY <1>3, <2>7, <4>2, <5>1, <5>2
      <4> QED BY <4>1, <4>2
    <3>2. ASSUME s = "done" PROVE gooseSidecar # Nothing /\ process[gooseSidecar] = "agent" /\ l \in openProxies
      BY <1>1, <1>3, <2>5, <3>2 DEF Mine, ProxiesOK
    <3>3. UrlIsCurrent'
      <4>1. CASE s = "done" BY <1>3, <3>1, <3>2, <4>1 DEF UrlIsCurrent
      <4>2. CASE s # "done" BY <1>3, <2>5, <3>1, <4>2 DEF UrlIsCurrent
      <4> QED BY <4>1, <4>2
    <3>4. gooseAcpProxy' # Nothing => progress'[gooseAcpProxy'].at = "done" BY <1>3, <2>5, <2>7
    <3>5. ASSUME NEW k \in Launches, progress'[k].at = "proxying" PROVE k \in openProxies'
      <4>1. CASE k = l BY <1>3, <2>7, <3>5, <4>1
      <4>2. CASE k # l BY <1>1, <1>3, <2>7, <3>5, <4>2 DEF ProxiesOK
      <4> QED BY <4>1, <4>2
    <3>6. ASSUME NEW d \in Calls, progress'[d].at = "closing", progress'[d].proxy # Nothing
          PROVE  progress'[progress'[d].proxy].at = "done" /\ progress'[d].proxy # gooseAcpProxy'
      <4>1. progress'[d] = progress[d] BY <1>3, <2>7, <3>6
      <4>2. progress[d].proxy \in Launches BY <3>6, <4>1 DEF SidecarShape, CallState
      <4>3. progress[progress[d].proxy].at = "done" BY <3>6, <4>1 DEF ProxiesOK
      <4> QED BY <1>1, <1>3, <2>5, <2>7, <4>1, <4>2, <4>3
    <3> QED BY <3>3, <3>4, <3>5, <3>6 DEF ProxiesOK
  <2> QED BY <1>3, <2>3, <2>4, <2>8, <2>9, AbandonedUp
<1>4. CASE StartProxy(l) BY <1>3, <1>4 DEF StartProxy, At
<1>5. CASE Withdraw(l)
  <2>1. progress[l].at \in {"saving", "waiting", "proxying"} /\ Up BY <1>5 DEF Withdraw, At
  <2>2. Goto(l, "dropping") BY <1>5 DEF Withdraw, Goto
  <2> QED BY <1>3, <1>5, <2>1, <2>2 DEF Withdraw
<1>6. CASE Publish(l)
  <2>1. progress[l].at = "proxying" /\ Up BY <1>6 DEF Publish, At
  <2>2. CASE Mine(l) BY <1>3, <1>6, <2>1, <2>2 DEF Publish
  <2>3. CASE ~Mine(l) BY <1>3, <1>6, <2>1, <2>3 DEF Publish
  <2> QED BY <2>2, <2>3
<1>7. CASE Drop(l)
  <2>1. /\ progress[l].at = "dropping" /\ Up /\ Goto(l, "failed") /\ "failed" \in SidecarSteps
        /\ Terminate(progress[l].pid)
        /\ UNCHANGED <<app, generation, tail, abandoned, killedOther>>
    BY <1>7 DEF Drop, At, SidecarSteps
  <2>2. MovesTo(l, "failed") /\ progress'[l].pid = progress[l].pid BY <1>1, <2>1, GoesTo
  <2>3. QueueOK' BY <1>1, <2>1, <2>2, QueueMoves DEF AtWork
  <2>4. progress'[l].at = "failed" /\ \A d \in Calls : d # l => progress'[d] = progress[d]
    BY <2>2 DEF MovesTo
  <2>5. progress[l].pid \in Pids BY <2>1 DEF AgentsOK, HasAgent
  <2>6. CASE process[progress[l].pid] = "agent"
    <3>1. Exited(progress[l].pid) BY <1>1, <2>1, <2>5, <2>6 DEF Terminate
    <3>2. /\ process' \in [Pids -> {"free", "agent", "other", "orphan"}]
          /\ \A q \in Pids : process'[q] # "agent"
          /\ published' = NotPublished /\ gooseSidecar' \in {gooseSidecar, Nothing}
          /\ \/ gooseAcpProxy' = Nothing /\ openProxies' = openProxies \ {gooseAcpProxy}
             \/ UNCHANGED <<gooseAcpProxy, openProxies>>
      BY <2>5, <2>6, <3>1, ExitLeaves
    <3>3. \A d \in Calls : \/ progress'[d] = progress[d]
                           \/ progress[d].at = "dropping" /\ progress'[d].at = "failed"
      BY <2>1, <2>4
    <3>4. AgentsOK' /\ ProxiesOK' BY <3>2, <3>3, AfterExit
    <3>5. SidecarShape' BY <2>1, <2>2, <3>2 DEF SidecarShape, MovesTo
    <3> QED BY <2>1, <2>3, <3>4, <3>5, AbandonedUp
  <2>7. CASE process[progress[l].pid] # "agent"
    <3>1. UNCHANGED <<process, gooseSidecar, gooseAcpProxy, published, openProxies>>
      BY <2>1, <2>7 DEF Terminate
    <3>2. SidecarShape' BY <2>1, <2>2, <3>1 DEF SidecarShape, MovesTo
    <3>3. AgentsOK' /\ ProxiesOK' BY <1>1, <2>1, <2>2, <3>1, PlainMove DEF Emptied
    <3> QED BY <2>1, <2>3, <3>2, <3>3, AbandonedUp
  <2> QED BY <2>6, <2>7
<1> QED BY <1>2, <1>4, <1>5, <1>6, <1>7

\* Calls begin.
LEMMA CallBegins ==
  ASSUME SidecarInv, (\E l \in Launches, k \in Keys : run(l, k)) \/ \E s \in Stops : invalidate(s)
  PROVE  SidecarInv'
<1> USE DEF SidecarInv
<1>1. Launches \subseteq Calls /\ Stops \subseteq Calls BY DEF Calls
<1>2. ASSUME NEW l \in Launches, NEW k \in Keys, run(l, k) PROVE SidecarInv'
  <2>1. SidecarShape' /\ QueueOK' BY <1>2, QueueRuns
  <2>2. /\ progress[l].at = "unused" /\ Up
        /\ UNCHANGED <<app, generation, process, gooseSidecar, gooseAcpProxy, published, openProxies,
                       abandoned, killedOther>>
    BY <1>2 DEF run
  <2>3. progress'[l].at = "queued" BY <1>1, <1>2 DEF run, SidecarShape, Unused
  <2>4. \A d \in Calls : d # l => progress'[d] = progress[d] BY <1>1, <1>2 DEF run, SidecarShape
  <2>5. AgentsOK'
    <3>1. \A p \in Pids : Taken(p) => Taken(p)' BY <2>2, <2>4 DEF Taken
    <3>2. ASSUME NEW j \in Launches
          PROVE  /\ progress'[j].at \in Emptied => gooseSidecar' = Nothing
                 /\ AtWork(j)' /\ progress'[j].at # "approving" => published' = NotPublished /\ gooseAcpProxy' = Nothing
                 /\ progress'[j].at \in HasAgent => progress'[j].pid \in Pids
      <4>1. CASE j = l BY <2>3, <4>1 DEF AtWork, Emptied, HasAgent
      <4>2. CASE j # l
        <5>1. progress'[j] = progress[j] BY <1>1, <2>4, <4>2
        <5> QED BY <2>2, <5>1 DEF AgentsOK, AtWork
      <4> QED BY <4>1, <4>2
    <3> QED BY <2>2, <3>1, <3>2 DEF AgentsOK
  <2>6. ProxiesOK'
    <3>1. UrlIsCurrent'
      <4>1. ASSUME NEW j \in openProxies
            PROVE  \/ gooseAcpProxy = j \/ progress'[j].at = "proxying"
                   \/ \E d \in Calls : progress'[d].at = "closing" /\ progress'[d].proxy = j
        BY <1>1, <2>2, <2>4 DEF ProxiesOK, UrlIsCurrent, SidecarShape
      <4> QED BY <2>2, <4>1 DEF ProxiesOK, UrlIsCurrent
    <3>2. \A d \in Calls : progress'[d].at = "closing" => progress'[d] = progress[d] BY <2>3, <2>4
    <3>3. \A j \in Launches : /\ progress'[j].at = "proxying" => progress[j].at = "proxying"
                              /\ progress[j].at = "done" => progress'[j].at = "done"
      BY <1>1, <2>2, <2>3, <2>4
    <3>4. \A d \in Calls : progress[d].proxy \in Launches \cup {Nothing} BY DEF SidecarShape, CallState
    <3>5. gooseAcpProxy \in Launches \cup {Nothing} BY DEF SidecarShape
    <3> QED BY <2>2, <3>1, <3>2, <3>3, <3>4, <3>5 DEF ProxiesOK
  <2> QED BY <2>1, <2>2, <2>5, <2>6, AbandonedUp
<1>3. ASSUME NEW s \in Stops, invalidate(s) PROVE SidecarInv'
  <2> DEFINE row == [Unused EXCEPT !.at = "closing", !.pid = gooseSidecar, !.proxy = gooseAcpProxy]
  <2>1. SidecarShape' /\ QueueOK' BY <1>3, QueueInvalidates
  <2>2. /\ progress[s].at = "unused" /\ Up /\ TakeOver
        /\ UNCHANGED <<app, process, openProxies, abandoned, killedOther>>
        /\ progress' = [progress EXCEPT ![s] = row]
    BY <1>3 DEF invalidate
  <2>3. row.at = "closing" /\ row.pid = gooseSidecar /\ row.proxy = gooseAcpProxy BY DEF Unused
  <2> HIDE DEF row
  <2>4. progress'[s] = row /\ \A d \in Calls : d # s => progress'[d] = progress[d]
    BY <1>1, <2>2 DEF SidecarShape
  <2>5. AgentsOK' /\ ProxiesOK' BY <1>1, <2>2, <2>3, <2>4, TakesOver
  <2> QED BY <2>1, <2>2, <2>5, AbandonedUp
<1> QED BY <1>2, <1>3

\* Processes that are not started or stopped by a call, and the record.
LEMMA WorldMoves ==
  ASSUME SidecarInv,
         \/ \E p \in Pids : AgentExits(p) \/ OrphanExits(p) \/ OtherProgram(p)
         \/ \E w \in sweeps : Sweep(w)
  PROVE  SidecarInv'
<1> USE DEF SidecarInv
<1>1. ASSUME NEW p \in Pids, AgentExits(p) PROVE SidecarInv'
  <2>1. /\ Up /\ process[p] = "agent" /\ Exited(p)
        /\ UNCHANGED <<app, generation, tail, progress, abandoned, killedOther>>
    BY <1>1 DEF AgentExits
  <2>2. /\ process' \in [Pids -> {"free", "agent", "other", "orphan"}]
        /\ \A q \in Pids : process'[q] # "agent"
        /\ published' = NotPublished /\ gooseSidecar' \in {gooseSidecar, Nothing}
        /\ \/ gooseAcpProxy' = Nothing /\ openProxies' = openProxies \ {gooseAcpProxy}
           \/ UNCHANGED <<gooseAcpProxy, openProxies>>
    BY <2>1, ExitLeaves
  <2>3. AgentsOK' /\ ProxiesOK' BY <2>1, <2>2, AfterExit
  <2>4. SidecarShape' BY <2>1, <2>2 DEF SidecarShape
  <2> QED BY <2>1, <2>3, <2>4, QueueStays, AbandonedUp
<1>2. ASSUME NEW p \in Pids, NEW now \in {"free", "other"}, process[p] \in {"free", "other", "orphan"},
             process' = [process EXCEPT ![p] = now],
             UNCHANGED <<app, generation, tail, progress, gooseSidecar, gooseAcpProxy, published, openProxies,
                         record, killedOther>>,
             abandoned' \subseteq abandoned, process[p] = "orphan" => p \notin abandoned'
      PROVE  SidecarInv'
  <2>1. \A q \in Pids : /\ process'[q] = "agent" <=> process[q] = "agent"
                        /\ q # p => process'[q] = process[q]
    BY <1>2 DEF SidecarShape
  <2>2. SidecarShape' BY <1>2 DEF SidecarShape
  <2>3. AgentsOK'
    <3>1. \A q \in Pids : Taken(q) => Taken(q)' BY <1>2 DEF Taken
    <3> QED BY <1>2, <2>1, <3>1 DEF AgentsOK, AtWork
  <2>4. UrlIsCurrent'
    <3>1. published # NotPublished => process'[gooseSidecar] = "agent"
      BY <2>1 DEF ProxiesOK, UrlIsCurrent, SidecarShape
    <3> QED BY <1>2, <3>1 DEF ProxiesOK, UrlIsCurrent
  <2>5. ProxiesOK' BY <1>2, <2>4 DEF ProxiesOK
  <2>6. AbandonedOK' BY <1>2, <2>1 DEF AbandonedOK, AbandonedIsStopped, Up
  <2> QED BY <1>2, <2>2, <2>3, <2>5, <2>6, QueueStays
<1>3. ASSUME NEW p \in Pids, OrphanExits(p) PROVE SidecarInv' BY <1>2, <1>3 DEF OrphanExits
<1>4. ASSUME NEW p \in Pids, OtherProgram(p) PROVE SidecarInv'
  <2>1. process' = [process EXCEPT ![p] = IF process[p] = "free" THEN "other" ELSE "free"]
    BY <1>4 DEF OtherProgram
  <2> QED BY <1>2, <1>4, <2>1 DEF OtherProgram
<1>5. ASSUME NEW w \in sweeps, Sweep(w) PROVE SidecarInv'
  <2>1. /\ Up
        /\ UNCHANGED <<app, generation, tail, progress, gooseSidecar, gooseAcpProxy, published, process,
                       openProxies, abandoned, killedOther>>
    BY <1>5 DEF Sweep
  <2>2. SidecarShape' BY <2>1 DEF SidecarShape
  <2>3. AgentsOK' BY <2>1 DEF AgentsOK, Taken, AtWork
  <2>4. ProxiesOK' BY <2>1 DEF ProxiesOK, UrlIsCurrent
  <2> QED BY <2>1, <2>2, <2>3, <2>4, QueueStays, AbandonedUp
<1> QED BY <1>1, <1>3, <1>4, <1>5

\* COD Desktop ends and starts.
LEMMA AppMoves ==
  ASSUME SidecarInv, AppEnds \/ AppStarts \/ \E exists \in BOOLEAN : cleanupAbandonedGooseSidecar(exists)
  PROVE  SidecarInv'
<1> USE DEF SidecarInv
<1>1. CASE AppEnds
  <2>1. SidecarShape' /\ QueueOK' BY <1>1, QueueEnds
  <2>2. /\ progress' = [c \in Calls |-> Unused] /\ published' = NotPublished /\ gooseAcpProxy' = Nothing
        /\ openProxies' = {} /\ app' = [app EXCEPT !.state = "down"] /\ UNCHANGED <<record, killedOther>>
        /\ abandoned' = {p \in Pids : process'[p] = "orphan" /\ record.pid = p}
    BY <1>1 DEF AppEnds
  <2>3. \A c \in Calls : progress'[c].at = "unused" BY <2>2 DEF Unused
  <2>4. Launches \subseteq Calls BY DEF Calls
  <2>5. \A p \in Pids : process'[p] # "agent" BY <1>1 DEF AppEnds, SidecarShape
  <2>6. AgentsOK' BY <2>3, <2>4, <2>5 DEF AgentsOK, AtWork, Emptied, HasAgent
  <2>7. ProxiesOK' BY <2>2, <2>3, <2>4 DEF ProxiesOK, UrlIsCurrent
  <2>8. ~Up' BY <1>1, <2>2 DEF AppEnds, Up
  <2>9. AbandonedOK' BY <2>2, <2>8 DEF AbandonedOK, AbandonedIsStopped
  <2> QED BY <2>1, <2>6, <2>7, <2>9
<1>2. CASE AppStarts
  <2>1. /\ app'.state = "cleaning"
        /\ UNCHANGED <<generation, tail, progress, gooseSidecar, gooseAcpProxy, published, process,
                       openProxies, record, abandoned, killedOther>>
    BY <1>2 DEF AppStarts
  <2>2. SidecarShape' BY <2>1 DEF SidecarShape
  <2>3. AgentsOK' BY <2>1 DEF AgentsOK, Taken, AtWork
  <2>4. ProxiesOK' BY <2>1 DEF ProxiesOK, UrlIsCurrent
  <2>5. AbandonedOK' BY <2>1 DEF AbandonedOK, AbandonedIsStopped, Up
  <2> QED BY <2>1, <2>2, <2>3, <2>4, <2>5, QueueStays
<1>3. ASSUME NEW exists \in BOOLEAN, cleanupAbandonedGooseSidecar(exists) PROVE SidecarInv'
  <2>1. UNCHANGED <<generation, tail, progress, gooseSidecar, gooseAcpProxy, published, openProxies>>
    BY <1>3 DEF cleanupAbandonedGooseSidecar
  <2>2. /\ \/ UNCHANGED process
           \/ process' = [process EXCEPT ![record.pid] = "free"] /\ process[record.pid] = "orphan"
        /\ abandoned' = {} /\ ~killedOther'
    <3>1. CASE record = NoRecord \/ exists
      BY <1>3, <3>1 DEF cleanupAbandonedGooseSidecar, AbandonedOK, AbandonedIsStopped
    <3>2. CASE ~(record = NoRecord \/ exists)
      <4>1. ~killedOther /\ \A p \in abandoned : process[p] = "orphan" /\ record.pid = p
        BY DEF AbandonedOK, AbandonedIsStopped
      <4>2. CASE process[record.pid] # "free" /\ matchesOwnership(record.pid)
        <5>1. process[record.pid] = "orphan" BY <4>2 DEF matchesOwnership
        <5>2. /\ process' = [process EXCEPT ![record.pid] = "free"]
              /\ killedOther' = (killedOther \/ process[record.pid] = "other")
              /\ abandoned' = abandoned \ {record.pid}
          BY <1>3, <3>2, <4>2 DEF cleanupAbandonedGooseSidecar
        <5>3. abandoned' = {} BY <4>1, <5>2
        <5>4. ~(process[record.pid] = "other") BY <5>1
        <5>5. ~killedOther' BY <4>1, <5>2, <5>4
        <5> QED BY <5>1, <5>2, <5>3, <5>5
      <4>3. CASE ~(process[record.pid] # "free" /\ matchesOwnership(record.pid))
        <5>1. UNCHANGED <<process, killedOther, abandoned>>
          BY <1>3, <3>2, <4>3 DEF cleanupAbandonedGooseSidecar
        <5>2. abandoned = {} BY <4>1, <4>3 DEF matchesOwnership
        <5> QED BY <4>1, <5>1, <5>2
      <4> QED BY <4>2, <4>3
    <3> QED BY <3>1, <3>2
  <2>3. \A q \in Pids : process'[q] = "agent" <=> process[q] = "agent" BY <2>2 DEF SidecarShape
  <2>4. SidecarShape' BY <2>1, <2>2 DEF SidecarShape
  <2>5. AgentsOK' BY <2>1, <2>3 DEF AgentsOK, Taken, AtWork
  <2>6. UrlIsCurrent'
    <3>1. published # NotPublished => process'[gooseSidecar] = "agent"
      BY <2>3 DEF ProxiesOK, UrlIsCurrent, SidecarShape
    <3> QED BY <2>1, <3>1 DEF ProxiesOK, UrlIsCurrent
  <2>7. ProxiesOK' BY <2>1, <2>6 DEF ProxiesOK
  <2>8. AbandonedOK' BY <2>2 DEF AbandonedOK, AbandonedIsStopped
  <2> QED BY <2>1, <2>4, <2>5, <2>7, <2>8, QueueStays
<1> QED BY <1>1, <1>2, <1>3

\* One agent at a time, a URL that is that of the present launch, and no agent left
\* behind: goose-lifecycle.ts, goose-ownership.ts and main.ts of the desktop, with launches, stops, exits of
\* the agent and ends of COD Desktop in any order.
THEOREM SidecarIsSafe == SidecarSpec => []SidecarSafe
<1>1. SidecarInv /\ [SidecarNext]_sidecarVars => SidecarInv'
  <2> SUFFICES ASSUME SidecarInv, [SidecarNext]_sidecarVars PROVE SidecarInv' OBVIOUS
  <2>1. CASE UNCHANGED sidecarVars
    <3>1. SidecarShape' BY <2>1 DEF SidecarInv, SidecarShape, sidecarVars
    <3>2. QueueOK' BY <2>1, QueueStays DEF SidecarInv, sidecarVars
    <3>3. AgentsOK' BY <2>1 DEF SidecarInv, AgentsOK, Taken, AtWork, sidecarVars
    <3>4. ProxiesOK' BY <2>1 DEF SidecarInv, ProxiesOK, UrlIsCurrent, sidecarVars
    <3>5. AbandonedOK' BY <2>1 DEF SidecarInv, AbandonedOK, AbandonedIsStopped, Up, sidecarVars
    <3> QED BY <3>1, <3>2, <3>3, <3>4, <3>5 DEF SidecarInv
  <2> QED BY <2>1, LaunchMoves, StopMoves, LaunchRuns, CallBegins, WorldMoves, AppMoves DEF SidecarNext
<1>2. SidecarInv => SidecarSafe
  <2> SUFFICES ASSUME SidecarInv PROVE SidecarSafe OBVIOUS
  <2> DEFINE agents == {p \in Pids : process[p] = "agent"}
  <2>1. ASSUME agents # {} PROVE Cardinality(agents) = 1
    <3>1. PICK p \in Pids : process[p] = "agent" BY <2>1
    <3>2. agents = {p} BY <3>1 DEF SidecarInv, AgentsOK
    <3> HIDE DEF agents
    <3> QED BY <3>2, FS_Singleton
  <2>2. Cardinality(agents) <= 1
    <3>1. agents = {} => Cardinality(agents) = 0 BY FS_EmptySet
    <3> HIDE DEF agents
    <3> QED BY <2>1, <3>1
  <2> QED BY <2>2 DEF SidecarInv, SidecarSafe, OneAgent, ProxiesOK, AbandonedOK
<1> QED BY <1>1, <1>2, SidecarBegins, PTL DEF SidecarSpec

-----------------------------------------------------------------------------
(* ComputeOrders: an order is charged once, what its owner agreed to *)

Statuses == {"none"} \cup DOMAIN orderTransitions

OrderRow == [status : Statuses, charged : Nat, quote : Sums \cup {NoSum}, valid : BOOLEAN,
             key : MarketKeys \cup {NoMarketKey}, cancelKey : MarketKeys \cup {NoMarketKey}]

MarketShape ==
    /\ order \in [MarketOrders -> OrderRow]
    /\ hours \in Nat /\ charges \in Seq(MarketOrders \X Nat)
    /\ agreed \in [MarketOrders -> Nat \cup {NoSum}]

\* What an order can become once it has been charged; it never returns to the start.
Past == {"settled", "provisioning", "running", "completed", "action_required", "cancelled",
         "refund_pending", "refunded"}

\* The price of an order that can be settled, or become so without its owner, is the
\* one agreed to; a valid quote is the price.
PricesOK ==
    \A o \in MarketOrders :
        /\ order[o].status # "draft"
        /\ order[o].status \in {"reserved", "pending_settlement"} => agreed[o] = order[o].charged
        /\ order[o].valid => order[o].quote = order[o].charged

ChargesOK ==
    /\ \A i \in DOMAIN charges : order[charges[i][1]].status \in Past
    /\ ChargedAsAgreed

MarketInv == MarketShape /\ PricesOK /\ ChargesOK

LEMMA MarketBegins == MarketInit => MarketInv
<1> SUFFICES ASSUME MarketInit PROVE MarketInv OBVIOUS
<1>1. MarketShape
  <2>1. NoOrder \in OrderRow BY DEF NoOrder, OrderRow, Statuses
  <2> QED BY <2>1, MarketAssumption DEF MarketInit, MarketShape
<1>2. PricesOK BY DEF MarketInit, PricesOK, NoOrder
<1>3. DOMAIN charges = {} BY DEF MarketInit
<1>4. SumFunctionOnSet([i \in DOMAIN charges |-> charges[i][2]], DOMAIN charges) = 0 BY <1>3, SumEmpty
<1>5. ChargesOK BY <1>3, <1>4, MarketAssumption DEF MarketInit, ChargesOK, ChargedAsAgreed
<1> QED BY <1>1, <1>2, <1>5 DEF MarketInv

\* Where orders go, those that have been charged stay so.
LEMMA PastStays ==
  /\ \A s \in Past : orderTransitions[s] \subseteq Past
  /\ \A s \in DOMAIN orderTransitions : "draft" \notin orderTransitions[s] /\ orderTransitions[s] \subseteq Statuses
  /\ \A s \in DOMAIN orderTransitions :
        /\ "reserved" \in orderTransitions[s] => s = "draft"
        /\ "pending_settlement" \in orderTransitions[s] => s \in {"reserved", "quoted"}
BY DEF Past, orderTransitions, Statuses

\* A step that neither charges nor changes what a charged order was agreed at.
LEMMA NothingCharged ==
  ASSUME MarketInv, UNCHANGED <<hours, charges>>,
         \A o \in MarketOrders : order[o].status \in Past => order'[o].status \in Past /\ agreed'[o] = agreed[o]
  PROVE  ChargesOK'
<1>1. \A i \in DOMAIN charges : charges[i][1] \in MarketOrders BY DEF MarketInv, MarketShape
<1>2. \A i \in DOMAIN charges : order'[charges[i][1]].status \in Past /\ agreed'[charges[i][1]] = agreed[charges[i][1]]
  BY <1>1 DEF MarketInv, ChargesOK
<1> QED BY <1>2 DEF MarketInv, ChargesOK, ChargedAsAgreed

\* One order gets a new row.
LEMMA OneOrder ==
  ASSUME MarketInv, NEW o \in MarketOrders, NEW row \in OrderRow, order' = [order EXCEPT ![o] = row],
         NEW sum \in Nat \cup {NoSum}, agreed' = [agreed EXCEPT ![o] = sum],
         row.status # "draft",
         row.status \in {"reserved", "pending_settlement"} => sum = row.charged,
         row.valid => row.quote = row.charged
  PROVE  /\ order' \in [MarketOrders -> OrderRow] /\ agreed' \in [MarketOrders -> Nat \cup {NoSum}]
         /\ PricesOK'
         /\ order'[o] = row /\ agreed'[o] = sum
         /\ \A x \in MarketOrders : x # o => order'[x] = order[x] /\ agreed'[x] = agreed[x]
<1>1. \A x \in MarketOrders : /\ order'[x] = IF x = o THEN row ELSE order[x]
                             /\ agreed'[x] = IF x = o THEN sum ELSE agreed[x]
  BY DEF MarketInv, MarketShape
<1>2. order' \in [MarketOrders -> OrderRow] /\ agreed' \in [MarketOrders -> Nat \cup {NoSum}]
  BY DEF MarketInv, MarketShape
<1>3. PricesOK' BY <1>1 DEF MarketInv, PricesOK
<1> QED BY <1>1, <1>2, <1>3

\* The sum of a sequence's terms with one more term.
LEMMA NextTerm ==
  ASSUME NEW n \in Nat, NEW f, NEW h, \A i \in 1..n : f[i] \in Int /\ h[i] = f[i], h[n + 1] \in Int
  PROVE  SumFunctionOnSet(h, 1..(n + 1)) = SumFunctionOnSet(f, 1..n) + h[n + 1]
<1> SUFFICES ASSUME NEW S, NEW U, NEW p, S = 1..n, U = 1..(n + 1), p = n + 1
             PROVE  SumFunctionOnSet(h, U) = SumFunctionOnSet(f, S) + h[p]
  OBVIOUS
<1>1. U = S \cup {p} /\ p \notin S OBVIOUS
<1>2. IsFiniteSet(S) BY FS_Interval
<1>3. \A x \in S : f[x] \in Int OBVIOUS
<1>4. \A x \in S : h[x] = f[x] OBVIOUS
<1>5. h[p] \in Int OBVIOUS
<1> QED BY ONLY <1>1, <1>2, <1>3, <1>4, <1>5, SumInsert

LEMMA OwnerKeeps ==
  ASSUME MarketInv,
         \/ \E o \in MarketOrders, k \in MarketKeys, sum \in Sums, mode \in {"quote", "reservation", "instant"} :
               PlaceOrder(o, k, mode, sum)
         \/ \E o \in MarketOrders, accept \in BOOLEAN : DecideQuote(o, accept)
         \/ \E o \in MarketOrders, k \in MarketKeys : SettleOrder(o, k) \/ CancelOrder(o, k)
  PROVE  MarketInv'
<1>1. ASSUME NEW o \in MarketOrders, NEW k \in MarketKeys, NEW sum \in Sums,
             NEW mode \in {"quote", "reservation", "instant"}, PlaceOrder(o, k, mode, sum)
      PROVE  MarketInv'
  <2> DEFINE status == CASE mode = "quote" -> "pending_quote" [] mode = "reservation" -> "reserved"
                         [] mode = "instant" -> "pending_settlement"
             row == [NoOrder EXCEPT !.status = status, !.charged = sum, !.key = k]
             agreement == IF mode = "quote" THEN NoSum ELSE sum
  <2>1. /\ order' = [order EXCEPT ![o] = row] /\ agreed' = [agreed EXCEPT ![o] = agreement]
        /\ UNCHANGED <<hours, charges>> /\ order[o].status = "none"
    BY <1>1 DEF PlaceOrder, Ordered
  <2>2. sum \in Nat BY MarketAssumption
  <2>3. /\ row \in OrderRow /\ row.status = status /\ row.charged = sum /\ ~row.valid
        /\ status \in {"pending_quote", "reserved", "pending_settlement"}
        /\ status # "pending_quote" => mode # "quote"
    BY <2>2 DEF NoOrder, OrderRow, Statuses, orderTransitions
  <2>4. agreement \in Nat \cup {NoSum} BY <2>2
  <2>5. status # "pending_quote" => agreement = sum BY <2>3
  <2> HIDE DEF row, agreement, status
  <2>6. /\ order' \in [MarketOrders -> OrderRow] /\ agreed' \in [MarketOrders -> Nat \cup {NoSum}] /\ PricesOK'
        /\ \A x \in MarketOrders : x # o => order'[x] = order[x] /\ agreed'[x] = agreed[x]
    BY <1>1, <2>1, <2>3, <2>4, <2>5, OneOrder
  <2>7. ChargesOK' BY <1>1, <2>1, <2>6, NothingCharged DEF Past
  <2> QED BY <1>1, <2>1, <2>6, <2>7 DEF MarketInv, MarketShape
<1>2. ASSUME NEW o \in MarketOrders, NEW accept \in BOOLEAN, DecideQuote(o, accept) PROVE MarketInv'
  <2> DEFINE row == [order[o] EXCEPT !.status = IF accept THEN "pending_settlement" ELSE "cancelled"]
             agreement == IF accept THEN order[o].quote ELSE agreed[o]
  <2>1. /\ order' = [order EXCEPT ![o] = row] /\ agreed' = [agreed EXCEPT ![o] = agreement]
        /\ UNCHANGED <<hours, charges>> /\ order[o].status = "quoted" /\ order[o].valid
    BY <1>2 DEF DecideQuote, MarketInv, MarketShape
  <2>2. order[o] \in OrderRow /\ order[o].quote = order[o].charged /\ agreed[o] \in Nat \cup {NoSum}
    BY <2>1 DEF MarketInv, MarketShape, PricesOK
  <2>3. /\ row \in OrderRow /\ row.status \in {"pending_settlement", "cancelled"} /\ row.charged = order[o].charged
        /\ row.quote = order[o].quote /\ row.valid = order[o].valid
        /\ (row.status = "pending_settlement" => accept)
    BY <2>2 DEF OrderRow, Statuses, orderTransitions
  <2>4. agreement \in Nat \cup {NoSum} /\ (accept => agreement = order[o].charged)
    BY <2>2 DEF OrderRow
  <2> HIDE DEF row, agreement
  <2>5. /\ order' \in [MarketOrders -> OrderRow] /\ agreed' \in [MarketOrders -> Nat \cup {NoSum}] /\ PricesOK'
        /\ \A x \in MarketOrders : x # o => order'[x] = order[x] /\ agreed'[x] = agreed[x]
    BY <1>2, <2>1, <2>2, <2>3, <2>4, OneOrder
  <2>6. ChargesOK' BY <1>2, <2>1, <2>5, NothingCharged DEF Past
  <2> QED BY <1>2, <2>1, <2>5, <2>6 DEF MarketInv, MarketShape
<1>3. ASSUME NEW o \in MarketOrders, NEW k \in MarketKeys, CancelOrder(o, k) PROVE MarketInv'
  <2> DEFINE agreement == agreed[o]
             row == [order[o] EXCEPT !.status = "cancelled", !.cancelKey = k]
  <2>1. /\ order' = [order EXCEPT ![o] = row] /\ agreed' = [agreed EXCEPT ![o] = agreement]
        /\ UNCHANGED <<hours, charges, agreed>> /\ order[o].status \notin Past
    BY <1>3 DEF CancelOrder, MarketInv, MarketShape, Past
  <2>2. order[o] \in OrderRow /\ agreement \in Nat \cup {NoSum} /\ (order[o].valid => order[o].quote = order[o].charged)
    BY DEF MarketInv, MarketShape, PricesOK
  <2>3. /\ row \in OrderRow /\ row.status = "cancelled" /\ row.charged = order[o].charged
        /\ row.quote = order[o].quote /\ row.valid = order[o].valid
    BY <2>2 DEF OrderRow, Statuses, orderTransitions
  <2> HIDE DEF row, agreement
  <2>a. order' = [order EXCEPT ![o] = row] /\ agreed' = [agreed EXCEPT ![o] = agreement] BY <2>1
  <2>b. /\ row.status # "draft"
        /\ row.status \in {"reserved", "pending_settlement"} => agreement = row.charged
        /\ row.valid => row.quote = row.charged
    BY <2>2, <2>3
  <2>4. /\ order' \in [MarketOrders -> OrderRow] /\ agreed' \in [MarketOrders -> Nat \cup {NoSum}] /\ PricesOK'
        /\ \A x \in MarketOrders : x # o => order'[x] = order[x] /\ agreed'[x] = agreed[x]
    BY <1>3, <2>2, <2>3, <2>a, <2>b, OneOrder
  <2>5. ChargesOK' BY <1>3, <2>1, <2>4, NothingCharged
  <2> QED BY <1>3, <2>1, <2>4, <2>5 DEF MarketInv, MarketShape
<1>4. ASSUME NEW o \in MarketOrders, NEW k \in MarketKeys, SettleOrder(o, k) PROVE MarketInv'
  <2> DEFINE agreement == agreed[o]
             row == [order[o] EXCEPT !.status = "settled"]
             sum == order[o].charged
  <2>1. /\ order' = [order EXCEPT ![o] = row] /\ agreed' = [agreed EXCEPT ![o] = agreement] /\ UNCHANGED agreed
        /\ order[o].status = "pending_settlement" /\ order[o].status \notin Past
    BY <1>4 DEF SettleOrder, MarketInv, MarketShape, Past
  <2>2. /\ order[o] \in OrderRow /\ agreement \in Nat \cup {NoSum} /\ sum \in Nat /\ agreement = sum
        /\ (order[o].valid => order[o].quote = order[o].charged)
    BY <2>1 DEF MarketInv, MarketShape, PricesOK, OrderRow
  <2>3. /\ row \in OrderRow /\ row.status = "settled" /\ row.charged = sum /\ sum = order[o].charged
        /\ row.quote = order[o].quote /\ row.valid = order[o].valid
    BY <2>2 DEF OrderRow, Statuses, orderTransitions
  <2>4. \/ UNCHANGED <<hours, charges>>
        \/ sum <= hours /\ hours' = hours - sum /\ charges' = Append(charges, <<o, sum>>)
    BY <1>4 DEF SettleOrder, Charge
  <2> HIDE DEF row, agreement, sum
  <2>a. order' = [order EXCEPT ![o] = row] /\ agreed' = [agreed EXCEPT ![o] = agreement] BY <2>1
  <2>b. /\ row.status # "draft"
        /\ row.status \in {"reserved", "pending_settlement"} => agreement = row.charged
        /\ row.valid => row.quote = row.charged
    BY <2>2, <2>3
  <2>5. /\ order' \in [MarketOrders -> OrderRow] /\ agreed' \in [MarketOrders -> Nat \cup {NoSum}] /\ PricesOK'
        /\ order'[o] = row
        /\ \A x \in MarketOrders : x # o => order'[x] = order[x] /\ agreed'[x] = agreed[x]
    BY <1>4, <2>2, <2>3, <2>a, <2>b, OneOrder
  <2>6. CASE UNCHANGED <<hours, charges>>
    <3>1. ChargesOK' BY <1>4, <2>1, <2>5, <2>6, NothingCharged
    <3> QED BY <1>4, <2>5, <2>6, <3>1 DEF MarketInv, MarketShape
  <2>7. CASE sum <= hours /\ hours' = hours - sum /\ charges' = Append(charges, <<o, sum>>)
    <3> DEFINE n == Len(charges) + 1
               f == [i \in DOMAIN charges |-> charges[i][2]]
               h == [i \in DOMAIN charges' |-> charges'[i][2]]
               total == SumFunctionOnSet(f, DOMAIN charges)
    <3>2. /\ hours \in Nat /\ hours + total = Granted /\ charges \in Seq(MarketOrders \X Nat)
          /\ \A i \in DOMAIN charges : charges[i][1] \in MarketOrders /\ order[charges[i][1]].status \in Past
          /\ \A i \in DOMAIN charges : charges[i][2] = agreed[charges[i][1]]
          /\ \A i, j \in DOMAIN charges : charges[i][1] = charges[j][1] => i = j
      BY DEF MarketInv, MarketShape, ChargesOK, ChargedAsAgreed
    <3>a. /\ \A i \in DOMAIN charges : f[i] = charges[i][2]
          /\ \A i \in DOMAIN charges' : h[i] = charges'[i][2]
      OBVIOUS
    <3>b. charges' = Append(charges, <<o, sum>>) /\ sum \in Nat BY <2>2, <2>7
    <3> HIDE DEF f, h, total, n
    <3>1. /\ charges' \in Seq(MarketOrders \X Nat)
          /\ DOMAIN charges' = DOMAIN charges \cup {n} /\ n \notin DOMAIN charges
          /\ \A i \in DOMAIN charges : charges'[i] = charges[i]
          /\ charges'[n] = <<o, sum>>
          /\ SumFunctionOnSet(h, DOMAIN charges') = total + sum
          /\ total \in Nat
      <4>1. PICK m : m = Len(charges) OBVIOUS
      <4>2. m \in Nat /\ DOMAIN charges = 1..m /\ DOMAIN charges' = 1..(m + 1) BY <3>2, <3>b, <4>1
      <4>3. charges' \in Seq(MarketOrders \X Nat)
            /\ (\A i \in 1..m : charges'[i] = charges[i]) /\ charges'[m + 1] = <<o, sum>>
        BY <3>2, <3>b, <4>1
      <4>4. 1..(m + 1) = (1..m) \cup {m + 1} /\ m + 1 \notin 1..m BY <4>2
      <4>5. \A i \in 1..m : charges[i] \in MarketOrders \X Nat BY <3>2, <4>2
      <4>6. \A i \in 1..m : f[i] \in Nat BY <3>a, <4>2, <4>5
      <4>7. \A i \in 1..m : f[i] \in Int /\ h[i] = f[i]
        <5> SUFFICES ASSUME NEW i \in 1..m PROVE f[i] \in Int /\ h[i] = f[i] OBVIOUS
        <5>1. i \in DOMAIN charges /\ i \in DOMAIN charges' BY <4>2
        <5>2. f[i] = charges[i][2] /\ h[i] = charges'[i][2] BY <3>a, <5>1
        <5>3. charges'[i] = charges[i] BY <4>3
        <5>4. f[i] \in Nat BY <4>6
        <5> QED BY <5>2, <5>3, <5>4
      <4>8. h[m + 1] = sum /\ h[m + 1] \in Int BY <3>a, <3>b, <4>2, <4>3
      <4>9. SumFunctionOnSet(h, 1..(m + 1)) = SumFunctionOnSet(f, 1..m) + h[m + 1]
        <5>1. m \in Nat BY <4>2
        <5>2. h[m + 1] \in Int BY <4>8
        <5> QED BY ONLY <5>1, <4>7, <5>2, NextTerm
      <4>10. SumFunctionOnSet(f, 1..m) \in Nat 
        <5>1. IsFiniteSet(1..m) BY <4>2, FS_Interval
        <5> QED BY ONLY <5>1, <4>6, SumNat
      <4> QED BY <4>1, <4>2, <4>3, <4>4, <4>8, <4>9, <4>10 DEF total, n
    <3>3. hours' \in Nat /\ hours' + (total + sum) = Granted BY <2>2, <2>7, <3>1, <3>2
    <3>4. \A i \in DOMAIN charges : charges[i][1] # o BY <2>1, <3>2
    <3>5. \A i \in DOMAIN charges' : order'[charges'[i][1]].status \in Past
      <4>1. order'[o].status \in Past BY <2>3, <2>5 DEF Past
      <4>2. \A i \in DOMAIN charges : order'[charges[i][1]] = order[charges[i][1]] BY <2>5, <3>2, <3>4
      <4>3. \A i \in DOMAIN charges : order'[charges'[i][1]].status \in Past BY <3>1, <3>2, <4>2
      <4>4. charges'[n][1] = o BY <3>1
      <4> QED BY <3>1, <4>1, <4>3, <4>4
    <3>6. \A i \in DOMAIN charges' : charges'[i][2] = agreed'[charges'[i][1]]
      <4>1. agreed[o] = sum BY <2>2 DEF agreement
      <4> QED BY <2>1, <3>1, <3>2, <4>1
    <3>7. \A i, j \in DOMAIN charges' : charges'[i][1] = charges'[j][1] => i = j
      BY <3>1, <3>2, <3>4
    <3>8. ChargesOK' BY <3>1, <3>3, <3>5, <3>6, <3>7 DEF ChargesOK, ChargedAsAgreed, h
    <3> QED BY <2>5, <3>1, <3>3, <3>8 DEF MarketInv, MarketShape
  <2> QED BY <2>4, <2>6, <2>7
<1> QED BY <1>1, <1>2, <1>3, <1>4

LEMMA OperatorKeeps ==
  ASSUME MarketInv,
         \/ OperatorActs
         \/ \E o \in MarketOrders : QuoteExpires(o)
  PROVE  MarketInv'
<1>1. ASSUME NEW o \in MarketOrders, NEW sum \in Sums, Quote(o, sum) PROVE MarketInv'
  <2> DEFINE agreement == agreed[o]
             row == [order[o] EXCEPT !.status = "quoted", !.charged = sum, !.quote = sum, !.valid = TRUE]
  <2>1. /\ order' = [order EXCEPT ![o] = row] /\ agreed' = [agreed EXCEPT ![o] = agreement]
        /\ UNCHANGED <<hours, charges, agreed>> /\ order[o].status \notin Past
    BY <1>1 DEF Quote, Quotable, MarketInv, MarketShape, Past
  <2>2. order[o] \in OrderRow /\ agreement \in Nat \cup {NoSum} /\ sum \in Nat
    BY MarketAssumption DEF MarketInv, MarketShape
  <2>3. row \in OrderRow /\ row.status = "quoted" /\ row.charged = sum /\ row.quote = sum
    BY <2>2 DEF OrderRow, Statuses, orderTransitions
  <2> HIDE DEF row, agreement
  <2>a. order' = [order EXCEPT ![o] = row] /\ agreed' = [agreed EXCEPT ![o] = agreement] BY <2>1
  <2>b. /\ row.status # "draft"
        /\ row.status \in {"reserved", "pending_settlement"} => agreement = row.charged
        /\ row.valid => row.quote = row.charged
    BY <2>3
  <2>4. /\ order' \in [MarketOrders -> OrderRow] /\ agreed' \in [MarketOrders -> Nat \cup {NoSum}] /\ PricesOK'
        /\ \A x \in MarketOrders : x # o => order'[x] = order[x] /\ agreed'[x] = agreed[x]
    BY <1>1, <2>2, <2>3, <2>a, <2>b, OneOrder
  <2>5. ChargesOK' BY <1>1, <2>1, <2>4, NothingCharged
  <2> QED BY <1>1, <2>1, <2>4, <2>5 DEF MarketInv, MarketShape
<1>2. ASSUME NEW o \in MarketOrders, NEW status \in DOMAIN orderTransitions, MoveOrder(o, status) PROVE MarketInv'
  <2> DEFINE agreement == agreed[o]
             row == [order[o] EXCEPT !.status = status]
             was == order[o].status
  <2>1. /\ order' = [order EXCEPT ![o] = row] /\ agreed' = [agreed EXCEPT ![o] = agreement]
        /\ UNCHANGED <<hours, charges, agreed>>
        /\ was # "none" /\ status \in orderTransitions[was]
        /\ ~(status = "pending_settlement" /\ was = "quoted")
    BY <1>2 DEF MoveOrder, OperatorMay, CanMove, Ordered, MarketInv, MarketShape
  <2>2. /\ order[o] \in OrderRow /\ agreement \in Nat \cup {NoSum} /\ was # "draft"
        /\ (was = "reserved" => agreement = order[o].charged)
        /\ (order[o].valid => order[o].quote = order[o].charged)
    BY DEF MarketInv, MarketShape, PricesOK
  <2>3. was \in DOMAIN orderTransitions BY <2>1, <2>2 DEF OrderRow, Statuses
  <2>4. /\ row \in OrderRow /\ row.status = status /\ row.charged = order[o].charged
        /\ row.quote = order[o].quote /\ row.valid = order[o].valid
    BY <2>2 DEF OrderRow, Statuses
  <2> HIDE DEF row, agreement, was
  <2>5. /\ status # "draft" /\ status # "reserved"
        /\ status = "pending_settlement" => was = "reserved"
        /\ was \in Past => status \in Past
    BY <2>1, <2>2, <2>3, PastStays
  <2>7. was = order[o].status BY DEF was
  <2>a. order' = [order EXCEPT ![o] = row] /\ agreed' = [agreed EXCEPT ![o] = agreement] BY <2>1
  <2>b. /\ row.status # "draft"
        /\ row.status \in {"reserved", "pending_settlement"} => agreement = row.charged
        /\ row.valid => row.quote = row.charged
    BY <2>2, <2>4, <2>5, <2>7
  <2>6. /\ order' \in [MarketOrders -> OrderRow] /\ agreed' \in [MarketOrders -> Nat \cup {NoSum}] /\ PricesOK'
        /\ order'[o] = row
        /\ \A x \in MarketOrders : x # o => order'[x] = order[x] /\ agreed'[x] = agreed[x]
    BY <1>2, <2>2, <2>4, <2>a, <2>b, OneOrder
  <2>8. ChargesOK' BY <1>2, <2>1, <2>4, <2>5, <2>6, <2>7, NothingCharged
  <2> QED BY <1>2, <2>1, <2>6, <2>8 DEF MarketInv, MarketShape
<1>3. ASSUME NEW o \in MarketOrders, QuoteExpires(o) PROVE MarketInv'
  <2> DEFINE agreement == agreed[o]
             row == [order[o] EXCEPT !.valid = FALSE]
  <2>1. /\ order' = [order EXCEPT ![o] = row] /\ agreed' = [agreed EXCEPT ![o] = agreement]
        /\ UNCHANGED <<hours, charges, agreed>>
    BY <1>3 DEF QuoteExpires, MarketInv, MarketShape
  <2>2. /\ order[o] \in OrderRow /\ agreement \in Nat \cup {NoSum} /\ order[o].status # "draft"
        /\ (order[o].status \in {"reserved", "pending_settlement"} => agreement = order[o].charged)
    BY DEF MarketInv, MarketShape, PricesOK
  <2>3. row \in OrderRow /\ row.status = order[o].status /\ row.charged = order[o].charged /\ ~row.valid
    BY <2>2 DEF OrderRow
  <2> HIDE DEF row, agreement
  <2>a. order' = [order EXCEPT ![o] = row] /\ agreed' = [agreed EXCEPT ![o] = agreement] BY <2>1
  <2>b. /\ row.status # "draft"
        /\ row.status \in {"reserved", "pending_settlement"} => agreement = row.charged
        /\ row.valid => row.quote = row.charged
    BY <2>2, <2>3
  <2>4. /\ order' \in [MarketOrders -> OrderRow] /\ agreed' \in [MarketOrders -> Nat \cup {NoSum}] /\ PricesOK'
        /\ order'[o] = row
        /\ \A x \in MarketOrders : x # o => order'[x] = order[x] /\ agreed'[x] = agreed[x]
    BY <1>3, <2>2, <2>3, <2>a, <2>b, OneOrder
  <2>5. ChargesOK' BY <1>3, <2>1, <2>3, <2>4, NothingCharged
  <2> QED BY <1>3, <2>1, <2>4, <2>5 DEF MarketInv, MarketShape
<1> QED BY <1>1, <1>2, <1>3 DEF OperatorActs

\* An order of the compute market is charged at most once, what its owner agreed
\* to, and the balance is what was granted without the charges.
THEOREM OrdersAreChargedAsAgreed == MarketSpec => []ChargedAsAgreed
<1>1. ASSUME MarketInv, UNCHANGED marketVars PROVE MarketInv'
  <2>1. UNCHANGED <<order, hours, charges, agreed>> BY <1>1 DEF marketVars
  <2>2. PricesOK' /\ ChargesOK' BY <1>1, <2>1 DEF MarketInv, PricesOK, ChargesOK, ChargedAsAgreed
  <2> QED BY <1>1, <2>1, <2>2 DEF MarketInv, MarketShape
<1>2. ASSUME MarketInv, [MarketNext]_marketVars PROVE MarketInv'
  BY <1>1, <1>2, OwnerKeeps, OperatorKeeps DEF MarketNext, OwnerActs
<1>3. MarketInv => ChargedAsAgreed BY DEF MarketInv, ChargesOK
<1> QED BY <1>2, <1>3, MarketBegins, PTL DEF MarketSpec

-----------------------------------------------------------------------------
(* EventFeed: updates are followed in order *)

Updates == {e \in events : e.type = "task.updated"}
Changing == {w \in Writers : writing[w].at = "changing"}
HoldsRow == {w \in Writers : writing[w].at \in {"locked", "changing"}}

FeedShape ==
    /\ rows \in [FeedTasks -> Nat]
    /\ rowLock \in [FeedTasks -> Writers \cup {NoWriter}]
    /\ writing \in [Writers -> [at : {"idle", "created", "announcing", "locked", "changing"},
                                task : FeedTasks \cup {NoWriter}, version : Nat, cursor : Nat]]
    /\ \A w \in Writers : writing[w].at # "idle" => writing[w].task \in FeedTasks
    /\ nextCursor \in Nat /\ position \in Nat
    /\ events \subseteq [cursor : Nat, task : FeedTasks, version : Nat, type : {"task.created", "task.updated"}]
    /\ followed \in Seq(events)

\* Whoever changes a task holds its row and has read its version.
RowsHeld ==
    \A w \in HoldsRow :
        /\ rowLock[writing[w].task] = w
        /\ rows[writing[w].task] > 0 /\ writing[w].version = rows[writing[w].task] + 1

\* The cursors of a task's updates are in the order of its versions, and a change that
\* has drawn its cursor comes after all of them.
CursorsOrdered ==
    /\ \A e \in Updates : e.cursor < nextCursor /\ e.version <= rows[e.task]
    /\ \A e, x \in Updates : e.task = x.task /\ e.cursor < x.cursor => e.version < x.version
    /\ \A w \in Changing :
          /\ writing[w].cursor < nextCursor
          /\ \A e \in Updates : e.task = writing[w].task => e.cursor < writing[w].cursor

\* A follower never goes back.
ReadForward ==
    /\ \A i \in 1..Len(followed) : followed[i].cursor <= position
    /\ \A i, j \in 1..Len(followed) : i < j => followed[i].cursor < followed[j].cursor

FeedInv == FeedShape /\ RowsHeld /\ CursorsOrdered /\ ReadForward

LEMMA FeedBegins == FeedInit => FeedInv
<1> SUFFICES ASSUME FeedInit PROVE FeedInv OBVIOUS
<1>1. FeedShape BY DEF FeedInit, FeedShape, Resting
<1>2. RowsHeld /\ CursorsOrdered BY DEF FeedInit, RowsHeld, CursorsOrdered, HoldsRow, Changing, Updates, Resting
<1>3. ReadForward BY DEF FeedInit, ReadForward
<1> QED BY <1>1, <1>2, <1>3 DEF FeedInv

\* What is followed stays where it is.
LEMMA FollowedStays ==
  ASSUME FeedInv, events \subseteq events', UNCHANGED <<position, followed>>
  PROVE  followed' \in Seq(events') /\ ReadForward'
<1>1. followed \in Seq(events') BY DEF FeedInv, FeedShape
<1> QED BY <1>1 DEF FeedInv, ReadForward

\* One writer gets a new row, and neither versions nor events change.
LEMMA WriterGoesOn ==
  ASSUME FeedInv, UNCHANGED <<events, position, followed>>, NEW w \in Writers, NEW row,
         writing' = [writing EXCEPT ![w] = row],
         row \in [at : {"idle", "created", "announcing", "locked", "changing"},
                  task : FeedTasks \cup {NoWriter}, version : Nat, cursor : Nat],
         row.at # "idle" => row.task \in FeedTasks,
         rows' \in [FeedTasks -> Nat], nextCursor' \in Nat, nextCursor <= nextCursor',
         \A t \in FeedTasks : rows[t] <= rows'[t],
         \A x \in HoldsRow \ {w} : rowLock'[writing[x].task] = x /\ rows'[writing[x].task] = rows[writing[x].task],
         rowLock' \in [FeedTasks -> Writers \cup {NoWriter}],
         row.at \in {"locked", "changing"} =>
            rowLock'[row.task] = w /\ rows'[row.task] > 0 /\ row.version = rows'[row.task] + 1,
         row.at = "changing" =>
            row.cursor < nextCursor' /\ \A e \in Updates : e.task = row.task => e.cursor < row.cursor
  PROVE  FeedInv'
<1>1. \A x \in Writers : writing'[x] = IF x = w THEN row ELSE writing[x] BY DEF FeedInv, FeedShape
<1>2. FeedShape'
  <2>1. writing' \in [Writers -> [at : {"idle", "created", "announcing", "locked", "changing"},
                                task : FeedTasks \cup {NoWriter}, version : Nat, cursor : Nat]]
    BY DEF FeedInv, FeedShape
  <2>2. \A x \in Writers : writing'[x].at # "idle" => writing'[x].task \in FeedTasks
    BY <1>1 DEF FeedInv, FeedShape
  <2> QED BY <2>1, <2>2 DEF FeedInv, FeedShape
<1>3. RowsHeld'
  <2> SUFFICES ASSUME NEW x \in HoldsRow'
               PROVE  /\ rowLock'[writing'[x].task] = x
                      /\ rows'[writing'[x].task] > 0 /\ writing'[x].version = rows'[writing'[x].task] + 1
    BY DEF RowsHeld
  <2>1. CASE x = w BY <1>1, <2>1 DEF HoldsRow
  <2>2. CASE x # w
    <3>1. x \in HoldsRow \ {w} /\ writing'[x] = writing[x] BY <1>1, <2>2 DEF HoldsRow
    <3>2. rows[writing[x].task] > 0 /\ writing[x].version = rows[writing[x].task] + 1
      BY <3>1 DEF FeedInv, RowsHeld
    <3> QED BY <3>1, <3>2
  <2> QED BY <2>1, <2>2
<1>4. CursorsOrdered'
  <2>1. Updates' = Updates BY DEF Updates
  <2>2. \A e \in Updates : e.cursor \in Nat /\ e.version \in Nat /\ e.task \in FeedTasks
    BY DEF FeedInv, FeedShape, Updates
  <2>3. \A e \in Updates : e.cursor < nextCursor' /\ e.version <= rows'[e.task]
    <3> SUFFICES ASSUME NEW e \in Updates PROVE e.cursor < nextCursor' /\ e.version <= rows'[e.task] OBVIOUS
    <3>1. e.cursor < nextCursor /\ e.version <= rows[e.task] BY DEF FeedInv, CursorsOrdered
    <3>2. e.cursor \in Nat /\ e.version \in Nat /\ e.task \in FeedTasks BY <2>2
    <3>3. rows[e.task] <= rows'[e.task] /\ rows[e.task] \in Nat /\ rows'[e.task] \in Nat /\ nextCursor \in Nat
      BY <3>2 DEF FeedInv, FeedShape
    <3> QED BY <3>1, <3>2, <3>3
  <2>4. ASSUME NEW x \in Changing'
        PROVE  /\ writing'[x].cursor < nextCursor'
               /\ \A e \in Updates : e.task = writing'[x].task => e.cursor < writing'[x].cursor
    <3>1. CASE x = w BY <1>1, <2>4, <3>1 DEF Changing
    <3>2. CASE x # w
      <4>1. x \in Changing /\ writing'[x] = writing[x] BY <1>1, <2>4, <3>2 DEF Changing
      <4>2. writing[x].cursor < nextCursor /\ writing[x].cursor \in Nat /\ nextCursor \in Nat
        BY <4>1 DEF FeedInv, FeedShape, CursorsOrdered, Changing
      <4>3. \A e \in Updates : e.task = writing[x].task => e.cursor < writing[x].cursor
        BY <4>1 DEF FeedInv, CursorsOrdered
      <4> QED BY <4>1, <4>2, <4>3
    <3> QED BY <3>1, <3>2
  <2>5. \A e, x \in Updates : e.task = x.task /\ e.cursor < x.cursor => e.version < x.version
    BY DEF FeedInv, CursorsOrdered
  <2> QED BY <2>1, <2>3, <2>4, <2>5 DEF CursorsOrdered
<1>5. ReadForward' BY FollowedStays
<1> QED BY <1>2, <1>3, <1>4, <1>5 DEF FeedInv

LEMMA WriterKeeps ==
  ASSUME FeedInv, NEW w \in Writers,
         \/ \E t \in FeedTasks : InsertTask(w, t) \/ LockTask(w, t)
         \/ AppendEvent(w) \/ Abandon(w)
  PROVE  FeedInv'
<1> USE DEF HoldsRow
<1>0. /\ rows \in [FeedTasks -> Nat] /\ nextCursor \in Nat
      /\ rowLock \in [FeedTasks -> Writers \cup {NoWriter}]
      /\ writing[w] \in [at : {"idle", "created", "announcing", "locked", "changing"},
                         task : FeedTasks \cup {NoWriter}, version : Nat, cursor : Nat]
      /\ writing[w].at # "idle" => writing[w].task \in FeedTasks
  BY DEF FeedInv, FeedShape
<1>1. ASSUME NEW x \in HoldsRow
      PROVE  /\ rowLock[writing[x].task] = x /\ writing[x].task \in FeedTasks
             /\ rows[writing[x].task] > 0 /\ writing[x].version = rows[writing[x].task] + 1
  BY <1>1 DEF FeedInv, RowsHeld, FeedShape
<1>2. ASSUME NEW t \in FeedTasks, InsertTask(w, t) PROVE FeedInv'
  <2> DEFINE row == [at |-> "created", task |-> t, version |-> 1, cursor |-> 0]
  <2>1. /\ rows' = [rows EXCEPT ![t] = 1] /\ rows[t] = 0 /\ writing' = [writing EXCEPT ![w] = row]
        /\ UNCHANGED <<rowLock, nextCursor, events, position, followed>>
    BY <1>2 DEF InsertTask
  <2>2. row \in [at : {"idle", "created", "announcing", "locked", "changing"},
                 task : FeedTasks \cup {NoWriter}, version : Nat, cursor : Nat]
        /\ row.at = "created" /\ row.task = t
    OBVIOUS
  <2> HIDE DEF row
  <2>3. rows' \in [FeedTasks -> Nat] /\ \A u \in FeedTasks : rows[u] <= rows'[u] BY <1>0, <2>1
  <2>4. \A x \in HoldsRow \ {w} : rowLock'[writing[x].task] = x /\ rows'[writing[x].task] = rows[writing[x].task]
    BY <1>0, <1>1, <2>1
  <2>5. nextCursor' \in Nat /\ nextCursor <= nextCursor' /\ rowLock' \in [FeedTasks -> Writers \cup {NoWriter}]
    BY <1>0, <2>1
  <2> QED BY <2>1, <2>2, <2>3, <2>4, <2>5, WriterGoesOn
<1>3. ASSUME NEW t \in FeedTasks, LockTask(w, t) PROVE FeedInv'
  <2> DEFINE row == [at |-> "locked", task |-> t, version |-> rows[t] + 1, cursor |-> 0]
  <2>1. /\ rowLock' = [rowLock EXCEPT ![t] = w] /\ rowLock[t] = NoWriter /\ rows[t] > 0
        /\ writing' = [writing EXCEPT ![w] = row]
        /\ UNCHANGED <<rows, nextCursor, events, position, followed>>
    BY <1>3 DEF LockTask, RowFreeFor
  <2>2. row \in [at : {"idle", "created", "announcing", "locked", "changing"},
                 task : FeedTasks \cup {NoWriter}, version : Nat, cursor : Nat]
        /\ row.at = "locked" /\ row.task = t /\ row.version = rows[t] + 1
    BY <1>0
  <2> HIDE DEF row
  <2>3. rows' \in [FeedTasks -> Nat] /\ \A u \in FeedTasks : rows[u] <= rows'[u] BY <1>0, <2>1
  <2>4. \A x \in HoldsRow \ {w} : rowLock'[writing[x].task] = x /\ rows'[writing[x].task] = rows[writing[x].task]
    BY <1>0, <1>1, <2>1, FeedAssumption
  <2>5. /\ nextCursor' \in Nat /\ nextCursor <= nextCursor' /\ rowLock' \in [FeedTasks -> Writers \cup {NoWriter}]
        /\ rowLock'[t] = w /\ rows'[t] > 0 /\ row.version = rows'[t] + 1
    BY <1>0, <2>1, <2>2
  <2> QED BY <2>1, <2>2, <2>3, <2>4, <2>5, WriterGoesOn
<1>4. ASSUME AppendEvent(w) PROVE FeedInv'
  <2> DEFINE row == [writing[w] EXCEPT !.at = IF writing[w].at = "created" THEN "announcing" ELSE "changing",
                                       !.cursor = nextCursor]
  <2>1. /\ writing' = [writing EXCEPT ![w] = row] /\ nextCursor' = nextCursor + 1
        /\ UNCHANGED <<rows, rowLock, events, position, followed>>
        /\ writing[w].at \in {"created", "locked"}
    BY <1>4 DEF AppendEvent, FeedInv, FeedShape
  <2>2. /\ row \in [at : {"idle", "created", "announcing", "locked", "changing"},
                    task : FeedTasks \cup {NoWriter}, version : Nat, cursor : Nat]
        /\ row.task = writing[w].task /\ row.version = writing[w].version /\ row.cursor = nextCursor
        /\ row.at \in {"announcing", "changing"} /\ (row.at = "changing" => writing[w].at = "locked")
        /\ row.task \in FeedTasks
    BY <1>0, <2>1
  <2> HIDE DEF row
  <2>3. rows' \in [FeedTasks -> Nat] /\ \A u \in FeedTasks : rows[u] <= rows'[u] BY <1>0, <2>1
  <2>4. \A x \in HoldsRow \ {w} : rowLock'[writing[x].task] = x /\ rows'[writing[x].task] = rows[writing[x].task]
    BY <1>1, <2>1
  <2>5. row.at = "changing" => rowLock'[row.task] = w /\ rows'[row.task] > 0 /\ row.version = rows'[row.task] + 1
    BY <1>1, <2>1, <2>2
  <2>6. row.cursor < nextCursor' /\ (\A e \in Updates : e.cursor < row.cursor) /\ nextCursor' \in Nat
    BY <1>0, <2>1, <2>2 DEF FeedInv, CursorsOrdered
  <2>7. row.at \in {"locked", "changing"} =>
           rowLock'[row.task] = w /\ rows'[row.task] > 0 /\ row.version = rows'[row.task] + 1
    BY <2>2, <2>5
  <2>8. nextCursor <= nextCursor' /\ rowLock' \in [FeedTasks -> Writers \cup {NoWriter}] BY <1>0, <2>1
  <2> QED BY <2>1, <2>2, <2>3, <2>4, <2>6, <2>7, <2>8, WriterGoesOn
<1>5. ASSUME Abandon(w) PROVE FeedInv'
  <2>1. /\ rowLock' = [t \in FeedTasks |-> IF rowLock[t] = w THEN NoWriter ELSE rowLock[t]]
        /\ writing' = [writing EXCEPT ![w] = Resting]
        /\ UNCHANGED <<rows, nextCursor, events, position, followed>>
    BY <1>5 DEF Abandon
  <2>2. Resting \in [at : {"idle", "created", "announcing", "locked", "changing"},
                     task : FeedTasks \cup {NoWriter}, version : Nat, cursor : Nat]
        /\ Resting.at = "idle"
    BY DEF Resting
  <2>3. rows' \in [FeedTasks -> Nat] /\ \A u \in FeedTasks : rows[u] <= rows'[u] BY <1>0, <2>1
  <2>4. \A x \in HoldsRow \ {w} : rowLock'[writing[x].task] = x /\ rows'[writing[x].task] = rows[writing[x].task]
    BY <1>1, <2>1
  <2>5. nextCursor' \in Nat /\ nextCursor <= nextCursor' /\ rowLock' \in [FeedTasks -> Writers \cup {NoWriter}]
    BY <1>0, <2>1
  <2> QED BY <2>1, <2>2, <2>3, <2>4, <2>5, WriterGoesOn
<1> QED BY <1>2, <1>3, <1>4, <1>5

\* The update that is committed is the last one of its task so far.
LEMMA CommitKeeps == ASSUME FeedInv, NEW w \in Writers, CommitEvent(w) PROVE FeedInv'
<1> DEFINE t == writing[w].task
           e == Event(w)
<1>1. /\ writing[w].at \in {"announcing", "changing"} /\ t \in FeedTasks
      /\ writing[w].cursor \in Nat /\ writing[w].version \in Nat /\ nextCursor \in Nat
      /\ rows \in [FeedTasks -> Nat] /\ rowLock \in [FeedTasks -> Writers \cup {NoWriter}]
  BY DEF FeedInv, FeedShape, CommitEvent
<1>2. /\ e \in [cursor : Nat, task : FeedTasks, version : Nat, type : {"task.created", "task.updated"}]
      /\ e.cursor = writing[w].cursor /\ e.task = t /\ e.version = writing[w].version
      /\ (e.type = "task.updated" <=> writing[w].at = "changing")
  BY <1>1 DEF Event
<1>3. /\ events' = events \cup {e} /\ writing' = [writing EXCEPT ![w] = Resting]
      /\ UNCHANGED <<nextCursor, position, followed>>
      /\ \/ /\ writing[w].at = "changing"
            /\ rows' = [rows EXCEPT ![t] = writing[w].version] /\ rowLock' = [rowLock EXCEPT ![t] = NoWriter]
         \/ writing[w].at # "changing" /\ UNCHANGED <<rows, rowLock>>
  BY DEF CommitEvent
<1>4. writing[w].at = "changing" =>
         /\ rowLock[t] = w /\ writing[w].version = rows[t] + 1 /\ rows[t] > 0
         /\ writing[w].cursor < nextCursor
         /\ \A x \in Updates : x.task = t => x.cursor < writing[w].cursor
  BY DEF FeedInv, RowsHeld, CursorsOrdered, HoldsRow, Changing
<1> HIDE DEF t, e
<1>5. \A x \in Writers : writing'[x] = IF x = w THEN Resting ELSE writing[x]
  BY <1>3 DEF FeedInv, FeedShape
<1>6. rows' \in [FeedTasks -> Nat] /\ rowLock' \in [FeedTasks -> Writers \cup {NoWriter}]
      /\ \A u \in FeedTasks : rows[u] <= rows'[u] /\ (u # t => rows'[u] = rows[u] /\ rowLock'[u] = rowLock[u])
  BY <1>1, <1>3, <1>4
<1>7. FeedShape'
  <2>1. writing' \in [Writers -> [at : {"idle", "created", "announcing", "locked", "changing"},
                                task : FeedTasks \cup {NoWriter}, version : Nat, cursor : Nat]]
    BY <1>3 DEF FeedInv, FeedShape, Resting
  <2>2. \A x \in Writers : writing'[x].at # "idle" => writing'[x].task \in FeedTasks
    BY <1>5 DEF FeedInv, FeedShape, Resting
  <2>3. events' \subseteq [cursor : Nat, task : FeedTasks, version : Nat, type : {"task.created", "task.updated"}]
    BY <1>2, <1>3 DEF FeedInv, FeedShape
  <2>4. followed' \in Seq(events') BY <1>3, FollowedStays
  <2> QED BY <1>1, <1>3, <1>6, <2>1, <2>2, <2>3, <2>4 DEF FeedInv, FeedShape
\* Nobody else holds the row that is released.
<1>8. ASSUME NEW x \in Writers, x # w, writing[x].at \in {"locked", "changing"}, writing[w].at = "changing"
      PROVE  writing[x].task # t
  BY <1>4, <1>8 DEF FeedInv, RowsHeld, HoldsRow
<1>9. RowsHeld'
  <2> SUFFICES ASSUME NEW x \in HoldsRow'
               PROVE  /\ rowLock'[writing'[x].task] = x
                      /\ rows'[writing'[x].task] > 0 /\ writing'[x].version = rows'[writing'[x].task] + 1
    BY DEF RowsHeld
  <2>1. x \in Writers /\ x # w /\ writing'[x] = writing[x] /\ x \in HoldsRow BY <1>5 DEF HoldsRow, Resting
  <2>2. writing[x].task \in FeedTasks /\ writing[x].at \in {"locked", "changing"}
    BY <2>1 DEF FeedInv, FeedShape, HoldsRow
  <2>3. rows'[writing[x].task] = rows[writing[x].task] /\ rowLock'[writing[x].task] = rowLock[writing[x].task]
    <3>1. CASE writing[w].at = "changing"
      <4>1. writing[x].task # t BY <1>8, <2>1, <2>2, <3>1
      <4> QED BY <1>6, <2>2, <4>1
    <3>2. CASE writing[w].at # "changing" BY <1>3, <3>2
    <3> QED BY <3>1, <3>2
  <2> QED BY <2>1, <2>3 DEF FeedInv, RowsHeld
<1>10. CursorsOrdered'
  <2>1. Updates' = IF e.type = "task.updated" THEN Updates \cup {e} ELSE Updates BY <1>3 DEF Updates
  <2>2. \A x \in Updates : /\ x.cursor \in Nat /\ x.version \in Nat /\ x.task \in FeedTasks
                           /\ x.cursor < nextCursor /\ x.version <= rows[x.task]
    BY DEF FeedInv, FeedShape, Updates, CursorsOrdered
  <2>3. \A x \in Updates : x.cursor < nextCursor' /\ x.version <= rows'[x.task]
    <3> SUFFICES ASSUME NEW x \in Updates PROVE x.cursor < nextCursor' /\ x.version <= rows'[x.task] OBVIOUS
    <3>1. x.task \in FeedTasks /\ x.version \in Nat /\ x.version <= rows[x.task] /\ x.cursor < nextCursor BY <2>2
    <3>2. rows[x.task] <= rows'[x.task] /\ rows[x.task] \in Nat /\ rows'[x.task] \in Nat BY <1>1, <1>6, <3>1
    <3> QED BY <1>3, <3>1, <3>2
  <2>4. e.type = "task.updated" => e.cursor < nextCursor' /\ e.version <= rows'[e.task]
    BY <1>1, <1>2, <1>3, <1>4
  <2>5. \A x \in Updates' : x.cursor < nextCursor' /\ x.version <= rows'[x.task] BY <2>1, <2>3, <2>4
  <2>6. ASSUME e.type = "task.updated", NEW x \in Updates, x.task = e.task
        PROVE  x.cursor < e.cursor /\ x.version < e.version
    <3>1. x.version <= rows[t] /\ x.version \in Nat /\ rows[t] \in Nat BY <1>1, <1>2, <2>2, <2>6
    <3> QED BY <1>2, <1>4, <2>6, <3>1
  <2>7. \A x, y \in Updates : x.task = y.task /\ x.cursor < y.cursor => x.version < y.version
    BY DEF FeedInv, CursorsOrdered
  <2>8. ASSUME NEW x \in Updates', NEW y \in Updates', x.task = y.task, x.cursor < y.cursor
        PROVE  x.version < y.version
    <3>1. CASE x \in Updates /\ y \in Updates BY <2>7, <2>8, <3>1
    <3>2. CASE e.type = "task.updated" /\ y = e /\ x \in Updates BY <2>6, <2>8, <3>2
    <3>3. CASE e.type = "task.updated" /\ x = e /\ y \in Updates
      <4>1. y.cursor < e.cursor /\ y.cursor \in Nat /\ e.cursor \in Nat BY <1>1, <1>2, <2>2, <2>6, <2>8, <3>3
      <4> QED BY <2>8, <3>3, <4>1
    <3>4. CASE x = e /\ y = e BY <1>1, <1>2, <2>8, <3>4
    <3> QED BY <2>1, <3>1, <3>2, <3>3, <3>4
  <2>9. ASSUME NEW x \in Changing'
        PROVE  /\ writing'[x].cursor < nextCursor'
               /\ \A y \in Updates' : y.task = writing'[x].task => y.cursor < writing'[x].cursor
    <3>1. x \in Writers /\ x # w /\ writing'[x] = writing[x] /\ x \in Changing /\ writing[x].at = "changing"
      BY <1>5, <2>9 DEF Changing, Resting
    <3>2. writing[x].cursor < nextCursor /\ \A y \in Updates : y.task = writing[x].task => y.cursor < writing[x].cursor
      BY <3>1 DEF FeedInv, CursorsOrdered
    <3>3. e.type = "task.updated" => writing[x].task # e.task BY <1>2, <1>8, <3>1
    <3> QED BY <1>3, <2>1, <3>1, <3>2, <3>3
  <2> QED BY <2>5, <2>8, <2>9 DEF CursorsOrdered
<1>11. ReadForward' BY <1>3, FollowedStays
<1> QED BY <1>7, <1>9, <1>10, <1>11 DEF FeedInv

LEMMA FollowerKeeps == ASSUME FeedInv, eventsAfter PROVE FeedInv'
<1>0. PICK n \in 1..PageLimit : \E batch \in [1..n -> After(position)] :
         EventPage(batch, n) /\ followed' = followed \o batch /\ position' = batch[n].cursor
  BY DEF eventsAfter
<1>1. PICK batch \in [1..n -> After(position)] :
         EventPage(batch, n) /\ followed' = followed \o batch /\ position' = batch[n].cursor
  BY <1>0
<1>2. UNCHANGED <<rows, rowLock, writing, nextCursor, events>> BY DEF eventsAfter
<1>3. /\ n \in Nat /\ n >= 1 /\ batch \in Seq(events) /\ Len(batch) = n
      /\ \A i \in 1..n : batch[i] \in events /\ batch[i].cursor > position
  BY DEF After
<1>4. /\ \A i \in 1..n : batch[i].cursor \in Nat
      /\ \A i, j \in 1..n : i < j => batch[i].cursor < batch[j].cursor
      /\ position \in Nat /\ followed \in Seq(events)
  BY <1>1, <1>3 DEF EventPage, FeedInv, FeedShape
<1>5. \A i \in 1..n : batch[i].cursor <= position'
  <2> SUFFICES ASSUME NEW i \in 1..n PROVE batch[i].cursor <= position' OBVIOUS
  <2>1. n \in 1..n BY <1>3
  <2>2. CASE i = n BY <1>1, <1>4, <2>1, <2>2
  <2>3. CASE i # n
    <3>1. batch[i].cursor < batch[n].cursor BY <1>4, <2>1, <2>3
    <3> QED BY <1>1, <1>4, <2>1, <3>1
  <2> QED BY <2>2, <2>3
<1>6. position' \in Nat /\ position < position'
  <2>1. n \in 1..n BY <1>3
  <2> QED BY <1>1, <1>3, <1>4, <2>1
<1>7. PICK m : m = Len(followed) OBVIOUS
<1>8. /\ followed' \in Seq(events) /\ Len(followed') = m + n /\ m \in Nat
      /\ \A i \in 1..(m + n) : followed'[i] = IF i <= m THEN followed[i] ELSE batch[i - m]
  <2>1. Len(batch) = n /\ batch \in Seq(events) BY <1>3
  <2>2. followed \in Seq(events) /\ followed' = followed \o batch BY <1>1, <1>4
  <2>3. m \in Nat /\ n \in Nat BY <1>3, <1>7, <2>2
  <2>4. /\ followed \o batch \in Seq(events)
        /\ Len(followed \o batch) = Len(followed) + Len(batch)
        /\ \A i \in 1..Len(followed) + Len(batch) :
              (followed \o batch)[i] = IF i <= Len(followed) THEN followed[i] ELSE batch[i - Len(followed)]
    BY <2>1, <2>2, ConcatProperties
  <2> QED BY <1>7, <2>1, <2>2, <2>3, <2>4
<1>9. FeedShape' BY <1>2, <1>6, <1>8 DEF FeedInv, FeedShape
<1>10. RowsHeld' /\ CursorsOrdered'
  BY <1>2 DEF FeedInv, RowsHeld, CursorsOrdered, HoldsRow, Changing, Updates
<1>11. ReadForward'
  <2>1. /\ \A i \in 1..m : followed[i].cursor <= position /\ followed[i].cursor \in Nat
        /\ \A i, j \in 1..m : i < j => followed[i].cursor < followed[j].cursor
    <3>1. \A i \in 1..m : followed[i] \in events BY <1>4, <1>7
    <3> QED BY <1>7, <3>1 DEF FeedInv, ReadForward, FeedShape
  <2>2. ASSUME NEW i \in 1..(m + n) PROVE followed'[i].cursor <= position'
    <3>1. CASE i <= m
      <4>1. i \in 1..m /\ followed'[i] = followed[i] BY <1>8, <3>1
      <4> QED BY <1>4, <1>6, <2>1, <4>1
    <3>2. CASE ~(i <= m)
      <4>1. i - m \in 1..n /\ followed'[i] = batch[i - m] BY <1>3, <1>8, <3>2
      <4> QED BY <1>5, <4>1
    <3> QED BY <3>1, <3>2
  <2>3. ASSUME NEW i \in 1..(m + n), NEW j \in 1..(m + n), i < j
        PROVE  followed'[i].cursor < followed'[j].cursor
    <3>1. CASE j <= m
      <4>1. i \in 1..m /\ j \in 1..m /\ followed'[i] = followed[i] /\ followed'[j] = followed[j]
        BY <1>8, <2>3, <3>1
      <4> QED BY <2>1, <2>3, <4>1
    <3>2. CASE i <= m /\ ~(j <= m)
      <4>1. i \in 1..m /\ j - m \in 1..n /\ followed'[i] = followed[i] /\ followed'[j] = batch[j - m]
        BY <1>3, <1>8, <3>2
      <4>2. followed[i].cursor <= position /\ followed[i].cursor \in Nat BY <2>1, <4>1
      <4>3. batch[j - m].cursor > position /\ batch[j - m].cursor \in Nat BY <1>3, <1>4, <4>1
      <4> QED BY <1>4, <4>1, <4>2, <4>3
    <3>3. CASE ~(i <= m) /\ ~(j <= m)
      <4>1. /\ i - m \in 1..n /\ j - m \in 1..n /\ i - m < j - m
            /\ followed'[i] = batch[i - m] /\ followed'[j] = batch[j - m]
        BY <1>3, <1>8, <2>3, <3>3
      <4> QED BY <1>4, <4>1
    <3> QED BY <1>8, <2>3, <3>1, <3>2, <3>3
  <2> QED BY <1>8, <2>2, <2>3 DEF ReadForward
<1> QED BY <1>9, <1>10, <1>11 DEF FeedInv

\* The updates of a task reach a follower in the order of its versions.
THEOREM UpdatesAreFollowedInOrder == FeedSpec => []UpdatesInOrder
<1>1. ASSUME FeedInv, UNCHANGED feedVars PROVE FeedInv'
  BY <1>1 DEF feedVars, FeedInv, FeedShape, RowsHeld, CursorsOrdered, ReadForward, HoldsRow, Changing, Updates
<1>2. ASSUME FeedInv, [FeedNext]_feedVars PROVE FeedInv'
  <2>1. ASSUME NEW w \in Writers, NEW t \in FeedTasks, InsertTask(w, t) \/ LockTask(w, t) PROVE FeedInv'
    BY <1>2, <2>1, WriterKeeps
  <2>2. ASSUME NEW w \in Writers, AppendEvent(w) \/ CommitEvent(w) \/ Abandon(w) PROVE FeedInv'
    BY <1>2, <2>2, WriterKeeps, CommitKeeps
  <2> QED BY <1>1, <1>2, <2>1, <2>2, FollowerKeeps DEF FeedNext
<1>3. FeedInv => UpdatesInOrder
  <2> SUFFICES ASSUME FeedInv, NEW i \in 1..Len(followed), NEW j \in 1..Len(followed), i < j,
                      followed[i].task = followed[j].task,
                      followed[i].type = "task.updated", followed[j].type = "task.updated"
               PROVE  followed[i].version < followed[j].version
    BY DEF UpdatesInOrder
  <2>0. \A k \in 1..Len(followed) : followed[k] \in events BY DEF FeedInv, FeedShape
  <2>1. followed[i] \in Updates /\ followed[j] \in Updates BY <2>0 DEF Updates
  <2>2. followed[i].cursor < followed[j].cursor BY DEF FeedInv, ReadForward
  <2> QED BY <2>1, <2>2 DEF FeedInv, CursorsOrdered
<1> QED BY <1>2, <1>3, FeedBegins, PTL DEF FeedSpec

-----------------------------------------------------------------------------
(* The session of the mobile application                                   *)

Held == MobileTokens \cup {NoToken}

MobileOp ==
    [kind : {"load", "persist", "logout", "rollback", "invalidate"}, token : Held,
     at : {"begin", "clear", "save", "token", "migrate"}, history : BOOLEAN, ahead : BOOLEAN,
     marked : BOOLEAN, found : BOOLEAN, gone : BOOLEAN, legacy : Held]

Lined == DOMAIN sessionPersistenceQueue
LinedOp(i) == sessionPersistenceQueue[i]

\* Logins being saved and logouts asked for: what decides whose session is shown.
Decisive == {"persist", "logout"}

\* An operation is at a step of its own kind, and only the first one has begun.
OpTrue(o) ==
    /\ o.kind \in Decisive => o.history /\ o.ahead /\ o.token \in issued
    /\ o.at = "save" => o.kind = "persist"
    /\ o.at \in {"token", "migrate"} => o.kind = "load"
    /\ o.legacy \in issued \cup {NoToken}

StorageShape ==
    /\ secure \in [kind : {"empty", "invalid", "logout", "token", "legacy"}, token : issued \cup {NoToken}]
    /\ secure.kind \in {"empty", "invalid", "logout"} => secure.token = NoToken
    /\ plaintext \in issued \cup {NoToken} /\ logoutPending \in BOOLEAN /\ crossed \in BOOLEAN
    /\ chats \subseteq MobileTokens

PageShape ==
    /\ issued \subseteq MobileTokens /\ loggedOut \subseteq issued
    /\ page \in [session : issued \cup {NoToken}, attempt : Held, arriving : SUBSET issued,
                 resuming : issued \cup {NoToken}, fresh : BOOLEAN]

QueueShape ==
    /\ sessionPersistenceQueue \in Seq(MobileOp)
    /\ \A i \in Lined : OpTrue(LinedOp(i)) /\ (i # 1 => LinedOp(i).at = "begin" /\ LinedOp(i).kind # "load")

MobileShape == StorageShape /\ PageShape /\ QueueShape

\* Operations end in the order in which they were asked for: a login is shown when the logouts
\* before it have ended, and no logout is asked for before it is shown.
LoginsApart ==
    /\ \A i, j \in Lined :
          /\ LinedOp(i).kind = "persist" /\ LinedOp(j).kind \in Decisive /\ i # j => LinedOp(i).token # LinedOp(j).token
          /\ LinedOp(i).kind = "persist" /\ LinedOp(i).token = page.attempt /\ j > i => LinedOp(j).kind \notin Decisive
    /\ \A i \in Lined : LinedOp(i).kind \in Decisive =>
          /\ page.session = NoToken /\ page.attempt \notin page.arriving
          /\ LinedOp(i).token \notin page.arriving
          /\ LinedOp(i).kind = "persist" => LinedOp(i).token \notin loggedOut
    /\ page.attempt # NoToken => page.session = NoToken
    /\ page.session \notin page.arriving /\ page.arriving \cap loggedOut = {}

\* Until a login begins, nothing but the session found at the start is on its way.
StartAlone ==
    page.fresh =>
        /\ page.attempt = NoToken /\ page.arriving = {}
        /\ page.resuming # NoToken => page.session = NoToken /\ sessionPersistenceQueue = <<>>
        /\ sessionPersistenceQueue # <<>> /\ op.kind = "load" =>
              Tail(sessionPersistenceQueue) = <<>> /\ page.session = NoToken

\* What is left of sessions whose logout was reported.
Leftover == secure.token \in loggedOut \/ plaintext \in loggedOut \/ chats \cap loggedOut # {}

\* The next start, or the next login, will know of it.
LeftoverKnown == Leftover => logoutPending \/ secure.kind = "logout"

HeadOK ==
    sessionPersistenceQueue # <<>> =>
        /\ op.at \in {"save", "token", "migrate"} => ~Leftover
        /\ op.at \in {"token", "migrate"} => op.legacy \notin loggedOut
        /\ op.at = "clear" => /\ op.marked => logoutPending
                              /\ ~op.found /\ Leftover => secure.kind = "logout"

\* A session that is shown, or can be without another operation.
Showing == page.session # NoToken \/ page.attempt \in page.arriving \/ (page.fresh /\ page.resuming # NoToken)

ShownOK ==
    /\ page.session \notin loggedOut
    /\ page.fresh => page.resuming \notin loggedOut
    /\ Showing => chats \cap loggedOut = {}

StoreOK == LeftoverKnown /\ HeadOK /\ ShownOK

MobileInv == MobileShape /\ LoginsApart /\ StartAlone /\ (~crossed => StoreOK)

LEMMA MobileHead ==
  ASSUME QueueShape, sessionPersistenceQueue # <<>>
  PROVE  /\ op \in MobileOp /\ OpTrue(op) /\ 1 \in Lined /\ LinedOp(1) = op
         /\ Len(sessionPersistenceQueue) \in Nat \ {0} /\ Lined = 1..Len(sessionPersistenceQueue)
         /\ Tail(sessionPersistenceQueue) \in Seq(MobileOp)
BY DEF QueueShape, Lined, LinedOp, op

LEMMA OperationTyped ==
  ASSUME NEW k \in {"load", "persist", "logout", "rollback", "invalidate"}, NEW t \in Held,
         NEW history \in BOOLEAN, NEW ahead \in BOOLEAN
  PROVE  Operation(k, t, history, ahead) \in MobileOp
BY DEF Operation, MobileOp, Held

\* A queue whose first operation is at another step.
LEMMA QueueGoesOn ==
  ASSUME QueueShape, sessionPersistenceQueue # <<>>, NEW next \in MobileOp, Continue(next)
  PROVE  /\ sessionPersistenceQueue' \in Seq(MobileOp) /\ sessionPersistenceQueue' # <<>>
         /\ Lined' = Lined /\ op' = next /\ LinedOp(1)' = next
         /\ Tail(sessionPersistenceQueue') = Tail(sessionPersistenceQueue)
         /\ \A i \in Lined : i # 1 => LinedOp(i)' = LinedOp(i)
<1> DEFINE q == sessionPersistenceQueue
           r == <<next>> \o Tail(q)
<1>1. q \in Seq(MobileOp) /\ q # <<>> /\ Len(q) \in Nat \ {0}
  BY DEF QueueShape
<1>2. Tail(q) \in Seq(MobileOp) /\ Len(Tail(q)) = Len(q) - 1
      /\ \A i \in 1..(Len(q) - 1) : Tail(q)[i] = q[i + 1]
  BY <1>1
<1>3. r \in Seq(MobileOp) /\ Len(r) = Len(q) /\ r[1] = next /\ r # <<>>
  BY <1>1, <1>2
<1>4. \A i \in 2..Len(q) : r[i] = Tail(q)[i - 1]
  BY <1>1, <1>2
<1>5. ASSUME NEW i \in 1..Len(q), i # 1
      PROVE  r[i] = q[i]
  <2>1. i \in 2..Len(q) /\ i - 1 \in 1..(Len(q) - 1) /\ (i - 1) + 1 = i
    BY <1>1, <1>5
  <2>2. r[i] = Tail(q)[i - 1]
    BY <2>1, <1>4
  <2>3. Tail(q)[i - 1] = q[(i - 1) + 1]
    BY <2>1, <1>2
  <2>. QED BY <2>1, <2>2, <2>3
<1>6. Tail(r) = Tail(q)
  <2>1. Tail(r) \in Seq(MobileOp) /\ Len(Tail(r)) = Len(q) - 1
    BY <1>1, <1>3
  <2>2. \A i \in 1..(Len(q) - 1) : Tail(r)[i] = Tail(q)[i]
    BY <1>1, <1>2, <1>3, <1>5
  <2>. QED BY <2>1, <2>2, <1>1, <1>2
<1>7. Head(r) = next
  BY <1>1, <1>2, <1>3
<1>. QED BY <1>1, <1>3, <1>5, <1>6, <1>7 DEF Continue, Lined, LinedOp, op

\* What remains of the queue when the first operation has ended; one more may have been asked for.
LEMMA QueueFinishes ==
  ASSUME QueueShape, sessionPersistenceQueue # <<>>,
         \/ Finish
         \/ \E o \in MobileOp : /\ sessionPersistenceQueue' = Append(Tail(sessionPersistenceQueue), o)
                                /\ o.kind \notin Decisive \cup {"load"} /\ o.at = "begin" /\ OpTrue(o)
  PROVE  /\ sessionPersistenceQueue' \in Seq(MobileOp)
         /\ \A i \in Lined' : /\ OpTrue(LinedOp(i)') /\ LinedOp(i)'.at = "begin" /\ LinedOp(i)'.kind # "load"
                              /\ i \in Nat \ {0} /\ (i # 1 => 1 \in Lined')
                              /\ LinedOp(i)'.kind \in Decisive => i + 1 \in Lined /\ LinedOp(i)' = LinedOp(i + 1)
<1> DEFINE q == sessionPersistenceQueue
<1>1. q \in Seq(MobileOp) /\ q # <<>> /\ Len(q) \in Nat \ {0}
  BY DEF QueueShape
<1>2. Tail(q) \in Seq(MobileOp) /\ Len(Tail(q)) = Len(q) - 1
      /\ \A i \in 1..(Len(q) - 1) : Tail(q)[i] = q[i + 1]
  BY <1>1
<1>3. ASSUME NEW i \in 1..(Len(q) - 1)
      PROVE  /\ i + 1 \in Lined /\ Tail(q)[i] = LinedOp(i + 1)
             /\ OpTrue(Tail(q)[i]) /\ Tail(q)[i].at = "begin" /\ Tail(q)[i].kind # "load"
  BY <1>1, <1>2 DEF QueueShape, Lined, LinedOp
<1>4. CASE Finish
  BY <1>1, <1>2, <1>3, <1>4 DEF Finish, Lined, LinedOp
<1>5. ASSUME NEW o \in MobileOp, q' = Append(Tail(q), o), o.kind \notin Decisive \cup {"load"}, o.at = "begin",
             OpTrue(o)
      PROVE  /\ q' \in Seq(MobileOp)
             /\ \A i \in Lined' : /\ OpTrue(LinedOp(i)') /\ LinedOp(i)'.at = "begin" /\ LinedOp(i)'.kind # "load"
                                  /\ i \in Nat \ {0} /\ (i # 1 => 1 \in Lined')
                                  /\ LinedOp(i)'.kind \in Decisive => i + 1 \in Lined /\ LinedOp(i)' = LinedOp(i + 1)
  <2>1. q' \in Seq(MobileOp) /\ Len(q') = Len(q) /\ Lined' = 1..Len(q)
    BY <1>1, <1>2, <1>5 DEF Lined
  <2>2. q'[Len(q)] = o /\ \A i \in 1..(Len(q) - 1) : q'[i] = Tail(q)[i]
    BY <1>1, <1>2, <1>5
  <2>3. ASSUME NEW i \in Lined', i = Len(q)
        PROVE  LinedOp(i)' = o
    BY <2>2, <2>3 DEF LinedOp
  <2>4. ASSUME NEW i \in Lined', i # Len(q)
        PROVE  i \in 1..(Len(q) - 1) /\ LinedOp(i)' = Tail(q)[i]
    BY <2>1, <2>2, <2>4, <1>1 DEF LinedOp
  <2>5. ASSUME NEW i \in Lined'
        PROVE  /\ OpTrue(LinedOp(i)') /\ LinedOp(i)'.at = "begin" /\ LinedOp(i)'.kind # "load"
               /\ LinedOp(i)'.kind \in Decisive => i + 1 \in Lined /\ LinedOp(i)' = LinedOp(i + 1)
    <3>1. CASE i = Len(q)
      BY <3>1, <2>3, <1>5
    <3>2. CASE i # Len(q)
      BY <3>2, <2>4, <1>3
    <3>. QED BY <3>1, <3>2
  <2>6. \A i \in Lined' : i \in Nat \ {0} /\ (i # 1 => 1 \in Lined')
    BY <2>1, <1>1
  <2>. QED BY <2>1, <2>5, <2>6
<1>. QED BY <1>4, <1>5

-----------------------------------------------------------------------------
(* What a step of the first operation does to the queue and to the page.   *)

HeadGoesOn ==
    /\ \E next \in MobileOp :
          /\ Continue(next) /\ OpTrue(next)
          /\ next.token = op.token /\ next.kind \in {op.kind, "rollback"}
    /\ UNCHANGED <<page, loggedOut>>

HeadEnds == Finish /\ UNCHANGED <<page, loggedOut>>

HeadIsTold == op.kind = "logout" /\ Finish /\ UNCHANGED page /\ Told(op.token)

HeadSignsOut ==
    /\ op.kind = "invalidate" /\ Finish
    /\ page.session = op.token /\ Told(op.token) /\ page' = [page EXCEPT !.session = NoToken]

HeadArrives ==
    /\ op.kind = "persist" /\ op.at = "save" /\ Finish
    /\ page.attempt = op.token /\ page' = [page EXCEPT !.arriving = @ \cup {op.token}]
    /\ UNCHANGED loggedOut

HeadIsTakenBack ==
    /\ sessionPersistenceQueue' = Append(Tail(sessionPersistenceQueue), Operation("rollback", op.token, FALSE, TRUE))
    /\ UNCHANGED <<page, loggedOut>>

HeadResumes ==
    /\ op.kind = "load" /\ op.at \in {"token", "migrate"} /\ Finish
    /\ \E t \in issued \cup {NoToken} : page' = [page EXCEPT !.resuming = t] /\ (~crossed => t \notin loggedOut)
    /\ UNCHANGED loggedOut

HeadStep ==
    /\ UNCHANGED <<issued, bridge>>
    /\ \/ HeadGoesOn \/ HeadEnds \/ HeadIsTold \/ HeadSignsOut \/ HeadArrives \/ HeadIsTakenBack \/ HeadResumes

\* After the first operation has ended, the others have still to begin.
LEMMA HeadEnded ==
  ASSUME QueueShape, PageShape, sessionPersistenceQueue # <<>>, issued' = issued,
         Finish \/ HeadIsTakenBack
  PROVE  /\ QueueShape'
         /\ \A i \in Lined' : /\ i \in Nat \ {0} /\ LinedOp(i)'.at = "begin" /\ LinedOp(i)'.kind # "load"
                              /\ LinedOp(i)'.kind \in Decisive => i + 1 \in Lined /\ LinedOp(i)' = LinedOp(i + 1)
         /\ sessionPersistenceQueue' # <<>> => op'.at = "begin" /\ op'.kind # "load"
<1> DEFINE o == Operation("rollback", op.token, FALSE, TRUE)
<1>1. op \in MobileOp
  BY MobileHead
<1>2. o \in MobileOp /\ o.kind = "rollback" /\ o.at = "begin" /\ o.legacy = NoToken
  BY <1>1, OperationTyped DEF Operation, MobileOp
<1>3. OpTrue(o) /\ o.kind \notin Decisive \cup {"load"}
  BY <1>2 DEF OpTrue, Decisive
<1> HIDE DEF o
<1>4. \/ Finish
      \/ \E x \in MobileOp : /\ sessionPersistenceQueue' = Append(Tail(sessionPersistenceQueue), x)
                             /\ x.kind \notin Decisive \cup {"load"} /\ x.at = "begin" /\ OpTrue(x)
  BY <1>2, <1>3 DEF HeadIsTakenBack, o
<1>5. /\ sessionPersistenceQueue' \in Seq(MobileOp)
      /\ \A i \in Lined' : /\ OpTrue(LinedOp(i)') /\ LinedOp(i)'.at = "begin" /\ LinedOp(i)'.kind # "load"
                           /\ i \in Nat \ {0} /\ (i # 1 => 1 \in Lined')
                           /\ LinedOp(i)'.kind \in Decisive => i + 1 \in Lined /\ LinedOp(i)' = LinedOp(i + 1)
  BY <1>4, QueueFinishes
<1>6. QueueShape'
  BY <1>5 DEF QueueShape, OpTrue
<1>7. sessionPersistenceQueue' # <<>> => 1 \in Lined' /\ op' = LinedOp(1)'
  BY <1>5 DEF Lined, LinedOp, op
<1>. QED BY <1>5, <1>6, <1>7

LEMMA HeadEndsKeeps ==
  ASSUME MobileShape, LoginsApart, StartAlone, sessionPersistenceQueue # <<>>, HeadStep, ~HeadGoesOn
  PROVE  PageShape' /\ QueueShape' /\ LoginsApart' /\ StartAlone'
<1>1. issued' = issued /\ (Finish \/ HeadIsTakenBack)
  BY DEF HeadStep, HeadEnds, HeadIsTold, HeadSignsOut, HeadArrives, HeadResumes
<1>2. /\ QueueShape'
      /\ \A i \in Lined' : /\ i \in Nat \ {0} /\ LinedOp(i)'.at = "begin" /\ LinedOp(i)'.kind # "load"
                           /\ LinedOp(i)'.kind \in Decisive => i + 1 \in Lined /\ LinedOp(i)' = LinedOp(i + 1)
      /\ sessionPersistenceQueue' # <<>> => op'.kind # "load"
  BY <1>1, HeadEnded DEF MobileShape
<1>3. /\ op \in MobileOp /\ OpTrue(op) /\ 1 \in Lined /\ LinedOp(1) = op
  BY MobileHead DEF MobileShape
<1>4. PageShape
  BY DEF MobileShape
<1>5. \A i, j \in Lined' :
         /\ LinedOp(i)'.kind = "persist" /\ LinedOp(j)'.kind \in Decisive /\ i # j => LinedOp(i)'.token # LinedOp(j)'.token
         /\ LinedOp(i)'.kind = "persist" /\ LinedOp(i)'.token = page.attempt /\ j > i => LinedOp(j)'.kind \notin Decisive
  <2> SUFFICES ASSUME NEW i \in Lined', NEW j \in Lined', LinedOp(i)'.kind = "persist", LinedOp(j)'.kind \in Decisive
               PROVE  /\ i # j => LinedOp(i)'.token # LinedOp(j)'.token
                      /\ ~(LinedOp(i)'.token = page.attempt /\ j > i)
    OBVIOUS
  <2>1. i \in Nat /\ j \in Nat /\ i + 1 \in Lined /\ j + 1 \in Lined /\ LinedOp(i)' = LinedOp(i + 1)
        /\ LinedOp(j)' = LinedOp(j + 1)
    BY <1>2 DEF Decisive
  <2>2. (i # j => i + 1 # j + 1) /\ (j > i => j + 1 > i + 1)
    BY <2>1
  <2>. QED BY <2>1, <2>2 DEF LoginsApart
<1>6. ASSUME NEW i \in Lined', LinedOp(i)'.kind \in Decisive
      PROVE  /\ page.session = NoToken /\ page.attempt \notin page.arriving
             /\ LinedOp(i)'.token \notin page.arriving
             /\ LinedOp(i)'.kind = "persist" => LinedOp(i)'.token \notin loggedOut
             /\ op.kind = "persist" => LinedOp(i)'.token # op.token /\ page.attempt # op.token
             /\ LinedOp(i)'.kind = "persist" /\ op.kind = "logout" => LinedOp(i)'.token # op.token
  <2>1. i \in Nat \ {0} /\ i + 1 \in Lined /\ LinedOp(i)' = LinedOp(i + 1) /\ i + 1 > 1 /\ i + 1 # 1
    BY <1>2, <1>6
  <2>. QED BY <2>1, <1>3, <1>6 DEF LoginsApart, Decisive
<1>7. op.kind \in Decisive =>
         /\ page.session = NoToken /\ page.attempt \notin page.arriving /\ op.token \notin page.arriving
         /\ op.kind = "persist" => op.token \notin loggedOut
         /\ op.token \in issued
  BY <1>3 DEF LoginsApart, OpTrue
<1>8. page.fresh => page.resuming = NoToken
  BY DEF StartAlone
<1>9. CASE HeadEnds \/ HeadIsTakenBack
  <2>1. page' = page /\ loggedOut' = loggedOut
    BY <1>9 DEF HeadEnds, HeadIsTakenBack
  <2>2. PageShape'
    BY <2>1, <1>1, <1>4 DEF PageShape
  <2>3. LoginsApart'
    BY <2>1, <1>5, <1>6 DEF LoginsApart
  <2>. QED BY <2>1, <2>2, <2>3, <1>2, <1>8 DEF StartAlone
<1>10. CASE HeadIsTold
  <2>1. page' = page /\ loggedOut' \subseteq loggedOut \cup {op.token} /\ op.kind = "logout" /\ op.kind \in Decisive
    BY <1>10 DEF HeadIsTold, Told, Decisive
  <2>2. PageShape'
    BY <2>1, <1>1, <1>4, <1>7 DEF PageShape
  <2>3. LoginsApart'
    BY <2>1, <1>5, <1>6, <1>7 DEF LoginsApart
  <2>. QED BY <2>1, <2>2, <2>3, <1>2, <1>8 DEF StartAlone
<1>11. CASE HeadSignsOut
  <2>1. /\ page' = [page EXCEPT !.session = NoToken]
        /\ loggedOut' = loggedOut \cup ({page.session} \ {NoToken})
    BY <1>11 DEF HeadSignsOut, Told
  <2>2. /\ page'.session = NoToken /\ page'.attempt = page.attempt /\ page'.arriving = page.arriving
        /\ page'.resuming = page.resuming /\ page'.fresh = page.fresh
    BY <2>1, <1>4 DEF PageShape
  <2>3. PageShape'
    BY <2>1, <1>1, <1>4 DEF PageShape
  <2>4. page.arriving \cap loggedOut' = {} /\ NoToken \notin page.arriving
    BY <2>1, <1>4, MobileAssumption DEF LoginsApart, PageShape
  <2>5. LoginsApart'
    BY <2>1, <2>2, <2>4, <1>5, <1>6 DEF LoginsApart
  <2>. QED BY <2>2, <2>3, <2>5, <1>2, <1>8 DEF StartAlone
<1>12. CASE HeadArrives
  <2>1. /\ page' = [page EXCEPT !.arriving = @ \cup {op.token}] /\ page.attempt = op.token
        /\ op.kind = "persist" /\ op.kind \in Decisive /\ loggedOut' = loggedOut
    BY <1>12 DEF HeadArrives, Decisive
  <2>2. /\ page'.session = page.session /\ page'.attempt = page.attempt
        /\ page'.arriving = page.arriving \cup {op.token}
        /\ page'.resuming = page.resuming /\ page'.fresh = page.fresh
    BY <2>1, <1>4 DEF PageShape
  <2>3. PageShape'
    BY <2>1, <2>2, <1>1, <1>4, <1>7 DEF PageShape
  <2>4. \A i \in Lined' : LinedOp(i)'.kind \notin Decisive
    BY <2>1, <1>6
  <2>5. op.token # NoToken
    BY <2>1, <1>4, <1>7, MobileAssumption DEF PageShape
  <2>6. LoginsApart'
    BY <2>1, <2>2, <2>4, <2>5, <1>5, <1>7 DEF LoginsApart, Decisive
  <2>7. ~page.fresh
    BY <2>1, <2>5 DEF StartAlone
  <2>. QED BY <2>2, <2>3, <2>6, <2>7, <1>2 DEF StartAlone
<1>13. CASE HeadResumes
  <2>1. PICK t \in issued \cup {NoToken} : page' = [page EXCEPT !.resuming = t]
    BY <1>13 DEF HeadResumes
  <2>2. /\ page'.session = page.session /\ page'.attempt = page.attempt /\ page'.arriving = page.arriving
        /\ page'.resuming = t /\ page'.fresh = page.fresh /\ loggedOut' = loggedOut
    BY <2>1, <1>4, <1>13 DEF PageShape, HeadResumes
  <2>3. PageShape'
    BY <2>1, <2>2, <1>1, <1>4 DEF PageShape
  <2>4. LoginsApart'
    BY <2>2, <1>5, <1>6 DEF LoginsApart
  <2>5. page.fresh => sessionPersistenceQueue' = <<>> /\ page.session = NoToken
    BY <1>13 DEF HeadResumes, StartAlone, Finish
  <2>. QED BY <2>2, <2>3, <2>4, <2>5, <1>2 DEF StartAlone
<1>. QED BY <1>9, <1>10, <1>11, <1>12, <1>13 DEF HeadStep

LEMMA HeadStepKeeps ==
  ASSUME MobileShape, LoginsApart, StartAlone, sessionPersistenceQueue # <<>>, HeadStep
  PROVE  PageShape' /\ QueueShape' /\ LoginsApart' /\ StartAlone'
<1>1. CASE HeadGoesOn
  <2>1. PICK next \in MobileOp : /\ Continue(next) /\ OpTrue(next)
                                 /\ next.token = op.token /\ next.kind \in {op.kind, "rollback"}
    BY <1>1 DEF HeadGoesOn
  <2>2. UNCHANGED <<page, loggedOut, issued>>
    BY <1>1 DEF HeadGoesOn, HeadStep
  <2>3. /\ sessionPersistenceQueue' \in Seq(MobileOp) /\ sessionPersistenceQueue' # <<>>
        /\ Lined' = Lined /\ op' = next /\ LinedOp(1)' = next
        /\ Tail(sessionPersistenceQueue') = Tail(sessionPersistenceQueue)
        /\ \A i \in Lined : i # 1 => LinedOp(i)' = LinedOp(i)
    BY <2>1, QueueGoesOn DEF MobileShape
  <2>4. 1 \in Lined /\ LinedOp(1) = op
    BY MobileHead DEF MobileShape
  <2>5. PageShape'
    BY <2>2 DEF MobileShape, PageShape
  <2>6. QueueShape'
    <3>1. ASSUME NEW i \in Lined
          PROVE  OpTrue(LinedOp(i))' /\ (i # 1 => LinedOp(i)'.at = "begin" /\ LinedOp(i)'.kind # "load")
      BY <2>1, <2>2, <2>3 DEF MobileShape, QueueShape, OpTrue
    <3>. QED BY <2>3, <3>1 DEF QueueShape
  <2>7. \A i \in Lined : LinedOp(i)'.kind \in Decisive =>
           LinedOp(i)'.kind = LinedOp(i).kind /\ LinedOp(i)'.token = LinedOp(i).token
    BY <2>1, <2>3, <2>4 DEF Decisive
  <2>8. LoginsApart'
    BY <2>2, <2>3, <2>7 DEF LoginsApart, Decisive
  <2>9. StartAlone'
    BY <2>1, <2>2, <2>3 DEF StartAlone
  <2>. QED BY <2>5, <2>6, <2>8, <2>9
<1>. QED BY <1>1, HeadEndsKeeps

-----------------------------------------------------------------------------
(* Each step of the storage is such a step of the first operation.         *)

\* Marking leaves the operation at its clearing, with what it has found.
LEMMA MarkSteps ==
  ASSUME NEW ahead \in BOOLEAN, NEW next \in MobileOp, Mark(ahead, next), StorageShape
  PROVE  /\ plaintext' \in {plaintext, NoToken} /\ logoutPending' \in BOOLEAN
         /\ logoutPending => logoutPending'
         /\ \E o \in MobileOp :
               /\ Continue(o) /\ o.kind = next.kind /\ o.token = next.token /\ o.history = next.history
               /\ o.ahead = next.ahead /\ o.legacy = next.legacy /\ o.at = "clear"
               /\ o.found = logoutPending /\ (o.marked => logoutPending')
<1>1. PICK w \in BOOLEAN, r \in BOOLEAN, again \in BOOLEAN :
         /\ plaintext' = IF (ahead /\ ~w) /\ r THEN NoToken ELSE plaintext
         /\ logoutPending' = (logoutPending \/ (ahead /\ (w \/ again)))
         /\ Continue([next EXCEPT !.at = "clear", !.marked = (ahead /\ (w \/ again)), !.found = logoutPending,
                                  !.gone = ((ahead /\ ~w) /\ r)])
  BY DEF Mark
<1> DEFINE m == ahead /\ (w \/ again)
           g == (ahead /\ ~w) /\ r
           o == [next EXCEPT !.at = "clear", !.marked = m, !.found = logoutPending, !.gone = g]
<1>2. m \in BOOLEAN /\ g \in BOOLEAN /\ logoutPending \in BOOLEAN
  BY DEF StorageShape
<1>3. logoutPending' = (logoutPending \/ m) /\ Continue(o)
  BY <1>1
<1> HIDE DEF m, g
<1>4. /\ o \in MobileOp /\ o.kind = next.kind /\ o.token = next.token /\ o.history = next.history
      /\ o.ahead = next.ahead /\ o.legacy = next.legacy /\ o.at = "clear"
      /\ o.found = logoutPending /\ o.marked = m
  BY <1>2 DEF MobileOp
<1>5. plaintext' \in {plaintext, NoToken}
  BY <1>1
<1>. QED BY <1>2, <1>3, <1>4, <1>5

\* With a mark, the first operation goes on.
LEMMA MarkGoesOn ==
  ASSUME MobileShape, NEW ahead \in BOOLEAN, NEW next \in MobileOp, Mark(ahead, next),
         OpTrue(next) \/ (next.kind = "rollback" /\ next.legacy \in issued \cup {NoToken}),
         next.token = op.token, next.kind \in {op.kind, "rollback"}, UNCHANGED <<page, loggedOut>>
  PROVE  HeadGoesOn
<1>1. PICK o \in MobileOp :
         /\ Continue(o) /\ o.kind = next.kind /\ o.token = next.token /\ o.history = next.history
         /\ o.ahead = next.ahead /\ o.legacy = next.legacy /\ o.at = "clear"
  BY MarkSteps DEF MobileShape
<1>2. OpTrue(o)
  BY <1>1 DEF OpTrue, Decisive
<1>. QED BY <1>1, <1>2 DEF HeadGoesOn

ClearResults == {"cleared", "failedCleared", "other", "unrecorded", "failed", "unsaid"}

\* How a clearing ends: only a logout or an invalidation tells of it, and a login may go on.
LEMMA EndsSteps ==
  ASSUME QueueShape, sessionPersistenceQueue # <<>>, NEW result \in ClearResults, Ends(result)
  PROVE  \/ HeadEnds
         \/ HeadIsTold /\ result \notin {"unrecorded", "other"}
         \/ HeadSignsOut /\ result \in {"cleared", "failedCleared"}
         \/ /\ op.kind = "persist" /\ result = "cleared" /\ Continue([op EXCEPT !.at = "save"])
            /\ HeadGoesOn
<1>1. op \in MobileOp /\ OpTrue(op)
  BY MobileHead
<1>2. CASE op.kind = "logout"
  BY <1>2 DEF Ends, HeadEnds, HeadIsTold
<1>3. CASE op.kind = "invalidate"
  <2>1. CASE result \in {"cleared", "failedCleared"} /\ page.session = op.token
    BY <1>3, <2>1 DEF Ends, HeadSignsOut
  <2>2. CASE ~(result \in {"cleared", "failedCleared"} /\ page.session = op.token)
    BY <1>3, <2>2 DEF Ends, HeadEnds
  <2>. QED BY <2>1, <2>2
<1>4. CASE op.kind = "persist" /\ result = "cleared"
  <2> DEFINE next == [op EXCEPT !.at = "save"]
  <2>1. Continue(next) /\ UNCHANGED <<page, loggedOut>>
    BY <1>4 DEF Ends
  <2>2. next \in MobileOp /\ next.token = op.token /\ next.kind = op.kind /\ next.at = "save"
        /\ next.history = op.history /\ next.ahead = op.ahead /\ next.legacy = op.legacy
    BY <1>1 DEF MobileOp
  <2>3. OpTrue(next)
    BY <1>1, <1>4, <2>2 DEF OpTrue
  <2> HIDE DEF next
  <2>4. HeadGoesOn
    BY <2>1, <2>2, <2>3 DEF HeadGoesOn
  <2>. QED BY <1>4, <2>1, <2>4 DEF next
<1>5. CASE op.kind = "persist" /\ result # "cleared"
  BY <1>5 DEF Ends, HeadEnds
<1>6. CASE op.kind \in {"load", "rollback"}
  BY <1>6 DEF Ends, HeadEnds
<1>. QED BY <1>1, <1>2, <1>3, <1>4, <1>5, <1>6 DEF MobileOp

\* The results of the clearing, case by case.
LEMMA RestRemoved ==
  ASSUME NEW r \in BOOLEAN, NEW h \in BOOLEAN, NEW w \in BOOLEAN, op \in MobileOp, RemoveRest(r, h, w), StorageShape
  PROVE  /\ UNCHANGED crossed /\ logoutPending' \in BOOLEAN
         /\ chats' \in {chats, {}} /\ plaintext' \in {plaintext, NoToken}
         /\ \/ Ends("failedCleared")
            \/ Ends("cleared") /\ plaintext' = NoToken /\ (op.history => chats' = {})
<1> DEFINE plain == op.gone \/ r
           gone == op.history => h
<1>1. /\ UNCHANGED crossed /\ plaintext' = (IF plain THEN NoToken ELSE plaintext)
      /\ IF op.history THEN chats' = (IF h THEN {} ELSE chats) ELSE chats' = chats
      /\ logoutPending' = IF plain /\ gone THEN logoutPending /\ ~w ELSE logoutPending \/ w
      /\ Ends(IF plain /\ gone /\ w THEN "cleared" ELSE "failedCleared")
  BY DEF RemoveRest, removePlaintext, clearHistory
<1>2. op.history \in BOOLEAN /\ plain \in BOOLEAN /\ gone \in BOOLEAN /\ logoutPending \in BOOLEAN
  BY DEF MobileOp, StorageShape
<1>3. logoutPending' \in BOOLEAN
  <2>1. CASE plain /\ gone
    BY <2>1, <1>1, <1>2
  <2>2. CASE ~(plain /\ gone)
    BY <2>2, <1>1, <1>2
  <2>. QED BY <2>1, <2>2
<1>4. chats' \in {chats, {}} /\ plaintext' \in {plaintext, NoToken}
  BY <1>1, <1>2
<1>5. CASE plain /\ gone /\ w
  <2>1. Ends("cleared")
    BY <1>1, <1>5
  <2>2. plaintext' = NoToken /\ (op.history => chats' = {})
    BY <1>1, <1>5
  <2>. QED BY <2>1, <2>2, <1>1, <1>3, <1>4
<1>6. CASE ~(plain /\ gone /\ w)
  <2>1. Ends("failedCleared")
    BY <1>1, <1>6
  <2>. QED BY <2>1, <1>1, <1>3, <1>4
<1>. QED BY <1>5, <1>6

LEMMA OtherLeftAlone ==
  ASSUME NEW w \in BOOLEAN, op \in MobileOp, LeaveAlone(w), StorageShape
  PROVE  /\ UNCHANGED <<plaintext, chats>> /\ Ends("other") /\ logoutPending' \in BOOLEAN /\ crossed' \in BOOLEAN
         /\ logoutPending' = logoutPending \/ (op.marked /\ (op.found => crossed'))
         /\ crossed => crossed'
<1>1. op.marked \in BOOLEAN /\ op.found \in BOOLEAN /\ logoutPending \in BOOLEAN /\ crossed \in BOOLEAN
  BY DEF MobileOp, StorageShape
<1>2. /\ logoutPending' = (logoutPending /\ ~(op.marked /\ w))
      /\ crossed' = (crossed \/ (op.marked /\ w /\ op.found))
  BY DEF LeaveAlone
<1>3. UNCHANGED <<plaintext, chats>> /\ Ends("other")
  BY DEF LeaveAlone
<1>4. logoutPending' \in BOOLEAN /\ crossed' \in BOOLEAN
  BY <1>1, <1>2
<1>5. logoutPending' = logoutPending \/ (op.marked /\ (op.found => crossed'))
  BY <1>1, <1>2
<1>. QED BY <1>1, <1>2, <1>3, <1>4, <1>5

LEMMA MarkedAgain ==
  ASSUME NEW r \in BOOLEAN, NEW w \in BOOLEAN, op \in MobileOp, MarkAgain(r, w), StorageShape
  PROVE  /\ UNCHANGED <<chats, crossed>> /\ plaintext' \in {plaintext, NoToken} /\ logoutPending' \in BOOLEAN
         /\ logoutPending => logoutPending'
         /\ \/ Ends("unrecorded")
            \/ Ends("failed") /\ (op.marked \/ logoutPending')
            \/ Ends("unsaid") /\ ~op.ahead
<1>1. op.marked \in BOOLEAN /\ op.ahead \in BOOLEAN /\ logoutPending \in BOOLEAN
  BY DEF MobileOp, StorageShape
<1>2. /\ UNCHANGED <<chats, crossed>>
      /\ logoutPending' = (logoutPending \/ ((op.ahead /\ ~op.marked) /\ w))
      /\ Ends(IF (op.ahead /\ ~op.marked) /\ ~w THEN "unrecorded" ELSE IF op.ahead THEN "failed" ELSE "unsaid")
  BY DEF MarkAgain
<1>3. plaintext' \in {plaintext, NoToken}
  BY DEF MarkAgain, removePlaintext
<1>4. logoutPending' \in BOOLEAN /\ (logoutPending => logoutPending')
  BY <1>1, <1>2
<1>5. CASE (op.ahead /\ ~op.marked) /\ ~w
  <2>1. Ends("unrecorded")
    BY <1>2, <1>5
  <2>. QED BY <2>1, <1>2, <1>3, <1>4
<1>6. CASE ~((op.ahead /\ ~op.marked) /\ ~w) /\ op.ahead
  <2>1. Ends("failed")
    BY <1>2, <1>6
  <2>2. op.marked \/ logoutPending'
    BY <1>1, <1>2, <1>6
  <2>. QED BY <2>1, <2>2, <1>2, <1>3, <1>4
<1>7. CASE ~op.ahead
  <2>1. Ends("unsaid")
    BY <1>2, <1>7
  <2>. QED BY <2>1, <1>7, <1>2, <1>3, <1>4
<1>. QED BY <1>5, <1>6, <1>7

LEMMA ClearCases ==
  ASSUME MobileShape, Clear
  PROVE  /\ UNCHANGED <<issued, bridge>> /\ sessionPersistenceQueue # <<>> /\ op.at = "clear"
         /\ StorageShape' /\ (crossed => crossed')
         /\ chats' \in {chats, {}} /\ plaintext' \in {plaintext, NoToken}
         /\ \/ /\ secure' = Logout
               /\ \/ Ends("failedCleared")
                  \/ Ends("cleared") /\ plaintext' = NoToken /\ (op.history => chats' = {})
            \/ /\ secure' = secure
               /\ UNCHANGED <<plaintext, chats>>
               /\ Ends("other")
               /\ logoutPending' = logoutPending \/ (op.marked /\ (op.found => crossed'))
            \/ /\ secure' \in {secure, Logout}
               /\ logoutPending => logoutPending'
               /\ \/ Ends("unrecorded")
                  \/ Ends("failed") /\ (op.marked \/ logoutPending')
                  \/ Ends("unsaid") /\ ~op.ahead
<1> DEFINE expected == IF op.kind \in {"logout", "rollback", "invalidate"} THEN op.token ELSE NoToken
<1>1. PICK n \in ClearedToken(expected), r \in BOOLEAN, h \in BOOLEAN, w \in BOOLEAN :
        /\ secure' = n.record
        /\ \/ n.cleared /\ RemoveRest(r, h, w)
           \/ n.ok /\ ~n.cleared /\ LeaveAlone(w)
           \/ ~n.ok /\ MarkAgain(r, w)
  BY DEF Clear
<1>2. UNCHANGED <<issued, bridge>> /\ sessionPersistenceQueue # <<>> /\ op.at = "clear"
  BY DEF Clear, Running
<1>3. op \in MobileOp
  BY <1>2, MobileHead DEF MobileShape
<1>4. StorageShape
  BY DEF MobileShape
<1>5. \/ n.ok = FALSE /\ n.cleared = FALSE /\ n.record \in {secure, Logout}
      \/ n.ok = TRUE /\ n.cleared = FALSE /\ n.record = secure
      \/ n.ok = TRUE /\ n.cleared = TRUE /\ n.record = Logout
  BY DEF ClearedToken, replaceInvalidSessionWithLogout
<1>6. /\ Logout \in [kind : {"empty", "invalid", "logout", "token", "legacy"}, token : issued \cup {NoToken}]
      /\ Logout.kind = "logout" /\ Logout.token = NoToken
  BY DEF Logout
<1>7. ASSUME secure' \in {secure, Logout}, chats' \in {chats, {}}, plaintext' \in {plaintext, NoToken},
             logoutPending' \in BOOLEAN, crossed' \in BOOLEAN
      PROVE  StorageShape'
  BY <1>2, <1>4, <1>6, <1>7 DEF StorageShape
<1>8. crossed \in BOOLEAN
  BY <1>4 DEF StorageShape
<1>9. CASE n.cleared /\ RemoveRest(r, h, w)
  <2>1. /\ UNCHANGED crossed /\ logoutPending' \in BOOLEAN
        /\ chats' \in {chats, {}} /\ plaintext' \in {plaintext, NoToken}
        /\ \/ Ends("failedCleared")
           \/ Ends("cleared") /\ plaintext' = NoToken /\ (op.history => chats' = {})
    BY <1>3, <1>4, <1>9, RestRemoved
  <2>2. secure' = Logout
    BY <1>1, <1>5, <1>9
  <2>. QED BY <2>1, <2>2, <1>2, <1>7, <1>8
<1>10. CASE n.ok /\ ~n.cleared /\ LeaveAlone(w)
  <2>1. /\ UNCHANGED <<plaintext, chats>> /\ Ends("other") /\ logoutPending' \in BOOLEAN /\ crossed' \in BOOLEAN
        /\ logoutPending' = logoutPending \/ (op.marked /\ (op.found => crossed'))
        /\ crossed => crossed'
    BY <1>3, <1>4, <1>10, OtherLeftAlone
  <2>2. secure' = secure
    BY <1>1, <1>5, <1>10
  <2>. QED BY <2>1, <2>2, <1>2, <1>7, <1>8
<1>11. CASE ~n.ok /\ MarkAgain(r, w)
  <2>1. /\ UNCHANGED <<chats, crossed>> /\ plaintext' \in {plaintext, NoToken} /\ logoutPending' \in BOOLEAN
        /\ logoutPending => logoutPending'
        /\ \/ Ends("unrecorded")
           \/ Ends("failed") /\ (op.marked \/ logoutPending')
           \/ Ends("unsaid") /\ ~op.ahead
    BY <1>3, <1>4, <1>11, MarkedAgain
  <2>2. secure' \in {secure, Logout}
    BY <1>1, <1>5, <1>11
  <2>. QED BY <2>1, <2>2, <1>2, <1>7, <1>8
<1>. QED BY <1>1, <1>9, <1>10, <1>11

\* A step of the storage: what it does to the queue and the page, and what it leaves.
StorageStep ==
    /\ sessionPersistenceQueue # <<>> /\ HeadStep /\ StorageShape' /\ (crossed => crossed') /\ chats' \subseteq chats
    /\ ~crossed' => LeftoverKnown' /\ (HeadOK' \/ Finish \/ HeadIsTakenBack)

\* What is shown was not logged out, and nobody else's messages lie beside it.
LEMMA ShownStays ==
  ASSUME MobileShape, LoginsApart, StartAlone, HeadOK, ShownOK, StorageStep, ~crossed
  PROVE  ShownOK'
<1>1. PageShape /\ chats' \subseteq chats /\ PageShape'
  BY HeadStepKeeps DEF MobileShape, StorageStep
<1>2. NoToken \notin issued /\ NoToken \notin loggedOut /\ NoToken \notin loggedOut' /\ NoToken \notin page.arriving
  BY <1>1, MobileAssumption DEF PageShape
<1>3. page.fresh => page.resuming = NoToken
  BY DEF StartAlone, StorageStep
<1>4. op \in MobileOp /\ 1 \in Lined /\ LinedOp(1) = op
  BY MobileHead DEF MobileShape, StorageStep
<1>5. CASE HeadGoesOn \/ HeadEnds \/ HeadIsTakenBack
  <2>1. page' = page /\ loggedOut' = loggedOut
    BY <1>5 DEF HeadGoesOn, HeadEnds, HeadIsTakenBack
  <2>. QED BY <2>1, <1>1 DEF ShownOK, Showing
<1>6. CASE HeadIsTold
  <2>1. page' = page /\ op.kind \in Decisive
    BY <1>6 DEF HeadIsTold, Decisive
  <2>2. page.session = NoToken /\ page.attempt \notin page.arriving
    BY <2>1, <1>4 DEF LoginsApart
  <2>. QED BY <2>1, <2>2, <1>2, <1>3 DEF ShownOK, Showing
<1>7. CASE HeadSignsOut
  <2>1. /\ page'.session = NoToken /\ page'.attempt = page.attempt /\ page'.arriving = page.arriving
        /\ page'.resuming = page.resuming /\ page'.fresh = page.fresh
        /\ loggedOut' = loggedOut \cup ({page.session} \ {NoToken})
    BY <1>7, <1>1 DEF HeadSignsOut, PageShape, Told
  <2>2. CASE page.session = NoToken
    BY <2>1, <2>2, <1>1 DEF ShownOK, Showing
  <2>3. CASE page.session # NoToken
    BY <2>1, <2>3, <1>2, <1>3 DEF ShownOK, Showing, LoginsApart
  <2>. QED BY <2>2, <2>3
<1>8. CASE HeadArrives
  <2>1. page'.session = page.session /\ page'.resuming = page.resuming /\ page'.fresh = page.fresh
        /\ loggedOut' = loggedOut
    BY <1>8, <1>1 DEF HeadArrives, PageShape
  <2>2. chats \cap loggedOut = {}
    BY <1>8 DEF HeadArrives, HeadOK, Leftover, StorageStep
  <2>. QED BY <2>1, <2>2, <1>1 DEF ShownOK, Showing
<1>9. CASE HeadResumes
  <2>1. PICK t \in issued \cup {NoToken} : page' = [page EXCEPT !.resuming = t] /\ t \notin loggedOut
    BY <1>9 DEF HeadResumes
  <2>2. page'.session = page.session /\ page'.resuming = t /\ loggedOut' = loggedOut
    BY <1>9, <2>1, <1>1 DEF HeadResumes, PageShape
  <2>3. chats \cap loggedOut = {}
    BY <1>9 DEF HeadResumes, HeadOK, Leftover, StorageStep
  <2>. QED BY <2>1, <2>2, <2>3, <1>1 DEF ShownOK, Showing
<1>. QED BY <1>5, <1>6, <1>7, <1>8, <1>9 DEF StorageStep, HeadStep

LEMMA StorageStepKeeps ==
  ASSUME MobileInv, StorageStep
  PROVE  MobileInv'
<1>1. PageShape' /\ QueueShape' /\ LoginsApart' /\ StartAlone'
  BY HeadStepKeeps DEF MobileInv, StorageStep
<1>2. MobileShape'
  BY <1>1 DEF StorageStep, MobileShape
<1>3. ASSUME ~crossed'
      PROVE  StoreOK'
  <2>1. StoreOK /\ ~crossed /\ LeftoverKnown' /\ (HeadOK' \/ Finish \/ HeadIsTakenBack)
    BY <1>3 DEF MobileInv, StorageStep
  <2>2. ShownOK'
    BY <2>1, ShownStays DEF StoreOK, MobileInv
  <2>3. HeadOK'
    <3>1. CASE Finish \/ HeadIsTakenBack
      <4>1. sessionPersistenceQueue' # <<>> => op'.at = "begin"
        BY <3>1, HeadEnded DEF MobileInv, MobileShape, StorageStep, HeadStep
      <4>. QED BY <4>1 DEF HeadOK
    <3>. QED BY <3>1, <2>1
  <2>. QED BY <2>1, <2>2, <2>3 DEF StoreOK
<1>. QED BY <1>1, <1>2, <1>3 DEF MobileInv

\* A mark says of everything that is left.
LEMMA MarkKnows ==
  ASSUME MobileShape, sessionPersistenceQueue # <<>>, NEW ahead \in BOOLEAN, NEW next \in MobileOp, Mark(ahead, next),
         UNCHANGED <<chats, loggedOut>>, LeftoverKnown,
         secure'.token \in loggedOut => secure.token \in loggedOut,
         Leftover /\ secure.kind = "logout" => secure'.kind = "logout"
  PROVE  LeftoverKnown' /\ HeadOK'
<1>1. /\ plaintext' \in {plaintext, NoToken} /\ logoutPending' \in BOOLEAN
      /\ logoutPending => logoutPending'
  BY MarkSteps DEF MobileShape
<1>2. PICK o \in MobileOp : Continue(o) /\ o.at = "clear" /\ o.found = logoutPending /\ (o.marked => logoutPending')
  BY MarkSteps DEF MobileShape
<1>3. op' = o
  BY <1>2, QueueGoesOn DEF MobileShape
<1>4. Leftover' => Leftover
  BY <1>1, MobileAssumption DEF Leftover, MobileShape, PageShape
<1>5. LeftoverKnown'
  BY <1>1, <1>4 DEF LeftoverKnown
<1>6. ~logoutPending /\ Leftover' => secure'.kind = "logout"
  BY <1>4 DEF LeftoverKnown
<1>. QED BY <1>2, <1>3, <1>5, <1>6 DEF HeadOK

\* The secure store after a save or a load, and after a clearing.
LEMMA Records ==
  ASSUME StorageShape, issued' = issued, NEW t \in issued \cup {NoToken},
         secure' \in {secure, Stored(t), Logout, Stored(secure.token)}
  PROVE  /\ secure' \in [kind : {"empty", "invalid", "logout", "token", "legacy"}, token : issued' \cup {NoToken}]
         /\ secure'.kind \in {"empty", "invalid", "logout"} => secure'.token = NoToken
         /\ secure'.token \in {secure.token, t, NoToken}
BY DEF StorageShape, Stored, Logout

LEMMA WithoutBridgeSteps ==
  ASSUME MobileInv, WithoutBridge
  PROVE  StorageStep
<1>1. /\ sessionPersistenceQueue # <<>> /\ MobileShape /\ StorageShape /\ PageShape
      /\ UNCHANGED <<secure, bridge, page, issued, crossed>> /\ Finish
  BY DEF WithoutBridge, Running, MobileInv, MobileShape
<1>2. PICK w \in BOOLEAN, r \in BOOLEAN, again \in BOOLEAN, h \in BOOLEAN :
        /\ logoutPending' = (logoutPending \/ (w \/ again))
        /\ removePlaintext(r)
        /\ IF op.kind \notin {"persist", "rollback"} /\ (w \/ again) THEN clearHistory(h) ELSE UNCHANGED chats
        /\ IF op.kind = "logout" /\ (w \/ again) /\ r /\ h THEN Told(op.token) ELSE UNCHANGED loggedOut
  BY DEF WithoutBridge
<1>3. /\ logoutPending' \in BOOLEAN /\ (logoutPending => logoutPending')
      /\ plaintext' \in {plaintext, NoToken} /\ chats' \subseteq chats
  BY <1>1, <1>2 DEF removePlaintext, clearHistory, StorageShape
<1>4. StorageShape'
  BY <1>1, <1>3 DEF StorageShape
<1>5. \/ HeadEnds
      \/ HeadIsTold /\ logoutPending'
  <2>1. CASE op.kind = "logout" /\ (w \/ again) /\ r /\ h
    BY <2>1, <1>1, <1>2 DEF HeadIsTold
  <2>2. CASE ~(op.kind = "logout" /\ (w \/ again) /\ r /\ h)
    BY <2>2, <1>1, <1>2 DEF HeadEnds
  <2>. QED BY <2>1, <2>2
<1>6. HeadStep
  BY <1>1, <1>5 DEF HeadStep
<1>7. ASSUME ~crossed', ~logoutPending'
      PROVE  LeftoverKnown'
  <2>1. loggedOut' = loggedOut /\ LeftoverKnown /\ ~logoutPending
    BY <1>1, <1>3, <1>5, <1>7 DEF HeadEnds, MobileInv, StoreOK
  <2>2. Leftover' => Leftover
    BY <2>1, <1>1, <1>3, MobileAssumption DEF Leftover, PageShape
  <2>. QED BY <2>1, <2>2, <1>1 DEF LeftoverKnown
<1>8. ~crossed' => LeftoverKnown'
  BY <1>7 DEF LeftoverKnown
<1>. QED BY <1>1, <1>3, <1>4, <1>6, <1>8 DEF StorageStep

LEMMA LoadClosedSteps ==
  ASSUME MobileInv, LoadClosed
  PROVE  StorageStep
<1>1. /\ sessionPersistenceQueue # <<>> /\ MobileShape /\ StorageShape /\ PageShape
      /\ UNCHANGED <<bridge, page, issued, loggedOut, crossed>> /\ Finish
  BY DEF LoadClosed, Running, MobileInv, MobileShape
<1>2. PICK n \in ClearedToken(NoToken), r \in BOOLEAN, w \in BOOLEAN, h \in BOOLEAN :
        /\ secure' = n.record /\ removePlaintext(r) /\ clearHistory(h)
        /\ logoutPending' = (logoutPending \/ w)
  BY DEF LoadClosed
<1>3. secure' \in {secure, Logout, Stored(secure.token)}
  BY <1>2 DEF ClearedToken, replaceInvalidSessionWithLogout
<1>4. secure' \in {secure, Logout}
  BY <1>2 DEF ClearedToken, replaceInvalidSessionWithLogout
<1>5. /\ logoutPending' \in BOOLEAN /\ (logoutPending => logoutPending')
      /\ plaintext' \in {plaintext, NoToken} /\ chats' \subseteq chats
  BY <1>1, <1>2 DEF removePlaintext, clearHistory, StorageShape
<1>6. StorageShape'
  BY <1>1, <1>3, <1>5, Records DEF StorageShape
<1>7. HeadStep
  BY <1>1 DEF HeadStep, HeadEnds
<1>8. ASSUME ~crossed'
      PROVE  LeftoverKnown'
  <2>1. LeftoverKnown
    BY <1>1, <1>8 DEF MobileInv, StoreOK
  <2>2. Leftover' => Leftover
    BY <1>1, <1>4, <1>5, MobileAssumption DEF Leftover, PageShape, Logout
  <2>3. secure.kind = "logout" => secure'.kind = "logout"
    BY <1>4 DEF Logout
  <2>. QED BY <2>1, <2>2, <2>3, <1>5 DEF LeftoverKnown
<1>. QED BY <1>1, <1>5, <1>6, <1>7, <1>8 DEF StorageStep

\* What loadSessionCleanupPending may find and leave.
LEMMA CleanupFound ==
  ASSUME StorageShape, issued' = issued, NEW n \in CleanupPending, secure' = n.record
  PROVE  /\ secure' \in {secure, Logout}
         /\ secure.kind = "logout" => secure'.kind = "logout"
         /\ secure'.token = secure.token
         /\ n.ok /\ ~n.pending => secure.kind # "logout"
<1>1. secure.kind \in {"invalid", "logout"} => secure.token = NoToken
  BY DEF StorageShape
<1>2. CASE secure.kind = "invalid"
  <2>1. n.record \in {secure, Logout} /\ (n.ok /\ ~n.pending => n.ok = FALSE)
    BY <1>2 DEF CleanupPending, replaceInvalidSessionWithLogout
  <2>. QED BY <2>1, <1>1, <1>2 DEF Logout
<1>3. CASE secure.kind # "invalid"
  <2>1. \/ n.ok = FALSE /\ n.record = secure
        \/ n.pending = (secure.kind = "logout") /\ n.record = secure
    BY <1>3 DEF CleanupPending
  <2>. QED BY <2>1, <1>3
<1>. QED BY <1>2, <1>3

LEMMA LoadBeginsSteps ==
  ASSUME MobileInv, LoadBegins
  PROVE  StorageStep
<1>1. /\ sessionPersistenceQueue # <<>> /\ MobileShape /\ StorageShape /\ PageShape
      /\ op.at = "begin" /\ op.kind = "load"
      /\ UNCHANGED <<chats, bridge, page, issued, loggedOut, crossed>>
  BY DEF LoadBegins, Running, MobileInv, MobileShape
<1>2. op \in MobileOp /\ OpTrue(op)
  BY <1>1, MobileHead DEF MobileShape
<1>3. PICK n \in CleanupPending :
        /\ secure' = n.record
        /\ IF ~n.ok \/ logoutPending \/ n.pending
           THEN Mark(TRUE, op)
           ELSE /\ Continue([op EXCEPT !.at = "token", !.legacy = plaintext])
                /\ UNCHANGED <<plaintext, logoutPending>>
  BY DEF LoadBegins
<1>4. /\ secure' \in {secure, Logout, Stored(secure.token)}
      /\ secure.kind = "logout" => secure'.kind = "logout"
      /\ secure'.token = secure.token
      /\ n.ok /\ ~n.pending => secure.kind # "logout"
  BY <1>1, <1>3, CleanupFound
<1>5. CASE Mark(TRUE, op)
  <2>1. plaintext' \in {plaintext, NoToken} /\ logoutPending' \in BOOLEAN
    BY <1>1, <1>2, <1>5, MarkSteps
  <2>2. StorageShape'
    BY <2>1, <1>1, <1>4, Records DEF StorageShape
  <2>3. HeadGoesOn
    BY <1>1, <1>2, <1>5, MarkGoesOn
  <2>4. ~crossed' => LeftoverKnown' /\ HeadOK'
    BY <1>1, <1>2, <1>4, <1>5, MarkKnows DEF MobileInv, StoreOK
  <2>. QED BY <2>2, <2>3, <2>4, <1>1 DEF StorageStep, HeadStep
<1>6. CASE ~Mark(TRUE, op)
  <2> DEFINE next == [op EXCEPT !.at = "token", !.legacy = plaintext]
  <2>1. /\ n.ok /\ ~logoutPending /\ ~n.pending /\ Continue(next)
        /\ UNCHANGED <<plaintext, logoutPending>>
    BY <1>3, <1>6
  <2>2. StorageShape'
    BY <2>1, <1>1, <1>4, Records DEF StorageShape
  <2>3. /\ next \in MobileOp /\ next.kind = op.kind /\ next.token = op.token /\ next.at = "token"
        /\ next.legacy = plaintext /\ next.history = op.history /\ next.ahead = op.ahead
    BY <1>1, <1>2 DEF MobileOp, StorageShape, PageShape, Held
  <2>4. OpTrue(next)
    BY <2>3, <1>1, <1>2 DEF OpTrue, StorageShape
  <2> HIDE DEF next
  <2>5. HeadGoesOn
    BY <2>1, <2>3, <2>4, <1>1 DEF HeadGoesOn
  <2>6. op' = next
    BY <2>1, <2>3, <1>1, QueueGoesOn DEF MobileShape
  <2>7. ASSUME ~crossed'
        PROVE  LeftoverKnown' /\ HeadOK'
    <3>1. ~Leftover
      BY <2>1, <2>7, <1>1, <1>4 DEF MobileInv, StoreOK, LeftoverKnown
    <3>2. ~Leftover'
      BY <3>1, <2>1, <1>1, <1>4 DEF Leftover
    <3>. QED BY <3>1, <3>2, <2>3, <2>6, <2>1, <1>1 DEF LeftoverKnown, HeadOK, Leftover
  <2>. QED BY <2>2, <2>5, <2>7, <1>1 DEF StorageStep, HeadStep
<1>. QED BY <1>5, <1>6

LEMMA logoutSteps ==
  ASSUME MobileInv, logoutCod
  PROVE  StorageStep
<1>1. /\ sessionPersistenceQueue # <<>> /\ MobileShape /\ StorageShape /\ Mark(op.ahead, op)
      /\ UNCHANGED <<secure, chats, bridge, page, issued, loggedOut, crossed>>
  BY DEF logoutCod, Running, MobileInv, MobileShape
<1>2. op \in MobileOp /\ OpTrue(op) /\ op.ahead \in BOOLEAN
  BY <1>1, MobileHead DEF MobileShape, MobileOp
<1>3. plaintext' \in {plaintext, NoToken} /\ logoutPending' \in BOOLEAN
  BY <1>1, <1>2, MarkSteps
<1>4. StorageShape'
  BY <1>1, <1>3 DEF StorageShape
<1>5. HeadGoesOn
  BY <1>1, <1>2, MarkGoesOn
<1>6. ~crossed' => LeftoverKnown' /\ HeadOK'
  BY <1>1, <1>2, MarkKnows DEF MobileInv, StoreOK
<1>. QED BY <1>1, <1>4, <1>5, <1>6 DEF StorageStep, HeadStep

\* After a step that leaves nothing, whatever has ended.
LEMMA NothingLeft ==
  ASSUME MobileShape, ~Leftover, UNCHANGED <<issued, loggedOut>>, chats' \subseteq chats,
         plaintext' \in {plaintext, NoToken}, secure'.token \notin loggedOut
  PROVE  LeftoverKnown' /\ ~Leftover'
BY MobileAssumption DEF Leftover, LeftoverKnown, MobileShape, PageShape

\* Giving up clears everything but the history.
LEMMA GiveUpSteps ==
  ASSUME MobileInv, sessionPersistenceQueue # <<>>, op.at \in {"token", "migrate"}, GiveUp, StorageShape,
         UNCHANGED <<chats, bridge, issued, loggedOut, crossed>>,
         secure' \in [kind : {"empty", "invalid", "logout", "token", "legacy"}, token : issued' \cup {NoToken}],
         secure'.kind \in {"empty", "invalid", "logout"} => secure'.token = NoToken,
         ~crossed => secure'.token \notin loggedOut
  PROVE  StorageStep
<1> DEFINE next == [op EXCEPT !.history = FALSE]
<1>1. op \in MobileOp /\ OpTrue(op) /\ op.kind = "load"
  BY MobileHead DEF MobileInv, MobileShape, OpTrue
<1>2. next \in MobileOp /\ next.kind = "load" /\ next.token = op.token /\ next.at = op.at /\ next.legacy = op.legacy
  BY <1>1 DEF MobileOp
<1>3. OpTrue(next) /\ Mark(TRUE, next) /\ UNCHANGED page
  BY <1>1, <1>2 DEF OpTrue, GiveUp, Decisive
<1> HIDE DEF next
<1>4. plaintext' \in {plaintext, NoToken} /\ logoutPending' \in BOOLEAN
  BY <1>2, <1>3, MarkSteps
<1>5. StorageShape'
  BY <1>4 DEF StorageShape
<1>6. HeadGoesOn
  BY <1>1, <1>2, <1>3, MarkGoesOn DEF MobileInv
<1>7. ASSUME ~crossed'
      PROVE  LeftoverKnown' /\ HeadOK'
  <2>1. ~Leftover /\ LeftoverKnown /\ secure'.token \notin loggedOut
    BY <1>7 DEF MobileInv, StoreOK, HeadOK
  <2>. QED BY <2>1, <1>2, <1>3, MarkKnows DEF MobileInv
<1>. QED BY <1>5, <1>6, <1>7 DEF StorageStep, HeadStep

\* What loadSessionToken may find and leave.
LEMMA TokenFound ==
  ASSUME StorageShape, issued' = issued, NEW n \in LoadedToken, secure' = n.record
  PROVE  secure' \in {secure, Logout, Stored(secure.token)} /\ n.token \in {NoToken, secure.token}
BY DEF LoadedToken, replaceInvalidSessionWithLogout

LEMMA LoadTokenSteps ==
  ASSUME MobileInv, LoadToken
  PROVE  StorageStep
<1>1. /\ sessionPersistenceQueue # <<>> /\ MobileShape /\ StorageShape /\ PageShape /\ op.at = "token"
      /\ UNCHANGED <<chats, bridge, issued, loggedOut, crossed>>
  BY DEF LoadToken, Running, MobileInv, MobileShape
<1>2. op \in MobileOp /\ OpTrue(op) /\ op.kind = "load"
  BY <1>1, MobileHead DEF MobileShape, OpTrue
<1>3. PICK n \in LoadedToken :
        /\ secure' = n.record
        /\ \/ GiveUp
           \/ plaintext' = NoToken /\ Resume(n.token) /\ Finish /\ UNCHANGED logoutPending
           \/ Continue([op EXCEPT !.at = "migrate"]) /\ UNCHANGED <<plaintext, logoutPending, page>>
           \/ plaintext' = NoToken /\ Finish /\ UNCHANGED <<logoutPending, page>>
  BY DEF LoadToken
<1>4. secure' \in {secure, Logout, Stored(secure.token)} /\ n.token \in {NoToken, secure.token}
  BY <1>1, <1>3, TokenFound
<1>5. /\ secure' \in [kind : {"empty", "invalid", "logout", "token", "legacy"}, token : issued' \cup {NoToken}]
      /\ secure'.kind \in {"empty", "invalid", "logout"} => secure'.token = NoToken
      /\ secure'.token \in {secure.token, NoToken} /\ secure.token \in issued \cup {NoToken}
  <2>1. secure.token \in issued \cup {NoToken}
    BY <1>1 DEF StorageShape
  <2>. QED BY <2>1, <1>1, <1>4, Records
<1>6. NoToken \notin loggedOut
  BY <1>1, MobileAssumption DEF PageShape
<1>7. ASSUME ~crossed
      PROVE  ~Leftover /\ secure.token \notin loggedOut /\ secure'.token \notin loggedOut /\ op.legacy \notin loggedOut
  BY <1>1, <1>5, <1>6, <1>7 DEF MobileInv, StoreOK, HeadOK, Leftover
<1>8. CASE GiveUp
  BY <1>1, <1>5, <1>7, <1>8, GiveUpSteps
<1>9. ASSUME plaintext' \in {plaintext, NoToken}, UNCHANGED logoutPending
      PROVE  StorageShape' /\ (~crossed' => LeftoverKnown' /\ ~Leftover')
  <2>1. StorageShape'
    BY <1>1, <1>5, <1>9 DEF StorageShape
  <2>. QED BY <2>1, <1>1, <1>7, <1>9, NothingLeft
<1>10. CASE plaintext' = NoToken /\ Resume(n.token) /\ Finish /\ UNCHANGED logoutPending
  <2>1. HeadResumes
    BY <1>1, <1>2, <1>4, <1>5, <1>6, <1>7, <1>10 DEF HeadResumes, Resume
  <2>. QED BY <2>1, <1>1, <1>9, <1>10 DEF StorageStep, HeadStep
<1>11. CASE Continue([op EXCEPT !.at = "migrate"]) /\ UNCHANGED <<plaintext, logoutPending, page>>
  <2> DEFINE next == [op EXCEPT !.at = "migrate"]
  <2>1. /\ next \in MobileOp /\ next.kind = op.kind /\ next.token = op.token /\ next.at = "migrate"
        /\ next.legacy = op.legacy /\ next.history = op.history /\ next.ahead = op.ahead
    BY <1>2 DEF MobileOp
  <2>2. OpTrue(next)
    BY <2>1, <1>2 DEF OpTrue, Decisive
  <2>3. Continue(next)
    BY <1>11
  <2> HIDE DEF next
  <2>4. HeadGoesOn
    BY <2>1, <2>2, <2>3, <1>1, <1>11 DEF HeadGoesOn
  <2>5. op' = next
    BY <2>1, <2>3, <1>1, QueueGoesOn DEF MobileShape
  <2>6. ~crossed' => HeadOK'
    BY <2>1, <2>5, <1>1, <1>7, <1>9, <1>11 DEF HeadOK
  <2>. QED BY <2>4, <2>6, <1>1, <1>9, <1>11 DEF StorageStep, HeadStep
<1>12. CASE plaintext' = NoToken /\ Finish /\ UNCHANGED <<logoutPending, page>>
  BY <1>1, <1>9, <1>12 DEF StorageStep, HeadStep, HeadEnds
<1>. QED BY <1>3, <1>8, <1>10, <1>11, <1>12

LEMMA MigrateSteps ==
  ASSUME MobileInv, Migrate
  PROVE  StorageStep
<1>1. /\ sessionPersistenceQueue # <<>> /\ MobileShape /\ StorageShape /\ PageShape /\ op.at = "migrate"
      /\ UNCHANGED <<chats, bridge, issued, loggedOut, crossed>>
  BY DEF Migrate, Running, MobileInv, MobileShape
<1>2. op \in MobileOp /\ OpTrue(op) /\ op.kind = "load" /\ op.legacy \in issued \cup {NoToken}
  BY <1>1, MobileHead DEF MobileShape, OpTrue
<1>3. PICK n \in SavedToken(op.legacy) :
        /\ secure' = n.record
        /\ \/ plaintext' = NoToken /\ Resume(op.legacy) /\ Finish /\ UNCHANGED logoutPending
           \/ GiveUp
  BY DEF Migrate
<1>4. secure' \in {secure, Stored(op.legacy), Logout}
  BY <1>3 DEF SavedToken, replaceInvalidSessionWithLogout
<1>5. /\ secure' \in [kind : {"empty", "invalid", "logout", "token", "legacy"}, token : issued' \cup {NoToken}]
      /\ secure'.kind \in {"empty", "invalid", "logout"} => secure'.token = NoToken
      /\ secure'.token \in {secure.token, op.legacy, NoToken}
  BY <1>1, <1>2, <1>4, Records
<1>6. NoToken \notin loggedOut
  BY <1>1, MobileAssumption DEF PageShape
<1>7. ASSUME ~crossed
      PROVE  ~Leftover /\ secure'.token \notin loggedOut /\ op.legacy \notin loggedOut
  BY <1>1, <1>5, <1>6, <1>7 DEF MobileInv, StoreOK, HeadOK, Leftover
<1>8. CASE GiveUp
  BY <1>1, <1>5, <1>7, <1>8, GiveUpSteps
<1>9. CASE plaintext' = NoToken /\ Resume(op.legacy) /\ Finish /\ UNCHANGED logoutPending
  <2>1. StorageShape'
    BY <1>1, <1>5, <1>9 DEF StorageShape
  <2>2. ~crossed' => LeftoverKnown'
    BY <1>1, <1>7, <1>9, NothingLeft
  <2>3. HeadResumes
    BY <1>1, <1>2, <1>7, <1>9 DEF HeadResumes, Resume
  <2>. QED BY <2>1, <2>2, <2>3, <1>1, <1>9 DEF StorageStep, HeadStep
<1>. QED BY <1>3, <1>8, <1>9

LEMMA PersistBeginsSteps ==
  ASSUME MobileInv, PersistBegins
  PROVE  StorageStep
<1>1. /\ sessionPersistenceQueue # <<>> /\ MobileShape /\ StorageShape /\ PageShape
      /\ op.at = "begin" /\ op.kind = "persist"
      /\ UNCHANGED <<chats, bridge, page, issued, loggedOut, crossed>>
  BY DEF PersistBegins, Running, MobileInv, MobileShape
<1>2. op \in MobileOp /\ OpTrue(op)
  BY <1>1, MobileHead DEF MobileShape
<1>3. PICK n \in CleanupPending, r \in BOOLEAN :
        /\ secure' = n.record
        /\ \/ Finish /\ UNCHANGED <<plaintext, logoutPending>>
           \/ Mark(TRUE, op)
           \/ /\ n.ok /\ ~CleanupFirst(n)
              /\ removePlaintext(r) /\ UNCHANGED logoutPending
              /\ IF r THEN Continue([op EXCEPT !.at = "save"]) ELSE Finish
  BY DEF PersistBegins
<1>4. /\ secure' \in {secure, Logout, Stored(secure.token)}
      /\ secure.kind = "logout" => secure'.kind = "logout"
      /\ secure'.token = secure.token
      /\ n.ok /\ ~n.pending => secure.kind # "logout"
  BY <1>1, <1>3, CleanupFound
<1>5. ASSUME plaintext' \in {plaintext, NoToken}, logoutPending' \in BOOLEAN
      PROVE  StorageShape'
  BY <1>1, <1>4, <1>5, Records DEF StorageShape
<1>6. ASSUME plaintext' \in {plaintext, NoToken}, UNCHANGED logoutPending
      PROVE  StorageShape' /\ (~crossed' => LeftoverKnown')
  <2>1. StorageShape'
    BY <1>1, <1>5, <1>6 DEF StorageShape
  <2>2. ASSUME ~crossed'
        PROVE  LeftoverKnown'
    <3>1. LeftoverKnown
      BY <2>2, <1>1 DEF MobileInv, StoreOK
    <3>2. Leftover' => Leftover
      BY <1>1, <1>4, <1>6, MobileAssumption DEF Leftover, PageShape
    <3>. QED BY <3>1, <3>2, <1>4, <1>6 DEF LeftoverKnown
  <2>. QED BY <2>1, <2>2
<1>7. CASE Mark(TRUE, op)
  <2>1. plaintext' \in {plaintext, NoToken} /\ logoutPending' \in BOOLEAN
    BY <1>1, <1>2, <1>7, MarkSteps
  <2>2. HeadGoesOn
    BY <1>1, <1>2, <1>7, MarkGoesOn
  <2>3. ~crossed' => LeftoverKnown' /\ HeadOK'
    BY <1>1, <1>2, <1>4, <1>7, MarkKnows DEF MobileInv, StoreOK
  <2>. QED BY <2>1, <2>2, <2>3, <1>1, <1>5 DEF StorageStep, HeadStep
<1>8. CASE Finish /\ plaintext' \in {plaintext, NoToken} /\ UNCHANGED logoutPending
  BY <1>1, <1>6, <1>8 DEF StorageStep, HeadStep, HeadEnds
<1>9. CASE n.ok /\ ~CleanupFirst(n) /\ plaintext' = NoToken /\ UNCHANGED logoutPending
           /\ Continue([op EXCEPT !.at = "save"])
  <2> DEFINE next == [op EXCEPT !.at = "save"]
  <2>1. /\ next \in MobileOp /\ next.kind = op.kind /\ next.token = op.token /\ next.at = "save"
        /\ next.legacy = op.legacy /\ next.history = op.history /\ next.ahead = op.ahead
    BY <1>2 DEF MobileOp
  <2>2. OpTrue(next)
    BY <2>1, <1>1, <1>2 DEF OpTrue, Decisive
  <2>3. Continue(next)
    BY <1>9
  <2> HIDE DEF next
  <2>4. HeadGoesOn
    BY <2>1, <2>2, <2>3, <1>1 DEF HeadGoesOn
  <2>5. op' = next
    BY <2>1, <2>3, <1>1, QueueGoesOn DEF MobileShape
  <2>6. ASSUME ~crossed'
        PROVE  HeadOK'
    <3>1. ~Leftover
      BY <2>6, <1>1, <1>4, <1>9 DEF MobileInv, StoreOK, LeftoverKnown, CleanupFirst
    <3>2. ~Leftover'
      BY <3>1, <1>1, <1>4, <1>9, MobileAssumption DEF Leftover, PageShape
    <3>. QED BY <3>2, <2>1, <2>5 DEF HeadOK
  <2>. QED BY <2>4, <2>6, <1>1, <1>6, <1>9 DEF StorageStep, HeadStep
<1>. QED BY <1>3, <1>7, <1>8, <1>9 DEF removePlaintext

LEMMA PersistSavesSteps ==
  ASSUME MobileInv, PersistSaves
  PROVE  StorageStep
<1>1. /\ sessionPersistenceQueue # <<>> /\ MobileShape /\ StorageShape /\ PageShape /\ op.at = "save"
      /\ UNCHANGED <<chats, bridge, issued, loggedOut, crossed>>
  BY DEF PersistSaves, Running, MobileInv, MobileShape
<1>2. op \in MobileOp /\ OpTrue(op) /\ op.kind = "persist" /\ op.kind \in Decisive
      /\ 1 \in Lined /\ LinedOp(1) = op /\ op.token \in issued
  BY <1>1, MobileHead DEF MobileShape, OpTrue, Decisive
<1>3. op.token \notin loggedOut
  BY <1>2 DEF MobileInv, LoginsApart
<1>4. PICK n \in SavedToken(op.token) :
        /\ secure' = n.record
        /\ \/ /\ UNCHANGED <<plaintext, logoutPending>>
              /\ \/ /\ page.attempt = op.token
                    /\ page' = [page EXCEPT !.arriving = @ \cup {op.token}] /\ Finish
                 \/ /\ sessionPersistenceQueue' = Append(Tail(sessionPersistenceQueue),
                                                         Operation("rollback", op.token, FALSE, TRUE))
                    /\ UNCHANGED page
           \/ Mark(TRUE, [op EXCEPT !.kind = "rollback", !.history = FALSE]) /\ UNCHANGED page
  BY DEF PersistSaves
<1>5. secure' \in {secure, Stored(op.token), Logout}
  BY <1>4 DEF SavedToken, replaceInvalidSessionWithLogout
<1>6. /\ secure' \in [kind : {"empty", "invalid", "logout", "token", "legacy"}, token : issued' \cup {NoToken}]
      /\ secure'.kind \in {"empty", "invalid", "logout"} => secure'.token = NoToken
      /\ secure'.token \in {secure.token, op.token, NoToken}
  BY <1>1, <1>2, <1>5, Records
<1>7. NoToken \notin loggedOut
  BY <1>1, MobileAssumption DEF PageShape
<1>8. ASSUME ~crossed
      PROVE  ~Leftover /\ secure'.token \notin loggedOut /\ LeftoverKnown
  BY <1>1, <1>3, <1>6, <1>7, <1>8 DEF MobileInv, StoreOK, HeadOK, Leftover
<1>9. CASE UNCHANGED <<plaintext, logoutPending>> /\ (HeadArrives \/ HeadIsTakenBack)
  <2>1. StorageShape'
    BY <1>1, <1>6, <1>9 DEF StorageShape
  <2>2. ~crossed' => LeftoverKnown'
    BY <1>1, <1>8, <1>9, NothingLeft
  <2>. QED BY <2>1, <2>2, <1>1, <1>9 DEF StorageStep, HeadStep, HeadArrives
<1>10. CASE Mark(TRUE, [op EXCEPT !.kind = "rollback", !.history = FALSE]) /\ UNCHANGED page
  <2> DEFINE next == [op EXCEPT !.kind = "rollback", !.history = FALSE]
  <2>1. next \in MobileOp /\ next.kind = "rollback" /\ next.token = op.token /\ next.legacy = op.legacy
    BY <1>2 DEF MobileOp
  <2>2. Mark(TRUE, next) /\ next.legacy \in issued \cup {NoToken} /\ UNCHANGED page
    BY <2>1, <1>2, <1>10 DEF OpTrue
  <2> HIDE DEF next
  <2>3. plaintext' \in {plaintext, NoToken} /\ logoutPending' \in BOOLEAN
    BY <2>1, <2>2, <1>1, MarkSteps
  <2>4. StorageShape'
    BY <2>3, <1>1, <1>6 DEF StorageShape
  <2>5. HeadGoesOn
    BY <2>1, <2>2, <1>1, MarkGoesOn
  <2>6. ~crossed' => LeftoverKnown' /\ HeadOK'
    BY <2>1, <2>2, <1>1, <1>8, MarkKnows
  <2>. QED BY <2>4, <2>5, <2>6, <1>1 DEF StorageStep, HeadStep
<1>11. CASE /\ UNCHANGED <<plaintext, logoutPending>> /\ page.attempt = op.token
            /\ page' = [page EXCEPT !.arriving = @ \cup {op.token}] /\ Finish
  <2>1. HeadArrives
    BY <1>1, <1>2, <1>11 DEF HeadArrives
  <2>. QED BY <2>1, <1>9, <1>11
<1>12. CASE /\ UNCHANGED <<plaintext, logoutPending>>
            /\ sessionPersistenceQueue' = Append(Tail(sessionPersistenceQueue),
                                                 Operation("rollback", op.token, FALSE, TRUE))
            /\ UNCHANGED page
  <2>1. HeadIsTakenBack
    BY <1>1, <1>12 DEF HeadIsTakenBack
  <2>. QED BY <2>1, <1>9, <1>12
<1>. QED BY <1>4, <1>10, <1>11, <1>12

LEMMA ClearSteps ==
  ASSUME MobileInv, Clear
  PROVE  StorageStep
<1>1. MobileShape /\ StorageShape /\ PageShape
  BY DEF MobileInv, MobileShape
<1>2. /\ UNCHANGED <<issued, bridge>> /\ sessionPersistenceQueue # <<>> /\ op.at = "clear"
      /\ StorageShape' /\ (crossed => crossed')
      /\ chats' \in {chats, {}} /\ plaintext' \in {plaintext, NoToken}
  BY <1>1, ClearCases
<1>3. op \in MobileOp /\ OpTrue(op)
  BY <1>1, <1>2, MobileHead DEF MobileShape
<1>4. NoToken \notin loggedOut
  BY <1>1, MobileAssumption DEF PageShape
<1>5. ASSUME HeadEnds \/ HeadIsTold \/ HeadSignsOut, ~crossed' => LeftoverKnown'
      PROVE  StorageStep
  BY <1>2, <1>5 DEF StorageStep, HeadStep, HeadEnds, HeadIsTold, HeadSignsOut
<1>6. ASSUME ~crossed'
      PROVE  LeftoverKnown /\ (op.marked => logoutPending) /\ (~op.found /\ Leftover => secure.kind = "logout")
  BY <1>2, <1>6 DEF MobileInv, StoreOK, HeadOK
<1>7. CASE /\ secure' = Logout
           /\ \/ Ends("failedCleared")
              \/ Ends("cleared") /\ plaintext' = NoToken /\ (op.history => chats' = {})
  <2>1. LeftoverKnown'
    BY <1>7 DEF LeftoverKnown, Logout
  <2>2. CASE HeadEnds \/ HeadIsTold \/ HeadSignsOut
    BY <2>1, <2>2, <1>5
  <2>3. CASE ~(HeadEnds \/ HeadIsTold \/ HeadSignsOut)
    <3> DEFINE next == [op EXCEPT !.at = "save"]
    <3>1. CASE Ends("failedCleared")
      BY <3>1, <2>3, <1>1, <1>2, EndsSteps DEF MobileShape, ClearResults
    <3>2. CASE Ends("cleared") /\ plaintext' = NoToken /\ (op.history => chats' = {})
      <4>1. op.kind = "persist" /\ Continue(next) /\ HeadGoesOn
        BY <3>2, <2>3, <1>1, <1>2, EndsSteps DEF MobileShape, ClearResults
      <4>2. next \in MobileOp /\ next.at = "save"
        BY <1>3 DEF MobileOp
      <4>3. op' = next
        BY <4>1, <4>2, <1>1, <1>2, QueueGoesOn DEF MobileShape
      <4>4. loggedOut' = loggedOut /\ chats' = {}
        BY <4>1, <3>2, <1>3 DEF HeadGoesOn, OpTrue, Decisive
      <4>5. ~Leftover'
        BY <4>4, <3>2, <1>4, <1>7 DEF Leftover, Logout
      <4>6. HeadOK'
        BY <4>2, <4>3, <4>5 DEF HeadOK
      <4>. QED BY <4>1, <4>6, <2>1, <1>2 DEF StorageStep, HeadStep
    <3>. QED BY <3>1, <3>2, <1>7
  <2>. QED BY <2>2, <2>3
<1>8. CASE /\ secure' = secure
           /\ UNCHANGED <<plaintext, chats>>
           /\ Ends("other")
           /\ logoutPending' = logoutPending \/ (op.marked /\ (op.found => crossed'))
  <2>1. HeadEnds
    BY <1>1, <1>2, <1>8, EndsSteps DEF MobileShape, ClearResults
  <2>2. loggedOut' = loggedOut
    BY <2>1 DEF HeadEnds
  <2>3. Leftover' = Leftover
    BY <2>2, <1>8 DEF Leftover
  <2>4. ~crossed' => LeftoverKnown'
    BY <2>3, <1>6, <1>8 DEF LeftoverKnown
  <2>. QED BY <2>1, <2>4, <1>5
<1>9. CASE /\ secure' \in {secure, Logout}
           /\ logoutPending => logoutPending'
           /\ \/ Ends("unrecorded")
              \/ Ends("failed") /\ (op.marked \/ logoutPending')
              \/ Ends("unsaid") /\ ~op.ahead
  <2>1. \/ HeadEnds
        \/ HeadIsTold /\ (op.marked \/ logoutPending')
    <3>1. CASE Ends("unrecorded")
      BY <3>1, <1>1, <1>2, EndsSteps DEF MobileShape, ClearResults
    <3>2. CASE Ends("failed") /\ (op.marked \/ logoutPending')
      BY <3>2, <1>1, <1>2, EndsSteps DEF MobileShape, ClearResults
    <3>3. CASE Ends("unsaid") /\ ~op.ahead
      <4>1. op.kind # "logout"
        BY <3>3, <1>3 DEF OpTrue, Decisive
      <4>. QED BY <4>1, <3>3, <1>1, <1>2, EndsSteps DEF MobileShape, ClearResults, HeadIsTold
    <3>. QED BY <3>1, <3>2, <3>3, <1>9
  <2>2. ASSUME ~crossed'
        PROVE  LeftoverKnown'
    <3>1. CASE HeadEnds
      <4>1. loggedOut' = loggedOut
        BY <3>1 DEF HeadEnds
      <4>2. Leftover' => Leftover
        BY <4>1, <1>2, <1>4, <1>9 DEF Leftover, Logout
      <4>. QED BY <4>2, <2>2, <1>6, <1>9 DEF LeftoverKnown, Logout
    <3>2. CASE op.marked \/ logoutPending'
      BY <3>2, <2>2, <1>6, <1>9 DEF LeftoverKnown
    <3>. QED BY <3>1, <3>2, <2>1
  <2>. QED BY <2>1, <2>2, <1>5
<1>. QED BY <1>1, <1>7, <1>8, <1>9, ClearCases

-----------------------------------------------------------------------------
(* The steps of the page, and the restart.                                 *)

\* Operations join at the end, and the first one stays what it is.
LEMMA QueueGrows ==
  ASSUME QueueShape, sessionPersistenceQueue' \in Seq(MobileOp), Lined \subseteq Lined',
         \A i \in Lined : LinedOp(i)' = LinedOp(i),
         \A i \in Lined' \ Lined : OpTrue(LinedOp(i))' /\ LinedOp(i)'.at = "begin" /\ LinedOp(i)'.kind # "load",
         issued \subseteq issued'
  PROVE  /\ QueueShape'
         /\ sessionPersistenceQueue' # <<>> =>
               \/ sessionPersistenceQueue # <<>> /\ op' = op
               \/ sessionPersistenceQueue = <<>> /\ op'.at = "begin" /\ op'.kind # "load"
<1>1. \A i \in Lined : OpTrue(LinedOp(i))'
  BY DEF QueueShape, OpTrue
<1>2. QueueShape'
  BY <1>1 DEF QueueShape
<1>3. sessionPersistenceQueue' # <<>> => 1 \in Lined' /\ op' = LinedOp(1)'
  BY DEF op, Lined, LinedOp
<1>4. sessionPersistenceQueue # <<>> => 1 \in Lined /\ op = LinedOp(1)
  BY MobileHead
<1>5. sessionPersistenceQueue = <<>> => Lined = {}
  BY DEF Lined
<1>. QED BY <1>2, <1>3, <1>4, <1>5

LEMMA Asked ==
  ASSUME QueueShape, NEW o \in MobileOp, Queue(o), o.at = "begin", o.kind # "load", OpTrue(o)', issued \subseteq issued'
  PROVE  /\ sessionPersistenceQueue' # <<>> /\ QueueShape'
         /\ \/ sessionPersistenceQueue # <<>> /\ op' = op
            \/ sessionPersistenceQueue = <<>> /\ op'.at = "begin" /\ op'.kind # "load"
         /\ \E last \in Nat :
               /\ Lined' = Lined \cup {last} /\ LinedOp(last)' = o
               /\ \A i \in Lined : i \in Nat /\ i < last /\ LinedOp(i)' = LinedOp(i)
<1> DEFINE q == sessionPersistenceQueue
<1>0. PICK last \in Nat : last = Len(q) + 1
  BY DEF QueueShape
<1>1. q \in Seq(MobileOp) /\ q' = Append(q, o) /\ Len(q) \in Nat /\ Lined = 1..Len(q)
  BY DEF QueueShape, Queue, Lined
<1>2. q' \in Seq(MobileOp) /\ Lined' = 1..last /\ q' # <<>> /\ q'[last] = o
  BY <1>0, <1>1 DEF Lined
<1>3. Lined' = Lined \cup {last} /\ \A i \in Lined : i \in Nat /\ i < last
  BY <1>0, <1>1, <1>2
<1>4. \A i \in Lined : LinedOp(i)' = LinedOp(i)
  BY <1>1 DEF LinedOp
<1>5. LinedOp(last)' = o
  BY <1>2, <1>1 DEF LinedOp
<1>7. \A i \in Lined' \ Lined : LinedOp(i)' = o
  BY <1>3, <1>5
<1>8. \A i \in Lined' \ Lined : OpTrue(LinedOp(i))' /\ LinedOp(i)'.at = "begin" /\ LinedOp(i)'.kind # "load"
  BY <1>7 DEF OpTrue
<1>9. /\ QueueShape'
      /\ \/ sessionPersistenceQueue # <<>> /\ op' = op
         \/ sessionPersistenceQueue = <<>> /\ op'.at = "begin" /\ op'.kind # "load"
  BY <1>2, <1>3, <1>4, <1>8, QueueGrows
<1>. QED BY <1>2, <1>3, <1>4, <1>5, <1>9

\* Such a step leaves the storage alone.
LEMMA StorageKept ==
  ASSUME MobileInv, UNCHANGED <<storageVars, bridge, loggedOut, crossed>>, issued \subseteq issued',
         sessionPersistenceQueue' # <<>> =>
            op'.at = "begin" \/ (sessionPersistenceQueue # <<>> /\ op' = op)
  PROVE  StorageShape' /\ (~crossed' => StoreOK /\ LeftoverKnown' /\ HeadOK')
<1>1. UNCHANGED <<secure, plaintext, logoutPending, chats, loggedOut, crossed>>
  BY DEF storageVars
<1>2. StorageShape'
  BY <1>1 DEF MobileInv, MobileShape, StorageShape
<1>3. ASSUME ~crossed'
      PROVE  StoreOK /\ LeftoverKnown' /\ HeadOK'
  <2>1. StoreOK /\ LeftoverKnown /\ HeadOK
    BY <1>1, <1>3 DEF MobileInv, StoreOK
  <2>2. LeftoverKnown' /\ Leftover' = Leftover
    BY <2>1, <1>1 DEF LeftoverKnown, Leftover
  <2>3. HeadOK'
    BY <2>1, <2>2, <1>1 DEF HeadOK
  <2>. QED BY <2>1, <2>2, <2>3
<1>. QED BY <1>2, <1>3

\* A step that asks for nothing that decides: what it has to keep of the page.
LEMMA PageKeeps ==
  ASSUME MobileInv, UNCHANGED <<storageVars, keptVars>>, QueueShape', PageShape',
         sessionPersistenceQueue' # <<>> =>
            \/ sessionPersistenceQueue # <<>> /\ op' = op
            \/ op'.at = "begin" /\ op'.kind # "load",
         \A i \in Lined' : LinedOp(i)'.kind \in Decisive => i \in Lined /\ LinedOp(i)' = LinedOp(i),
         page'.attempt \in {page.attempt, NoToken}, page'.arriving \subseteq page.arriving,
         \/ page'.session = page.session
         \/ /\ page'.session \in issued /\ page'.attempt = NoToken
            /\ page'.session \notin page'.arriving
            /\ \A i \in Lined : LinedOp(i).kind \notin Decisive,
         StartAlone', ShownOK => ShownOK'
  PROVE  MobileInv'
<1>1. UNCHANGED <<issued, loggedOut, crossed, bridge>> /\ PageShape /\ QueueShape /\ LoginsApart
  BY DEF keptVars, MobileInv, MobileShape
<1>2. StorageShape' /\ (~crossed' => StoreOK /\ LeftoverKnown' /\ HeadOK')
  BY <1>1, StorageKept
<1>3. MobileShape' /\ (~crossed' => StoreOK')
  BY <1>2 DEF MobileShape, StoreOK
<1>4. NoToken \notin issued /\ NoToken \notin page.arriving
  BY <1>1, MobileAssumption DEF PageShape
<1>5. \A i \in Lined : LinedOp(i).kind = "persist" => LinedOp(i).token \in issued
  BY <1>1 DEF QueueShape, OpTrue, Decisive
<1>6. \A i, j \in Lined' :
         /\ LinedOp(i)'.kind = "persist" /\ LinedOp(j)'.kind \in Decisive /\ i # j => LinedOp(i)'.token # LinedOp(j)'.token
         /\ LinedOp(i)'.kind = "persist" /\ LinedOp(i)'.token = page'.attempt /\ j > i => LinedOp(j)'.kind \notin Decisive
  BY <1>1, <1>4, <1>5 DEF LoginsApart, Decisive
<1>7. \A i \in Lined' : LinedOp(i)'.kind \in Decisive =>
          /\ page'.session = NoToken /\ page'.attempt \notin page'.arriving
          /\ LinedOp(i)'.token \notin page'.arriving
          /\ LinedOp(i)'.kind = "persist" => LinedOp(i)'.token \notin loggedOut
  BY <1>1, <1>4 DEF LoginsApart
<1>8. /\ page'.attempt # NoToken => page'.session = NoToken
      /\ page'.session \notin page'.arriving /\ page'.arriving \cap loggedOut' = {}
  BY <1>1, <1>4 DEF LoginsApart
<1>9. LoginsApart'
  BY <1>6, <1>7, <1>8, <1>1 DEF LoginsApart
<1>. QED BY <1>3, <1>9 DEF MobileInv

\* One that clears a token joins the queue.
LEMMA AskedToClear ==
  ASSUME QueueShape, issued' = issued, NEW k \in {"rollback", "invalidate"}, NEW t \in Held,
         NEW history \in BOOLEAN, NEW ahead \in BOOLEAN, Queue(Operation(k, t, history, ahead))
  PROVE  /\ QueueShape'
         /\ \/ sessionPersistenceQueue # <<>> /\ op' = op
            \/ sessionPersistenceQueue = <<>> /\ op'.at = "begin" /\ op'.kind # "load"
         /\ \A i \in Lined' : LinedOp(i)'.kind \in Decisive => i \in Lined /\ LinedOp(i)' = LinedOp(i)
<1>1. PICK o \in MobileOp : o = Operation(k, t, history, ahead)
  BY OperationTyped
<1>2. o.kind = k /\ o.at = "begin" /\ o.legacy = NoToken
  BY <1>1 DEF Operation
<1>3. o.kind \notin Decisive /\ o.kind # "load" /\ OpTrue(o)'
  BY <1>2 DEF OpTrue, Decisive
<1>4. Queue(o) /\ issued \subseteq issued'
  BY <1>1
<1>. QED BY <1>2, <1>3, <1>4, Asked

LEMMA ToldNothing ==
  ASSUME MobileInv
  PROVE  /\ MobileShape /\ QueueShape /\ PageShape /\ LoginsApart /\ StartAlone
         /\ NoToken \notin issued /\ NoToken \notin page.arriving /\ issued \subseteq Held /\ page.session \in Held
BY MobileAssumption DEF MobileInv, MobileShape, PageShape, Held

LEMMA CancelKeeps ==
  ASSUME MobileInv, CancelSignIn
  PROVE  MobileInv'
<1>1. /\ UNCHANGED <<storageVars, keptVars, sessionPersistenceQueue>> /\ UNCHANGED <<issued, loggedOut, chats>>
      /\ page' = [page EXCEPT !.attempt = NoToken]
  BY DEF CancelSignIn, storageVars, keptVars
<1>2. PageShape /\ QueueShape /\ StartAlone /\ NoToken \notin page.arriving
  BY ToldNothing
<1>3. /\ page'.session = page.session /\ page'.attempt = NoToken /\ page'.arriving = page.arriving
      /\ page'.resuming = page.resuming /\ page'.fresh = page.fresh
  BY <1>1, <1>2 DEF PageShape
<1>4. PageShape'
  BY <1>1, <1>2 DEF PageShape, Held
<1>5. QueueShape' /\ Lined' = Lined /\ op' = op /\ \A i : LinedOp(i)' = LinedOp(i)
  BY <1>1, <1>2 DEF QueueShape, OpTrue, Lined, LinedOp, op
<1>6. StartAlone'
  BY <1>1, <1>2, <1>3, <1>5 DEF StartAlone
<1>7. ShownOK => ShownOK'
  BY <1>1, <1>2, <1>3 DEF ShownOK, Showing
<1>. QED BY <1>1, <1>3, <1>4, <1>5, <1>6, <1>7, PageKeeps

LEMMA EstablishedKeeps ==
  ASSUME MobileInv, Established
  PROVE  MobileInv'
<1>1. /\ UNCHANGED <<storageVars, keptVars, sessionPersistenceQueue>> /\ UNCHANGED <<issued, loggedOut, chats>>
      /\ page' = [page EXCEPT !.session = page.attempt, !.attempt = NoToken, !.arriving = @ \ {page.attempt}]
      /\ page.attempt \in page.arriving
  BY DEF Established, storageVars, keptVars
<1>2. PageShape /\ QueueShape /\ StartAlone /\ LoginsApart /\ NoToken \notin page.arriving
  BY ToldNothing
<1>3. /\ page'.session = page.attempt /\ page'.attempt = NoToken /\ page'.arriving = page.arriving \ {page.attempt}
      /\ page'.resuming = page.resuming /\ page'.fresh = page.fresh
  BY <1>1, <1>2 DEF PageShape
<1>4. PageShape' /\ page'.session \in issued
  BY <1>1, <1>2, <1>3 DEF PageShape, Held
<1>5. QueueShape' /\ Lined' = Lined /\ op' = op /\ \A i : LinedOp(i)' = LinedOp(i)
  BY <1>1, <1>2 DEF QueueShape, OpTrue, Lined, LinedOp, op
<1>6. StartAlone' /\ ~page.fresh
  BY <1>1, <1>2, <1>3 DEF StartAlone
<1>7. ShownOK => ShownOK'
  BY <1>1, <1>2, <1>3, <1>6 DEF ShownOK, Showing, LoginsApart
<1>8. \A i \in Lined : LinedOp(i).kind \notin Decisive
  BY <1>1, <1>2 DEF LoginsApart
<1>. QED BY <1>1, <1>3, <1>4, <1>5, <1>6, <1>7, <1>8, PageKeeps

LEMMA RefusedWhileLoadingKeeps ==
  ASSUME MobileInv, NEW t \in MobileTokens, RefusedWhileLoading(t)
  PROVE  MobileInv'
<1>1. /\ UNCHANGED <<storageVars, keptVars>> /\ UNCHANGED <<issued, loggedOut, chats>>
      /\ Queue(Operation("invalidate", t, TRUE, FALSE)) /\ t \in page.arriving
      /\ page' = [page EXCEPT !.attempt = IF @ = t THEN NoToken ELSE @]
  BY DEF RefusedWhileLoading, storageVars, keptVars
<1>2. PageShape /\ QueueShape /\ StartAlone /\ LoginsApart /\ NoToken \notin page.arriving /\ t \in Held
  BY ToldNothing DEF Held
<1>3. /\ page'.session = page.session /\ page'.attempt \in {page.attempt, NoToken} /\ page'.arriving = page.arriving
      /\ page'.resuming = page.resuming /\ page'.fresh = page.fresh
  BY <1>1, <1>2 DEF PageShape
<1>4. PageShape'
  BY <1>1, <1>2 DEF PageShape, Held
<1>5. /\ QueueShape'
      /\ \/ sessionPersistenceQueue # <<>> /\ op' = op
         \/ sessionPersistenceQueue = <<>> /\ op'.at = "begin" /\ op'.kind # "load"
      /\ \A i \in Lined' : LinedOp(i)'.kind \in Decisive => i \in Lined /\ LinedOp(i)' = LinedOp(i)
  BY <1>1, <1>2, AskedToClear
<1>6. ~page.fresh /\ StartAlone'
  BY <1>1, <1>2, <1>3 DEF StartAlone
<1>7. ShownOK => ShownOK'
  BY <1>1, <1>2, <1>3 DEF ShownOK, Showing
<1>. QED BY <1>1, <1>3, <1>4, <1>5, <1>6, <1>7, PageKeeps

LEMMA RollBackKeeps ==
  ASSUME MobileInv, NEW t \in MobileTokens, RollBack(t)
  PROVE  MobileInv'
<1>1. /\ UNCHANGED <<storageVars, keptVars>> /\ UNCHANGED <<issued, loggedOut, chats>>
      /\ Queue(Operation("rollback", t, FALSE, TRUE)) /\ t \in page.arriving
      /\ page' = [page EXCEPT !.arriving = @ \ {t}]
  BY DEF RollBack, storageVars, keptVars
<1>2. PageShape /\ QueueShape /\ StartAlone /\ LoginsApart /\ NoToken \notin page.arriving /\ t \in Held
  BY ToldNothing DEF Held
<1>3. /\ page'.session = page.session /\ page'.attempt = page.attempt /\ page'.arriving = page.arriving \ {t}
      /\ page'.resuming = page.resuming /\ page'.fresh = page.fresh
  BY <1>1, <1>2 DEF PageShape
<1>4. PageShape'
  BY <1>1, <1>2, <1>3 DEF PageShape
<1>5. /\ QueueShape'
      /\ \/ sessionPersistenceQueue # <<>> /\ op' = op
         \/ sessionPersistenceQueue = <<>> /\ op'.at = "begin" /\ op'.kind # "load"
      /\ \A i \in Lined' : LinedOp(i)'.kind \in Decisive => i \in Lined /\ LinedOp(i)' = LinedOp(i)
  BY <1>1, <1>2, AskedToClear
<1>6. ~page.fresh /\ StartAlone'
  BY <1>1, <1>2, <1>3 DEF StartAlone
<1>7. ShownOK => ShownOK'
  BY <1>1, <1>2, <1>3 DEF ShownOK, Showing
<1>. QED BY <1>1, <1>3, <1>4, <1>5, <1>6, <1>7, PageKeeps

LEMMA invalidateKeeps ==
  ASSUME MobileInv, invalidateCodSession
  PROVE  MobileInv'
<1>1. /\ UNCHANGED <<storageVars, keptVars>> /\ UNCHANGED <<issued, loggedOut, chats, page>>
      /\ Queue(Operation("invalidate", page.session, TRUE, FALSE)) /\ page.session # NoToken
  BY DEF invalidateCodSession, storageVars, keptVars
<1>2. PageShape /\ QueueShape /\ StartAlone /\ LoginsApart /\ page.session \in Held
  BY ToldNothing
<1>3. PageShape'
  BY <1>1, <1>2 DEF PageShape
<1>4. PICK t \in Held : t = page.session
  BY <1>2
<1>5. /\ QueueShape'
      /\ \/ sessionPersistenceQueue # <<>> /\ op' = op
         \/ sessionPersistenceQueue = <<>> /\ op'.at = "begin" /\ op'.kind # "load"
      /\ \A i \in Lined' : LinedOp(i)'.kind \in Decisive => i \in Lined /\ LinedOp(i)' = LinedOp(i)
  BY <1>1, <1>2, <1>4, AskedToClear
<1>6. StartAlone'
  BY <1>1, <1>2, <1>5 DEF StartAlone
<1>7. ShownOK => ShownOK'
  BY <1>1 DEF ShownOK, Showing
<1>. QED BY <1>1, <1>3, <1>5, <1>6, <1>7, PageKeeps

LEMMA ResumedKeeps ==
  ASSUME MobileInv, Resumed
  PROVE  MobileInv'
<1>1. /\ UNCHANGED <<storageVars, keptVars, sessionPersistenceQueue>> /\ UNCHANGED <<issued, loggedOut, chats>>
      /\ page' \in {[page EXCEPT !.resuming = NoToken],
                    [page EXCEPT !.resuming = NoToken, !.session = IF page.fresh THEN page.resuming ELSE @]}
      /\ page.resuming # NoToken
  BY DEF Resumed, storageVars, keptVars
<1>2. PageShape /\ QueueShape /\ StartAlone /\ LoginsApart /\ NoToken \notin page.arriving
  BY ToldNothing
<1>3. /\ page'.attempt = page.attempt /\ page'.arriving = page.arriving
      /\ page'.resuming = NoToken /\ page'.fresh = page.fresh
      /\ page'.session = page.session \/ (page.fresh /\ page'.session = page.resuming)
  BY <1>1, <1>2 DEF PageShape
<1>4. PageShape'
  BY <1>1, <1>2 DEF PageShape
<1>5. QueueShape' /\ Lined' = Lined /\ op' = op /\ \A i : LinedOp(i)' = LinedOp(i)
  BY <1>1, <1>2 DEF QueueShape, OpTrue, Lined, LinedOp, op
<1>6. page.fresh => page.attempt = NoToken /\ page.arriving = {} /\ sessionPersistenceQueue = <<>> /\ Lined = {}
  BY <1>1, <1>2 DEF StartAlone, Lined
<1>7. StartAlone'
  BY <1>1, <1>3, <1>6 DEF StartAlone
<1>8. ASSUME ShownOK
      PROVE  ShownOK'
  <2>1. page'.session \notin loggedOut
    BY <1>3, <1>8 DEF ShownOK
  <2>2. NoToken \notin loggedOut
    BY <1>2, ToldNothing DEF PageShape
  <2>3. Showing' => Showing
    BY <1>1, <1>3 DEF Showing
  <2>. QED BY <2>1, <2>2, <2>3, <1>1, <1>3, <1>8 DEF ShownOK
<1>9. \/ page'.session = page.session
      \/ /\ page'.session \in issued /\ page'.attempt = NoToken
         /\ page'.session \notin page'.arriving
         /\ \A i \in Lined : LinedOp(i).kind \notin Decisive
  BY <1>1, <1>2, <1>3, <1>6 DEF PageShape
<1>. QED BY <1>1, <1>3, <1>4, <1>5, <1>7, <1>8, <1>9, PageKeeps

LEMMA RefusedAtStartKeeps ==
  ASSUME MobileInv, RefusedAtStart
  PROVE  MobileInv'
<1> DEFINE q == sessionPersistenceQueue
<1>1. /\ UNCHANGED <<storageVars, keptVars>> /\ UNCHANGED <<issued, loggedOut, chats>>
      /\ page' = [page EXCEPT !.resuming = NoToken] /\ page.resuming # NoToken
  BY DEF RefusedAtStart, storageVars, keptVars
<1>2. PageShape /\ QueueShape /\ StartAlone /\ LoginsApart /\ NoToken \notin issued /\ issued \subseteq Held
  BY ToldNothing
<1>3. /\ page'.session = page.session /\ page'.attempt = page.attempt /\ page'.arriving = page.arriving
      /\ page'.resuming = NoToken /\ page'.fresh = page.fresh
  BY <1>1, <1>2 DEF PageShape
<1>4. PageShape'
  BY <1>1, <1>2 DEF PageShape
<1>5. PICK a \in MobileOp, b \in MobileOp :
        /\ a = Operation("invalidate", page.resuming, TRUE, FALSE)
        /\ b = Operation("rollback", page.resuming, TRUE, TRUE)
  BY <1>2, OperationTyped DEF PageShape, Held
<1>6. \A o \in {a, b} : OpTrue(o)' /\ o.at = "begin" /\ o.kind # "load" /\ o.kind \notin Decisive
  BY <1>5 DEF OpTrue, Operation, Decisive
<1>7. q \in Seq(MobileOp) /\ Len(q) \in Nat /\ Lined = 1..Len(q) /\ Lined' = DOMAIN q'
  BY <1>2 DEF QueueShape, Lined
<1>8. \/ q' = q \o <<a>> \o <<b>>
      \/ q' = q \o <<a>> \o <<>>
  BY <1>5 DEF RefusedAtStart
<1>9. q' \in Seq(MobileOp) /\ Lined \subseteq Lined'
      /\ (\A i \in Lined : q'[i] = q[i]) /\ \A i \in Lined' \ Lined : q'[i] \in {a, b}
  <2>1. CASE q' = q \o <<a>> \o <<b>>
    BY <2>1, <1>7
  <2>2. CASE q' = q \o <<a>> \o <<>>
    BY <2>2, <1>7
  <2>. QED BY <2>1, <2>2, <1>8
<1>10. /\ \A i \in Lined : LinedOp(i)' = LinedOp(i)
       /\ \A i \in Lined' \ Lined : /\ OpTrue(LinedOp(i))' /\ LinedOp(i)'.at = "begin" /\ LinedOp(i)'.kind # "load"
                                    /\ LinedOp(i)'.kind \notin Decisive
  BY <1>6, <1>9 DEF LinedOp, OpTrue
<1>11. /\ QueueShape'
       /\ sessionPersistenceQueue' # <<>> =>
               \/ sessionPersistenceQueue # <<>> /\ op' = op
               \/ sessionPersistenceQueue = <<>> /\ op'.at = "begin" /\ op'.kind # "load"
  BY <1>1, <1>2, <1>9, <1>10, QueueGrows
<1>12. \A i \in Lined' : LinedOp(i)'.kind \in Decisive => i \in Lined /\ LinedOp(i)' = LinedOp(i)
  BY <1>10
<1>13. StartAlone'
  BY <1>1, <1>2, <1>3, <1>11 DEF StartAlone
<1>14. ShownOK => ShownOK'
  BY <1>1, <1>2, <1>3 DEF ShownOK, Showing, PageShape
<1>. QED BY <1>1, <1>3, <1>4, <1>11, <1>12, <1>13, <1>14, PageKeeps

LEMMA SignInKeeps ==
  ASSUME MobileInv, NEW t \in MobileTokens, SignIn(t)
  PROVE  MobileInv'
<1>1. /\ UNCHANGED <<storageVars, bridge, loggedOut, crossed>> /\ UNCHANGED chats
      /\ t \notin issued /\ page.session = NoToken /\ issued' = issued \cup {t}
      /\ Queue(Operation("persist", t, TRUE, TRUE))
      /\ page' = [page EXCEPT !.attempt = t, !.fresh = FALSE]
  BY DEF SignIn, storageVars
<1>2. PageShape /\ QueueShape /\ StartAlone /\ LoginsApart /\ NoToken \notin page.arriving /\ t \in Held
  BY ToldNothing DEF Held
<1>3. /\ page'.session = NoToken /\ page'.attempt = t /\ page'.arriving = page.arriving
      /\ page'.resuming = page.resuming /\ page'.fresh = FALSE
  BY <1>1, <1>2 DEF PageShape
<1>4. PageShape' /\ t \notin page.arriving /\ t \notin loggedOut /\ issued \subseteq issued'
  BY <1>1, <1>2 DEF PageShape, Held
<1>5. PICK o \in MobileOp : o = Operation("persist", t, TRUE, TRUE)
  BY <1>2, OperationTyped
<1>6. /\ o.kind = "persist" /\ o.kind \in Decisive /\ o.at = "begin" /\ o.token = t /\ OpTrue(o)'
  BY <1>1, <1>5 DEF Operation, OpTrue, Decisive
<1>7. /\ sessionPersistenceQueue' # <<>> /\ QueueShape'
      /\ \/ sessionPersistenceQueue # <<>> /\ op' = op
         \/ sessionPersistenceQueue = <<>> /\ op'.at = "begin" /\ op'.kind # "load"
      /\ \E last \in Nat :
            /\ Lined' = Lined \cup {last} /\ LinedOp(last)' = o
            /\ \A i \in Lined : i \in Nat /\ i < last /\ LinedOp(i)' = LinedOp(i)
  BY <1>1, <1>2, <1>4, <1>5, <1>6, Asked
<1>8. PICK last \in Nat :
         /\ Lined' = Lined \cup {last} /\ LinedOp(last)' = o
         /\ \A i \in Lined : i \in Nat /\ i < last /\ LinedOp(i)' = LinedOp(i)
  BY <1>7
<1>9. \A i \in Lined : LinedOp(i).kind \in Decisive => LinedOp(i).token # t
  BY <1>1, <1>2 DEF QueueShape, OpTrue
<1>10. ASSUME NEW i \in Lined', NEW j \in Lined', LinedOp(i)'.kind = "persist", LinedOp(j)'.kind \in Decisive
       PROVE  /\ i # j => LinedOp(i)'.token # LinedOp(j)'.token
              /\ ~(LinedOp(i)'.token = t /\ j > i)
  <2>1. CASE i \in Lined /\ j \in Lined
    BY <2>1, <1>2, <1>8, <1>9, <1>10 DEF LoginsApart, Decisive
  <2>2. CASE i \in Lined /\ j = last
    BY <2>2, <1>6, <1>8, <1>9, <1>10 DEF Decisive
  <2>3. CASE i = last /\ j \in Lined
    BY <2>3, <1>6, <1>8, <1>9, <1>10 DEF Decisive
  <2>4. CASE i = last /\ j = last
    BY <2>4
  <2>. QED BY <2>1, <2>2, <2>3, <2>4, <1>8
<1>11. ASSUME NEW i \in Lined', LinedOp(i)'.kind \in Decisive
       PROVE  /\ LinedOp(i)'.token \notin page.arriving
              /\ LinedOp(i)'.kind = "persist" => LinedOp(i)'.token \notin loggedOut
  <2>1. CASE i \in Lined
    BY <2>1, <1>2, <1>8, <1>11 DEF LoginsApart
  <2>2. CASE i = last
    BY <2>2, <1>4, <1>6, <1>8
  <2>. QED BY <2>1, <2>2, <1>8
<1>12. LoginsApart'
  BY <1>1, <1>2, <1>3, <1>4, <1>10, <1>11 DEF LoginsApart
<1>13. StartAlone'
  BY <1>3 DEF StartAlone
<1>14. StorageShape' /\ (~crossed' => StoreOK /\ LeftoverKnown' /\ HeadOK')
  BY <1>1, <1>4, <1>7, StorageKept
<1>15. NoToken \notin loggedOut
  BY <1>2, ToldNothing DEF PageShape
<1>16. ShownOK'
  BY <1>1, <1>3, <1>4, <1>15 DEF ShownOK, Showing
<1>. QED BY <1>4, <1>7, <1>12, <1>13, <1>14, <1>16 DEF MobileInv, MobileShape, StoreOK

LEMMA handleLogoutKeeps ==
  ASSUME MobileInv, handleLogout
  PROVE  MobileInv'
<1>1. /\ UNCHANGED <<storageVars, keptVars>> /\ UNCHANGED <<bridge, issued, loggedOut, crossed>>
      /\ page.session # NoToken /\ Queue(Operation("logout", page.session, TRUE, TRUE))
      /\ page' = [page EXCEPT !.session = NoToken]
  BY DEF handleLogout, storageVars, keptVars
<1>2. PageShape /\ QueueShape /\ StartAlone /\ LoginsApart /\ NoToken \notin page.arriving
  BY ToldNothing
<1>3. /\ page'.session = NoToken /\ page'.attempt = NoToken /\ page'.arriving = page.arriving
      /\ page'.resuming = page.resuming /\ page'.fresh = page.fresh
  BY <1>1, <1>2 DEF PageShape, LoginsApart
<1>4. PageShape'
  BY <1>1, <1>2 DEF PageShape
<1>5. PICK t \in issued : t = page.session /\ t \in Held /\ t \notin page.arriving
  BY <1>1, <1>2 DEF PageShape, LoginsApart, Held
<1>6. PICK o \in MobileOp : o = Operation("logout", t, TRUE, TRUE)
  BY <1>5, OperationTyped
<1>7. /\ o.kind = "logout" /\ o.at = "begin" /\ o.token = t /\ OpTrue(o)'
  BY <1>1, <1>6 DEF Operation, OpTrue, Decisive
<1>8. /\ sessionPersistenceQueue' # <<>> /\ QueueShape'
      /\ \/ sessionPersistenceQueue # <<>> /\ op' = op
         \/ sessionPersistenceQueue = <<>> /\ op'.at = "begin" /\ op'.kind # "load"
      /\ \E last \in Nat :
            /\ Lined' = Lined \cup {last} /\ LinedOp(last)' = o
            /\ \A i \in Lined : i \in Nat /\ i < last /\ LinedOp(i)' = LinedOp(i)
  BY <1>1, <1>2, <1>5, <1>6, <1>7, Asked
<1>9. PICK last \in Nat :
         /\ Lined' = Lined \cup {last} /\ LinedOp(last)' = o
         /\ \A i \in Lined : i \in Nat /\ i < last /\ LinedOp(i)' = LinedOp(i)
  BY <1>8
<1>10. \A i \in Lined : LinedOp(i).kind \notin Decisive
  BY <1>1, <1>2 DEF LoginsApart
<1>11. \A i \in Lined' : LinedOp(i)'.kind \in Decisive => LinedOp(i)' = o
  BY <1>9, <1>10
<1>12. LoginsApart'
  <2>1. \A i \in Lined' : /\ LinedOp(i)'.kind # "persist"
                          /\ LinedOp(i)'.kind \in Decisive => LinedOp(i)'.token \notin page.arriving
    BY <1>5, <1>7, <1>11 DEF Decisive
  <2>. QED BY <2>1, <1>1, <1>2, <1>3 DEF LoginsApart
<1>13. StartAlone'
  BY <1>1, <1>2, <1>3, <1>8 DEF StartAlone
<1>14. StorageShape' /\ (~crossed' => StoreOK /\ LeftoverKnown' /\ HeadOK')
  BY <1>1, <1>8, StorageKept
<1>15. NoToken \notin loggedOut /\ UNCHANGED chats
  BY <1>1, <1>2, ToldNothing DEF PageShape, storageVars
<1>16. ShownOK => ShownOK'
  BY <1>1, <1>2, <1>3, <1>15 DEF ShownOK, Showing
<1>. QED BY <1>4, <1>8, <1>12, <1>13, <1>14, <1>16 DEF MobileInv, MobileShape, StoreOK

LEMMA appendKeeps ==
  ASSUME MobileInv, appendMessage
  PROVE  MobileInv'
<1>1. /\ page.session # NoToken /\ chats' = chats \cup {page.session}
      /\ UNCHANGED <<secure, plaintext, logoutPending, bridge, issued, loggedOut, crossed, page,
                     sessionPersistenceQueue>>
  BY DEF appendMessage, keptVars
<1>2. MobileShape /\ PageShape /\ QueueShape /\ StartAlone /\ LoginsApart
  BY ToldNothing
<1>3. PageShape' /\ QueueShape' /\ LoginsApart' /\ StartAlone'
  BY <1>1, <1>2 DEF PageShape, QueueShape, LoginsApart, StartAlone, OpTrue, Lined, LinedOp, op
<1>4. StorageShape'
  BY <1>1, <1>2 DEF MobileShape, StorageShape, PageShape
<1>5. ASSUME ~crossed'
      PROVE  StoreOK'
  <2>1. StoreOK
    BY <1>1, <1>5 DEF MobileInv
  <2>2. Leftover' = Leftover /\ chats' \cap loggedOut' = chats \cap loggedOut
    BY <2>1, <1>1 DEF StoreOK, ShownOK, Leftover
  <2>. QED BY <2>1, <2>2, <1>1 DEF StoreOK, LeftoverKnown, HeadOK, ShownOK, Showing, op
<1>. QED BY <1>3, <1>4, <1>5 DEF MobileInv, MobileShape

LEMMA RestartKeeps ==
  ASSUME MobileInv, Restart
  PROVE  MobileInv'
<1>1. /\ page' = SignedOut /\ UNCHANGED <<storageVars, issued, loggedOut, crossed>>
      /\ sessionPersistenceQueue' = <<Operation("load", NoToken, TRUE, TRUE)>>
  BY DEF Restart
<1>2. MobileShape /\ PageShape
  BY ToldNothing
<1>3. PICK o \in MobileOp : o = Operation("load", NoToken, TRUE, TRUE)
  BY OperationTyped DEF Held
<1>4. o.kind = "load" /\ o.at = "begin" /\ OpTrue(o)' /\ o.kind \notin Decisive
  BY <1>3 DEF Operation, OpTrue, Decisive
<1>5. sessionPersistenceQueue' = <<o>> /\ Lined' = {1} /\ LinedOp(1)' = o /\ op' = o
      /\ Tail(sessionPersistenceQueue') = <<>> /\ sessionPersistenceQueue' # <<>>
  BY <1>1, <1>3 DEF Lined, LinedOp, op
<1>6. QueueShape'
  BY <1>4, <1>5 DEF QueueShape, OpTrue
<1>7. PageShape'
  BY <1>1, <1>2 DEF PageShape, SignedOut, Held
<1>8. LoginsApart' /\ StartAlone'
  BY <1>1, <1>4, <1>5 DEF LoginsApart, StartAlone, SignedOut
<1>9. UNCHANGED <<secure, plaintext, logoutPending, chats, loggedOut, crossed>>
  BY <1>1 DEF storageVars
<1>10. StorageShape'
  BY <1>1, <1>2, <1>9 DEF MobileShape, StorageShape
<1>11. ASSUME ~crossed'
       PROVE  StoreOK'
  <2>1. LeftoverKnown
    BY <1>9, <1>11 DEF MobileInv, StoreOK
  <2>2. LeftoverKnown'
    BY <2>1, <1>9 DEF LeftoverKnown, Leftover
  <2>3. ShownOK'
    BY <1>1, <1>2, <1>9, MobileAssumption DEF ShownOK, Showing, SignedOut, PageShape
  <2>4. HeadOK'
    BY <1>4, <1>5 DEF HeadOK
  <2>. QED BY <2>2, <2>3, <2>4 DEF StoreOK
<1>. QED BY <1>6, <1>7, <1>8, <1>10, <1>11 DEF MobileInv, MobileShape

LEMMA MobileStarts == MobileInit => MobileInv
<1> SUFFICES ASSUME MobileInit PROVE MobileInv
  OBVIOUS
<1>1. /\ page = SignedOut /\ loggedOut = {} /\ crossed = FALSE /\ logoutPending = FALSE
      /\ issued = {secure.token, plaintext} \ {NoToken} /\ chats = issued
      /\ sessionPersistenceQueue = <<Operation("load", NoToken, TRUE, TRUE)>>
  BY DEF MobileInit
<1>2. PICK o \in MobileOp : o = Operation("load", NoToken, TRUE, TRUE)
  BY OperationTyped DEF Held
<1>3. o.kind = "load" /\ o.at = "begin" /\ OpTrue(o) /\ o.kind \notin Decisive
  BY <1>2 DEF Operation, OpTrue, Decisive
<1>4. sessionPersistenceQueue = <<o>> /\ Lined = {1} /\ LinedOp(1) = o /\ op = o
      /\ Tail(sessionPersistenceQueue) = <<>> /\ sessionPersistenceQueue # <<>>
  BY <1>1, <1>2 DEF Lined, LinedOp, op
<1>5. secure \in [kind : {"empty", "invalid", "logout", "token", "legacy"}, token : Held]
      /\ plaintext \in Held /\ (secure.kind \in {"empty", "invalid", "logout"} => secure.token = NoToken)
  BY DEF MobileInit, Empty, Invalid, Held
<1>6. StorageShape
  BY <1>1, <1>5 DEF StorageShape, Held
<1>7. PageShape
  BY <1>1, <1>5 DEF PageShape, SignedOut, Held
<1>8. QueueShape
  BY <1>3, <1>4 DEF QueueShape
<1>9. LoginsApart /\ StartAlone
  BY <1>1, <1>3, <1>4 DEF LoginsApart, StartAlone, SignedOut
<1>10. StoreOK
  BY <1>1, <1>3, <1>4 DEF StoreOK, LeftoverKnown, Leftover, HeadOK, ShownOK, SignedOut
<1>. QED BY <1>6, <1>7, <1>8, <1>9, <1>10 DEF MobileInv, MobileShape

LEMMA MobileStepKeeps == MobileInv /\ [MobileNext]_mobileVars => MobileInv'
<1> SUFFICES ASSUME MobileInv, [MobileNext]_mobileVars PROVE MobileInv'
  OBVIOUS
<1>1. CASE Clear
  BY <1>1, ClearSteps, StorageStepKeeps
<1>2. CASE WithoutBridge
  BY <1>2, WithoutBridgeSteps, StorageStepKeeps
<1>3. CASE LoadClosed
  BY <1>3, LoadClosedSteps, StorageStepKeeps
<1>4. CASE LoadBegins
  BY <1>4, LoadBeginsSteps, StorageStepKeeps
<1>5. CASE LoadToken
  BY <1>5, LoadTokenSteps, StorageStepKeeps
<1>6. CASE Migrate
  BY <1>6, MigrateSteps, StorageStepKeeps
<1>7. CASE PersistBegins
  BY <1>7, PersistBeginsSteps, StorageStepKeeps
<1>8. CASE PersistSaves
  BY <1>8, PersistSavesSteps, StorageStepKeeps
<1>9. CASE logoutCod
  BY <1>9, logoutSteps, StorageStepKeeps
<1>10. ASSUME NEW t \in MobileTokens, SignIn(t) \/ RefusedWhileLoading(t) \/ RollBack(t)
       PROVE  MobileInv'
  BY <1>10, SignInKeeps, RefusedWhileLoadingKeeps, RollBackKeeps
<1>11. CASE CancelSignIn \/ Established \/ Resumed \/ RefusedAtStart
  BY <1>11, CancelKeeps, EstablishedKeeps, ResumedKeeps, RefusedAtStartKeeps
<1>12. CASE handleLogout \/ invalidateCodSession \/ appendMessage \/ Restart
  BY <1>12, handleLogoutKeeps, invalidateKeeps, appendKeeps, RestartKeeps
<1>13. CASE UNCHANGED mobileVars
  <2>1. UNCHANGED <<secure, plaintext, logoutPending, chats, page, sessionPersistenceQueue, issued, loggedOut, crossed>>
    BY <1>13 DEF mobileVars
  <2>2. MobileShape' /\ LoginsApart' /\ StartAlone'
    BY <2>1 DEF MobileInv, MobileShape, StorageShape, PageShape, QueueShape, LoginsApart, StartAlone, OpTrue,
                Lined, LinedOp, op
  <2>3. StoreOK => StoreOK'
    BY <2>1 DEF StoreOK, LeftoverKnown, Leftover, HeadOK, ShownOK, Showing, op
  <2>. QED BY <2>1, <2>2, <2>3 DEF MobileInv
<1>. QED BY <1>1, <1>2, <1>3, <1>4, <1>5, <1>6, <1>7, <1>8, <1>9, <1>10, <1>11, <1>12, <1>13 DEF MobileNext

(* LogoutHolds: as long as no clearing of another session's token has      *)
(* removed a marker that it had found, a session whose logout was reported *)
(* as done, or as certain to be done, never comes back, and its messages   *)
(* are never beside another session: any number of tokens, any length of   *)
(* the queue, any failure of either storage, any restart.                  *)
THEOREM LogoutsHold == MobileSpec => []LogoutHolds
<1>1. MobileInv => LogoutHolds
  BY DEF MobileInv, StoreOK, ShownOK, Showing, LogoutHolds, LogoutIsDurable
<1>. QED BY <1>1, MobileStarts, MobileStepKeeps, PTL DEF MobileSpec

-----------------------------------------------------------------------------
(* Who is signed in in a window                                            *)

Awaits == {"none", "asking", "persisting", "loading", "connecting", "resuming", "reconnecting",
           "in", "undoing", "refused", "kept", "failed"}

AttemptRow == [at : Awaits, latest : BOOLEAN, open : BOOLEAN]

ReadRow == [kind : {"sync", "refresh", "wallet", "list"}, token : Sessions, latest : BOOLEAN, effect : BOOLEAN]

Resuming == {"resuming", "reconnecting"}

SessionShape ==
    /\ attempt \in [Sessions -> AttemptRow]
    /\ ref \in Sessions \cup {NoSession} /\ rendered \in Sessions \cup {NoSession}
    /\ stored \in Sessions \cup {NoSession}
    /\ view \in [Views -> Sessions \cup {NoSession}]
    /\ reads \subseteq ReadRow
    /\ \A t \in Sessions : /\ attempt[t].at \in Resuming => t = 1
                           /\ Busy(t) => t > 1

\* One attempt is the latest and one is open; once somebody is signed in, or still rendered, no
\* attempt can sign in anybody else.
GenerationsOK ==
    /\ \A t, u \in Sessions : attempt[t].latest /\ attempt[u].latest => t = u
    /\ \A t, u \in Sessions : t > 1 /\ u > 1 /\ attempt[t].open /\ attempt[u].open => t = u
    /\ ref # NoSession =>
          /\ attempt[ref].at = "in" /\ rendered \in {NoSession, ref}
          /\ \A t \in Sessions : (attempt[t].latest => t = ref) /\ (t > 1 /\ attempt[t].open => t = ref)
    /\ rendered # NoSession =>
          /\ attempt[rendered].at = "in"
          /\ \A t \in Sessions : (attempt[t].latest => t = ref) /\ (t > 1 => ~attempt[t].open)

\* Requests are of sessions that were established; those of an effect are of the one rendered.
ReadsOK ==
    \A r \in reads : /\ attempt[r.token].at = "in" /\ (r.token = ref => rendered = ref)
                     /\ r.effect => r.token = rendered
                     /\ r.kind = "list" => r.effect

ViewsOK ==
    /\ ref # NoSession => \A v \in Views : view[v] \in {NoSession, ref}
    /\ \A v \in Views : v = "requests" => view[v] \in {NoSession, rendered}

\* The token of the last visit is only given up while another one is about to be stored.
StoredTokenOK ==
    /\ \A t \in Sessions : attempt[t].at \in {"none", "asking", "persisting"} => stored # t
    /\ stored # NoSession /\ (ref # NoSession \/ \E t \in Sessions : attempt[t].at \in {"loading", "connecting"})
          => attempt[stored].at \notin Resuming
    /\ stored # NoSession /\ attempt[stored].at \in Resuming /\ ~attempt[stored].latest
          => \E t \in Sessions : attempt[t].at = "persisting"
    /\ NothingLeftBehind

SessionInv == SessionShape /\ GenerationsOK /\ ReadsOK /\ ViewsOK /\ StoredTokenOK

\* An attempt goes on to its next await.
LEMMA StepFacts ==
    ASSUME SessionShape, NEW t \in Sessions, NEW at \in Awaits, Step(t, at)
    PROVE  /\ attempt' \in [Sessions -> AttemptRow]
           /\ attempt'[t].at = at /\ attempt'[t].latest = attempt[t].latest /\ attempt'[t].open = attempt[t].open
           /\ \A u \in Sessions : u # t => attempt'[u] = attempt[u]
<1>1. attempt \in [Sessions -> AttemptRow] /\ attempt' = [attempt EXCEPT ![t].at = at]
  BY DEF SessionShape, Step
<1>. QED
  BY <1>1 DEF AttemptRow

LEMMA OutdatedFacts ==
    ASSUME SessionShape
    PROVE  /\ Outdated \in [Sessions -> AttemptRow]
           /\ \A t \in Sessions : Outdated[t].at = attempt[t].at /\ ~Outdated[t].latest /\ Outdated[t].open = attempt[t].open
BY DEF SessionShape, Outdated, AttemptRow

LEMMA OutdatedReadsFacts ==
    ASSUME SessionShape
    PROVE  /\ OutdatedReads \subseteq ReadRow
           /\ \A r \in OutdatedReads : \E x \in reads : r.kind = x.kind /\ r.token = x.token /\ r.effect = x.effect
BY DEF SessionShape, OutdatedReads, ReadRow

\* Reads of the same sessions as before, while the sessions stay established and rendered.
LEMMA ReadsStay ==
    ASSUME ReadsOK,
           \A r \in reads' : \E x \in reads : r.kind = x.kind /\ r.token = x.token /\ r.effect = x.effect,
           \A r \in reads : attempt[r.token].at = "in" => attempt'[r.token].at = "in",
           rendered' = rendered, ref' = ref \/ ref' = NoSession \/ (\A r \in reads : r.token # ref'),
           \A r \in reads : r.token # NoSession
    PROVE  ReadsOK'
BY DEF ReadsOK

LEMMA Ranges ==
    ASSUME SessionInv, SessionsAssumption
    PROVE  /\ ref # NoSession => ref \in Sessions
           /\ rendered # NoSession => rendered \in Sessions
           /\ stored # NoSession => stored \in Sessions
           /\ \A r \in reads : r.token \in Sessions /\ r.token # NoSession /\ attempt[r.token].at = "in"
BY DEF SessionInv, SessionShape, ReadRow, ReadsOK, SessionsAssumption

\* Only the latest attempt goes on, and only while nobody is signed in.
LEMMA NobodyYet ==
    ASSUME SessionInv, SessionsAssumption, NEW t \in Sessions, attempt[t].latest, attempt[t].at # "in"
    PROVE  ref = NoSession /\ rendered = NoSession
BY DEF SessionInv, GenerationsOK, SessionsAssumption

LEMMA AskInv ==
    ASSUME SessionInv, SessionsAssumption, NEW t \in Sessions, Ask(t)
    PROVE  SessionInv'
<1>1. /\ ref = NoSession /\ rendered = NoSession /\ attempt[t].at = "none" /\ t > 1
      /\ UNCHANGED <<owner, ref, rendered, stored, queue, refused, view, reads>>
  BY DEF Ask
<1>2. /\ attempt' \in [Sessions -> AttemptRow]
      /\ attempt'[t] = [at |-> "asking", latest |-> FALSE, open |-> TRUE]
      /\ \A u \in Sessions : u # t => /\ attempt'[u].at = attempt[u].at /\ attempt'[u].latest = attempt[u].latest
                                      /\ u > 1 => ~attempt'[u].open
  <2> DEFINE in == [at |-> "asking", latest |-> FALSE, open |-> TRUE]
             shut(u) == [attempt[u] EXCEPT !.open = FALSE]
             next(u) == IF u = t THEN in ELSE IF u > 1 THEN shut(u) ELSE attempt[u]
  <2>1. in \in AttemptRow BY DEF AttemptRow, Awaits
  <2>2. \A u \in Sessions : attempt[u] \in AttemptRow BY DEF SessionInv, SessionShape
  <2>3. \A u \in Sessions : /\ shut(u) \in AttemptRow /\ shut(u).at = attempt[u].at
                            /\ shut(u).latest = attempt[u].latest /\ ~shut(u).open
    BY <2>2 DEF AttemptRow
  <2>4. attempt' = [u \in Sessions |-> next(u)] BY DEF Ask
  <2> HIDE DEF in, shut
  <2>5. \A u \in Sessions : next(u) \in AttemptRow BY <2>1, <2>2, <2>3
  <2>6. \A u \in Sessions : u # t => next(u).at = attempt[u].at /\ next(u).latest = attempt[u].latest /\ (u > 1 => ~next(u).open)
    BY <2>3
  <2>7. next(t) = in OBVIOUS
  <2> HIDE DEF next
  <2>8. attempt' \in [Sessions -> AttemptRow] /\ \A u \in Sessions : attempt'[u] = next(u) BY <2>4, <2>5
  <2> QED BY <2>6, <2>7, <2>8 DEF in
<1>3. SessionShape'
  BY <1>1, <1>2 DEF SessionInv, SessionShape, Resuming, Busy
<1>4. GenerationsOK'
  BY <1>1, <1>2 DEF SessionInv, GenerationsOK
<1>5. ReadsOK'
  BY <1>1, <1>2 DEF SessionInv, ReadsOK, SessionShape, ReadRow
<1>6. ViewsOK'
  BY <1>1 DEF SessionInv, ViewsOK
<1>7. StoredTokenOK'
  <2>1. stored # t
    BY <1>1 DEF SessionInv, StoredTokenOK
  <2>2. stored # NoSession => stored \in Sessions
    BY DEF SessionInv, SessionShape
  <2>3. \A u \in Sessions : attempt'[u].at = attempt[u].at \/ (u = t /\ attempt'[u].at = "asking")
    BY <1>2
  <2>4. stored # NoSession => /\ attempt'[stored].at = attempt[stored].at
                             /\ attempt'[stored].latest = attempt[stored].latest
    BY <1>2, <2>1, <2>2
  <2>5. (\E u \in Sessions : attempt[u].at = "persisting") => \E u \in Sessions : attempt'[u].at = "persisting"
    BY <1>1, <1>2
  <2>6. NothingLeftBehind'
    BY <1>1, <2>4, <2>5 DEF SessionInv, StoredTokenOK, NothingLeftBehind
  <2>. QED BY <1>1, <2>1, <2>3, <2>4, <2>5, <2>6 DEF SessionInv, StoredTokenOK
<1>. QED
  BY <1>3, <1>4, <1>5, <1>6, <1>7 DEF SessionInv

LEMMA CloseDialogInv ==
    ASSUME SessionInv, SessionsAssumption, CloseDialog
    PROVE  SessionInv'
<1>1. UNCHANGED <<owner, ref, rendered, stored, queue, refused, view, reads>>
  BY DEF CloseDialog
<1>2. /\ attempt' \in [Sessions -> AttemptRow]
      /\ \A u \in Sessions : /\ attempt'[u].at = attempt[u].at /\ attempt'[u].latest = attempt[u].latest
                             /\ u > 1 => ~attempt'[u].open
  <2> DEFINE shut(u) == [attempt[u] EXCEPT !.open = FALSE]
             next(u) == IF u > 1 THEN shut(u) ELSE attempt[u]
  <2>1. \A u \in Sessions : attempt[u] \in AttemptRow BY DEF SessionInv, SessionShape
  <2>2. \A u \in Sessions : /\ shut(u) \in AttemptRow /\ shut(u).at = attempt[u].at
                            /\ shut(u).latest = attempt[u].latest /\ ~shut(u).open
    BY <2>1 DEF AttemptRow
  <2>3. attempt' = [u \in Sessions |-> next(u)] BY DEF CloseDialog
  <2> HIDE DEF shut
  <2>4. \A u \in Sessions : /\ next(u) \in AttemptRow /\ next(u).at = attempt[u].at
                            /\ next(u).latest = attempt[u].latest /\ (u > 1 => ~next(u).open)
    BY <2>1, <2>2
  <2> HIDE DEF next
  <2> QED BY <2>3, <2>4
<1>3. SessionShape'
  BY <1>1, <1>2 DEF SessionInv, SessionShape, Resuming, Busy
<1>4. GenerationsOK'
  <2>1. (ref # NoSession => ref \in Sessions) /\ (rendered # NoSession => rendered \in Sessions)
    BY DEF SessionInv, SessionShape
  <2>. QED BY <1>1, <1>2, <2>1 DEF SessionInv, GenerationsOK
<1>5. ReadsOK'
  BY <1>1, <1>2 DEF SessionInv, ReadsOK, SessionShape, ReadRow
<1>6. ViewsOK'
  BY <1>1 DEF SessionInv, ViewsOK
<1>7. StoredTokenOK'
  <2>2. stored # NoSession => stored \in Sessions
    BY DEF SessionInv, SessionShape
  <2>. QED BY <1>1, <1>2, <2>2 DEF SessionInv, StoredTokenOK, NothingLeftBehind
<1>. QED
  BY <1>3, <1>4, <1>5, <1>6, <1>7 DEF SessionInv

\* An attempt that is asking and open finds nobody signed in.
LEMMA IssuedInv ==
    ASSUME SessionInv, SessionsAssumption, NEW t \in Sessions, NEW ok \in BOOLEAN, Issued(t, ok)
    PROVE  SessionInv'
<1>1. /\ attempt[t].at = "asking" /\ t > 1 /\ stored # t
      /\ UNCHANGED <<owner, ref, rendered, stored, queue, refused, view>>
  BY DEF Issued, SessionInv, SessionShape, StoredTokenOK, Busy
<1>0. /\ ref # NoSession => ref \in Sessions
      /\ rendered # NoSession => rendered \in Sessions
      /\ stored # NoSession => stored \in Sessions
      /\ \A r \in reads : r.token \in Sessions /\ r.token # NoSession /\ attempt[r.token].at = "in"
  BY Ranges
<1>2. CASE ok /\ attempt[t].open
  <2>1. /\ attempt' = [Outdated EXCEPT ![t] = [at |-> "persisting", latest |-> TRUE, open |-> TRUE]]
        /\ reads' = OutdatedReads
    BY <1>2 DEF Issued
  <2>2. /\ attempt' \in [Sessions -> AttemptRow]
        /\ attempt'[t].at = "persisting" /\ attempt'[t].latest /\ attempt'[t].open
        /\ \A u \in Sessions : u # t => /\ attempt'[u].at = attempt[u].at /\ ~attempt'[u].latest
                                        /\ attempt'[u].open = attempt[u].open
    <3>1. [at |-> "persisting", latest |-> TRUE, open |-> TRUE] \in AttemptRow
      BY DEF AttemptRow, Awaits
    <3>. QED BY <2>1, <3>1, OutdatedFacts DEF SessionInv
  <2>3. ref = NoSession /\ rendered = NoSession
    BY <1>0, <1>1, <1>2 DEF SessionInv, GenerationsOK
  <2>4. SessionShape'
    BY <1>1, <2>1, <2>2, OutdatedReadsFacts DEF SessionInv, SessionShape, Resuming, Busy
  <2>5. GenerationsOK'
    BY <1>1, <1>2, <2>2, <2>3 DEF SessionInv, GenerationsOK
  <2>6. ReadsOK'
    <3>1. \A r \in reads : r.token # t /\ attempt'[r.token].at = "in"
      BY <1>0, <1>1, <2>2
    <3>. QED BY <1>0, <1>1, <2>1, <3>1, OutdatedReadsFacts, ReadsStay DEF SessionInv
  <2>7. ViewsOK'
    BY <1>1 DEF SessionInv, ViewsOK
  <2>8. StoredTokenOK'
    BY <1>0, <1>1, <2>2, <2>3 DEF SessionInv, StoredTokenOK, NothingLeftBehind
  <2>. QED BY <2>4, <2>5, <2>6, <2>7, <2>8 DEF SessionInv
<1>3. CASE ~(ok /\ attempt[t].open)
  <2>1. reads' = reads /\ Step(t, "failed")
    BY <1>3 DEF Issued
  <2>2. /\ attempt' \in [Sessions -> AttemptRow]
        /\ attempt'[t].at = "failed" /\ attempt'[t].latest = attempt[t].latest /\ attempt'[t].open = attempt[t].open
        /\ \A u \in Sessions : u # t => attempt'[u] = attempt[u]
    BY <2>1, StepFacts DEF SessionInv, Awaits
  <2>4. SessionShape'
    BY <1>1, <2>1, <2>2 DEF SessionInv, SessionShape, Resuming, Busy
  <2>5. GenerationsOK'
    BY <1>0, <1>1, <2>2 DEF SessionInv, GenerationsOK
  <2>6. ReadsOK'
    <3>1. \A r \in reads : r.token # t /\ attempt'[r.token].at = "in"
      BY <1>0, <1>1, <2>2
    <3>. QED BY <1>1, <2>1, <3>1 DEF SessionInv, ReadsOK
  <2>7. ViewsOK'
    BY <1>1 DEF SessionInv, ViewsOK
  <2>8. StoredTokenOK'
    BY <1>0, <1>1, <2>2 DEF SessionInv, StoredTokenOK, NothingLeftBehind
  <2>. QED BY <2>4, <2>5, <2>6, <2>7, <2>8 DEF SessionInv
<1>. QED
  BY <1>2, <1>3


LEMMA PersistInv ==
    ASSUME SessionInv, SessionsAssumption, NEW t \in Sessions, Persist(t)
    PROVE  SessionInv'
<1>1. /\ attempt[t].at = "persisting" /\ stored' = t
      /\ UNCHANGED <<owner, ref, rendered, queue, refused, view, reads>>
  BY DEF Persist
<1>0. /\ ref # NoSession => ref \in Sessions
      /\ rendered # NoSession => rendered \in Sessions
      /\ \A r \in reads : r.token \in Sessions /\ r.token # NoSession /\ attempt[r.token].at = "in"
  BY Ranges
<1>2. /\ attempt' \in [Sessions -> AttemptRow]
      /\ attempt'[t].at \in {"loading", "undoing"}
      /\ attempt'[t].latest = attempt[t].latest /\ attempt'[t].open = attempt[t].open
      /\ \A u \in Sessions : u # t => attempt'[u] = attempt[u]
  <2>1. PICK at \in {"loading", "undoing"} : Step(t, at)
    BY DEF Persist
  <2>2. at \in Awaits
    BY DEF Awaits
  <2>. QED BY <2>1, <2>2, StepFacts DEF SessionInv
<1>3. SessionShape'
  BY <1>1, <1>2 DEF SessionInv, SessionShape, Resuming, Busy
<1>4. GenerationsOK'
  BY <1>0, <1>1, <1>2 DEF SessionInv, GenerationsOK
<1>5. ReadsOK'
  <2>1. \A r \in reads : r.token # t /\ attempt'[r.token].at = "in"
    BY <1>0, <1>1, <1>2
  <2>. QED BY <1>1, <2>1 DEF SessionInv, ReadsOK
<1>6. ViewsOK'
  BY <1>1 DEF SessionInv, ViewsOK
<1>7. StoredTokenOK'
  <2>1. NothingLeftBehind'
    BY <1>1, <1>2 DEF NothingLeftBehind
  <2>. QED BY <1>1, <1>2, <2>1 DEF StoredTokenOK, Resuming
<1>. QED
  BY <1>3, <1>4, <1>5, <1>6, <1>7 DEF SessionInv

LEMMA LoadInv ==
    ASSUME SessionInv, SessionsAssumption, NEW t \in Sessions, NEW ok \in BOOLEAN, Load(t, ok)
    PROVE  SessionInv'
<1>1. /\ attempt[t].at \in {"loading", "resuming"}
      /\ UNCHANGED <<owner, ref, rendered, stored, queue, refused, view, reads>>
  BY DEF Load
<1>0. /\ ref # NoSession => ref \in Sessions
      /\ rendered # NoSession => rendered \in Sessions
      /\ stored # NoSession => stored \in Sessions
      /\ \A r \in reads : r.token \in Sessions /\ r.token # NoSession /\ attempt[r.token].at = "in"
  BY Ranges
<1>2. PICK at \in Awaits :
          /\ Step(t, at)
          /\ \/ attempt[t].at = "loading" /\ at \in {"connecting", "undoing"}
             \/ attempt[t].at = "resuming" /\ ~attempt[t].latest /\ at = "failed"
             \/ attempt[t].at = "resuming" /\ attempt[t].latest /\ at \in {"reconnecting", "refused", "kept"}
  <2>1. {"connecting", "undoing", "failed", "reconnecting", "refused", "kept"} \subseteq Awaits
    BY DEF Awaits
  <2>2. CASE attempt[t].at = "loading"
    BY <2>1, <2>2 DEF Load
  <2>3. CASE attempt[t].at = "resuming"
    BY <2>1, <2>3 DEF Load
  <2>. QED BY <1>1, <2>2, <2>3
<1>3. /\ attempt' \in [Sessions -> AttemptRow]
      /\ attempt'[t].at = at
      /\ attempt'[t].latest = attempt[t].latest /\ attempt'[t].open = attempt[t].open
      /\ \A u \in Sessions : u # t => attempt'[u] = attempt[u]
  BY <1>2, StepFacts DEF SessionInv
<1>4. SessionShape'
  BY <1>1, <1>2, <1>3 DEF SessionInv, SessionShape, Resuming, Busy
<1>5. GenerationsOK'
  BY <1>0, <1>1, <1>3 DEF SessionInv, GenerationsOK
<1>6. ReadsOK'
  <2>1. \A r \in reads : r.token # t /\ attempt'[r.token].at = "in"
    BY <1>0, <1>1, <1>3
  <2>. QED BY <1>1, <2>1 DEF SessionInv, ReadsOK
<1>7. ViewsOK'
  BY <1>1 DEF SessionInv, ViewsOK
<1>8. StoredTokenOK'
  <2>1. (\E u \in Sessions : attempt'[u].at = "persisting") <=> \E u \in Sessions : attempt[u].at = "persisting"
    BY <1>1, <1>2, <1>3
  <2>2. (\E u \in Sessions : attempt'[u].at \in {"loading", "connecting"})
            => \E u \in Sessions : attempt[u].at \in {"loading", "connecting"}
    BY <1>1, <1>2, <1>3
  <2>3. \A u \in Sessions : attempt'[u].at \in {"none", "asking", "persisting"} => stored # u
    BY <1>1, <1>2, <1>3 DEF SessionInv, StoredTokenOK
  <2>4. CASE stored = t
    BY <1>0, <1>1, <1>2, <1>3, <2>1, <2>2, <2>3, <2>4 DEF SessionInv, StoredTokenOK, NothingLeftBehind, Resuming
  <2>5. CASE stored # t
    BY <1>0, <1>1, <1>3, <2>1, <2>2, <2>3, <2>5 DEF SessionInv, StoredTokenOK, NothingLeftBehind
  <2>. QED BY <2>4, <2>5
<1>. QED
  BY <1>4, <1>5, <1>6, <1>7, <1>8 DEF SessionInv

LEMMA ConnectInv ==
    ASSUME SessionInv, SessionsAssumption, NEW t \in Sessions, Connect(t)
    PROVE  SessionInv'
<1>1. /\ attempt[t].latest /\ attempt[t].at # "in"
      /\ view' = [view EXCEPT !["devices"] = t]
      /\ UNCHANGED <<owner, attempt, ref, rendered, stored, queue, refused, reads>>
  BY DEF Connect
<1>2. ref = NoSession /\ rendered = NoSession
  BY <1>1, NobodyYet
<1>3. SessionShape'
  BY <1>1 DEF SessionInv, SessionShape, Busy
<1>4. GenerationsOK'
  BY <1>1 DEF SessionInv, GenerationsOK
<1>5. ReadsOK'
  BY <1>1 DEF SessionInv, ReadsOK
<1>6. ViewsOK'
  BY <1>1, <1>2 DEF SessionInv, SessionShape, ViewsOK
<1>7. StoredTokenOK'
  BY <1>1 DEF SessionInv, StoredTokenOK, NothingLeftBehind
<1>. QED
  BY <1>3, <1>4, <1>5, <1>6, <1>7 DEF SessionInv

\* What is loaded for a token is shown as that token's.
LEMMA ShownFacts ==
    ASSUME SessionInv, NEW t \in Sessions, view' \in Shown(t)
    PROVE  /\ view' \in [Views -> Sessions \cup {NoSession}]
           /\ \A v \in Views : IF v = "requests" THEN view'[v] = view[v] ELSE view'[v] \in {NoSession, t}
BY DEF SessionInv, SessionShape, Shown

LEMMA EstablishInv ==
    ASSUME SessionInv, SessionsAssumption, NEW t \in Sessions, Establish(t)
    PROVE  SessionInv'
<1>1. /\ attempt[t].at = "connecting" /\ t > 1
      /\ UNCHANGED <<owner, rendered, stored, queue, refused, reads>>
  BY DEF Establish, SessionInv, SessionShape, Busy
<1>0. /\ ref # NoSession => ref \in Sessions
      /\ rendered # NoSession => rendered \in Sessions
      /\ stored # NoSession => stored \in Sessions
      /\ \A r \in reads : r.token \in Sessions /\ r.token # NoSession /\ attempt[r.token].at = "in"
      /\ t # NoSession
  BY Ranges DEF SessionsAssumption
<1>2. PICK at \in {"in", "undoing"} :
          /\ Step(t, at)
          /\ at = "in" => attempt[t].latest /\ attempt[t].open /\ ref' = t
          /\ at = "undoing" => ref' = ref
  BY DEF Establish, StillMine
<1>3. /\ attempt' \in [Sessions -> AttemptRow]
      /\ attempt'[t].at = at
      /\ attempt'[t].latest = attempt[t].latest /\ attempt'[t].open = attempt[t].open
      /\ \A u \in Sessions : u # t => attempt'[u] = attempt[u]
  <2>1. at \in Awaits
    BY DEF Awaits
  <2>. QED BY <1>2, <2>1, StepFacts DEF SessionInv
<1>4. attempt[t].latest => ref = NoSession /\ rendered = NoSession
  BY <1>1, NobodyYet
<1>5. /\ view' \in [Views -> Sessions \cup {NoSession}]
      /\ attempt[t].latest \/ view' = view
      /\ attempt[t].latest => \A v \in Views : IF v = "requests" THEN view'[v] = view[v] ELSE view'[v] \in {NoSession, t}
  <2>1. CASE attempt[t].latest
    BY <2>1, ShownFacts DEF Establish
  <2>2. CASE ~attempt[t].latest
    BY <2>2 DEF Establish, SessionInv, SessionShape
  <2>. QED BY <2>1, <2>2
<1>6. SessionShape'
  BY <1>1, <1>2, <1>3, <1>5 DEF SessionInv, SessionShape, Resuming, Busy
<1>7. GenerationsOK'
  <2>1. CASE at = "in"
    BY <1>1, <1>2, <1>3, <1>4, <2>1 DEF SessionInv, GenerationsOK
  <2>2. CASE at = "undoing"
    BY <1>0, <1>1, <1>2, <1>3, <2>2 DEF SessionInv, GenerationsOK
  <2>. QED BY <2>1, <2>2
<1>8. ReadsOK'
  <2>1. \A r \in reads : r.token # t /\ attempt'[r.token].at = "in"
    BY <1>0, <1>1, <1>3
  <2>. QED BY <1>1, <1>2, <2>1 DEF SessionInv, ReadsOK
<1>9. ViewsOK'
  BY <1>1, <1>2, <1>4, <1>5 DEF SessionInv, ViewsOK
<1>10. StoredTokenOK'
  <2>0. stored # NoSession => attempt[stored].at \notin Resuming
    BY <1>1 DEF SessionInv, StoredTokenOK
  <2>1. stored # NoSession => attempt'[stored].at \notin Resuming
    BY <1>0, <1>3, <2>0 DEF Resuming
  <2>2. (\E u \in Sessions : attempt[u].at = "persisting") => \E u \in Sessions : attempt'[u].at = "persisting"
    BY <1>1, <1>3
  <2>3. \A u \in Sessions : attempt'[u].at \in {"none", "asking", "persisting"} => stored # u
    BY <1>1, <1>2, <1>3 DEF SessionInv, StoredTokenOK
  <2>4. NothingLeftBehind'
    <3>1. CASE stored = t
      BY <1>1, <1>2, <1>3, <3>1 DEF NothingLeftBehind
    <3>2. CASE stored # t
      BY <1>0, <1>1, <1>2, <1>3, <1>4, <2>2, <3>2 DEF SessionInv, StoredTokenOK, NothingLeftBehind
    <3>. QED BY <3>1, <3>2
  <2>. QED BY <1>1, <2>1, <2>3, <2>4 DEF StoredTokenOK
<1>. QED
  BY <1>6, <1>7, <1>8, <1>9, <1>10 DEF SessionInv

LEMMA ResumeSessionInv ==
    ASSUME SessionInv, SessionsAssumption, NEW t \in Sessions, ResumeSession(t)
    PROVE  SessionInv'
<1>1. /\ attempt[t].at = "reconnecting" /\ t = 1
      /\ UNCHANGED <<owner, rendered, stored, queue, refused, reads>>
  BY DEF ResumeSession, SessionInv, SessionShape, Resuming
<1>0. /\ ref # NoSession => ref \in Sessions
      /\ rendered # NoSession => rendered \in Sessions
      /\ stored # NoSession => stored \in Sessions
      /\ \A r \in reads : r.token \in Sessions /\ r.token # NoSession /\ attempt[r.token].at = "in"
      /\ t # NoSession
  BY Ranges DEF SessionsAssumption
<1>2. CASE attempt[t].latest
  <2>1. /\ attempt' = [u \in Sessions |-> IF u = t THEN [attempt[t] EXCEPT !.at = "in"]
                                         ELSE [attempt[u] EXCEPT !.open = FALSE]]
        /\ ref' = t /\ view' \in Shown(t)
    BY <1>2 DEF ResumeSession
  <2>2. /\ attempt' \in [Sessions -> AttemptRow]
        /\ attempt'[t].at = "in"
        /\ \A u \in Sessions : /\ attempt'[u].latest = attempt[u].latest
                               /\ u # t => attempt'[u].at = attempt[u].at /\ ~attempt'[u].open
    <3>1. attempt[t] \in AttemptRow /\ [attempt[t] EXCEPT !.at = "in"] \in AttemptRow
      BY DEF SessionInv, SessionShape, AttemptRow, Awaits
    <3>2. /\ [attempt[t] EXCEPT !.at = "in"].at = "in"
          /\ [attempt[t] EXCEPT !.at = "in"].latest = attempt[t].latest
      BY <3>1 DEF AttemptRow
    <3>3. \A u \in Sessions : /\ [attempt[u] EXCEPT !.open = FALSE] \in AttemptRow
                              /\ [attempt[u] EXCEPT !.open = FALSE].at = attempt[u].at
                              /\ [attempt[u] EXCEPT !.open = FALSE].latest = attempt[u].latest
                              /\ ~[attempt[u] EXCEPT !.open = FALSE].open
      BY DEF SessionInv, SessionShape, AttemptRow
    <3>. DEFINE in == [attempt[t] EXCEPT !.at = "in"]
                shut(u) == [attempt[u] EXCEPT !.open = FALSE]
    <3>4. attempt' = [u \in Sessions |-> IF u = t THEN in ELSE shut(u)]
      BY <2>1
    <3>. HIDE DEF in, shut
    <3>5. in \in AttemptRow /\ in.at = "in" /\ in.latest = attempt[t].latest
      BY <3>1, <3>2 DEF in
    <3>6. \A u \in Sessions : /\ shut(u) \in AttemptRow /\ shut(u).at = attempt[u].at
                              /\ shut(u).latest = attempt[u].latest /\ ~shut(u).open
      BY <3>3 DEF shut
    <3>. QED BY <3>4, <3>5, <3>6
  <2>3. ref = NoSession /\ rendered = NoSession
    BY <1>1, <1>2, NobodyYet
  <2>4. /\ view' \in [Views -> Sessions \cup {NoSession}]
        /\ \A v \in Views : IF v = "requests" THEN view'[v] = view[v] ELSE view'[v] \in {NoSession, t}
    BY <2>1, ShownFacts
  <2>5. SessionShape'
    BY <1>1, <2>1, <2>2, <2>4 DEF SessionInv, SessionShape, Resuming, Busy
  <2>6. GenerationsOK'
    BY <1>1, <1>2, <2>1, <2>2, <2>3 DEF SessionInv, GenerationsOK
  <2>7. ReadsOK'
    <3>1. \A r \in reads : r.token # t /\ attempt'[r.token].at = "in"
      BY <1>0, <1>1, <2>2
    <3>. QED BY <1>1, <2>1, <3>1 DEF SessionInv, ReadsOK
  <2>8. ViewsOK'
    BY <1>1, <2>1, <2>3, <2>4 DEF SessionInv, ViewsOK
  <2>9. StoredTokenOK'
    <3>1. \A u \in Sessions : attempt'[u].at \notin Resuming
      BY <1>1, <2>2 DEF SessionInv, SessionShape, Resuming
    <3>2. (\E u \in Sessions : attempt[u].at = "persisting") => \E u \in Sessions : attempt'[u].at = "persisting"
      BY <1>1, <2>2
    <3>3. \A u \in Sessions : attempt'[u].at \in {"none", "asking", "persisting"} => stored # u
      BY <1>1, <2>2 DEF SessionInv, StoredTokenOK
    <3>4. NothingLeftBehind'
      BY <1>0, <1>1, <2>1, <2>2, <2>3, <3>2 DEF SessionInv, StoredTokenOK, NothingLeftBehind
    <3>. QED BY <1>0, <1>1, <3>1, <3>3, <3>4 DEF StoredTokenOK
  <2>. QED BY <2>5, <2>6, <2>7, <2>8, <2>9 DEF SessionInv
<1>3. CASE ~attempt[t].latest
  <2>1. Step(t, "failed") /\ ref' = ref /\ view' = view
    BY <1>3 DEF ResumeSession
  <2>2. /\ attempt' \in [Sessions -> AttemptRow]
        /\ attempt'[t].at = "failed" /\ attempt'[t].latest = attempt[t].latest /\ attempt'[t].open = attempt[t].open
        /\ \A u \in Sessions : u # t => attempt'[u] = attempt[u]
    BY <2>1, StepFacts DEF SessionInv, Awaits
  <2>4. SessionShape'
    BY <1>1, <2>1, <2>2 DEF SessionInv, SessionShape, Resuming, Busy
  <2>5. GenerationsOK'
    BY <1>0, <1>1, <2>1, <2>2, ZenonT(30) DEF SessionInv, GenerationsOK
  <2>6. ReadsOK'
    <3>1. \A r \in reads : r.token # t /\ attempt'[r.token].at = "in"
      BY <1>0, <1>1, <2>2
    <3>. QED BY <1>1, <2>1, <3>1 DEF SessionInv, ReadsOK
  <2>7. ViewsOK'
    BY <1>1, <2>1 DEF SessionInv, ViewsOK
  <2>8. StoredTokenOK'
    <3>1. \A u \in Sessions : attempt'[u].at \notin Resuming
      BY <1>1, <2>2 DEF SessionInv, SessionShape, Resuming
    <3>2. (\E u \in Sessions : attempt[u].at = "persisting") => \E u \in Sessions : attempt'[u].at = "persisting"
      BY <1>1, <2>2
    <3>3. \A u \in Sessions : attempt'[u].at \in {"none", "asking", "persisting"} => stored # u
      BY <1>1, <2>2 DEF SessionInv, StoredTokenOK
    <3>4. NothingLeftBehind'
      <4>1. stored = t => \E u \in Sessions : attempt[u].at = "persisting"
        BY <1>0, <1>1, <1>3 DEF SessionInv, StoredTokenOK, Resuming
      <4>. QED BY <1>0, <1>1, <2>1, <2>2, <3>2, <4>1 DEF SessionInv, StoredTokenOK, NothingLeftBehind
    <3>. QED BY <1>0, <1>1, <3>1, <3>3, <3>4 DEF StoredTokenOK
  <2>. QED BY <2>4, <2>5, <2>6, <2>7, <2>8 DEF SessionInv
<1>. QED
  BY <1>2, <1>3

LEMMA UndoInv ==
    ASSUME SessionInv, SessionsAssumption, NEW t \in Sessions, Undo(t)
    PROVE  SessionInv'
<1>1. /\ attempt[t].at \in {"undoing", "refused"} /\ queue' = queue \cup {t} /\ Step(t, "failed")
      /\ UNCHANGED <<owner, ref, rendered, stored, refused, view, reads>>
  BY DEF Undo
<1>0. /\ ref # NoSession => ref \in Sessions
      /\ rendered # NoSession => rendered \in Sessions
      /\ stored # NoSession => stored \in Sessions
      /\ \A r \in reads : r.token \in Sessions /\ r.token # NoSession /\ attempt[r.token].at = "in"
  BY Ranges
<1>2. /\ attempt' \in [Sessions -> AttemptRow]
      /\ attempt'[t].at = "failed" /\ attempt'[t].latest = attempt[t].latest /\ attempt'[t].open = attempt[t].open
      /\ \A u \in Sessions : u # t => attempt'[u] = attempt[u]
  BY <1>1, StepFacts DEF SessionInv, Awaits
<1>4. SessionShape'
  BY <1>1, <1>2 DEF SessionInv, SessionShape, Resuming, Busy
<1>5. GenerationsOK'
  BY <1>0, <1>1, <1>2 DEF SessionInv, GenerationsOK
<1>6. ReadsOK'
  <2>1. \A r \in reads : r.token # t /\ attempt'[r.token].at = "in"
    BY <1>0, <1>1, <1>2
  <2>. QED BY <1>1, <2>1 DEF SessionInv, ReadsOK
<1>7. ViewsOK'
  BY <1>1 DEF SessionInv, ViewsOK
<1>8. StoredTokenOK'
  <2>1. (\E u \in Sessions : attempt'[u].at = "persisting") <=> \E u \in Sessions : attempt[u].at = "persisting"
    BY <1>1, <1>2
  <2>2. (\E u \in Sessions : attempt'[u].at \in {"loading", "connecting"})
            => \E u \in Sessions : attempt[u].at \in {"loading", "connecting"}
    BY <1>1, <1>2
  <2>3. \A u \in Sessions : attempt'[u].at \in {"none", "asking", "persisting"} => stored # u
    BY <1>1, <1>2 DEF SessionInv, StoredTokenOK
  <2>4. CASE stored = t
    BY <1>1, <1>2, <2>3, <2>4 DEF StoredTokenOK, NothingLeftBehind, Resuming
  <2>5. CASE stored # t
    BY <1>0, <1>1, <1>2, <2>1, <2>2, <2>3, <2>5 DEF SessionInv, StoredTokenOK, NothingLeftBehind
  <2>. QED BY <2>4, <2>5
<1>. QED
  BY <1>4, <1>5, <1>6, <1>7, <1>8 DEF SessionInv

\* Signing out gives up every attempt, and leaves the token to be removed.
LEMMA SignOutInv ==
    ASSUME SessionInv, SessionsAssumption, SignOut
    PROVE  SessionInv'
<1>0. /\ ref # NoSession => ref \in Sessions
      /\ stored # NoSession => stored \in Sessions
      /\ \A r \in reads : r.token \in Sessions /\ r.token # NoSession /\ attempt[r.token].at = "in"
  BY Ranges
<1>1. /\ ref # NoSession /\ ref' = NoSession /\ rendered' = NoSession /\ view' = NothingShown
      /\ queue' = queue \cup {ref} /\ reads' = {r \in OutdatedReads : ~r.effect}
      /\ UNCHANGED <<owner, stored, refused>>
      /\ attempt' = [u \in Sessions |-> [Outdated[u] EXCEPT !.open = FALSE]]
  BY DEF SignOut, EndSession, ClearedUi
<1>2. /\ attempt' \in [Sessions -> AttemptRow]
      /\ \A u \in Sessions : attempt'[u].at = attempt[u].at /\ ~attempt'[u].latest /\ ~attempt'[u].open
  BY <1>1, OutdatedFacts DEF SessionInv, AttemptRow
<1>3. view' \in [Views -> Sessions \cup {NoSession}] /\ \A v \in Views : view'[v] = NoSession
  BY <1>1 DEF NothingShown
<1>4. SessionShape'
  BY <1>1, <1>2, <1>3, OutdatedReadsFacts DEF SessionInv, SessionShape, Busy
<1>5. GenerationsOK'
  BY <1>1, <1>2 DEF GenerationsOK
<1>6. ReadsOK'
  <2>1. \A r \in reads' : ~r.effect /\ \E x \in reads : r.kind = x.kind /\ r.token = x.token /\ r.effect = x.effect
    BY <1>1, OutdatedReadsFacts DEF SessionInv
  <2>2. \A r \in reads' : r.token \in Sessions /\ r.token # NoSession /\ attempt[r.token].at = "in" /\ r.kind # "list"
    BY <1>0, <2>1 DEF SessionInv, ReadsOK
  <2>. QED BY <1>1, <1>2, <2>1, <2>2 DEF ReadsOK
<1>7. ViewsOK'
  BY <1>1, <1>3 DEF ViewsOK
<1>8. StoredTokenOK'
  BY <1>0, <1>1, <1>2 DEF SessionInv, StoredTokenOK, NothingLeftBehind
<1>. QED
  BY <1>4, <1>5, <1>6, <1>7, <1>8 DEF SessionInv

LEMMA RemoveTokenInv ==
    ASSUME SessionInv, SessionsAssumption, NEW t \in Sessions, RemoveToken(t)
    PROVE  SessionInv'
<1>1. /\ queue' = queue \ {t} /\ stored' = IF stored = t THEN NoSession ELSE stored
      /\ UNCHANGED <<owner, attempt, ref, rendered, refused, view, reads>>
  BY DEF RemoveToken
<1>2. SessionShape' /\ GenerationsOK' /\ ReadsOK' /\ ViewsOK'
  BY <1>1 DEF SessionInv, SessionShape, GenerationsOK, ReadsOK, ViewsOK, Busy
<1>3. StoredTokenOK'
  <2>1. CASE stored = t
    BY <1>1, <2>1 DEF StoredTokenOK, NothingLeftBehind, SessionsAssumption
  <2>2. CASE stored # t
    BY <1>1, <2>2 DEF SessionInv, StoredTokenOK, NothingLeftBehind
  <2>. QED BY <2>1, <2>2
<1>. QED
  BY <1>2, <1>3 DEF SessionInv

LEMMA RevokeInv ==
    ASSUME SessionInv, NEW t \in Sessions, Revoke(t)
    PROVE  SessionInv'
BY DEF Revoke, SessionInv, SessionShape, GenerationsOK, ReadsOK, ViewsOK, StoredTokenOK, NothingLeftBehind, Busy

\* The effects of the session that is over are stopped; those of the next one begin.
LEMMA RenderInv ==
    ASSUME SessionInv, SessionsAssumption, Render
    PROVE  SessionInv'
<1>0. /\ ref # NoSession => ref \in Sessions
      /\ rendered # NoSession => rendered \in Sessions
      /\ stored # NoSession => stored \in Sessions
      /\ \A r \in reads : r.token \in Sessions /\ r.token # NoSession /\ attempt[r.token].at = "in"
  BY Ranges
<1>1. /\ rendered # ref /\ rendered' = ref
      /\ reads' = {r \in reads : ~r.effect} \cup
                    {[kind |-> "list", token |-> t, latest |-> FALSE, effect |-> TRUE] : t \in {ref} \ {NoSession}}
      /\ view' = IF ref = NoSession THEN [view EXCEPT !["requests"] = NoSession] ELSE view
      /\ UNCHANGED <<owner, ref, stored, queue, refused>>
  BY DEF Render
<1>2. /\ attempt' \in [Sessions -> AttemptRow]
      /\ \A u \in Sessions : /\ attempt'[u].at = attempt[u].at /\ attempt'[u].latest = attempt[u].latest
                             /\ attempt'[u].open => attempt[u].open
                             /\ u > 1 /\ ref # NoSession => ~attempt'[u].open
  BY DEF Render, SessionInv, SessionShape, AttemptRow
<1>3. ref # NoSession => rendered = NoSession /\ attempt[ref].at = "in"
  BY <1>1 DEF SessionInv, GenerationsOK
<1>4. /\ view' \in [Views -> Sessions \cup {NoSession}]
      /\ ref # NoSession => view' = view
      /\ ref = NoSession => \A v \in Views : v = "requests" => view'[v] = NoSession
  BY <1>1 DEF SessionInv, SessionShape
<1>5. reads' \subseteq ReadRow
  <2>1. \A t \in Sessions : [kind |-> "list", token |-> t, latest |-> FALSE, effect |-> TRUE] \in ReadRow
    BY DEF ReadRow
  <2>. QED BY <1>0, <1>1, <2>1 DEF SessionInv, SessionShape
<1>6. SessionShape'
  BY <1>0, <1>1, <1>2, <1>4, <1>5 DEF SessionInv, SessionShape, Busy
<1>7. GenerationsOK'
  BY <1>0, <1>1, <1>2, <1>3 DEF SessionInv, GenerationsOK
<1>8. ReadsOK'
  <2>1. \A r \in reads' : (r \in reads /\ ~r.effect) \/ (r.token = ref /\ ref # NoSession /\ r.effect)
    BY <1>1
  <2>2. \A r \in reads' : r \in reads /\ ~r.effect => attempt'[r.token].at = "in" /\ r.kind # "list"
    BY <1>0, <1>2 DEF SessionInv, ReadsOK
  <2>3. ref # NoSession => attempt'[ref].at = "in"
    BY <1>0, <1>2, <1>3
  <2>. QED BY <1>1, <2>1, <2>2, <2>3 DEF ReadsOK
<1>9. ViewsOK'
  BY <1>1, <1>3, <1>4 DEF SessionInv, ViewsOK
<1>10. StoredTokenOK'
  BY <1>0, <1>1, <1>2 DEF SessionInv, StoredTokenOK, NothingLeftBehind
<1>. QED
  BY <1>6, <1>7, <1>8, <1>9, <1>10 DEF SessionInv

LEMMA ReadInv ==
    ASSUME SessionInv, SessionsAssumption, NEW kind \in {"sync", "refresh", "wallet"}, Read(kind)
    PROVE  SessionInv'
<1>1. /\ ref # NoSession /\ rendered = ref
      /\ reads' = reads \cup {[kind |-> kind, token |-> ref, latest |-> TRUE, effect |-> kind = "sync"]}
      /\ UNCHANGED <<owner, attempt, ref, rendered, stored, queue, refused, view>>
  BY DEF Read
<1>2. ref \in Sessions /\ attempt[ref].at = "in"
  BY <1>1, Ranges DEF SessionInv, GenerationsOK
<1>3. SessionShape'
  <2>1. [kind |-> kind, token |-> ref, latest |-> TRUE, effect |-> kind = "sync"] \in ReadRow
    BY <1>2 DEF ReadRow
  <2>. QED BY <1>1, <2>1 DEF SessionInv, SessionShape, Busy
<1>4. GenerationsOK' /\ ViewsOK' /\ StoredTokenOK'
  BY <1>1 DEF SessionInv, GenerationsOK, ViewsOK, StoredTokenOK, NothingLeftBehind
<1>5. ReadsOK'
  BY <1>1, <1>2 DEF SessionInv, ReadsOK
<1>. QED
  BY <1>3, <1>4, <1>5 DEF SessionInv

\* An answer is shown if its session is the one signed in; the list of requests belongs to what
\* is rendered.
LEMMA AnswerArrivesInv ==
    ASSUME SessionInv, SessionsAssumption, NEW r \in reads, AnswerArrives(r)
    PROVE  SessionInv'
<1>1. /\ reads' = reads \ {r}
      /\ view' = [v \in Views |-> IF MayShow(r) /\ v \in Reach(r.kind) THEN r.token ELSE view[v]]
      /\ UNCHANGED <<owner, attempt, ref, rendered, stored, queue, refused>>
  BY DEF AnswerArrives
<1>2. r \in ReadRow /\ r.token \in Sessions
  BY DEF SessionInv, SessionShape, ReadRow
<1>3. \/ r.kind \in {"sync", "refresh", "wallet"} /\ (MayShow(r) => ref = r.token)
      \/ r.kind = "list" /\ Reach(r.kind) = {"requests"}
  <2>1. CASE r.kind \in {"sync", "refresh"}
    BY <2>1 DEF MayShow
  <2>2. CASE r.kind = "wallet"
    BY <2>2 DEF MayShow
  <2>3. CASE r.kind = "list"
    BY <2>3 DEF Reach
  <2>. QED BY <1>2, <2>1, <2>2, <2>3 DEF ReadRow
<1>4. /\ r.kind = "list" => r.token = rendered
      /\ r.token = ref => rendered = ref
  BY DEF SessionInv, ReadsOK
<1>5. ref # NoSession => rendered \in {NoSession, ref}
  BY DEF SessionInv, GenerationsOK
<1>6. SessionShape'
  BY <1>1, <1>2 DEF SessionInv, SessionShape, Busy
<1>7. GenerationsOK' /\ ReadsOK' /\ StoredTokenOK'
  BY <1>1 DEF SessionInv, GenerationsOK, ReadsOK, StoredTokenOK, NothingLeftBehind
<1>8. ViewsOK'
  <2>1. r.token # NoSession
    BY <1>2 DEF SessionsAssumption
  <2>. DEFINE shown(v) == MayShow(r) /\ v \in Reach(r.kind)
  <2>2. \A v \in Views : view'[v] = IF shown(v) THEN r.token ELSE view[v]
    BY <1>1
  <2>3. \A v \in Views : shown(v) => r.token = ref \/ (v = "requests" /\ r.token = rendered)
    BY <1>3, <1>4
  <2>. HIDE DEF shown
  <2>. QED BY <1>1, <1>4, <1>5, <2>1, <2>2, <2>3 DEF SessionInv, ViewsOK
<1>. QED
  BY <1>6, <1>7, <1>8 DEF SessionInv

\* The server's refusal: if it is about the session of this window, the window forgets it.
LEMMA RefuseInv ==
    ASSUME SessionInv, SessionsAssumption, NEW r \in reads, Refuse(r)
    PROVE  SessionInv'
<1>1. reads' = reads \ {r} /\ UNCHANGED <<owner, rendered, queue, refused>>
  BY DEF Refuse, Invalidated
<1>0. /\ ref # NoSession => ref \in Sessions
      /\ rendered # NoSession => rendered \in Sessions
      /\ \A x \in reads : x.token \in Sessions /\ x.token # NoSession /\ attempt[x.token].at = "in"
      /\ NoSession \notin Sessions
  BY Ranges DEF SessionsAssumption
<1>2. CASE stored \in {r.token, NoSession} /\ ref = r.token
  <2>1. stored' = NoSession /\ ref' = NoSession /\ view' = NothingShown /\ attempt' = Outdated
    BY <1>2 DEF Refuse, Invalidated, ClearedUi
  <2>2. /\ attempt' \in [Sessions -> AttemptRow]
        /\ \A u \in Sessions : attempt'[u].at = attempt[u].at /\ ~attempt'[u].latest /\ attempt'[u].open = attempt[u].open
    BY <2>1, OutdatedFacts DEF SessionInv
  <2>3. view' \in [Views -> Sessions \cup {NoSession}] /\ \A v \in Views : view'[v] = NoSession
    BY <2>1 DEF NothingShown
  <2>4. SessionShape'
    BY <1>1, <2>1, <2>2, <2>3 DEF SessionInv, SessionShape, Busy
  <2>5. GenerationsOK'
    BY <1>0, <1>1, <2>1, <2>2 DEF SessionInv, GenerationsOK
  <2>6. ReadsOK'
    BY <1>0, <1>1, <2>1, <2>2 DEF SessionInv, ReadsOK
  <2>7. ViewsOK'
    BY <2>1, <2>3 DEF ViewsOK
  <2>8. StoredTokenOK'
    BY <1>0, <2>1 DEF StoredTokenOK, NothingLeftBehind
  <2>. QED BY <2>4, <2>5, <2>6, <2>7, <2>8 DEF SessionInv
<1>3. CASE ~(stored \in {r.token, NoSession} /\ ref = r.token)
  <2>1. UNCHANGED <<ref, view, attempt>> /\ stored' \in {stored, NoSession}
    BY <1>3 DEF Refuse, Invalidated
  <2>2. SessionShape'
    BY <1>1, <2>1 DEF SessionInv, SessionShape, Busy
  <2>3. GenerationsOK' /\ ReadsOK' /\ ViewsOK'
    BY <1>1, <2>1 DEF SessionInv, GenerationsOK, ReadsOK, ViewsOK
  <2>4. StoredTokenOK'
    BY <1>0, <1>1, <2>1 DEF SessionInv, StoredTokenOK, NothingLeftBehind
  <2>. QED BY <2>2, <2>3, <2>4 DEF SessionInv
<1>. QED
  BY <1>2, <1>3

LEMMA SessionInitInv ==
    ASSUME SessionInit, SessionsAssumption
    PROVE  SessionInv
<1>1. /\ ref = NoSession /\ rendered = NoSession /\ reads = {} /\ stored \in {NoSession, 1}
      /\ view = [v \in Views |-> NoSession]
      /\ 1 \in Sessions /\ NoSession \notin Sessions
  BY DEF SessionInit, SessionsAssumption
<1>2. /\ attempt \in [Sessions -> AttemptRow]
      /\ \A t \in Sessions : IF t = 1 /\ stored = 1 THEN attempt[t].at = "resuming" /\ attempt[t].latest
                             ELSE attempt[t].at = "none" /\ ~attempt[t].latest /\ ~attempt[t].open
  BY DEF SessionInit, NoAttempt, AttemptRow, Awaits
<1>3. SessionShape
  BY <1>1, <1>2 DEF SessionShape, Resuming, Busy
<1>4. GenerationsOK
  BY <1>1, <1>2 DEF GenerationsOK
<1>5. ReadsOK /\ ViewsOK
  BY <1>1 DEF ReadsOK, ViewsOK
<1>6. StoredTokenOK
  BY <1>1, <1>2 DEF StoredTokenOK, NothingLeftBehind
<1>. QED
  BY <1>3, <1>4, <1>5, <1>6 DEF SessionInv

LEMMA SessionStep ==
    ASSUME SessionInv, SessionsAssumption, [SessionNext]_sessionVars
    PROVE  SessionInv'
<1>1. CASE SessionNext
  BY <1>1, AskInv, PersistInv, ConnectInv, EstablishInv, ResumeSessionInv, UndoInv, RemoveTokenInv, RevokeInv,
     IssuedInv, LoadInv, CloseDialogInv, SignOutInv, RenderInv, ReadInv, AnswerArrivesInv, RefuseInv
     DEF SessionNext
<1>2. CASE UNCHANGED sessionVars
  BY <1>2 DEF sessionVars, SessionInv, SessionShape, GenerationsOK, ReadsOK, ViewsOK, StoredTokenOK, NothingLeftBehind, Busy
<1>. QED
  BY <1>1, <1>2

\* Whoever is signed in in a window sees nothing of another account, whatever answers, attempts and
\* refusals arrive late; and no token is kept for the next visit that nobody uses any more.
THEOREM SessionsAreSafe == SessionSpec => []SessionSafe
<1>1. SessionInit => SessionInv
  BY SessionInitInv, SessionsAssumption
<1>2. SessionInv /\ [SessionNext]_sessionVars => SessionInv'
  BY SessionStep, SessionsAssumption
<1>3. SessionInv => SessionSafe
  BY DEF SessionInv, SessionSafe, OwnViews, ViewsOK, StoredTokenOK
<1>. QED
  BY <1>1, <1>2, <1>3, PTL DEF SessionSpec

-----------------------------------------------------------------------------
(* The dialog of registration                                              *)

DialogRow ==
    [mode : {"register", "login", "closed"}, step : Steps, email : Mailboxes \cup {Blank}, challenge : Nat,
     phone : Mobiles \cup {Blank}, secret : Secrets \cup {Blank},
     human : {"none", "fresh", "spent"}, key : Nat]

Kinds == {"startEmail", "verifyEmail", "startPhone", "verifyPhone", "complete"}

AskedRow ==
    [kind : Kinds, email : Mailboxes \cup {Blank}, phone : Mobiles \cup {Blank}, key : Nat, challenge : Nat,
     current : BOOLEAN, answer : {"none", "ok", "refused"}, id : Nat]

FormRow ==
    [email : Mailboxes \cup {Blank}, open : BOOLEAN, emailOk : BOOLEAN, phone : Mobiles \cup {Blank},
     phoneOk : BOOLEAN, key : Nat]

SentForm ==
    [key : Nat, email : Mailboxes \cup {Blank}, phone : Mobiles \cup {Blank}, secret : Secrets \cup {Blank},
     challenge : Nat]

FormShape ==
    /\ form \in DialogRow /\ submitting \in BOOLEAN /\ requests \subseteq AskedRow
    /\ formRows \in Seq(FormRow) /\ keys \in Nat /\ sentForms \subseteq SentForm

\* The row of a challenge is of the address, which is verified.
Verified(c, e) == c \in DOMAIN formRows /\ formRows[c].email = e /\ formRows[c].emailOk

\* A request that was granted has done what it asked for.
Truthful(r) ==
    r.answer = "ok" =>
        /\ r.kind = "startEmail" => r.id \in DOMAIN formRows /\ formRows[r.id].email = r.email
        /\ r.kind \in {"verifyEmail", "startPhone", "verifyPhone"} => Verified(r.challenge, r.email)
        /\ r.kind = "startPhone" => r.id = r.challenge /\ formRows[r.challenge].phone = r.phone
        /\ r.kind = "verifyPhone" => formRows[r.challenge].phone = r.phone /\ formRows[r.challenge].phoneOk

CallsOK == \A r \in requests : Truthful(r) /\ (r.kind = "startPhone" => r.phone # Blank)

\* A request the dialog waits for was made at the step that is shown, with what the form still has.
Awaited(r) ==
    /\ form.mode = "register"
    /\ r.kind = "startEmail" => form.step = "email"
    /\ r.kind # "startEmail" => r.email = form.email /\ r.challenge = form.challenge
    /\ r.kind = "verifyEmail" => form.step = "email-code"
    /\ r.kind = "startPhone" => form.step = "phone"
    /\ r.kind = "verifyPhone" => form.step = "phone-code" /\ r.phone = form.phone
    /\ r.kind = "complete" => form.step = "password"

WaitsOK ==
    /\ submitting <=> \E r \in requests : r.current
    /\ \A r, s \in requests : r.current /\ s.current => r = s
    /\ \A r \in requests : r.current => Awaited(r)
    /\ form.mode = "register" /\ form.human = "spent" => \E r \in requests : r.current /\ IsStart(r)

\* The key in the form is new, or went out with just what the form has.
KeysOfForm ==
    /\ form.key <= keys /\ \A a \in sentForms : a.key \in 1 .. keys
    /\ form.step # "email" => form.key > 0
    /\ \A a \in sentForms : a.key = form.key =>
          form.step = "password" /\ a = [key |-> form.key, email |-> form.email, phone |-> form.phone,
                                         secret |-> form.secret, challenge |-> form.challenge]
    /\ KeyIsOfForm

FormInv ==
    /\ FormShape /\ CallsOK /\ WaitsOK /\ KeysOfForm
    /\ ShownIsVerified /\ (form.step = "phone-code" => form.phone # Blank)

\* A step that is entered, and a registration that is begun anew.
LEMMA AtStepFacts ==
    ASSUME NEW f \in DialogRow, NEW step \in Steps
    PROVE  /\ AtStep(f, step) \in DialogRow
           /\ AtStep(f, step).step = step
           /\ AtStep(f, step).human = IF f.step = step THEN f.human ELSE "none"
           /\ AtStep(f, step).mode = f.mode /\ AtStep(f, step).email = f.email
           /\ AtStep(f, step).challenge = f.challenge /\ AtStep(f, step).phone = f.phone
           /\ AtStep(f, step).secret = f.secret /\ AtStep(f, step).key = f.key
BY DEF AtStep, DialogRow

LEMMA ResetFacts ==
    ASSUME NEW f \in DialogRow
    PROVE  /\ Reset(f) \in DialogRow
           /\ Reset(f).mode = f.mode /\ Reset(f).step = "email" /\ Reset(f).email = f.email
           /\ Reset(f).challenge = 0 /\ Reset(f).key = 0 /\ Reset(f).human = "none"
<1>1. EmptyForm \in DialogRow
  BY DEF EmptyForm, DialogRow, Steps
<1>. QED
  BY <1>1 DEF Reset, EmptyForm, DialogRow

LEMMA GivenUpFacts ==
    ASSUME FormShape
    PROVE  /\ GivenUp \subseteq AskedRow
           /\ \A r \in GivenUp : /\ ~r.current
                                 /\ \E x \in requests : /\ r.kind = x.kind /\ r.email = x.email /\ r.phone = x.phone
                                                        /\ r.key = x.key /\ r.challenge = x.challenge
                                                        /\ r.answer = x.answer /\ r.id = x.id
BY DEF FormShape, GivenUp, AskedRow

\* Who gives its request up waits for none.
LEMMA CallsGivenUp ==
    ASSUME FormInv, requests' = GivenUp, submitting' = FALSE, formRows' = formRows,
           form'.mode # "register" \/ form'.human # "spent"
    PROVE  CallsOK' /\ WaitsOK' /\ requests' \subseteq AskedRow
<1>1. /\ GivenUp \subseteq AskedRow
      /\ \A r \in GivenUp : /\ ~r.current
                            /\ \E x \in requests : /\ r.kind = x.kind /\ r.email = x.email /\ r.phone = x.phone
                                                   /\ r.key = x.key /\ r.challenge = x.challenge
                                                   /\ r.answer = x.answer /\ r.id = x.id
  BY GivenUpFacts DEF FormInv
<1>2. CallsOK'
  <2>1. ASSUME NEW r \in GivenUp
        PROVE  Truthful(r) /\ (r.kind = "startPhone" => r.phone # Blank)
    <3>1. PICK x \in requests : /\ r.kind = x.kind /\ r.email = x.email /\ r.phone = x.phone
                                /\ r.challenge = x.challenge /\ r.answer = x.answer /\ r.id = x.id
      BY <1>1
    <3>2. Truthful(x) /\ (x.kind = "startPhone" => x.phone # Blank)
      BY DEF FormInv, CallsOK
    <3>. QED BY <3>1, <3>2 DEF Truthful
  <2>. QED BY <2>1 DEF CallsOK, Truthful, Verified
<1>3. WaitsOK'
  BY <1>1 DEF WaitsOK
<1>. QED
  BY <1>1, <1>2, <1>3

LEMMA TypeEmailInv ==
    ASSUME FormInv, NEW e \in Mailboxes, TypeEmail(e)
    PROVE  FormInv'
<1>1. /\ form.step = "email" /\ form' = [form EXCEPT !.email = e]
      /\ UNCHANGED <<submitting, requests, formRows, keys, sentForms>>
  BY DEF TypeEmail
<1>2. /\ form' \in DialogRow /\ form'.mode = form.mode /\ form'.step = form.step /\ form'.challenge = form.challenge
      /\ form'.phone = form.phone /\ form'.secret = form.secret /\ form'.human = form.human /\ form'.key = form.key
  BY <1>1 DEF FormInv, FormShape, DialogRow
<1>3. FormShape' /\ CallsOK'
  BY <1>1, <1>2 DEF FormInv, FormShape, CallsOK, Truthful, Verified
<1>4. WaitsOK'
  <2>1. \A r \in requests : r.current => r.kind = "startEmail"
    BY <1>1 DEF FormInv, WaitsOK, Awaited, FormShape, AskedRow, Kinds
  <2>. QED BY <1>1, <1>2, <2>1 DEF FormInv, WaitsOK, Awaited
<1>5. KeysOfForm'
  BY <1>1, <1>2 DEF FormInv, KeysOfForm, KeyIsOfForm
<1>6. ShownIsVerified' /\ (form.step = "phone-code" => form.phone # Blank)'
  BY <1>1, <1>2 DEF ShownIsVerified
<1>. QED
  BY <1>3, <1>4, <1>5, <1>6 DEF FormInv

LEMMA TypePhoneInv ==
    ASSUME FormInv, NEW p \in Mobiles \cup {Blank}, TypePhone(p)
    PROVE  FormInv'
<1>1. /\ form.step = "phone" /\ form' = [form EXCEPT !.phone = p]
      /\ UNCHANGED <<submitting, requests, formRows, keys, sentForms>>
  BY DEF TypePhone
<1>2. /\ form' \in DialogRow /\ form'.mode = form.mode /\ form'.step = form.step /\ form'.challenge = form.challenge
      /\ form'.email = form.email /\ form'.secret = form.secret /\ form'.human = form.human /\ form'.key = form.key
  BY <1>1 DEF FormInv, FormShape, DialogRow
<1>3. FormShape' /\ CallsOK'
  BY <1>1, <1>2 DEF FormInv, FormShape, CallsOK, Truthful, Verified
<1>4. WaitsOK'
  <2>1. \A r \in requests : r.current => r.kind = "startPhone"
    BY <1>1 DEF FormInv, WaitsOK, Awaited, FormShape, AskedRow, Kinds
  <2>. QED BY <1>1, <1>2, <2>1 DEF FormInv, WaitsOK, Awaited
<1>5. KeysOfForm'
  BY <1>1, <1>2 DEF FormInv, KeysOfForm, KeyIsOfForm
<1>6. ShownIsVerified' /\ (form.step = "phone-code" => form.phone # Blank)'
  BY <1>1, <1>2 DEF FormInv, ShownIsVerified
<1>. QED
  BY <1>3, <1>4, <1>5, <1>6 DEF FormInv

\* A key that is drawn is in no registration that was sent.
LEMMA FreshKey ==
    ASSUME FormInv, keys' = keys + 1, sentForms' = sentForms, form'.key = keys'
    PROVE  KeysOfForm'
<1>1. keys \in Nat /\ sentForms \subseteq SentForm
  BY DEF FormInv, FormShape
<1>2. \A a \in sentForms : a.key \in 1 .. keys
  BY DEF FormInv, KeysOfForm
<1>. QED
  BY <1>1, <1>2 DEF FormInv, KeysOfForm, KeyIsOfForm

LEMMA TypeSecretInv ==
    ASSUME FormInv, NEW s \in Secrets, TypeSecret(s)
    PROVE  FormInv'
<1>1. /\ form.step = "password" /\ keys' = keys + 1 /\ form' = [form EXCEPT !.secret = s, !.key = keys']
      /\ UNCHANGED <<submitting, requests, formRows, sentForms>>
  BY DEF TypeSecret, NewKey, Retyped
<1>2. keys' \in Nat
  BY <1>1 DEF FormInv, FormShape
<1>3. /\ form' \in DialogRow /\ form'.mode = form.mode /\ form'.step = form.step /\ form'.challenge = form.challenge
      /\ form'.email = form.email /\ form'.phone = form.phone /\ form'.human = form.human /\ form'.key = keys'
  <2>1. PICK k \in Nat : k = keys'
    BY <1>2
  <2>2. form' = [form EXCEPT !.secret = s, !.key = k]
    BY <1>1, <2>1
  <2>. QED BY <2>1, <2>2 DEF FormInv, FormShape, DialogRow
<1>4. FormShape' /\ CallsOK'
  BY <1>1, <1>2, <1>3 DEF FormInv, FormShape, CallsOK, Truthful, Verified
<1>5. WaitsOK'
  BY <1>1, <1>3 DEF FormInv, WaitsOK, Awaited
<1>6. KeysOfForm'
  BY <1>1, <1>3, FreshKey
<1>7. ShownIsVerified' /\ (form.step = "phone-code" => form.phone # Blank)'
  BY <1>1, <1>3 DEF FormInv, ShownIsVerified
<1>. QED
  BY <1>4, <1>5, <1>6, <1>7 DEF FormInv

LEMMA HumanTokenInv ==
    ASSUME FormInv, HumanToken
    PROVE  FormInv'
<1>1. UNCHANGED <<submitting, requests, formRows, keys, sentForms>>
  BY DEF HumanToken
<1>2. PICK h \in {"none", "fresh"} : form' = [form EXCEPT !.human = h]
  BY DEF HumanToken, FormInv, FormShape, DialogRow
<1>3. /\ form' \in DialogRow /\ form'.mode = form.mode /\ form'.step = form.step /\ form'.challenge = form.challenge
      /\ form'.email = form.email /\ form'.phone = form.phone /\ form'.secret = form.secret /\ form'.key = form.key
      /\ form'.human # "spent"
  BY <1>2 DEF FormInv, FormShape, DialogRow
<1>4. FormShape' /\ CallsOK'
  BY <1>1, <1>3 DEF FormInv, FormShape, CallsOK, Truthful, Verified
<1>5. WaitsOK'
  BY <1>1, <1>3 DEF FormInv, WaitsOK, Awaited
<1>6. KeysOfForm'
  BY <1>1, <1>3 DEF FormInv, KeysOfForm, KeyIsOfForm
<1>7. ShownIsVerified' /\ (form.step = "phone-code" => form.phone # Blank)'
  BY <1>1, <1>3 DEF FormInv, ShownIsVerified
<1>. QED
  BY <1>4, <1>5, <1>6, <1>7 DEF FormInv

LEMMA ResendInv ==
    ASSUME FormInv, Resend
    PROVE  FormInv'
<1>1. ~submitting /\ UNCHANGED <<submitting, requests, formRows, keys, sentForms>>
  BY DEF Resend
<1>2. PICK step \in {"email", "phone"} :
          /\ form' = AtStep(form, step)
          /\ \/ step = "email" /\ form.step = "email-code"
             \/ step = "phone" /\ form.step = "phone-code"
  BY DEF Resend
<1>3. form \in DialogRow /\ step \in Steps
  BY DEF FormInv, FormShape, Steps
<1>4. /\ form' \in DialogRow /\ form'.mode = form.mode /\ form'.step = step /\ form'.challenge = form.challenge
      /\ form'.email = form.email /\ form'.phone = form.phone /\ form'.secret = form.secret /\ form'.key = form.key
      /\ form'.human = "none"
  BY <1>2, <1>3, AtStepFacts
<1>5. FormShape' /\ CallsOK'
  BY <1>1, <1>4 DEF FormInv, FormShape, CallsOK, Truthful, Verified
<1>6. WaitsOK'
  BY <1>1, <1>4 DEF FormInv, WaitsOK
<1>7. KeysOfForm'
  BY <1>1, <1>2, <1>4 DEF FormInv, KeysOfForm, KeyIsOfForm
<1>8. ShownIsVerified' /\ (form.step = "phone-code" => form.phone # Blank)'
  BY <1>1, <1>2, <1>4 DEF FormInv, ShownIsVerified
<1>. QED
  BY <1>5, <1>6, <1>7, <1>8 DEF FormInv

\* A registration that is begun anew has no key, and nothing is shown as verified.
LEMMA ResetInv ==
    ASSUME FormInv, NEW f \in DialogRow, form' = Reset(f), requests' = GivenUp, submitting' = FALSE,
           UNCHANGED <<formRows, keys, sentForms>>
    PROVE  FormInv'
<1>1. form' \in DialogRow /\ form'.step = "email" /\ form'.key = 0 /\ form'.human = "none"
  BY ResetFacts
<1>2. CallsOK' /\ WaitsOK' /\ requests' \subseteq AskedRow
  BY <1>1, CallsGivenUp
<1>3. FormShape'
  BY <1>1, <1>2 DEF FormInv, FormShape
<1>4. KeysOfForm'
  BY <1>1 DEF FormInv, FormShape, KeysOfForm, KeyIsOfForm
<1>5. ShownIsVerified' /\ (form.step = "phone-code" => form.phone # Blank)'
  BY <1>1 DEF ShownIsVerified
<1>. QED
  BY <1>2, <1>3, <1>4, <1>5 DEF FormInv

LEMMA ChangeEmailInv ==
    ASSUME FormInv, ChangeEmail
    PROVE  FormInv'
<1>1. form \in DialogRow
  BY DEF FormInv, FormShape
<1>. QED
  BY <1>1, ResetInv DEF ChangeEmail, FormInv, FormShape

LEMMA SwitchModeInv ==
    ASSUME FormInv, SwitchMode
    PROVE  FormInv'
<1>1. PICK mode \in {"register", "login"} : form' = Reset([form EXCEPT !.mode = mode])
  BY DEF SwitchMode
<1>2. [form EXCEPT !.mode = mode] \in DialogRow
  BY DEF FormInv, FormShape, DialogRow
<1>. QED
  BY <1>1, <1>2, ResetInv DEF SwitchMode

LEMMA ChangePhoneInv ==
    ASSUME FormInv, ChangePhone
    PROVE  FormInv'
<1>1. /\ ~submitting /\ form.step \in {"phone-code", "password"} /\ keys' = keys + 1 /\ requests' = GivenUp
      /\ form' = [AtStep(form, "phone") EXCEPT !.secret = Blank, !.key = keys']
      /\ UNCHANGED <<submitting, formRows, sentForms>>
  BY DEF ChangePhone, NewKey
<1>2. keys' \in Nat /\ submitting' = FALSE
  BY <1>1 DEF FormInv, FormShape
<1>3. /\ form' \in DialogRow /\ form'.mode = form.mode /\ form'.step = "phone" /\ form'.challenge = form.challenge
      /\ form'.email = form.email /\ form'.human = "none" /\ form'.key = keys'
  <2>1. PICK f : f = AtStep(form, "phone")
    OBVIOUS
  <2>2. /\ f \in DialogRow /\ f.mode = form.mode /\ f.step = "phone" /\ f.challenge = form.challenge
        /\ f.email = form.email /\ f.human = "none"
    BY <1>1, <2>1, AtStepFacts DEF FormInv, FormShape, Steps
  <2>3. PICK k \in Nat : k = keys'
    BY <1>2
  <2>4. form' = [f EXCEPT !.secret = Blank, !.key = k]
    BY <1>1, <2>1, <2>3
  <2>. QED BY <2>2, <2>3, <2>4 DEF DialogRow
<1>4. CallsOK' /\ WaitsOK' /\ requests' \subseteq AskedRow
  BY <1>1, <1>2, <1>3, CallsGivenUp
<1>5. FormShape'
  BY <1>1, <1>2, <1>3, <1>4 DEF FormInv, FormShape
<1>6. KeysOfForm'
  BY <1>1, <1>3, FreshKey
<1>7. ShownIsVerified' /\ (form.step = "phone-code" => form.phone # Blank)'
  BY <1>1, <1>3 DEF FormInv, ShownIsVerified
<1>. QED
  BY <1>4, <1>5, <1>6, <1>7 DEF FormInv

LEMMA RegistrationEndsInv ==
    ASSUME FormInv, RegistrationEnds
    PROVE  FormInv'
<1>1. /\ form' = [form EXCEPT !.mode = "login"] /\ requests' = GivenUp /\ submitting' = FALSE
      /\ UNCHANGED <<formRows, keys, sentForms>>
  BY DEF RegistrationEnds
<1>2. /\ form' \in DialogRow /\ form'.mode = "login" /\ form'.step = form.step /\ form'.challenge = form.challenge
      /\ form'.email = form.email /\ form'.phone = form.phone /\ form'.secret = form.secret /\ form'.key = form.key
  BY <1>1 DEF FormInv, FormShape, DialogRow
<1>3. CallsOK' /\ WaitsOK' /\ requests' \subseteq AskedRow
  BY <1>1, <1>2, CallsGivenUp
<1>4. FormShape'
  BY <1>1, <1>2, <1>3 DEF FormInv, FormShape
<1>5. KeysOfForm'
  BY <1>1, <1>2 DEF FormInv, KeysOfForm, KeyIsOfForm
<1>6. ShownIsVerified' /\ (form.step = "phone-code" => form.phone # Blank)'
  BY <1>1, <1>2 DEF FormInv, ShownIsVerified
<1>. QED
  BY <1>3, <1>4, <1>5, <1>6 DEF FormInv

\* The request that the dialog waits for from now on, made of what the form has.
NewCall(kind) == [kind |-> kind, email |-> form.email, phone |-> form.phone, key |-> form.key,
                  challenge |-> form.challenge, current |-> TRUE, answer |-> "none", id |-> 0]

KindOfStep(kind, step) ==
    \/ kind = "startEmail" /\ step = "email"
    \/ kind = "verifyEmail" /\ step = "email-code"
    \/ kind = "startPhone" /\ step = "phone" /\ form.phone # Blank
    \/ kind = "verifyPhone" /\ step = "phone-code"
    \/ kind = "complete" /\ step = "password"

\* A request that begins is the one that is waited for, and nothing is known of its answer.
LEMMA ExecuteInv ==
    ASSUME FormInv, NEW kind \in Kinds, Execute(kind), KindOfStep(kind, form.step), form.mode = "register",
           form' \in DialogRow, form'.mode = form.mode, form'.step = form.step, form'.email = form.email,
           form'.phone = form.phone, form'.challenge = form.challenge,
           form'.human = "spent" => kind \in {"startEmail", "startPhone"}, formRows' = formRows
    PROVE  CallsOK' /\ WaitsOK' /\ requests' \subseteq AskedRow /\ submitting' \in BOOLEAN
<1>. DEFINE new == NewCall(kind)
<1>1. /\ new \in AskedRow
      /\ new.kind = kind /\ new.email = form.email /\ new.phone = form.phone /\ new.challenge = form.challenge
      /\ new.current /\ new.answer = "none"
  BY DEF NewCall, AskedRow, FormInv, FormShape, DialogRow
<1>2. submitting' = TRUE /\ requests' = GivenUp \cup {new}
  BY DEF Execute, NewCall
<1>. HIDE DEF new
<1>3. /\ GivenUp \subseteq AskedRow
      /\ \A r \in GivenUp : /\ ~r.current
                            /\ \E x \in requests : /\ r.kind = x.kind /\ r.email = x.email /\ r.phone = x.phone
                                                   /\ r.key = x.key /\ r.challenge = x.challenge
                                                   /\ r.answer = x.answer /\ r.id = x.id
  BY GivenUpFacts DEF FormInv
<1>4. CallsOK'
  <2>1. ASSUME NEW r \in GivenUp
        PROVE  Truthful(r) /\ (r.kind = "startPhone" => r.phone # Blank)
    <3>1. PICK x \in requests : /\ r.kind = x.kind /\ r.email = x.email /\ r.phone = x.phone
                                /\ r.challenge = x.challenge /\ r.answer = x.answer /\ r.id = x.id
      BY <1>3
    <3>2. Truthful(x) /\ (x.kind = "startPhone" => x.phone # Blank)
      BY DEF FormInv, CallsOK
    <3>. QED BY <3>1, <3>2 DEF Truthful
  <2>2. Truthful(new) /\ (new.kind = "startPhone" => new.phone # Blank)
    BY <1>1 DEF Truthful, KindOfStep
  <2>. QED BY <1>2, <2>1, <2>2 DEF CallsOK, Truthful, Verified
<1>5. WaitsOK'
  <2>1. \A r \in requests' : r.current => r = new
    BY <1>2, <1>3
  <2>2. Awaited(new)'
    BY <1>1 DEF Awaited, KindOfStep, new, NewCall
  <2>3. form'.human = "spent" => IsStart(new)
    BY <1>1 DEF IsStart
  <2>. QED BY <1>1, <1>2, <2>1, <2>2, <2>3 DEF WaitsOK, IsStart, Awaited, new, NewCall
<1>. QED
  BY <1>1, <1>2, <1>3, <1>4, <1>5

LEMMA SubmitStartInv ==
    ASSUME FormInv, SubmitStart
    PROVE  FormInv'
<1>1. /\ form.mode = "register" /\ ~submitting /\ form.human # "none"
      /\ form' = [form EXCEPT !.human = IF form.human = "fresh" THEN "spent" ELSE "twice"]
      /\ UNCHANGED <<formRows, keys, sentForms>>
  BY DEF SubmitStart, Register, Execute
<1>2. form.human = "fresh"
  BY <1>1 DEF FormInv, FormShape, DialogRow, WaitsOK
<1>3. /\ form' \in DialogRow /\ form'.mode = form.mode /\ form'.step = form.step /\ form'.challenge = form.challenge
      /\ form'.email = form.email /\ form'.phone = form.phone /\ form'.secret = form.secret /\ form'.key = form.key
  <2>1. form' = [form EXCEPT !.human = "spent"]
    BY <1>1, <1>2
  <2>. QED BY <2>1 DEF FormInv, FormShape, DialogRow
<1>4. PICK kind \in {"startEmail", "startPhone"} : Execute(kind) /\ KindOfStep(kind, form.step)
  BY DEF SubmitStart, KindOfStep
<1>5. CallsOK' /\ WaitsOK' /\ requests' \subseteq AskedRow /\ submitting' \in BOOLEAN
  BY <1>1, <1>3, <1>4, ExecuteInv DEF Kinds
<1>6. FormShape'
  BY <1>1, <1>3, <1>5 DEF FormInv, FormShape
<1>7. KeysOfForm'
  BY <1>1, <1>3 DEF FormInv, KeysOfForm, KeyIsOfForm
<1>8. ShownIsVerified' /\ (form.step = "phone-code" => form.phone # Blank)'
  BY <1>1, <1>3 DEF FormInv, ShownIsVerified
<1>. QED
  BY <1>5, <1>6, <1>7, <1>8 DEF FormInv

LEMMA SubmitCodeInv ==
    ASSUME FormInv, SubmitCode
    PROVE  FormInv'
<1>1. /\ form.mode = "register" /\ UNCHANGED <<form, formRows, keys, sentForms>>
  BY DEF SubmitCode, Register
<1>2. PICK kind \in {"verifyEmail", "verifyPhone"} : Execute(kind) /\ KindOfStep(kind, form.step)
  BY DEF SubmitCode, KindOfStep
<1>3. ~submitting /\ form.human # "spent" /\ form \in DialogRow
  BY <1>1, <1>2 DEF Execute, FormInv, WaitsOK, FormShape
<1>4. CallsOK' /\ WaitsOK' /\ requests' \subseteq AskedRow /\ submitting' \in BOOLEAN
  BY <1>1, <1>2, <1>3, ExecuteInv DEF Kinds
<1>5. FormShape'
  BY <1>1, <1>4 DEF FormInv, FormShape
<1>6. KeysOfForm' /\ ShownIsVerified' /\ (form.step = "phone-code" => form.phone # Blank)'
  BY <1>1 DEF FormInv, KeysOfForm, KeyIsOfForm, ShownIsVerified
<1>. QED
  BY <1>4, <1>5, <1>6 DEF FormInv

LEMMA SubmitRegistrationInv ==
    ASSUME FormInv, SubmitRegistration
    PROVE  FormInv'
<1>. DEFINE sent == [key |-> form.key, email |-> form.email, phone |-> form.phone, secret |-> form.secret,
                     challenge |-> form.challenge]
<1>1. /\ form.mode = "register" /\ form.step = "password" /\ Execute("complete")
      /\ sentForms' = sentForms \cup {sent} /\ UNCHANGED <<form, formRows, keys>>
  BY DEF SubmitRegistration, Register
<1>2. ~submitting /\ form.human # "spent" /\ form \in DialogRow
  BY <1>1 DEF Execute, FormInv, WaitsOK, FormShape
<1>3. CallsOK' /\ WaitsOK' /\ requests' \subseteq AskedRow /\ submitting' \in BOOLEAN
  BY <1>1, <1>2, ExecuteInv DEF Kinds, KindOfStep
<1>4. sent \in SentForm /\ sent.key = form.key
  BY <1>2 DEF DialogRow, SentForm
<1>5. FormShape'
  BY <1>1, <1>3, <1>4 DEF FormInv, FormShape
<1>6. KeysOfForm'
  <2>1. form.key \in 1 .. keys
    BY <1>1, <1>2 DEF FormInv, FormShape, KeysOfForm, DialogRow
  <2>2. \A a \in sentForms : a.key = form.key => a = sent
    BY DEF FormInv, KeysOfForm
  <2>. HIDE DEF sent
  <2>3. KeyIsOfForm'
    BY <1>1, <1>4, <2>2 DEF FormInv, KeysOfForm, KeyIsOfForm
  <2>4. \A a \in sentForms' : a.key \in 1 .. keys /\ (a.key = form.key => a = sent)
    BY <1>1, <1>4, <2>1, <2>2 DEF FormInv, KeysOfForm
  <2>. QED BY <1>1, <2>1, <2>3, <2>4 DEF FormInv, KeysOfForm, sent
<1>7. ShownIsVerified' /\ (form.step = "phone-code" => form.phone # Blank)'
  BY <1>1 DEF FormInv, ShownIsVerified
<1>. QED
  BY <1>3, <1>5, <1>6, <1>7 DEF FormInv

\* What is true of a row stays true of it.
RowsGrow ==
    /\ formRows' \in Seq(FormRow)
    /\ \A c \in DOMAIN formRows :
          /\ c \in DOMAIN formRows' /\ formRows'[c].email = formRows[c].email
          /\ formRows[c].emailOk => formRows'[c].emailOk
          /\ formRows[c].phoneOk => formRows'[c].phoneOk /\ formRows'[c].phone = formRows[c].phone
          /\ formRows[c].phone # Blank => formRows'[c].phone = formRows[c].phone

\* An answer that replaces another keeps who waits for it.
LEMMA AnsweredInv ==
    ASSUME FormInv, NEW r \in requests, NEW answer \in {"ok", "refused"}, NEW id \in Nat, Answered(r, answer, id),
           RowsGrow, UNCHANGED <<form, submitting, keys, sentForms>>,
           Truthful([r EXCEPT !.answer = answer, !.id = id])'
    PROVE  FormInv'
<1>. DEFINE new == [r EXCEPT !.answer = answer, !.id = id]
<1>1. r \in AskedRow
  BY DEF FormInv, FormShape
<1>2. /\ new \in AskedRow /\ new.kind = r.kind /\ new.email = r.email /\ new.phone = r.phone
      /\ new.challenge = r.challenge /\ new.current = r.current
  BY <1>1 DEF AskedRow
<1>3. requests' = (requests \ {r}) \cup {new} /\ Truthful(new)'
  BY DEF Answered
<1>. HIDE DEF new
<1>4. FormShape'
  BY <1>2, <1>3 DEF FormInv, FormShape, RowsGrow
<1>5. CallsOK'
  <2>1. ASSUME NEW x \in requests, Truthful(x)
        PROVE  Truthful(x)'
    BY <2>1 DEF Truthful, Verified, RowsGrow, FormInv, CallsOK
  <2>2. \A x \in requests : Truthful(x)' /\ (x.kind = "startPhone" => x.phone # Blank)
    BY <2>1 DEF FormInv, CallsOK
  <2>. QED BY <1>2, <1>3, <2>2 DEF CallsOK
<1>6. WaitsOK'
  <2>1. r.current => Awaited(r) /\ submitting
    BY DEF FormInv, WaitsOK
  <2>2. new.current => Awaited(new)
    BY <1>2, <2>1 DEF Awaited
  <2>3. (\E x \in requests' : x.current) <=> \E x \in requests : x.current
    BY <1>2, <1>3
  <2>4. (\E x \in requests : x.current /\ IsStart(x)) => \E x \in requests' : x.current /\ IsStart(x)
    BY <1>2, <1>3 DEF IsStart
  <2>5. \A x, y \in requests' : x.current /\ y.current => x = y
    BY <1>2, <1>3 DEF FormInv, WaitsOK
  <2>6. \A x \in requests' : x.current => Awaited(x)
    BY <1>3, <2>2 DEF FormInv, WaitsOK
  <2>7. \A x \in requests' : x.current => Awaited(x)'
    BY <2>6 DEF Awaited
  <2>. QED BY <2>3, <2>4, <2>5, <2>7 DEF FormInv, WaitsOK
<1>7. KeysOfForm'
  BY DEF FormInv, KeysOfForm, KeyIsOfForm
<1>8. ShownIsVerified' /\ (form.step = "phone-code" => form.phone # Blank)'
  BY DEF FormInv, ShownIsVerified, RowsGrow
<1>. QED
  BY <1>4, <1>5, <1>6, <1>7, <1>8 DEF FormInv

LEMMA RefuseCallInv ==
    ASSUME FormInv, NEW r \in requests, RefuseCall(r)
    PROVE  FormInv'
<1>1. r \in AskedRow /\ Answered(r, "refused", 0) /\ UNCHANGED <<form, submitting, formRows, keys, sentForms>>
  BY DEF RefuseCall, FormInv, FormShape
<1>2. [r EXCEPT !.answer = "refused", !.id = 0].answer = "refused"
  BY <1>1 DEF AskedRow
<1>3. RowsGrow
  BY <1>1 DEF RowsGrow, FormInv, FormShape
<1>4. Truthful([r EXCEPT !.answer = "refused", !.id = 0])'
  BY <1>2 DEF Truthful
<1>. QED
  BY <1>1, <1>3, <1>4, AnsweredInv

\* One row changes, and by nothing that was true of it.
LEMMA UpdateGrows ==
    ASSUME FormShape, NEW c \in DOMAIN formRows, NEW row \in FormRow, Update(c, row),
           row.email = formRows[c].email, formRows[c].emailOk => row.emailOk,
           formRows[c].phoneOk => row.phoneOk /\ row.phone = formRows[c].phone,
           formRows[c].phone # Blank => row.phone = formRows[c].phone
    PROVE  RowsGrow /\ c \in DOMAIN formRows' /\ formRows'[c] = row
<1>1. formRows \in Seq(FormRow) /\ formRows' = [formRows EXCEPT ![c] = row]
  BY DEF FormShape, Update
<1>2. formRows' \in Seq(FormRow)
  BY <1>1, ExceptSeq
<1>. QED
  BY <1>1, <1>2 DEF RowsGrow

\* A row of an address is added, and its open rows are closed.
LEMMA AppendGrows ==
    ASSUME FormShape, NEW e \in Mailboxes \cup {Blank},
           formRows' = Append([c \in DOMAIN formRows |-> IF Open(c, e) THEN [formRows[c] EXCEPT !.open = FALSE]
                                                         ELSE formRows[c]], Row(e))
    PROVE  RowsGrow /\ Len(formRows) + 1 \in DOMAIN formRows' /\ formRows'[Len(formRows) + 1].email = e
<1>. DEFINE closed(c) == IF Open(c, e) THEN [formRows[c] EXCEPT !.open = FALSE] ELSE formRows[c]
            shut == [c \in DOMAIN formRows |-> closed(c)]
<1>1. formRows \in Seq(FormRow) /\ DOMAIN formRows = 1 .. Len(formRows) /\ Len(formRows) \in Nat
  BY DEF FormShape
<1>2. \A c \in DOMAIN formRows : formRows[c] \in FormRow
  BY <1>1
<1>3. \A c \in DOMAIN formRows : /\ closed(c) \in FormRow /\ closed(c).email = formRows[c].email
                                 /\ closed(c).emailOk = formRows[c].emailOk /\ closed(c).phone = formRows[c].phone
                                 /\ closed(c).phoneOk = formRows[c].phoneOk
  <2>1. \A c \in DOMAIN formRows :
            /\ [formRows[c] EXCEPT !.open = FALSE] \in FormRow
            /\ [formRows[c] EXCEPT !.open = FALSE].email = formRows[c].email
            /\ [formRows[c] EXCEPT !.open = FALSE].emailOk = formRows[c].emailOk
            /\ [formRows[c] EXCEPT !.open = FALSE].phone = formRows[c].phone
            /\ [formRows[c] EXCEPT !.open = FALSE].phoneOk = formRows[c].phoneOk
    BY <1>2 DEF FormRow
  <2>. QED BY <1>2, <2>1
<1>4. Row(e) \in FormRow /\ Row(e).email = e
  BY DEF Row, FormRow
<1>. HIDE DEF closed
<1>5. shut \in Seq(FormRow) /\ Len(shut) = Len(formRows) /\ \A c \in DOMAIN formRows : shut[c] = closed(c)
  BY <1>1, <1>3
<1>6. formRows' = Append(shut, Row(e))
  BY DEF closed
<1>. HIDE DEF shut
<1>7. /\ formRows' \in Seq(FormRow) /\ DOMAIN formRows' = 1 .. Len(formRows) + 1
      /\ \A c \in DOMAIN formRows : formRows'[c] = shut[c]
      /\ formRows'[Len(formRows) + 1] = Row(e)
  <2>1. /\ Append(shut, Row(e)) \in Seq(FormRow) /\ Len(Append(shut, Row(e))) = Len(shut) + 1
        /\ \A c \in 1 .. Len(shut) : Append(shut, Row(e))[c] = shut[c]
        /\ Append(shut, Row(e))[Len(shut) + 1] = Row(e)
    BY <1>4, <1>5, AppendProperties
  <2>2. formRows' \in Seq(FormRow) /\ Len(formRows') = Len(formRows) + 1
    BY <1>5, <1>6, <2>1
  <2>3. DOMAIN formRows' = 1 .. Len(formRows')
    BY <2>2
  <2>. QED BY <1>1, <1>5, <1>6, <2>1, <2>2, <2>3
<1>. QED
  BY <1>1, <1>3, <1>4, <1>5, <1>7 DEF RowsGrow

\* What the server grants, it has done: a verified address or phone stays verified.
LEMMA ServeInv ==
    ASSUME FormInv, NEW r \in requests, Serve(r)
    PROVE  FormInv'
<1>. DEFINE row == formRows[r.challenge]
            granted(id) == [r EXCEPT !.answer = "ok", !.id = id]
<1>0. r \in AskedRow /\ FormShape /\ (r.kind = "startPhone" => r.phone # Blank)
  BY DEF FormInv, FormShape, CallsOK
<1>1. UNCHANGED <<form, submitting, keys, sentForms>>
  BY DEF Serve
<1>2. \A id \in Nat : /\ granted(id).kind = r.kind /\ granted(id).email = r.email /\ granted(id).phone = r.phone
                      /\ granted(id).challenge = r.challenge /\ granted(id).id = id
  BY <1>0 DEF AskedRow
<1>3. r.challenge \in DOMAIN formRows => row \in FormRow /\ r.challenge \in Nat
  BY <1>0 DEF FormShape
<1>4. CASE /\ r.kind = "startEmail" /\ Answered(r, "ok", Len(formRows) + 1)
           /\ formRows' = Append([c \in DOMAIN formRows |->
                                   IF Open(c, r.email) THEN [formRows[c] EXCEPT !.open = FALSE]
                                   ELSE formRows[c]], Row(r.email))
  <2>1. Len(formRows) + 1 \in Nat /\ r.email \in Mailboxes \cup {Blank}
    BY <1>0 DEF FormShape, AskedRow
  <2>2. RowsGrow /\ Len(formRows) + 1 \in DOMAIN formRows' /\ formRows'[Len(formRows) + 1].email = r.email
    BY <1>0, <1>4, <2>1, AppendGrows
  <2>3. PICK n \in Nat : n = Len(formRows) + 1
    BY <2>1
  <2>4. Answered(r, "ok", n) /\ n \in DOMAIN formRows' /\ formRows'[n].email = r.email
    BY <1>4, <2>2, <2>3
  <2>. HIDE DEF granted
  <2>5. Truthful(granted(n))'
    BY <1>2, <1>4, <2>3, <2>4 DEF Truthful
  <2>. QED BY <1>1, <2>2, <2>3, <2>4, <2>5, AnsweredInv DEF granted
<1>5. CASE /\ r.kind = "verifyEmail" /\ Open(r.challenge, r.email)
           /\ Update(r.challenge, [row EXCEPT !.emailOk = TRUE])
           /\ Answered(r, "ok", r.challenge)
  <2>1. r.challenge \in DOMAIN formRows /\ row.email = r.email
    BY <1>5 DEF Open
  <2>2. PICK new : new = [row EXCEPT !.emailOk = TRUE]
    OBVIOUS
  <2>3. /\ new \in FormRow /\ new.email = row.email /\ new.emailOk /\ new.phone = row.phone /\ new.phoneOk = row.phoneOk
    BY <1>3, <2>1, <2>2 DEF FormRow
  <2>4. RowsGrow /\ r.challenge \in DOMAIN formRows' /\ formRows'[r.challenge] = new
    BY <1>0, <1>5, <2>1, <2>2, <2>3, UpdateGrows
  <2>. HIDE DEF granted
  <2>5. Truthful(granted(r.challenge))'
    BY <1>2, <1>3, <1>5, <2>1, <2>3, <2>4 DEF Truthful, Verified
  <2>. QED BY <1>1, <1>3, <1>5, <2>1, <2>4, <2>5, AnsweredInv DEF granted
<1>6. CASE /\ r.kind = "startPhone" /\ Open(r.challenge, r.email)
           /\ row.emailOk /\ ~row.phoneOk /\ row.phone \in {Blank, r.phone}
           /\ Update(r.challenge, [row EXCEPT !.phone = r.phone])
           /\ Answered(r, "ok", r.challenge)
  <2>1. r.challenge \in DOMAIN formRows /\ row.email = r.email
    BY <1>6 DEF Open
  <2>2. PICK new : new = [row EXCEPT !.phone = r.phone]
    OBVIOUS
  <2>3. /\ new \in FormRow /\ new.email = row.email /\ new.emailOk /\ new.phone = r.phone
    BY <1>0, <1>3, <1>6, <2>1, <2>2 DEF FormRow, AskedRow
  <2>4. RowsGrow /\ r.challenge \in DOMAIN formRows' /\ formRows'[r.challenge] = new
    BY <1>0, <1>6, <2>1, <2>2, <2>3, UpdateGrows
  <2>. HIDE DEF granted
  <2>5. Truthful(granted(r.challenge))'
    BY <1>2, <1>3, <1>6, <2>1, <2>3, <2>4 DEF Truthful, Verified
  <2>. QED BY <1>1, <1>3, <1>6, <2>1, <2>4, <2>5, AnsweredInv DEF granted
<1>7. CASE /\ r.kind = "verifyPhone" /\ Open(r.challenge, r.email)
           /\ row.emailOk /\ row.phone = r.phone
           /\ Update(r.challenge, [row EXCEPT !.phoneOk = TRUE])
           /\ Answered(r, "ok", r.challenge)
  <2>1. r.challenge \in DOMAIN formRows /\ row.email = r.email
    BY <1>7 DEF Open
  <2>2. PICK new : new = [row EXCEPT !.phoneOk = TRUE]
    OBVIOUS
  <2>3. /\ new \in FormRow /\ new.email = row.email /\ new.emailOk /\ new.phone = r.phone /\ new.phoneOk
    BY <1>3, <1>7, <2>1, <2>2 DEF FormRow
  <2>4. RowsGrow /\ r.challenge \in DOMAIN formRows' /\ formRows'[r.challenge] = new
    BY <1>0, <1>7, <2>1, <2>2, <2>3, UpdateGrows
  <2>. HIDE DEF granted
  <2>5. Truthful(granted(r.challenge))'
    BY <1>2, <1>3, <1>7, <2>1, <2>3, <2>4 DEF Truthful, Verified
  <2>. QED BY <1>1, <1>3, <1>7, <2>1, <2>4, <2>5, AnsweredInv DEF granted
<1>8. CASE /\ r.kind = "complete" /\ Open(r.challenge, r.email) /\ row.emailOk
           /\ Update(r.challenge, [row EXCEPT !.open = FALSE, !.key = r.key])
           /\ Answered(r, "ok", r.challenge)
  <2>1. r.challenge \in DOMAIN formRows
    BY <1>8 DEF Open
  <2>2. PICK new : new = [row EXCEPT !.open = FALSE, !.key = r.key]
    OBVIOUS
  <2>3. /\ new \in FormRow /\ new.email = row.email /\ new.emailOk = row.emailOk /\ new.phone = row.phone
        /\ new.phoneOk = row.phoneOk
    BY <1>0, <1>3, <2>1, <2>2 DEF FormRow, AskedRow
  <2>4. RowsGrow
    BY <1>0, <1>8, <2>1, <2>2, <2>3, UpdateGrows
  <2>. HIDE DEF granted
  <2>5. Truthful(granted(r.challenge))'
    BY <1>2, <1>3, <1>8, <2>1 DEF Truthful
  <2>. QED BY <1>1, <1>3, <1>8, <2>1, <2>4, <2>5, AnsweredInv DEF granted
<1>9. CASE /\ r.kind = "complete" /\ r.challenge \in DOMAIN formRows /\ Answered(r, "ok", r.challenge)
           /\ UNCHANGED formRows
  <2>1. RowsGrow
    BY <1>0, <1>9 DEF RowsGrow, FormShape
  <2>. HIDE DEF granted
  <2>2. Truthful(granted(r.challenge))'
    BY <1>2, <1>3, <1>9 DEF Truthful
  <2>. QED BY <1>1, <1>3, <1>9, <2>1, <2>2, AnsweredInv DEF granted
<1>. QED
  BY <1>4, <1>5, <1>6, <1>7, <1>8, <1>9 DEF Serve

\* An answer, or the abort of a request, frees the human check.
LEMMA ConsumedFacts ==
    ASSUME NEW f \in DialogRow, NEW r
    PROVE  /\ Consumed(f, r) \in DialogRow
           /\ Consumed(f, r).mode = f.mode /\ Consumed(f, r).step = f.step /\ Consumed(f, r).email = f.email
           /\ Consumed(f, r).challenge = f.challenge /\ Consumed(f, r).phone = f.phone
           /\ Consumed(f, r).secret = f.secret /\ Consumed(f, r).key = f.key
           /\ Consumed(f, r).human \in {f.human, "none"}
           /\ IsStart(r) => Consumed(f, r).human = "none"
<1>1. CASE IsStart(r)
  BY <1>1 DEF Consumed, DialogRow
<1>2. CASE ~IsStart(r)
  BY <1>2 DEF Consumed
<1>. QED
  BY <1>1, <1>2

\* A request that ends unheeded changes nothing else.
LEMMA UnheededInv ==
    ASSUME FormInv, NEW r \in requests, requests' = requests \ {r}, form' = Consumed(form, r),
           submitting' = (submitting /\ ~r.current), UNCHANGED <<formRows, keys, sentForms>>
    PROVE  FormInv'
<1>1. /\ form' \in DialogRow
      /\ form'.mode = form.mode /\ form'.step = form.step /\ form'.email = form.email
      /\ form'.challenge = form.challenge /\ form'.phone = form.phone
      /\ form'.secret = form.secret /\ form'.key = form.key
      /\ form'.human \in {form.human, "none"} /\ (IsStart(r) => form'.human = "none")
  BY ConsumedFacts DEF FormInv, FormShape
<1>2. FormShape' /\ CallsOK'
  BY <1>1 DEF FormInv, FormShape, CallsOK, Truthful, Verified
<1>3. WaitsOK'
  <2>1. (\E x \in requests' : x.current) <=> ((\E x \in requests : x.current) /\ ~r.current)
    BY DEF FormInv, WaitsOK
  <2>2. \A x \in requests' : x.current => Awaited(x)'
    BY <1>1 DEF FormInv, WaitsOK, Awaited
  <2>3. form'.mode = "register" /\ form'.human = "spent" => \E x \in requests' : x.current /\ IsStart(x)
    BY <1>1 DEF FormInv, WaitsOK, IsStart
  <2>. QED BY <2>1, <2>2, <2>3 DEF FormInv, WaitsOK, IsStart
<1>4. KeysOfForm'
  BY <1>1 DEF FormInv, KeysOfForm, KeyIsOfForm
<1>5. ShownIsVerified' /\ (form.step = "phone-code" => form.phone # Blank)'
  BY <1>1 DEF FormInv, ShownIsVerified
<1>. QED
  BY <1>2, <1>3, <1>4, <1>5 DEF FormInv

LEMMA AbandonCallInv ==
    ASSUME FormInv, NEW r \in requests, AbandonCall(r)
    PROVE  FormInv'
<1>1. submitting \in BOOLEAN /\ submitting' = submitting /\ ~r.current
  BY DEF AbandonCall, FormInv, FormShape
<1>. QED
  BY <1>1, UnheededInv DEF AbandonCall

\* The dialog waits for no other request once the one it waited for has been answered.
LEMMA AnswerEndsWait ==
    ASSUME FormInv, NEW r \in requests, r.current, requests' = requests \ {r},
           submitting' = (submitting /\ ~r.current), UNCHANGED <<formRows, sentForms>>, keys' \in Nat,
           form' \in DialogRow, form'.mode # "register" \/ form'.human # "spent",
           KeysOfForm', ShownIsVerified', form'.step = "phone-code" => form'.phone # Blank
    PROVE  FormInv'
<1>1. \A x \in requests' : ~x.current
  BY DEF FormInv, WaitsOK
<1>2. WaitsOK'
  BY <1>1 DEF WaitsOK
<1>3. FormShape' /\ CallsOK'
  BY DEF FormInv, FormShape, CallsOK, Truthful, Verified
<1>. QED
  BY <1>2, <1>3 DEF FormInv

\* The key of a step that is entered is not in a registration that was sent.
LEMMA KeyUnsent ==
    ASSUME FormInv, form.step \notin {"email", "password"}, form'.key = form.key, UNCHANGED <<keys, sentForms>>
    PROVE  KeysOfForm'
BY DEF FormInv, KeysOfForm, KeyIsOfForm

LEMMA AnswerHeardInv ==
    ASSUME FormInv, NEW r \in requests, AnswerHeard(r)
    PROVE  FormInv'
<1>1. /\ requests' = requests \ {r} /\ submitting' = (submitting /\ ~r.current)
      /\ UNCHANGED <<formRows, sentForms>>
  BY DEF AnswerHeard
<1>2. CASE ~Heeded(r)
  BY <1>1, <1>2, UnheededInv DEF AnswerHeard
<1>3. CASE Heeded(r)
  <2>1. PICK f : f = Consumed(form, r)
    OBVIOUS
  <2>2. /\ f \in DialogRow
        /\ f.mode = form.mode /\ f.step = form.step /\ f.email = form.email
        /\ f.challenge = form.challenge /\ f.phone = form.phone /\ f.secret = form.secret /\ f.key = form.key
        /\ f.human \in {form.human, "none"} /\ (IsStart(r) => f.human = "none")
    BY <2>1, ConsumedFacts DEF FormInv, FormShape
  <2>3. /\ r.current /\ r.answer = "ok" /\ r \in AskedRow /\ Awaited(r) /\ Truthful(r)
        /\ r.kind = "startPhone" => r.phone # Blank
    BY <1>3 DEF Heeded, FormInv, FormShape, WaitsOK, CallsOK
  <2>4. f.human # "spent"
    BY <2>2, <2>3 DEF FormInv, WaitsOK, Awaited
  <2>5. form' = Advanced(f, r, keys')
    BY <1>3, <2>1 DEF AnswerHeard
  <2>6. /\ IsStart(r) => keys' = keys + 1
        /\ ~IsStart(r) => keys' = keys
        /\ keys \in Nat
    BY <1>3 DEF AnswerHeard, NewKey, FormInv, FormShape
  <2>7. keys' \in Nat
    BY <2>6
  <2>8. PICK k \in Nat : k = keys'
    BY <2>7
  <2>9. CASE r.kind = "startEmail"
    <3>1. PICK g : g = AtStep(f, "email-code")
      OBVIOUS
    <3>2. form' = [g EXCEPT !.email = r.email, !.challenge = r.id, !.key = k]
      BY <2>5, <2>8, <2>9, <3>1 DEF Advanced
    <3>3. g \in DialogRow /\ g.step = "email-code" /\ g.human # "spent"
      BY <2>2, <2>4, <3>1, AtStepFacts DEF Steps
    <3>4. form' \in DialogRow /\ form'.step = "email-code" /\ form'.human # "spent" /\ form'.key = k
      BY <2>3, <3>2, <3>3 DEF DialogRow, AskedRow
    <3>5. KeysOfForm'
      BY <1>1, <2>6, <2>8, <2>9, <3>4, FreshKey DEF IsStart
    <3>6. ShownIsVerified'
      BY <3>4 DEF ShownIsVerified
    <3>. QED BY <1>1, <2>3, <2>7, <3>4, <3>5, <3>6, AnswerEndsWait
  <2>10. CASE r.kind = "verifyEmail"
    <3>1. form' = AtStep(f, "phone")
      BY <2>5, <2>10 DEF Advanced
    <3>2. /\ form' \in DialogRow /\ form'.step = "phone" /\ form'.human # "spent" /\ form'.email = form.email
          /\ form'.challenge = form.challenge /\ form'.key = form.key
      BY <2>2, <2>4, <3>1, AtStepFacts DEF Steps
    <3>3. form.step = "email-code" /\ r.email = form.email /\ r.challenge = form.challenge
      BY <2>3, <2>10 DEF Awaited
    <3>4. KeysOfForm'
      BY <1>1, <2>6, <2>10, <3>2, <3>3, KeyUnsent DEF IsStart
    <3>5. ShownIsVerified'
      BY <1>1, <2>3, <2>10, <3>2, <3>3 DEF ShownIsVerified, Truthful, Verified
    <3>. QED BY <1>1, <2>3, <2>7, <3>2, <3>4, <3>5, AnswerEndsWait
  <2>11. CASE r.kind = "startPhone"
    <3>1. PICK g : g = AtStep(f, "phone-code")
      OBVIOUS
    <3>2. form' = [g EXCEPT !.phone = r.phone, !.challenge = r.id, !.key = k]
      BY <2>5, <2>8, <2>11, <3>1 DEF Advanced
    <3>3. g \in DialogRow /\ g.step = "phone-code" /\ g.human # "spent" /\ g.email = form.email
      BY <2>2, <2>4, <3>1, AtStepFacts DEF Steps
    <3>4. /\ form' \in DialogRow /\ form'.step = "phone-code" /\ form'.human # "spent" /\ form'.key = k
          /\ form'.email = form.email /\ form'.challenge = r.id /\ form'.phone = r.phone
      BY <2>3, <3>2, <3>3 DEF DialogRow, AskedRow
    <3>5. KeysOfForm'
      BY <1>1, <2>6, <2>8, <2>11, <3>4, FreshKey DEF IsStart
    <3>6. r.email = form.email
      BY <2>3, <2>11 DEF Awaited
    <3>7. ShownIsVerified'
      BY <1>1, <2>3, <2>11, <3>4, <3>6 DEF ShownIsVerified, Truthful, Verified
    <3>. QED BY <1>1, <2>3, <2>7, <2>11, <3>4, <3>5, <3>7, AnswerEndsWait
  <2>12. CASE r.kind = "verifyPhone"
    <3>1. form' = AtStep(f, "password")
      BY <2>5, <2>12 DEF Advanced
    <3>2. /\ form' \in DialogRow /\ form'.step = "password" /\ form'.human # "spent" /\ form'.email = form.email
          /\ form'.challenge = form.challenge /\ form'.phone = form.phone /\ form'.key = form.key
      BY <2>2, <2>4, <3>1, AtStepFacts DEF Steps
    <3>3. form.step = "phone-code" /\ r.email = form.email /\ r.challenge = form.challenge /\ r.phone = form.phone
      BY <2>3, <2>12 DEF Awaited
    <3>4. KeysOfForm'
      BY <1>1, <2>6, <2>12, <3>2, <3>3, KeyUnsent DEF IsStart
    <3>5. ShownIsVerified'
      BY <1>1, <2>3, <2>12, <3>2, <3>3 DEF ShownIsVerified, Truthful, Verified
    <3>. QED BY <1>1, <2>3, <2>7, <3>2, <3>4, <3>5, AnswerEndsWait
  <2>13. CASE r.kind = "complete"
    <3>1. form' = [f EXCEPT !.mode = "closed"]
      BY <2>5, <2>13 DEF Advanced
    <3>2. /\ form' \in DialogRow /\ form'.mode = "closed" /\ form'.step = form.step /\ form'.email = form.email
          /\ form'.challenge = form.challenge /\ form'.phone = form.phone /\ form'.secret = form.secret
          /\ form'.key = form.key
      BY <2>2, <3>1 DEF DialogRow
    <3>3. keys' = keys
      BY <2>6, <2>13 DEF IsStart
    <3>4. KeysOfForm'
      BY <1>1, <3>2, <3>3 DEF FormInv, KeysOfForm, KeyIsOfForm
    <3>5. ShownIsVerified' /\ (form'.step = "phone-code" => form'.phone # Blank)
      BY <1>1, <3>2 DEF FormInv, ShownIsVerified
    <3>. QED BY <1>1, <2>3, <2>7, <3>2, <3>4, <3>5, AnswerEndsWait
  <2>. QED BY <2>3, <2>9, <2>10, <2>11, <2>12, <2>13 DEF AskedRow, Kinds
<1>. QED
  BY <1>2, <1>3

LEMMA FormInitInv ==
    ASSUME FormInit
    PROVE  FormInv
<1>1. /\ form = EmptyForm /\ submitting = FALSE /\ requests = {} /\ formRows = <<>> /\ keys = 0 /\ sentForms = {}
  BY DEF FormInit
<1>2. /\ EmptyForm \in DialogRow /\ EmptyForm.step = "email" /\ EmptyForm.key = 0 /\ EmptyForm.human = "none"
  BY DEF EmptyForm, DialogRow, Steps
<1>3. FormShape /\ CallsOK /\ WaitsOK
  <2>1. <<>> \in Seq(FormRow)
    OBVIOUS
  <2>2. FormShape
    BY <1>1, <1>2, <2>1 DEF FormShape
  <2>3. CallsOK
    BY <1>1 DEF CallsOK
  <2>4. WaitsOK
    BY <1>1, <1>2 DEF WaitsOK
  <2>. QED BY <2>2, <2>3, <2>4
<1>4. KeysOfForm /\ ShownIsVerified
  BY <1>1, <1>2 DEF KeysOfForm, KeyIsOfForm, ShownIsVerified
<1>. QED
  BY <1>1, <1>2, <1>3, <1>4 DEF FormInv

LEMMA FormStep ==
    ASSUME FormInv, [FormNext]_formVars
    PROVE  FormInv'
<1>1. CASE UserActs
  BY <1>1, TypeEmailInv, TypePhoneInv, TypeSecretInv, HumanTokenInv, SubmitStartInv, SubmitCodeInv,
     SubmitRegistrationInv, ResendInv, ChangeEmailInv, ChangePhoneInv, SwitchModeInv, RegistrationEndsInv
     DEF UserActs
<1>2. CASE \E r \in requests : Serve(r) \/ RefuseCall(r) \/ AnswerHeard(r) \/ AbandonCall(r)
  BY <1>2, ServeInv, RefuseCallInv, AnswerHeardInv, AbandonCallInv
<1>3. CASE UNCHANGED formVars
  BY <1>3 DEF formVars, FormInv, FormShape, CallsOK, Truthful, Verified, WaitsOK, Awaited, KeysOfForm, KeyIsOfForm,
              ShownIsVerified
<1>. QED
  BY <1>1, <1>2, <1>3 DEF FormNext

\* Whatever is typed, given up, sent again or answered late: a step of the registration is shown for
\* what the server verified of the addresses in the form, a key stands for one registration, and a
\* token of the human check is sent once.
THEOREM FormsAreSafe == FormSpec => []FormSafe
<1>1. FormInit => FormInv
  BY FormInitInv
<1>2. FormInv /\ [FormNext]_formVars => FormInv'
  BY FormStep
<1>3. FormInv => FormSafe
  BY DEF FormInv, FormSafe, KeysOfForm, SpinsForRequest, WaitsOK, FormShape, DialogRow
<1>. QED
  BY <1>1, <1>2, <1>3, PTL DEF FormSpec

=============================================================================
