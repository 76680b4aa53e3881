------------------------- MODULE BillingMoneyProofs -------------------------
(***************************************************************************)
(* Proofs about the money of Billing.  It is conserved: the wallet and the *)
(* credit of an account, with what reservations hold of them, always add   *)
(* up to its ledger.  And it is charged for what was answered: the cached  *)
(* answers agree with the ledger, no request pays twice, and what an       *)
(* account owns only changes by what is deposited, bought and charged.     *)
(***************************************************************************)
EXTENDS BillingProofs

(***************************************************************************)
(* The sums, as functions of the tables they are taken over.               *)
(***************************************************************************)

WalletPart(res, u) ==
    [r \in ReservationIds |->
        IF res[r].status = "reserved" /\ res[r].user = u THEN res[r].wallet ELSE 0]

CreditPart(res, u, i) ==
    [r \in ReservationIds |->
        IF res[r].status = "reserved" /\ res[r].user = u THEN res[r].holds[i] ELSE 0]

HeldW(res, u) == SumFunctionOnSet(WalletPart(res, u), ReservationIds)
HeldC(res, u, i) == SumFunctionOnSet(CreditPart(res, u, i), ReservationIds)

PostedW(led, u) ==
    SumFunctionOnSet([e \in led |-> IF e.user = u THEN e.wallet ELSE 0], led)
PostedC(led, u) ==
    SumFunctionOnSet([e \in led |-> IF e.user = u THEN e.credit ELSE 0], led)

\* Of each grant: what is left of it and what reservations hold of it.
Own(gs, res, u) == [i \in Slots |-> gs[u][i].remaining + HeldC(res, u, i)]
Owned(gs, res, u) == SumFunctionOnSet(Own(gs, res, u), Slots)

\* The state functions of Billing in these terms, now and after a step.
LEMMA SumsNow ==
  /\ \A u \in Users : HeldWallet(u) = HeldW(reservations, u)
  /\ \A u \in Users, i \in Slots : HeldCredit(u, i) = HeldC(reservations, u, i)
  /\ \A u \in Users : PostedWallet(u) = PostedW(ledger, u)
  /\ \A u \in Users : PostedCredit(u) = PostedC(ledger, u)
  /\ \A u \in Users : CreditOwned(u) = Owned(grants, reservations, u)
<1>1. \A u \in Users, i \in Slots : HeldCredit(u, i) = HeldC(reservations, u, i)
  BY DEF HeldCredit, HeldC, CreditPart, Holding
<1>2. \A u \in Users : CreditOwned(u) = Owned(grants, reservations, u)
  BY <1>1 DEF CreditOwned, Owned, Own
<1> QED BY <1>1, <1>2
  DEF HeldWallet, HeldW, WalletPart, Holding, PostedWallet, PostedW, PostedCredit, PostedC

LEMMA SumsNext ==
  /\ \A u \in Users : HeldWallet(u)' = HeldW(reservations', u)
  /\ \A u \in Users : PostedWallet(u)' = PostedW(ledger', u)
  /\ \A u \in Users : PostedCredit(u)' = PostedC(ledger', u)
  /\ \A u \in Users : CreditOwned(u)' = Owned(grants', reservations', u)
<1>1. \A u \in Users, i \in Slots : HeldCredit(u, i)' = HeldC(reservations', u, i)
  BY DEF HeldCredit, HeldC, CreditPart, Holding
<1>2. \A u \in Users : CreditOwned(u)' = Owned(grants', reservations', u)
  BY <1>1 DEF CreditOwned, Owned, Own
<1> QED BY <1>2
  DEF HeldWallet, HeldW, WalletPart, Holding, PostedWallet, PostedW, PostedCredit, PostedC

(***************************************************************************)
(* How the sums change.                                                    *)
(***************************************************************************)

\* Held amounts are natural numbers.
LEMMA HeldNat ==
  ASSUME NEW res \in [ReservationIds -> Reservation], NEW u \in Users
  PROVE  /\ HeldW(res, u) \in Nat
         /\ \A r \in ReservationIds : WalletPart(res, u)[r] \in Nat
         /\ \A i \in Slots : HeldC(res, u, i) \in Nat
         /\ \A i \in Slots, r \in ReservationIds : CreditPart(res, u, i)[r] \in Nat
<1>1. \A r \in ReservationIds : WalletPart(res, u)[r] \in Nat
  BY DEF WalletPart, Reservation
<1>2. \A i \in Slots, r \in ReservationIds : CreditPart(res, u, i)[r] \in Nat
  BY DEF CreditPart, Reservation
<1>3. HeldW(res, u) \in Nat BY <1>1, IdentityAssumption, SumNat DEF HeldW
<1>4. \A i \in Slots : HeldC(res, u, i) \in Nat
  BY <1>2, IdentityAssumption, SumNat DEF HeldC
<1> QED BY <1>1, <1>2, <1>3, <1>4

\* One reservation changes.
LEMMA HeldStep ==
  ASSUME NEW res \in [ReservationIds -> Reservation],
         NEW nxt \in [ReservationIds -> Reservation],
         NEW r \in ReservationIds, \A q \in ReservationIds \ {r} : nxt[q] = res[q],
         NEW u \in Users
  PROVE  /\ HeldW(nxt, u) = HeldW(res, u) + WalletPart(nxt, u)[r] - WalletPart(res, u)[r]
         /\ \A i \in Slots :
              HeldC(nxt, u, i)
                = HeldC(res, u, i) + CreditPart(nxt, u, i)[r] - CreditPart(res, u, i)[r]
<1>1. HeldW(nxt, u) = HeldW(res, u) + WalletPart(nxt, u)[r] - WalletPart(res, u)[r]
  <2>1. \A q \in ReservationIds \ {r} : WalletPart(nxt, u)[q] = WalletPart(res, u)[q]
    BY DEF WalletPart
  <2>2. /\ \A q \in ReservationIds : WalletPart(nxt, u)[q] \in Int
        /\ \A q \in ReservationIds : WalletPart(res, u)[q] \in Int
    BY HeldNat
  <2>3. IsFiniteSet(ReservationIds) BY IdentityAssumption
  <2> DEFINE f == WalletPart(res, u)
             h == WalletPart(nxt, u)
  <2> HIDE DEF f, h
  <2>4. SumFunctionOnSet(h, ReservationIds) = SumFunctionOnSet(f, ReservationIds) + h[r] - f[r]
    BY <2>1, <2>2, <2>3, SumUpdate DEF f, h
  <2> QED BY <2>4 DEF HeldW, f, h
<1>2. ASSUME NEW i \in Slots
      PROVE  HeldC(nxt, u, i)
               = HeldC(res, u, i) + CreditPart(nxt, u, i)[r] - CreditPart(res, u, i)[r]
  <2>1. \A q \in ReservationIds \ {r} : CreditPart(nxt, u, i)[q] = CreditPart(res, u, i)[q]
    BY DEF CreditPart
  <2>2. /\ \A q \in ReservationIds : CreditPart(nxt, u, i)[q] \in Int
        /\ \A q \in ReservationIds : CreditPart(res, u, i)[q] \in Int
    BY HeldNat
  <2> QED BY <2>1, <2>2, IdentityAssumption, SumUpdate DEF HeldC
<1> QED BY <1>1, <1>2

\* One reservation holds no more than all of them together.
LEMMA HeldBound ==
  ASSUME NEW res \in [ReservationIds -> Reservation], NEW r \in ReservationIds,
         NEW u \in Users, NEW i \in Slots
  PROVE  CreditPart(res, u, i)[r] <= HeldC(res, u, i)
<1> DEFINE f == CreditPart(res, u, i)
           R == ReservationIds \ {r}
<1>1. \A q \in ReservationIds : f[q] \in Nat BY HeldNat
<1>2. IsFiniteSet(ReservationIds) /\ IsFiniteSet(R)
  BY IdentityAssumption, FS_RemoveElement
<1> HIDE DEF f
<1>3. SumFunctionOnSet(f, ReservationIds) = f[r] + SumFunctionOnSet(f, R)
  BY <1>1, <1>2, SumRemove
<1>4. SumFunctionOnSet(f, R) \in Nat BY <1>1, <1>2, SumNat
<1> QED BY <1>1, <1>3, <1>4 DEF HeldC, f

\* An entry is added to the ledger.
LEMMA PostedStep ==
  ASSUME NEW led \in SUBSET Entry, IsFiniteSet(led), NEW e \in Entry, e \notin led,
         NEW u \in Users
  PROVE  /\ PostedW(led, u) \in Int /\ PostedC(led, u) \in Int
         /\ PostedW(led \cup {e}, u) = PostedW(led, u) + IF e.user = u THEN e.wallet ELSE 0
         /\ PostedC(led \cup {e}, u) = PostedC(led, u) + IF e.user = u THEN e.credit ELSE 0
<1> DEFINE all == led \cup {e}
           w == [d \in led |-> IF d.user = u THEN d.wallet ELSE 0]
           x == [d \in all |-> IF d.user = u THEN d.wallet ELSE 0]
           c == [d \in led |-> IF d.user = u THEN d.credit ELSE 0]
           y == [d \in all |-> IF d.user = u THEN d.credit ELSE 0]
<1>1. /\ \A d \in led : w[d] \in Int
      /\ \A d \in led : x[d] = w[d]
      /\ x[e] \in Int /\ x[e] = IF e.user = u THEN e.wallet ELSE 0
  BY DEF Entry
<1>2. /\ \A d \in led : c[d] \in Int
      /\ \A d \in led : y[d] = c[d]
      /\ y[e] \in Int /\ y[e] = IF e.user = u THEN e.credit ELSE 0
  BY DEF Entry
<1>3. /\ PostedW(led, u) = SumFunctionOnSet(w, led)
      /\ PostedW(all, u) = SumFunctionOnSet(x, all)
      /\ PostedC(led, u) = SumFunctionOnSet(c, led)
      /\ PostedC(all, u) = SumFunctionOnSet(y, all)
  BY DEF PostedW, PostedC
<1>0. all = led \cup {e} OBVIOUS
<1> HIDE DEF w, x, c, y, all
<1>4. SumFunctionOnSet(w, led) \in Int /\ SumFunctionOnSet(c, led) \in Int
  BY <1>1, <1>2, SumInt
<1>5. SumFunctionOnSet(x, all) = SumFunctionOnSet(w, led) + x[e]
  <2>1. IsFiniteSet(led) /\ e \notin led OBVIOUS
  <2>2. \A d \in led : w[d] \in Int BY <1>1
  <2>3. \A d \in led : x[d] = w[d] BY <1>1
  <2>4. x[e] \in Int BY <1>1
  <2> QED BY ONLY <1>0, <2>1, <2>2, <2>3, <2>4, SumInsert
<1>6. SumFunctionOnSet(y, all) = SumFunctionOnSet(c, led) + y[e]
  <2>1. IsFiniteSet(led) /\ e \notin led OBVIOUS
  <2>2. \A d \in led : c[d] \in Int BY <1>2
  <2>3. \A d \in led : y[d] = c[d] BY <1>2
  <2>4. y[e] \in Int BY <1>2
  <2> QED BY ONLY <1>0, <2>1, <2>2, <2>3, <2>4, SumInsert
<1> QED BY <1>0, <1>1, <1>2, <1>3, <1>4, <1>5, <1>6

\* What an account owns in grants is a natural number for each of them.
LEMMA OwnNat ==
  ASSUME NEW gs \in [Users -> [Slots -> Grant]],
         NEW res \in [ReservationIds -> Reservation], NEW u \in Users
  PROVE  /\ \A i \in Slots : Own(gs, res, u)[i] \in Nat
         /\ Owned(gs, res, u) \in Nat
<1>1. ASSUME NEW i \in Slots PROVE Own(gs, res, u)[i] \in Nat
  <2>1. gs[u][i].remaining \in Nat BY DEF Grant
  <2> QED BY <2>1, HeldNat DEF Own
<1> QED BY <1>1, SlotsFinite, SumNat DEF Owned

\* What an account owns changes grant by grant.
LEMMA OwnedStep ==
  ASSUME NEW gs \in [Users -> [Slots -> Grant]], NEW hs \in [Users -> [Slots -> Grant]],
         NEW res \in [ReservationIds -> Reservation],
         NEW nxt \in [ReservationIds -> Reservation], NEW u \in Users,
         NEW d, \A i \in Slots : d[i] \in Int,
         \A i \in Slots : Own(hs, nxt, u)[i] = Own(gs, res, u)[i] + d[i]
  PROVE  Owned(hs, nxt, u) = Owned(gs, res, u) + SumFunctionOnSet(d, Slots)
<1>1. \A i \in Slots : Own(gs, res, u)[i] \in Nat BY OwnNat
<1>2. \A i \in Slots : Own(hs, nxt, u)[i] \in Nat BY OwnNat
<1> DEFINE f == Own(gs, res, u)
           h == Own(hs, nxt, u)
<1> HIDE DEF f, h
<1>3. \A i \in Slots : f[i] \in Int /\ d[i] \in Int /\ h[i] = f[i] + d[i]
  BY <1>1, <1>2 DEF f, h
<1>4. SumFunctionOnSet(h, Slots) = SumFunctionOnSet(f, Slots) + SumFunctionOnSet(d, Slots)
  BY <1>3, SlotsFinite, SumAdd
<1> QED BY <1>4 DEF Owned, f, h

(***************************************************************************)
(* The inductive invariant.                                                *)
(***************************************************************************)

\* The two entries of a purchase are only posted together with its grant, so
\* the idempotency check of purchaseCreditPack, which looks for the grant, also
\* keeps the ledger keys unique.
PurchasesHaveGrants ==
    \A e \in ledger : e.id.ns \in {"pack-purchase", "credit-grant"} =>
        \E i \in Slots : /\ grants[e.user][i].status # "none"
                         /\ grants[e.user][i].key = e.id.key

\* What is left and what is held of a grant never exceed what it began with, so
\* the LEAST of restoreGrants never cuts anything off.
GrantsBounded ==
    \A u \in Users, i \in Slots :
        /\ Own(grants, reservations, u)[i] <= grants[u][i].original
        /\ grants[u][i].status = "none" => grants[u][i].original = 0

MoneyInv ==
    /\ TypeOK
    /\ IsFiniteSet(ledger)
    /\ PurchasesHaveGrants
    /\ GrantsBounded
    /\ WalletConserved
    /\ CreditConserved

\* What every step but a purchase leaves alone in the grants.
GrantFrame(gs, hs) ==
    \A u \in Users, i \in Slots :
        /\ hs[u][i].original = gs[u][i].original
        /\ hs[u][i].key = gs[u][i].key
        /\ hs[u][i].status = "none" => gs[u][i].status = "none"

LEMMA SpendFacts ==
  ASSUME NEW gs \in [Slots -> Grant], NEW holds \in [Slots -> Nat], NEW i \in Slots
  PROVE  /\ Spend(gs, holds)[i].remaining = gs[i].remaining - holds[i]
         /\ Spend(gs, holds)[i].original = gs[i].original
         /\ Spend(gs, holds)[i].key = gs[i].key
         /\ Spend(gs, holds)[i].status = "none" => gs[i].status = "none"
<1>1. gs[i] \in Grant /\ holds[i] \in Nat OBVIOUS
<1>2. gs[i].remaining \in Nat BY <1>1 DEF Grant
<1>3. CASE holds[i] > 0
  <2>1. Spend(gs, holds)[i] = [gs[i] EXCEPT !.remaining = @ - holds[i],
          !.status = IF gs[i].remaining = holds[i] THEN "depleted" ELSE "active"]
    BY <1>3 DEF Spend
  <2> QED BY <1>1, <2>1 DEF Grant
<1>4. CASE ~ holds[i] > 0
  <2>1. holds[i] = 0 BY <1>1, <1>4
  <2>2. Spend(gs, holds)[i] =
          IF gs[i].status = "active" /\ gs[i].past THEN [gs[i] EXCEPT !.status = "expired"]
          ELSE gs[i]
    BY <1>4 DEF Spend
  <2> QED BY <1>1, <1>2, <2>1, <2>2 DEF Grant
<1> QED BY <1>3, <1>4

LEMMA RestoreFacts ==
  ASSUME NEW gs \in [Slots -> Grant], NEW back \in [Slots -> Nat], NEW i \in Slots,
         gs[i].remaining + back[i] <= gs[i].original
  PROVE  /\ RestoreGrants(gs, back)[i].remaining = gs[i].remaining + back[i]
         /\ RestoreGrants(gs, back)[i].original = gs[i].original
         /\ RestoreGrants(gs, back)[i].key = gs[i].key
         /\ RestoreGrants(gs, back)[i].status = "none" => gs[i].status = "none"
<1>1. gs[i] \in Grant /\ back[i] \in Nat OBVIOUS
<1>2. gs[i].remaining \in Nat /\ gs[i].original \in Nat BY <1>1 DEF Grant
<1>3. CASE back[i] = 0
  <2>1. RestoreGrants(gs, back)[i] = gs[i] BY <1>3 DEF RestoreGrants
  <2> QED BY <1>2, <1>3, <2>1
<1>4. CASE back[i] # 0
  <2>1. RestoreGrants(gs, back)[i] =
          [gs[i] EXCEPT !.remaining = Lesser(gs[i].original, @ + back[i]),
                        !.status = IF gs[i].past THEN "expired" ELSE "active"]
    BY <1>4 DEF RestoreGrants
  <2>2. Lesser(gs[i].original, gs[i].remaining + back[i]) = gs[i].remaining + back[i]
    BY <1>1, <1>2 DEF Lesser
  <2> QED BY <1>1, <2>1, <2>2 DEF Grant
<1> QED BY <1>3, <1>4

\* Grants that paid-for entries refer to do not disappear.
LEMMA PurchasesFrame ==
  ASSUME TypeOK, PurchasesHaveGrants, GrantFrame(grants, grants'),
         \A e \in ledger' \ ledger : e.id.ns \notin {"pack-purchase", "credit-grant"}
  PROVE  PurchasesHaveGrants'
<1> SUFFICES ASSUME NEW e \in ledger', e.id.ns \in {"pack-purchase", "credit-grant"}
             PROVE  \E i \in Slots : /\ grants'[e.user][i].status # "none"
                                     /\ grants'[e.user][i].key = e.id.key
  BY DEF PurchasesHaveGrants
<1>1. e \in ledger /\ e.user \in Users BY DEF TypeOK, Entry
<1>2. PICK i \in Slots : /\ grants[e.user][i].status # "none"
                         /\ grants[e.user][i].key = e.id.key
  BY <1>1 DEF PurchasesHaveGrants
<1>3. /\ grants'[e.user][i].status # "none"
      /\ grants'[e.user][i].key = e.id.key
  BY <1>1, <1>2 DEF GrantFrame
<1> QED BY <1>3

\* Steps that post nothing.
LEMMA QuietStep ==
  ASSUME MoneyInv, TypeOK', UNCHANGED ledger, GrantFrame(grants, grants'),
         \A u \in Users : balance'[u] + HeldW(reservations', u)
                            = balance[u] + HeldW(reservations, u),
         \A u \in Users, i \in Slots :
            Own(grants', reservations', u)[i] = Own(grants, reservations, u)[i]
  PROVE  MoneyInv'
<1>1. PurchasesHaveGrants'
  BY PurchasesFrame DEF MoneyInv
<1>2. GrantsBounded' BY DEF MoneyInv, GrantsBounded, GrantFrame
<1>3. WalletConserved' BY SumsNow, SumsNext DEF MoneyInv, WalletConserved
<1>4. \A u \in Users : Owned(grants', reservations', u) = Owned(grants, reservations, u)
  <2> TAKE u \in Users
  <2> DEFINE f == Own(grants, reservations, u)
             h == Own(grants', reservations', u)
  <2>1. \A i \in Slots : f[i] \in Nat BY OwnNat DEF MoneyInv, TypeOK
  <2>2. \A i \in Slots : h[i] = f[i] OBVIOUS
  <2> HIDE DEF f, h
  <2>3. \A i \in Slots : f[i] \in Int BY <2>1
  <2>4. SumFunctionOnSet(h, Slots) = SumFunctionOnSet(f, Slots)
    BY <2>2, <2>3, SlotsFinite, SumSame
  <2> QED BY <2>4 DEF Owned, f, h
<1>5. CreditConserved'
  <2> SUFFICES ASSUME NEW u \in Users PROVE CreditOwned(u)' = PostedCredit(u)'
    BY DEF CreditConserved
  <2>1. CreditOwned(u) = PostedCredit(u) BY DEF MoneyInv, CreditConserved
  <2>2. CreditOwned(u)' = CreditOwned(u) BY <1>4, SumsNow, SumsNext
  <2>3. PostedCredit(u)' = PostedCredit(u) BY SumsNow, SumsNext
  <2> QED BY <2>1, <2>2, <2>3
<1> QED BY <1>1, <1>2, <1>3, <1>5 DEF MoneyInv

\* Steps that post one entry e for its user and draw the credit d.
LEMMA PostingStep ==
  ASSUME MoneyInv, TypeOK', NEW e \in Entry, e \notin ledger, ledger' = ledger \cup {e},
         e.id.ns \notin {"pack-purchase", "credit-grant"},
         GrantFrame(grants, grants'),
         \A u \in Users : balance'[u] + HeldW(reservations', u)
            = balance[u] + HeldW(reservations, u) + IF e.user = u THEN e.wallet ELSE 0,
         NEW d \in [Slots -> Nat], e.credit = -SumFunctionOnSet(d, Slots),
         \A u \in Users, i \in Slots :
            Own(grants', reservations', u)[i]
              = Own(grants, reservations, u)[i] - IF e.user = u THEN d[i] ELSE 0
  PROVE  MoneyInv'
<1>1. PurchasesHaveGrants'
  BY PurchasesFrame DEF MoneyInv
<1>2. GrantsBounded'
  <2> SUFFICES ASSUME NEW u \in Users, NEW i \in Slots
               PROVE  /\ Own(grants', reservations', u)[i] <= grants'[u][i].original
                      /\ grants'[u][i].status = "none" => grants'[u][i].original = 0
    BY DEF GrantsBounded
  <2>1. Own(grants, reservations, u)[i] \in Nat BY OwnNat DEF MoneyInv, TypeOK
  <2>2. d[i] \in Nat /\ grants[u][i].original \in Nat BY DEF MoneyInv, TypeOK, Grant
  <2>3. Own(grants', reservations', u)[i] <= Own(grants, reservations, u)[i]
    BY <2>1, <2>2
  <2>4. /\ Own(grants, reservations, u)[i] <= grants[u][i].original
        /\ grants'[u][i].original = grants[u][i].original
    BY DEF MoneyInv, GrantsBounded, GrantFrame
  <2>5. Own(grants', reservations', u)[i] \in Nat BY OwnNat DEF TypeOK
  <2>6. Own(grants', reservations', u)[i] <= grants'[u][i].original
    BY <2>1, <2>2, <2>3, <2>4, <2>5
  <2> QED BY <2>6 DEF MoneyInv, GrantsBounded, GrantFrame
<1>3. \A u \in Users :
        /\ PostedW(ledger, u) \in Int /\ PostedC(ledger, u) \in Int
        /\ PostedW(ledger', u) = PostedW(ledger, u) + IF e.user = u THEN e.wallet ELSE 0
        /\ PostedC(ledger', u) = PostedC(ledger, u) + IF e.user = u THEN e.credit ELSE 0
  BY PostedStep DEF MoneyInv, TypeOK
<1>4. WalletConserved'
  <2> SUFFICES ASSUME NEW u \in Users
               PROVE  balance'[u] + HeldWallet(u)' = PostedWallet(u)'
    BY DEF WalletConserved
  <2>1. balance[u] + HeldW(reservations, u) = PostedW(ledger, u)
    BY SumsNow DEF MoneyInv, WalletConserved
  <2>2. balance'[u] + HeldW(reservations', u)
          = balance[u] + HeldW(reservations, u) + IF e.user = u THEN e.wallet ELSE 0
    OBVIOUS
  <2>3. PostedW(ledger', u) = PostedW(ledger, u) + IF e.user = u THEN e.wallet ELSE 0
    BY <1>3
  <2>4. balance'[u] + HeldW(reservations', u) = PostedW(ledger', u)
    BY ONLY <2>1, <2>2, <2>3
  <2> QED BY <2>4, SumsNext
<1>5. CreditConserved'
  <2> SUFFICES ASSUME NEW u \in Users PROVE CreditOwned(u)' = PostedCredit(u)'
    BY DEF CreditConserved
  <2>1. Owned(grants, reservations, u) = PostedC(ledger, u)
    BY SumsNow DEF MoneyInv, CreditConserved
  <2> DEFINE f == Own(grants, reservations, u)
             h == Own(grants', reservations', u)
  <2>2. \A i \in Slots : f[i] \in Nat BY OwnNat DEF MoneyInv, TypeOK
  <2>3. \A i \in Slots : h[i] \in Nat BY OwnNat DEF TypeOK
  <2>4. \A i \in Slots : h[i] = f[i] - IF e.user = u THEN d[i] ELSE 0 OBVIOUS
  <2>5. Owned(grants, reservations, u) = SumFunctionOnSet(f, Slots)
        /\ Owned(grants', reservations', u) = SumFunctionOnSet(h, Slots)
    BY DEF Owned
  <2> HIDE DEF f, h
  <2>6. SumFunctionOnSet(f, Slots) \in Nat /\ SumFunctionOnSet(h, Slots) \in Nat
    BY <2>2, <2>3, SlotsFinite, SumNat
  <2>7. SumFunctionOnSet(d, Slots) \in Nat
    <3>1. \A i \in Slots : d[i] \in Nat OBVIOUS
    <3> QED BY <3>1, SlotsFinite, SumNat
  <2>8. CASE e.user = u
    <3>1. \A i \in Slots : h[i] \in Int /\ d[i] \in Int /\ f[i] = h[i] + d[i]
      BY <2>2, <2>3, <2>4, <2>8
    <3> DEFINE F == SumFunctionOnSet(f, Slots)
               H == SumFunctionOnSet(h, Slots)
               D == SumFunctionOnSet(d, Slots)
    <3>2. F = H + D BY ONLY <3>1, SlotsFinite, SumAdd
    <3>3. e.credit = -D OBVIOUS
    <3>4. PostedC(ledger', u) = PostedC(ledger, u) + e.credit BY <1>3, <2>8
    <3>5. PostedC(ledger, u) = F BY <2>1, <2>5
    <3>6. Owned(grants', reservations', u) = H BY <2>5
    <3>7. F \in Nat /\ H \in Nat /\ D \in Nat BY <2>6, <2>7
    <3> HIDE DEF F, H, D
    <3>8. PostedC(ledger', u) = H BY ONLY <3>2, <3>3, <3>4, <3>5, <3>7
    <3> QED BY <3>6, <3>8, SumsNext
  <2>9. CASE e.user # u
    <3>1. \A i \in Slots : f[i] \in Int BY <2>2
    <3>2. \A i \in Slots : h[i] = f[i] BY <2>2, <2>4, <2>9
    <3>3. SumFunctionOnSet(h, Slots) = SumFunctionOnSet(f, Slots)
      BY <3>1, <3>2, SlotsFinite, SumSame
    <3>4. PostedC(ledger', u) = PostedC(ledger, u) /\ PostedC(ledger, u) \in Int
      <4>1. PostedC(ledger, u) \in Int BY <1>3
      <4>2. PostedC(ledger', u) = PostedC(ledger, u) + 0 BY <1>3, <2>9
      <4> QED BY <4>1, <4>2
    <3>5. Owned(grants', reservations', u) = PostedC(ledger', u) BY <2>1, <2>5, <3>3, <3>4
    <3> QED BY <3>5, SumsNext
  <2> QED BY <2>8, <2>9
<1>6. IsFiniteSet(ledger') BY FS_AddElement DEF MoneyInv
<1> QED BY <1>1, <1>2, <1>4, <1>5, <1>6 DEF MoneyInv

(***************************************************************************)
(* The steps.                                                              *)
(***************************************************************************)

\* What a grant loses its holds gain, but for d.
LEMMA Balancing ==
  ASSUME NEW p \in Int, NEW q \in Int, NEW H \in Int, NEW K \in Int, NEW g \in Int,
         NEW h \in Int, NEW d \in Int, K = H + q - p, h + q = g + p - d
  PROVE  h + K = g + H - d
OBVIOUS

\* Money of user u moves between the account and reservation r, the wallet
\* gaining w and the grants losing d on balance.
Transfer(u, r, w, d) ==
    /\ \A q \in ReservationIds \ {r} : reservations'[q] = reservations[q]
    /\ \A v \in Users \ {u} :
          /\ balance'[v] = balance[v]
          /\ grants'[v] = grants[v]
          /\ WalletPart(reservations', v)[r] = WalletPart(reservations, v)[r]
          /\ \A i \in Slots : CreditPart(reservations', v, i)[r] = CreditPart(reservations, v, i)[r]
    /\ balance'[u] + WalletPart(reservations', u)[r]
          = balance[u] + WalletPart(reservations, u)[r] + w
    /\ \A i \in Slots :
          /\ d[i] \in Int
          /\ grants'[u][i].remaining + CreditPart(reservations', u, i)[r]
                = grants[u][i].remaining + CreditPart(reservations, u, i)[r] - d[i]

\* What a transfer does to the totals: only u's change, by w and by d.
Transferred(u, w, d) ==
    /\ \A v \in Users :
          balance'[v] + HeldW(reservations', v)
            = balance[v] + HeldW(reservations, v) + IF v = u THEN w ELSE 0
    /\ \A v \in Users, i \in Slots :
          Own(grants', reservations', v)[i]
            = Own(grants, reservations, v)[i] - IF v = u THEN d[i] ELSE 0

LEMMA TransferStep ==
  ASSUME TypeOK, TypeOK', NEW u \in Users, NEW r \in ReservationIds,
         NEW w \in Int, NEW d, Transfer(u, r, w, d)
  PROVE  Transferred(u, w, d)
<1> USE DEF Transfer
<1>0. /\ reservations \in [ReservationIds -> Reservation]
      /\ reservations' \in [ReservationIds -> Reservation]
  BY DEF TypeOK
<1>1. ASSUME NEW v \in Users
      PROVE  balance'[v] + HeldW(reservations', v)
               = balance[v] + HeldW(reservations, v) + IF v = u THEN w ELSE 0
  <2> DEFINE p == WalletPart(reservations, v)[r]
             q == WalletPart(reservations', v)[r]
             H == HeldW(reservations, v)
             K == HeldW(reservations', v)
  <2>1. p \in Nat /\ q \in Nat /\ H \in Nat /\ K \in Nat BY <1>0, HeldNat
  <2>2. K = H + q - p BY <1>0, HeldStep
  <2>3. balance[v] \in Nat /\ balance'[v] \in Nat BY DEF TypeOK
  <2>4. CASE v = u
    <3>1. balance'[v] + q = balance[v] + p + w BY <2>4
    <3> HIDE DEF p, q, H, K
    <3>2. balance'[v] + K = balance[v] + H + w BY <2>1, <2>2, <2>3, <3>1
    <3> QED BY <3>2, <2>4 DEF H, K
  <2>5. CASE v # u
    <3>1. balance'[v] = balance[v] /\ q = p BY <2>5
    <3> HIDE DEF p, q, H, K
    <3>2. balance'[v] + K = balance[v] + H + 0 BY <2>1, <2>2, <2>3, <3>1
    <3> QED BY <3>2, <2>5 DEF H, K
  <2> QED BY <2>4, <2>5
<1>2. ASSUME NEW v \in Users, NEW i \in Slots
      PROVE  Own(grants', reservations', v)[i]
               = Own(grants, reservations, v)[i] - IF v = u THEN d[i] ELSE 0
  <2>1. /\ CreditPart(reservations, v, i)[r] \in Int /\ CreditPart(reservations', v, i)[r] \in Int
        /\ HeldC(reservations, v, i) \in Int /\ HeldC(reservations', v, i) \in Int
    <3>1. /\ CreditPart(reservations, v, i)[r] \in Nat /\ HeldC(reservations, v, i) \in Nat
          /\ CreditPart(reservations', v, i)[r] \in Nat /\ HeldC(reservations', v, i) \in Nat
      BY <1>0, HeldNat
    <3> QED BY <3>1
  <2>2. HeldC(reservations', v, i) = HeldC(reservations, v, i)
          + CreditPart(reservations', v, i)[r] - CreditPart(reservations, v, i)[r]
    BY <1>0, HeldStep
  <2>3. grants[v][i].remaining \in Int /\ grants'[v][i].remaining \in Int
    BY DEF TypeOK, Grant
  <2>4. /\ Own(grants, reservations, v)[i] = grants[v][i].remaining + HeldC(reservations, v, i)
        /\ Own(grants', reservations', v)[i] = grants'[v][i].remaining + HeldC(reservations', v, i)
    BY DEF Own
  <2>5. CASE v = u
    <3>1. grants'[v][i].remaining + CreditPart(reservations', v, i)[r]
            = grants[v][i].remaining + CreditPart(reservations, v, i)[r] - d[i]
      BY <2>5
    <3>2. d[i] \in Int OBVIOUS
    <3>3. Own(grants', reservations', v)[i] = Own(grants, reservations, v)[i] - d[i]
      BY ONLY <2>1, <2>2, <2>3, <2>4, <3>1, <3>2, Balancing
    <3> QED BY ONLY <3>3, <2>5
  <2>6. CASE v # u
    <3>1. grants'[v][i].remaining = grants[v][i].remaining
          /\ CreditPart(reservations', v, i)[r] = CreditPart(reservations, v, i)[r]
      BY <2>6
    <3>2. Own(grants', reservations', v)[i] = Own(grants, reservations, v)[i] - 0
      BY ONLY <2>1, <2>2, <2>3, <2>4, <3>1
    <3> QED BY ONLY <3>2, <2>6
  <2> QED BY <2>5, <2>6
<1> QED BY <1>1, <1>2 DEF Transferred

\* Money moves between an account and a reservation and nothing is posted.
LEMMA QuietTransfer ==
  ASSUME MoneyInv, TypeOK', UNCHANGED ledger, GrantFrame(grants, grants'),
         NEW u \in Users, NEW r \in ReservationIds,
         \A q \in ReservationIds \ {r} : reservations'[q] = reservations[q],
         \A v \in Users \ {u} :
            /\ balance'[v] = balance[v]
            /\ grants'[v] = grants[v]
            /\ WalletPart(reservations', v)[r] = WalletPart(reservations, v)[r]
            /\ \A i \in Slots : CreditPart(reservations', v, i)[r] = CreditPart(reservations, v, i)[r],
         balance'[u] + WalletPart(reservations', u)[r]
           = balance[u] + WalletPart(reservations, u)[r],
         \A i \in Slots :
            grants'[u][i].remaining + CreditPart(reservations', u, i)[r]
              = grants[u][i].remaining + CreditPart(reservations, u, i)[r]
  PROVE  MoneyInv'
<1> DEFINE zero == [i \in Slots |-> 0]
<1>0. /\ TypeOK /\ reservations \in [ReservationIds -> Reservation]
      /\ reservations' \in [ReservationIds -> Reservation]
      /\ grants \in [Users -> [Slots -> Grant]] /\ grants' \in [Users -> [Slots -> Grant]]
  BY DEF MoneyInv, TypeOK
<1>1. balance'[u] + WalletPart(reservations', u)[r]
        = balance[u] + WalletPart(reservations, u)[r] + 0
  <2>1. balance[u] \in Nat /\ WalletPart(reservations, u)[r] \in Nat
    BY <1>0, HeldNat DEF TypeOK
  <2> QED BY <2>1
<1>2. \A i \in Slots :
        /\ zero[i] \in Int
        /\ grants'[u][i].remaining + CreditPart(reservations', u, i)[r]
             = grants[u][i].remaining + CreditPart(reservations, u, i)[r] - zero[i]
  <2> TAKE i \in Slots
  <2>1. grants[u][i].remaining \in Nat BY <1>0 DEF Grant
  <2>2. CreditPart(reservations, u, i)[r] \in Nat BY <1>0, HeldNat
  <2> QED BY <2>1, <2>2
<1>3. \A i \in Slots : zero[i] = 0 OBVIOUS
<1> HIDE DEF zero
<1>4. /\ \A v \in Users : balance'[v] + HeldW(reservations', v)
            = balance[v] + HeldW(reservations, v) + IF v = u THEN 0 ELSE 0
      /\ \A v \in Users, i \in Slots : Own(grants', reservations', v)[i]
            = Own(grants, reservations, v)[i] - IF v = u THEN zero[i] ELSE 0
  <2>1. Transfer(u, r, 0, zero) BY <1>1, <1>2 DEF Transfer
  <2>2. 0 \in Int OBVIOUS
  <2>3. TypeOK BY <1>0
  <2>4. Transferred(u, 0, zero)
    BY ONLY <2>1, <2>2, <2>3, TransferStep, TypeOK', u \in Users, r \in ReservationIds
  <2> QED BY ONLY <2>4 DEF Transferred
<1>5. ASSUME NEW v \in Users
      PROVE  balance'[v] + HeldW(reservations', v) = balance[v] + HeldW(reservations, v)
  <2>1. balance[v] \in Nat /\ HeldW(reservations, v) \in Nat BY <1>0, HeldNat DEF TypeOK
  <2>2. balance'[v] + HeldW(reservations', v) = balance[v] + HeldW(reservations, v) + 0
    BY <1>4
  <2> QED BY <2>1, <2>2
<1>6. ASSUME NEW v \in Users, NEW i \in Slots
      PROVE  Own(grants', reservations', v)[i] = Own(grants, reservations, v)[i]
  <2>1. Own(grants, reservations, v)[i] \in Nat BY <1>0, OwnNat
  <2>2. Own(grants', reservations', v)[i] = Own(grants, reservations, v)[i] - 0
    BY <1>3, <1>4
  <2> QED BY <2>1, <2>2
<1> QED BY <1>5, <1>6, QuietStep

LEMMA MoneyReserve ==
  ASSUME MoneyInv, NEW u \in Users, NEW r \in ReservationIds, NEW amount \in ReserveAmounts,
         NEW e \in Tasks, ReserveUsage(u, r, amount, e)
  PROVE  MoneyInv'
<1>1. TypeOK /\ TypeOK' BY TypeReserve DEF MoneyInv
<1>2. PICK a \in Draw(Spendable(grants[u]), balance[u], Billed(u, amount)) :
        /\ balance' = [balance EXCEPT ![u] = @ - a.wallet]
        /\ grants' = [grants EXCEPT ![u] = Spend(@, a.holds)]
        /\ reservations' = [reservations EXCEPT ![r] =
              [status |-> "reserved", user |-> u, exec |-> e, wallet |-> a.wallet,
               holds |-> a.holds, leased |-> TRUE]]
  BY DEF ReserveUsage
<1>3. grants[u] \in [Slots -> Grant] /\ balance[u] \in Nat /\ balance'[u] = balance[u] - a.wallet
  BY <1>1, <1>2 DEF TypeOK
<1>4. a.holds \in [Slots -> Nat] /\ a.wallet \in Nat
  <2>1. Billed(u, amount) \in Nat BY MoneyAssumption, BilledNat
  <2> QED BY <1>3, <2>1, SpendableType, DrawFacts
<1>5. reservations[r].status = "none" BY DEF ReserveUsage
<1>6. /\ reservations'[r].status = "reserved" /\ reservations'[r].user = u
      /\ reservations'[r].wallet = a.wallet /\ reservations'[r].holds = a.holds
      /\ \A q \in ReservationIds \ {r} : reservations'[q] = reservations[q]
  BY <1>1, <1>2 DEF TypeOK
<1>7. /\ \A v \in Users : WalletPart(reservations, v)[r] = 0
      /\ \A v \in Users, i \in Slots : CreditPart(reservations, v, i)[r] = 0
      /\ \A v \in Users \ {u} : WalletPart(reservations', v)[r] = 0
      /\ \A v \in Users \ {u}, i \in Slots : CreditPart(reservations', v, i)[r] = 0
      /\ WalletPart(reservations', u)[r] = a.wallet
      /\ \A i \in Slots : CreditPart(reservations', u, i)[r] = a.holds[i]
  BY <1>5, <1>6 DEF WalletPart, CreditPart
<1>8. \A v \in Users \ {u} : balance'[v] = balance[v] /\ grants'[v] = grants[v]
  BY <1>1, <1>2 DEF TypeOK
<1>9. grants'[u] = Spend(grants[u], a.holds) BY <1>1, <1>2 DEF TypeOK
<1>10. \A i \in Slots :
         /\ grants'[u][i].remaining = grants[u][i].remaining - a.holds[i]
         /\ grants'[u][i].original = grants[u][i].original
         /\ grants'[u][i].key = grants[u][i].key
         /\ grants'[u][i].status = "none" => grants[u][i].status = "none"
  BY <1>3, <1>4, <1>9, SpendFacts
<1>11. GrantFrame(grants, grants') BY <1>8, <1>10 DEF GrantFrame
<1>12. balance'[u] + WalletPart(reservations', u)[r]
         = balance[u] + WalletPart(reservations, u)[r]
  BY <1>3, <1>4, <1>7
<1>13. ASSUME NEW i \in Slots
       PROVE  grants'[u][i].remaining + CreditPart(reservations', u, i)[r]
                = grants[u][i].remaining + CreditPart(reservations, u, i)[r]
  <2>1. grants[u][i].remaining \in Nat /\ a.holds[i] \in Nat BY <1>3, <1>4 DEF Grant
  <2> QED BY <2>1, <1>7, <1>10
<1>14. UNCHANGED ledger BY DEF ReserveUsage
<1> QED BY <1>1, <1>6, <1>7, <1>8, <1>11, <1>12, <1>13, <1>14, QuietTransfer

\* What one reservation holds of a grant fits back into the grant.
LEMMA RoomForHolds ==
  ASSUME MoneyInv, NEW u \in Users, NEW r \in ReservationIds, Holding(r, u), NEW i \in Slots
  PROVE  /\ reservations[r].holds[i] \in Nat
         /\ grants[u][i].remaining \in Nat
         /\ grants[u][i].remaining + reservations[r].holds[i] <= grants[u][i].original
<1>1. /\ reservations \in [ReservationIds -> Reservation]
      /\ reservations[r].holds[i] \in Nat
      /\ grants[u][i].remaining \in Nat /\ grants[u][i].original \in Nat
  BY HoldingType DEF MoneyInv, TypeOK, Grant
<1>2. CreditPart(reservations, u, i)[r] = reservations[r].holds[i]
  BY DEF CreditPart, Holding
<1>3. CreditPart(reservations, u, i)[r] <= HeldC(reservations, u, i)
      /\ HeldC(reservations, u, i) \in Nat
  BY <1>1, HeldBound, HeldNat
<1>4. grants[u][i].remaining + HeldC(reservations, u, i) <= grants[u][i].original
  BY DEF MoneyInv, GrantsBounded, Own
<1> QED BY <1>1, <1>2, <1>3, <1>4

\* A reservation is given back to its owner.
LEMMA MoneyRefund ==
  ASSUME MoneyInv, TypeOK', UNCHANGED ledger,
         NEW u \in Users, NEW r \in ReservationIds, Holding(r, u),
         balance' = [balance EXCEPT ![u] = @ + reservations[r].wallet],
         grants' = [grants EXCEPT ![u] = RestoreGrants(@, reservations[r].holds)],
         reservations' = [reservations EXCEPT ![r].status = "released"]
  PROVE  MoneyInv'
<1>1. TypeOK BY DEF MoneyInv
<1>2. /\ grants[u] \in [Slots -> Grant] /\ balance[u] \in Nat
      /\ reservations[r].holds \in [Slots -> Nat] /\ reservations[r].wallet \in Nat
  BY <1>1, HoldingType DEF TypeOK
<1>3. balance'[u] = balance[u] + reservations[r].wallet
      /\ grants'[u] = RestoreGrants(grants[u], reservations[r].holds)
  BY <1>1 DEF TypeOK
<1>4. \A v \in Users \ {u} : balance'[v] = balance[v] /\ grants'[v] = grants[v]
  BY <1>1 DEF TypeOK
<1>5. /\ reservations[r].status = "reserved" /\ reservations[r].user = u
      /\ reservations'[r].status = "released"
      /\ \A q \in ReservationIds \ {r} : reservations'[q] = reservations[q]
  BY <1>1 DEF Holding, TypeOK, Reservation
<1>6. /\ WalletPart(reservations', u)[r] = 0
      /\ WalletPart(reservations, u)[r] = reservations[r].wallet
      /\ \A i \in Slots : CreditPart(reservations', u, i)[r] = 0
      /\ \A i \in Slots : CreditPart(reservations, u, i)[r] = reservations[r].holds[i]
  BY <1>5 DEF WalletPart, CreditPart
<1>7. \A v \in Users \ {u} :
        /\ balance'[v] = balance[v] /\ grants'[v] = grants[v]
        /\ WalletPart(reservations', v)[r] = WalletPart(reservations, v)[r]
        /\ \A i \in Slots : CreditPart(reservations', v, i)[r] = CreditPart(reservations, v, i)[r]
  <2>1. \A v \in Users \ {u} :
          /\ WalletPart(reservations', v)[r] = 0 /\ WalletPart(reservations, v)[r] = 0
          /\ \A i \in Slots : /\ CreditPart(reservations', v, i)[r] = 0
                             /\ CreditPart(reservations, v, i)[r] = 0
    BY <1>5 DEF WalletPart, CreditPart
  <2> QED BY <1>4, <2>1
<1>8. \A i \in Slots :
         /\ grants'[u][i].remaining = grants[u][i].remaining + reservations[r].holds[i]
         /\ grants'[u][i].original = grants[u][i].original
         /\ grants'[u][i].key = grants[u][i].key
         /\ grants'[u][i].status = "none" => grants[u][i].status = "none"
  BY <1>2, <1>3, RoomForHolds, RestoreFacts
<1>9. GrantFrame(grants, grants') BY <1>4, <1>8 DEF GrantFrame
<1>10. balance'[u] + WalletPart(reservations', u)[r]
         = balance[u] + WalletPart(reservations, u)[r]
  <2>1. balance[u] \in Nat /\ reservations[r].wallet \in Nat BY <1>2
  <2>2. balance'[u] + 0 = balance[u] + reservations[r].wallet BY ONLY <2>1, <1>3
  <2> QED BY ONLY <2>2, <1>6
<1>11. ASSUME NEW i \in Slots
       PROVE  grants'[u][i].remaining + CreditPart(reservations', u, i)[r]
                = grants[u][i].remaining + CreditPart(reservations, u, i)[r]
  <2>1. grants[u][i].remaining \in Nat /\ reservations[r].holds[i] \in Nat
    BY RoomForHolds
  <2>2. /\ CreditPart(reservations', u, i)[r] = 0
        /\ CreditPart(reservations, u, i)[r] = reservations[r].holds[i]
        /\ grants'[u][i].remaining = grants[u][i].remaining + reservations[r].holds[i]
    BY <1>6, <1>8
  <2> QED BY ONLY <2>1, <2>2
<1>12. \A q \in ReservationIds \ {r} : reservations'[q] = reservations[q] BY <1>5
<1> QED BY <1>7, <1>9, <1>10, <1>11, <1>12, QuietTransfer

LEMMA MoneyRelease ==
  ASSUME MoneyInv, NEW u \in Users, NEW r \in ReservationIds, ReleaseUsage(u, r)
  PROVE  MoneyInv'
BY TypeRelease, MoneyRefund DEF ReleaseUsage, MoneyInv

\* Steps that touch neither money nor the ledger.
LEMMA MoneyFrame ==
  ASSUME MoneyInv, TypeOK', UNCHANGED <<balance, ledger>>,
         \A r \in ReservationIds :
            /\ reservations'[r].status = reservations[r].status
            /\ reservations'[r].user = reservations[r].user
            /\ reservations'[r].wallet = reservations[r].wallet
            /\ reservations'[r].holds = reservations[r].holds,
         \A u \in Users, i \in Slots :
            /\ grants'[u][i].remaining = grants[u][i].remaining
            /\ grants'[u][i].original = grants[u][i].original
            /\ grants'[u][i].key = grants[u][i].key
            /\ grants'[u][i].status = "none" => grants[u][i].status = "none"
  PROVE  MoneyInv'
<1>1. \A u \in Users : WalletPart(reservations', u) = WalletPart(reservations, u)
  BY DEF WalletPart
<1>2. \A u \in Users, i \in Slots :
        CreditPart(reservations', u, i) = CreditPart(reservations, u, i)
  BY DEF CreditPart
<1>3. \A u \in Users : HeldW(reservations', u) = HeldW(reservations, u) BY <1>1 DEF HeldW
<1>4. \A u \in Users, i \in Slots :
        Own(grants', reservations', u)[i] = Own(grants, reservations, u)[i]
  BY <1>2 DEF Own, HeldC
<1>5. GrantFrame(grants, grants') BY DEF GrantFrame
<1> QED BY <1>3, <1>4, <1>5, QuietStep

LEMMA MoneySettleAgain ==
  ASSUME MoneyInv, NEW u \in Users, NEW r \in ReservationIds, NEW k \in RequestKeys,
         NEW f \in Fingerprints, NEW e \in Tasks, NEW cost \in Costs,
         SettleAgain(u, r, k, f, e, cost)
  PROVE  MoneyInv'
<1>1. TypeOK /\ TypeOK' BY TypeSettleAgain DEF MoneyInv
<1>2. CASE Holding(r, u) BY <1>1, <1>2, MoneyRefund DEF SettleAgain
<1>3. CASE ~ Holding(r, u)
  <2>1. balance[u] \in Nat BY <1>1 DEF TypeOK
  <2>2. balance' = balance BY <1>1, <1>3, <2>1 DEF SettleAgain, TypeOK
  <2>3. grants' = grants /\ reservations' = reservations /\ ledger' = ledger
    BY <1>3 DEF SettleAgain
  <2> QED BY <1>1, <2>2, <2>3, MoneyFrame
<1> QED BY <1>2, <1>3

\* Steps that post one entry e for its user and move its money directly.
LEMMA PostingDirect ==
  ASSUME MoneyInv, TypeOK', UNCHANGED reservations,
         NEW e \in Entry, e \notin ledger, ledger' = ledger \cup {e},
         e.id.ns \notin {"pack-purchase", "credit-grant"},
         NEW u \in Users, e.user = u, balance' = [balance EXCEPT ![u] = @ + e.wallet],
         NEW d \in [Slots -> Nat], e.credit = -SumFunctionOnSet(d, Slots),
         GrantFrame(grants, grants'), \A v \in Users \ {u} : grants'[v] = grants[v],
         \A i \in Slots : grants'[u][i].remaining = grants[u][i].remaining - d[i]
  PROVE  MoneyInv'
<1>1. /\ TypeOK /\ reservations \in [ReservationIds -> Reservation]
      /\ grants \in [Users -> [Slots -> Grant]]
  BY DEF MoneyInv, TypeOK
<1>2. ASSUME NEW v \in Users
      PROVE  balance'[v] + HeldW(reservations', v)
               = balance[v] + HeldW(reservations, v) + IF e.user = v THEN e.wallet ELSE 0
  <2>1. /\ balance[v] \in Nat /\ HeldW(reservations, v) \in Nat /\ e.wallet \in Int
        /\ HeldW(reservations', v) = HeldW(reservations, v)
    BY <1>1, HeldNat DEF TypeOK, Entry
  <2>2. CASE v = u
    <3>1. balance'[v] = balance[v] + e.wallet BY <1>1, <2>2 DEF TypeOK
    <3>2. balance'[v] + HeldW(reservations', v) = balance[v] + HeldW(reservations, v) + e.wallet
      BY ONLY <2>1, <3>1
    <3> QED BY <2>2, <3>2
  <2>3. CASE v # u
    <3>1. balance'[v] = balance[v] BY <1>1, <2>3 DEF TypeOK
    <3>2. balance'[v] + HeldW(reservations', v) = balance[v] + HeldW(reservations, v) + 0
      BY ONLY <2>1, <3>1
    <3> QED BY <2>3, <3>2
  <2> QED BY <2>2, <2>3
<1>3. ASSUME NEW v \in Users, NEW i \in Slots
      PROVE  Own(grants', reservations', v)[i]
               = Own(grants, reservations, v)[i] - IF e.user = v THEN d[i] ELSE 0
  <2>1. /\ grants[v][i].remaining \in Nat /\ HeldC(reservations, v, i) \in Nat /\ d[i] \in Nat
        /\ HeldC(reservations', v, i) = HeldC(reservations, v, i)
    BY <1>1, HeldNat DEF Grant
  <2>2. /\ Own(grants, reservations, v)[i] = grants[v][i].remaining + HeldC(reservations, v, i)
        /\ Own(grants', reservations', v)[i] = grants'[v][i].remaining + HeldC(reservations', v, i)
    BY DEF Own
  <2>3. CASE v = u
    <3>1. grants'[v][i].remaining = grants[v][i].remaining - d[i] BY <2>3
    <3>2. Own(grants', reservations', v)[i] = Own(grants, reservations, v)[i] - d[i]
      BY ONLY <2>1, <2>2, <3>1
    <3> QED BY <2>3, <3>2
  <2>4. CASE v # u
    <3>1. grants'[v][i].remaining = grants[v][i].remaining BY <2>4
    <3>2. Own(grants', reservations', v)[i] = Own(grants, reservations, v)[i] - 0
      BY ONLY <2>1, <2>2, <3>1
    <3> QED BY <2>4, <3>2
  <2> QED BY <2>3, <2>4
<1> QED BY <1>2, <1>3, PostingStep

LEMMA MoneyTopup ==
  ASSUME MoneyInv, NEW u \in Users, NEW o \in OpKeys, NEW cents \in TopupAmounts,
         Topup(u, o, cents)
  PROVE  MoneyInv'
<1>1. TypeOK /\ TypeOK' BY TypeTopup DEF MoneyInv
<1> DEFINE e == LedgerEntry(u, OpId("raw", o), "topup", cents, 0)
           zero == [i \in Slots |-> 0]
<1>2. cents \in Nat BY MoneyAssumption
<1>3. /\ e \in Entry /\ e.user = u /\ e.wallet = cents /\ e.credit = 0
      /\ e.id = OpId("raw", o) /\ e.id.ns = "raw"
  <2>1. OpId("raw", o) \in LedgerId BY IdType
  <2>2. e \in Entry BY <1>2, <2>1, EntryType
  <2> QED BY <2>2 DEF LedgerEntry, OpId
<1>4. ledger' = ledger \cup {e} BY DEF Topup
<1> HIDE DEF e
<1>5. e \notin ledger BY <1>3 DEF Topup, Posted
<1>6. zero \in [Slots -> Nat] /\ \A i \in Slots : zero[i] = 0 OBVIOUS
<1> HIDE DEF zero
<1>7. e.credit = -SumFunctionOnSet(zero, Slots)
  <2>1. SumFunctionOnSet(zero, Slots) = 0 BY <1>6, SlotsFinite, SumZero
  <2> DEFINE x == SumFunctionOnSet(zero, Slots)
  <2>2. x \in Int BY <2>1
  <2> HIDE DEF x
  <2>3. -x = 0 - x BY <2>2
  <2>4. 0 - x = 0 BY <2>1 DEF x
  <2>5. e.credit = -x BY <2>3, <2>4, <1>3
  <2> QED BY <2>5 DEF x
<1>8. GrantFrame(grants, grants') BY DEF Topup, GrantFrame
<1>9. \A i \in Slots : grants'[u][i].remaining = grants[u][i].remaining - zero[i]
  <2> TAKE i \in Slots
  <2>1. grants[u][i].remaining \in Nat BY <1>1 DEF TypeOK, Grant
  <2>2. grants'[u][i].remaining = grants[u][i].remaining BY DEF Topup
  <2> QED BY ONLY <2>1, <2>2, <1>6
<1>10. balance' = [balance EXCEPT ![u] = @ + e.wallet] BY <1>3 DEF Topup
<1>11. UNCHANGED reservations /\ grants' = grants BY DEF Topup
<1> QED BY <1>1, <1>3, <1>4, <1>5, <1>6, <1>7, <1>8, <1>9, <1>10, <1>11, PostingDirect

LEMMA MoneyRecordUsage ==
  ASSUME MoneyInv, NEW u \in Users, NEW o \in OpKeys, NEW cost \in Costs,
         RecordUsage(u, o, cost)
  PROVE  MoneyInv'
<1>1. TypeOK /\ TypeOK' BY TypeRecordUsage DEF MoneyInv
<1>2. PICK a \in Draw(Spendable(grants[u]), balance[u], Billed(u, cost)) :
        /\ balance' = [balance EXCEPT ![u] = @ - a.wallet]
        /\ grants' = [grants EXCEPT ![u] = Spend(@, a.holds)]
        /\ ledger' = ledger \cup
              {LedgerEntry(u, OpId("raw", o), "usage", -a.wallet, -Credit(a))}
  BY DEF RecordUsage
<1>3. /\ grants[u] \in [Slots -> Grant] /\ balance[u] \in Nat
      /\ a.holds \in [Slots -> Nat] /\ a.wallet \in Nat /\ Credit(a) \in Nat
  <2>1. Billed(u, cost) \in Nat BY MoneyAssumption, BilledNat
  <2>2. grants[u] \in [Slots -> Grant] /\ balance[u] \in Nat BY <1>1 DEF TypeOK
  <2> QED BY <2>1, <2>2, SpendableType, DrawFacts
<1> DEFINE e == LedgerEntry(u, OpId("raw", o), "usage", -a.wallet, -Credit(a))
<1>4. /\ e \in Entry /\ e.user = u /\ e.wallet = -a.wallet /\ e.credit = -Credit(a)
      /\ e.id = OpId("raw", o) /\ e.id.ns = "raw"
  <2>1. OpId("raw", o) \in LedgerId BY IdType
  <2>2. -a.wallet \in Int /\ -Credit(a) \in Int BY <1>3
  <2>3. e \in Entry BY <2>1, <2>2, EntryType
  <2> QED BY <2>3 DEF LedgerEntry, OpId
<1>5. ledger' = ledger \cup {e} BY <1>2
<1> HIDE DEF e
<1>6. e \notin ledger BY <1>4 DEF RecordUsage, Posted
<1>7. e.credit = -SumFunctionOnSet(a.holds, Slots) BY <1>4 DEF Credit
<1>8. grants'[u] = Spend(grants[u], a.holds) /\ \A v \in Users \ {u} : grants'[v] = grants[v]
  BY <1>1, <1>2 DEF TypeOK
<1>9. \A i \in Slots :
        /\ grants'[u][i].remaining = grants[u][i].remaining - a.holds[i]
        /\ grants'[u][i].original = grants[u][i].original
        /\ grants'[u][i].key = grants[u][i].key
        /\ grants'[u][i].status = "none" => grants[u][i].status = "none"
  BY <1>3, <1>8, SpendFacts
<1>10. GrantFrame(grants, grants') BY <1>8, <1>9 DEF GrantFrame
<1>11. balance' = [balance EXCEPT ![u] = @ + e.wallet]
  <2>1. balance[u] - a.wallet = balance[u] + e.wallet BY <1>3, <1>4
  <2> QED BY <1>2, <2>1
<1>12. UNCHANGED reservations BY DEF RecordUsage
<1>13. \A i \in Slots : grants'[u][i].remaining = grants[u][i].remaining - a.holds[i] BY <1>9
<1>14. a.holds \in [Slots -> Nat] BY <1>3
<1> QED BY <1>1, <1>4, <1>5, <1>6, <1>7, <1>8, <1>10, <1>11, <1>12, <1>13, <1>14, PostingDirect

\* A reservation of u is consumed by an entry e of u: what it held comes back
\* and the grants lose d.
LEMMA PostingSettled ==
  ASSUME MoneyInv, TypeOK', NEW u \in Users, NEW r \in ReservationIds, Holding(r, u),
         reservations' = [reservations EXCEPT ![r].status = "settled"],
         NEW e \in Entry, e \notin ledger, ledger' = ledger \cup {e},
         e.id.ns \notin {"pack-purchase", "credit-grant"}, e.user = u,
         balance'[u] = balance[u] + reservations[r].wallet + e.wallet,
         NEW d \in [Slots -> Nat], e.credit = -SumFunctionOnSet(d, Slots),
         GrantFrame(grants, grants'),
         \A v \in Users \ {u} : balance'[v] = balance[v] /\ grants'[v] = grants[v],
         \A i \in Slots : grants'[u][i].remaining
            = grants[u][i].remaining + reservations[r].holds[i] - d[i]
  PROVE  MoneyInv'
<1>1. TypeOK /\ e.wallet \in Int BY DEF MoneyInv, Entry
<1>2. /\ reservations[r].status = "reserved" /\ reservations[r].user = u
      /\ reservations'[r].status = "settled"
      /\ \A q \in ReservationIds \ {r} : reservations'[q] = reservations[q]
  BY <1>1 DEF Holding, TypeOK, Reservation
<1>3. /\ WalletPart(reservations', u)[r] = 0
      /\ WalletPart(reservations, u)[r] = reservations[r].wallet
      /\ \A i \in Slots : CreditPart(reservations', u, i)[r] = 0
      /\ \A i \in Slots : CreditPart(reservations, u, i)[r] = reservations[r].holds[i]
  BY <1>2 DEF WalletPart, CreditPart
<1>4. \A v \in Users \ {u} :
        /\ balance'[v] = balance[v] /\ grants'[v] = grants[v]
        /\ WalletPart(reservations', v)[r] = WalletPart(reservations, v)[r]
        /\ \A i \in Slots : CreditPart(reservations', v, i)[r] = CreditPart(reservations, v, i)[r]
  <2>1. \A v \in Users \ {u} :
          /\ WalletPart(reservations', v)[r] = 0 /\ WalletPart(reservations, v)[r] = 0
          /\ \A i \in Slots : /\ CreditPart(reservations', v, i)[r] = 0
                             /\ CreditPart(reservations, v, i)[r] = 0
    BY <1>2 DEF WalletPart, CreditPart
  <2>2. \A v \in Users \ {u} : balance'[v] = balance[v] /\ grants'[v] = grants[v] OBVIOUS
  <2> QED BY ONLY <2>1, <2>2
<1>5. balance'[u] + WalletPart(reservations', u)[r]
        = balance[u] + WalletPart(reservations, u)[r] + e.wallet
  <2>1. balance[u] \in Nat /\ reservations[r].wallet \in Nat BY <1>1, HoldingType DEF TypeOK
  <2>2. balance'[u] = balance[u] + reservations[r].wallet + e.wallet OBVIOUS
  <2> QED BY ONLY <2>1, <2>2, <1>1, <1>3
<1>6. \A i \in Slots :
        /\ d[i] \in Int
        /\ grants'[u][i].remaining + CreditPart(reservations', u, i)[r]
             = grants[u][i].remaining + CreditPart(reservations, u, i)[r] - d[i]
  <2> TAKE i \in Slots
  <2>1. grants[u][i].remaining \in Nat /\ reservations[r].holds[i] \in Nat /\ d[i] \in Nat
    BY RoomForHolds
  <2>2. /\ CreditPart(reservations', u, i)[r] = 0
        /\ CreditPart(reservations, u, i)[r] = reservations[r].holds[i]
        /\ grants'[u][i].remaining
              = grants[u][i].remaining + reservations[r].holds[i] - d[i]
    BY <1>3
  <2> QED BY ONLY <2>1, <2>2
<1>7. /\ \A v \in Users : balance'[v] + HeldW(reservations', v)
            = balance[v] + HeldW(reservations, v) + IF v = u THEN e.wallet ELSE 0
      /\ \A v \in Users, i \in Slots : Own(grants', reservations', v)[i]
            = Own(grants, reservations, v)[i] - IF v = u THEN d[i] ELSE 0
  <2> DEFINE w == e.wallet
  <2>1. Transfer(u, r, w, d) BY <1>2, <1>4, <1>5, <1>6 DEF Transfer
  <2>2. w \in Int BY <1>1
  <2>3. TypeOK /\ TypeOK' BY <1>1
  <2> HIDE DEF w
  <2>4. Transferred(u, w, d)
    BY ONLY <2>1, <2>2, <2>3, u \in Users, r \in ReservationIds, TransferStep
  <2> QED BY ONLY <2>4 DEF Transferred, w
<1>8. /\ \A v \in Users : balance'[v] + HeldW(reservations', v)
            = balance[v] + HeldW(reservations, v) + IF e.user = v THEN e.wallet ELSE 0
      /\ \A v \in Users, i \in Slots : Own(grants', reservations', v)[i]
            = Own(grants, reservations, v)[i] - IF e.user = v THEN d[i] ELSE 0
  BY <1>7
<1> QED BY <1>8, PostingStep

\* When a reservation pays in full its whole credit is consumed.
LEMMA FullyPaid ==
  ASSUME TypeOK, NEW r \in ReservationIds,
         NEW paid, paid.holds \in [Slots -> Nat], paid.wallet \in Nat,
         paid.wallet <= reservations[r].wallet,
         \A i \in Slots : paid.holds[i] <= reservations[r].holds[i],
         Credit(paid) + paid.wallet = Total(reservations[r])
  PROVE  Credit(paid) = Credit(reservations[r]) /\ paid.wallet = reservations[r].wallet
<1>1. /\ reservations[r].wallet \in Nat /\ reservations[r].holds \in [Slots -> Nat]
      /\ Credit(reservations[r]) \in Nat
  BY HoldingType
<1>2. Credit(paid) \in Nat BY CreditNat
<1>3. Credit(paid) <= Credit(reservations[r])
  <2> DEFINE f == paid.holds
             h == reservations[r].holds
  <2>1. \A i \in Slots : f[i] \in Int /\ h[i] \in Int /\ f[i] <= h[i] BY <1>1
  <2> HIDE DEF f, h
  <2>2. SumFunctionOnSet(f, Slots) <= SumFunctionOnSet(h, Slots)
    BY <2>1, SlotsFinite, SumMonotone
  <2> QED BY <2>2 DEF f, h, Credit
<1>4. Total(reservations[r]) = Credit(reservations[r]) + reservations[r].wallet BY DEF Total
<1> QED BY <1>1, <1>2, <1>3, <1>4

LEMMA MoneySettleFirst ==
  ASSUME MoneyInv, NEW u \in Users, NEW r \in ReservationIds, NEW k \in RequestKeys,
         NEW f \in Fingerprints, NEW x \in Tasks, NEW cost \in Costs,
         SettleFirst(u, r, k, f, x, cost)
  PROVE  MoneyInv'
<1> DEFINE row == reservations[r]
           due == Billed(u, cost)
           covered == Lesser(due, Total(row))
<1>1. TypeOK /\ TypeOK' BY TypeSettleFirst DEF MoneyInv
<1>2. PICK paid \in Draw(row.holds, row.wallet, covered),
           extra \in Draw(Spendable(grants[u]), balance[u], due - covered) :
        /\ balance' = [balance EXCEPT ![u] = @ + row.wallet - paid.wallet - extra.wallet]
        /\ grants' = [grants EXCEPT ![u] =
              IF due > covered THEN Spend(@, extra.holds)
              ELSE RestoreGrants(@, [i \in Slots |-> row.holds[i] - paid.holds[i]])]
        /\ ledger' = ledger \cup {LedgerEntry(u, ChatId(k, f), "usage",
              -(paid.wallet + extra.wallet), -(Credit(paid) + Credit(extra)))}
  BY DEF SettleFirst
<1>3. due \in Nat BY MoneyAssumption, BilledNat
<1>4. /\ paid.holds \in [Slots -> Nat] /\ paid.wallet \in Nat
      /\ paid.wallet <= row.wallet
      /\ \A i \in Slots : paid.holds[i] <= row.holds[i]
      /\ Credit(paid) \in Nat
      /\ Credit(paid) + paid.wallet = covered
      /\ extra.holds \in [Slots -> Nat] /\ extra.wallet \in Nat
      /\ Credit(extra) \in Nat
      /\ Credit(extra) + extra.wallet = due - covered
  <2> HIDE DEF due
  <2> QED BY <1>1, <1>2, <1>3, SettleDraws
<1>5. /\ row.wallet \in Nat /\ row.holds \in [Slots -> Nat] /\ Total(row) \in Nat
      /\ grants[u] \in [Slots -> Grant] /\ balance[u] \in Nat
  BY <1>1, HoldingType DEF TypeOK
<1> DEFINE e == LedgerEntry(u, ChatId(k, f), "usage", -(paid.wallet + extra.wallet),
                            -(Credit(paid) + Credit(extra)))
<1>6. /\ e \in Entry /\ e.user = u /\ e.wallet = -(paid.wallet + extra.wallet)
      /\ e.credit = -(Credit(paid) + Credit(extra))
      /\ e.id = ChatId(k, f) /\ e.id.ns = "chat"
  <2>1. ChatId(k, f) \in LedgerId BY IdType
  <2>2. -(paid.wallet + extra.wallet) \in Int /\ -(Credit(paid) + Credit(extra)) \in Int
    BY <1>4
  <2>3. e \in Entry BY <2>1, <2>2, EntryType
  <2> QED BY <2>3 DEF LedgerEntry, ChatId
<1>7. ledger' = ledger \cup {e} BY <1>2
<1> HIDE DEF e
<1>8. e \notin ledger BY <1>6 DEF SettleFirst, Posted
<1>9. /\ Holding(r, u) /\ reservations' = [reservations EXCEPT ![r].status = "settled"]
  BY DEF SettleFirst
<1>10. \A v \in Users \ {u} : balance'[v] = balance[v] /\ grants'[v] = grants[v]
  BY <1>1, <1>2 DEF TypeOK
<1>11. balance'[u] = balance[u] + row.wallet + e.wallet
  <2>1. balance'[u] = balance[u] + row.wallet - paid.wallet - extra.wallet
    BY <1>1, <1>2 DEF TypeOK
  <2> HIDE DEF row
  <2> QED BY <2>1, <1>4, <1>5, <1>6
<1>12. grants'[u] = IF due > covered THEN Spend(grants[u], extra.holds)
                    ELSE RestoreGrants(grants[u], [i \in Slots |-> row.holds[i] - paid.holds[i]])
  BY <1>1, <1>2 DEF TypeOK
<1>13. CASE due > covered
  <2> DEFINE d == [i \in Slots |-> row.holds[i] + extra.holds[i]]
  <2>1. covered = Total(row)
    <3> HIDE DEF due, row
    <3> QED BY <1>3, <1>5, <1>13 DEF Lesser
  <2>2. Credit(paid) = Credit(row)
    BY <2>1, <1>1, <1>4, FullyPaid
  <2>3. d \in [Slots -> Nat] BY <1>4, <1>5
  <2>4. SumFunctionOnSet(d, Slots) = Credit(row) + Credit(extra)
    <3> DEFINE h == row.holds
               g == extra.holds
    <3>1. \A i \in Slots : h[i] \in Int /\ g[i] \in Int /\ d[i] = h[i] + g[i]
      BY <1>4, <1>5
    <3> HIDE DEF h, g, d
    <3>2. SumFunctionOnSet(d, Slots) = SumFunctionOnSet(h, Slots) + SumFunctionOnSet(g, Slots)
      BY ONLY <3>1, SlotsFinite, SumAdd
    <3> QED BY <3>2 DEF h, g, Credit
  <2>5. e.credit = -SumFunctionOnSet(d, Slots) BY <2>2, <2>4, <1>6
  <2>6. \A i \in Slots :
          /\ grants'[u][i].remaining = grants[u][i].remaining - extra.holds[i]
          /\ grants'[u][i].original = grants[u][i].original
          /\ grants'[u][i].key = grants[u][i].key
          /\ grants'[u][i].status = "none" => grants[u][i].status = "none"
    <3>1. grants'[u] = Spend(grants[u], extra.holds) BY <1>12, <1>13
    <3> QED BY <3>1, <1>4, <1>5, SpendFacts
  <2>7. \A i \in Slots : grants'[u][i].remaining
          = grants[u][i].remaining + reservations[r].holds[i] - d[i]
    <3> TAKE i \in Slots
    <3>1. /\ grants[u][i].remaining \in Nat /\ row.holds[i] \in Nat /\ extra.holds[i] \in Nat
      BY <1>4, <1>5 DEF Grant
    <3>2. d[i] = row.holds[i] + extra.holds[i] OBVIOUS
    <3>3. grants'[u][i].remaining = grants[u][i].remaining - extra.holds[i] BY <2>6
    <3> QED BY ONLY <3>1, <3>2, <3>3
  <2>8. GrantFrame(grants, grants') BY <1>10, <2>6 DEF GrantFrame
  <2> HIDE DEF d
  <2> QED BY <1>1, <1>6, <1>7, <1>8, <1>9, <1>10, <1>11, <2>3, <2>5, <2>7, <2>8, PostingSettled
<1>14. CASE ~ due > covered
  <2> DEFINE back == [i \in Slots |-> row.holds[i] - paid.holds[i]]
  <2>1. Credit(extra) = 0
    <3> HIDE DEF due, row
    <3>1. covered \in Nat /\ due - covered = 0 BY <1>3, <1>5, <1>14 DEF Lesser
    <3> QED BY <3>1, <1>4
  <2>2. e.credit = -SumFunctionOnSet(paid.holds, Slots)
    <3>1. Credit(paid) + Credit(extra) = Credit(paid) BY <2>1, <1>4
    <3> QED BY <3>1, <1>6 DEF Credit
  <2>3. \A i \in Slots :
          /\ grants[u][i].remaining \in Nat /\ row.holds[i] \in Nat /\ paid.holds[i] \in Nat
          /\ back[i] = row.holds[i] - paid.holds[i] /\ back[i] \in Nat
          /\ grants[u][i].remaining + back[i] <= grants[u][i].original
    <3> TAKE i \in Slots
    <3>1. /\ grants[u][i].remaining \in Nat /\ row.holds[i] \in Nat
          /\ grants[u][i].remaining + row.holds[i] <= grants[u][i].original
      BY <1>9, RoomForHolds
    <3>2. paid.holds[i] \in Nat /\ paid.holds[i] <= row.holds[i] BY <1>4
    <3>3. back[i] = row.holds[i] - paid.holds[i] OBVIOUS
    <3>4. grants[u][i].original \in Nat BY <1>5 DEF Grant
    <3> HIDE DEF back
    <3> QED BY ONLY <3>1, <3>2, <3>3, <3>4
  <2>4. back \in [Slots -> Nat] BY <2>3
  <2> HIDE DEF back
  <2>5. \A i \in Slots :
          /\ grants'[u][i].remaining = grants[u][i].remaining + back[i]
          /\ grants'[u][i].original = grants[u][i].original
          /\ grants'[u][i].key = grants[u][i].key
          /\ grants'[u][i].status = "none" => grants[u][i].status = "none"
    <3>1. grants'[u] = RestoreGrants(grants[u], back) BY <1>12, <1>14 DEF back
    <3> QED BY <3>1, <1>5, <2>3, <2>4, RestoreFacts
  <2>6. \A i \in Slots : grants'[u][i].remaining
          = grants[u][i].remaining + reservations[r].holds[i] - paid.holds[i]
    <3> TAKE i \in Slots
    <3>1. grants'[u][i].remaining = grants[u][i].remaining + back[i] BY <2>5
    <3>2. /\ grants[u][i].remaining \in Nat /\ row.holds[i] \in Nat /\ paid.holds[i] \in Nat
          /\ back[i] = row.holds[i] - paid.holds[i]
      BY <2>3
    <3> QED BY ONLY <3>1, <3>2
  <2>7. GrantFrame(grants, grants') BY <1>10, <2>5 DEF GrantFrame
  <2>8. paid.holds \in [Slots -> Nat] BY <1>4
  <2> QED BY <1>1, <1>6, <1>7, <1>8, <1>9, <1>10, <1>11, <2>2, <2>6, <2>7, <2>8, PostingSettled
<1> QED BY <1>13, <1>14

LEMMA MoneyPurchase ==
  ASSUME MoneyInv, NEW u \in Users, NEW o \in OpKeys, NEW pack \in Packs,
         PurchaseCreditPack(u, o, pack)
  PROVE  MoneyInv'
<1>1. TypeOK /\ TypeOK' BY TypePurchase DEF MoneyInv
<1>2. pack.price \in Nat /\ pack.credit \in Nat BY MoneyAssumption
<1> DEFINE paid == LedgerEntry(u, OpId("pack-purchase", o), "pack_purchase", -pack.price, 0)
           got == LedgerEntry(u, OpId("credit-grant", o), "credit_grant", 0, pack.credit)
           bought == [status |-> "active", past |-> FALSE, original |-> pack.credit,
                      remaining |-> pack.credit, key |-> o]
<1>3. /\ paid \in Entry /\ paid.user = u /\ paid.wallet = -pack.price /\ paid.credit = 0
      /\ paid.id.ns = "pack-purchase" /\ paid.id.key = o
  <2>1. OpId("pack-purchase", o) \in LedgerId BY IdType
  <2>2. -pack.price \in Int BY <1>2
  <2>3. paid \in Entry BY <2>1, <2>2, EntryType
  <2> QED BY <2>3 DEF LedgerEntry, OpId
<1>4. /\ got \in Entry /\ got.user = u /\ got.wallet = 0 /\ got.credit = pack.credit
      /\ got.id.ns = "credit-grant" /\ got.id.key = o
  <2>1. OpId("credit-grant", o) \in LedgerId BY IdType
  <2>2. got \in Entry BY <1>2, <2>1, EntryType
  <2> QED BY <2>2 DEF LedgerEntry, OpId
<1>5. ledger' = ledger \cup {paid, got} BY DEF PurchaseCreditPack
<1>6. PICK s \in Slots : /\ grants[u][s].status = "none"
                         /\ grants' = [grants EXCEPT ![u][s] = bought]
  BY DEF PurchaseCreditPack
<1>7. /\ bought.status = "active" /\ bought.original = pack.credit
      /\ bought.remaining = pack.credit /\ bought.key = o
  OBVIOUS
<1> HIDE DEF paid, got, bought
<1>8. paid \notin ledger /\ got \notin ledger
  <2>1. \A j \in Slots : grants[u][j].key # o BY DEF PurchaseCreditPack
  <2>2. \A e \in ledger : e.user = u /\ e.id.ns \in {"pack-purchase", "credit-grant"}
                             => e.id.key # o
    BY <2>1 DEF MoneyInv, PurchasesHaveGrants
  <2> QED BY <2>2, <1>3, <1>4
<1>9. /\ grants'[u][s] = bought
      /\ \A v \in Users, i \in Slots : v # u \/ i # s => grants'[v][i] = grants[v][i]
  BY <1>1, <1>6 DEF TypeOK
<1>10. PurchasesHaveGrants'
  <2> SUFFICES ASSUME NEW e \in ledger', e.id.ns \in {"pack-purchase", "credit-grant"}
               PROVE  \E i \in Slots : /\ grants'[e.user][i].status # "none"
                                       /\ grants'[e.user][i].key = e.id.key
    BY DEF PurchasesHaveGrants
  <2>1. CASE e \in {paid, got}
    <3>1. e.user = u /\ e.id.key = o BY <1>3, <1>4, <2>1
    <3> QED BY <1>7, <1>9, <3>1
  <2>2. CASE e \in ledger
    <3>1. e.user \in Users BY <1>1, <2>2 DEF TypeOK, Entry
    <3>2. PICK i \in Slots : /\ grants[e.user][i].status # "none"
                             /\ grants[e.user][i].key = e.id.key
      BY <2>2 DEF MoneyInv, PurchasesHaveGrants
    <3>3. grants'[e.user][i] = grants[e.user][i] BY <1>6, <1>9, <3>1, <3>2
    <3> QED BY <3>2, <3>3
  <2> QED BY <1>5, <2>1, <2>2
<1>11. IsFiniteSet(ledger') /\ IsFiniteSet(ledger \cup {paid})
  <2>1. IsFiniteSet(ledger \cup {paid}) BY FS_AddElement DEF MoneyInv
  <2>2. IsFiniteSet((ledger \cup {paid}) \cup {got}) BY <2>1, FS_AddElement
  <2>3. ledger' = (ledger \cup {paid}) \cup {got} BY <1>5
  <2> QED BY ONLY <2>1, <2>2, <2>3
<1>12. \A v \in Users :
         /\ PostedW(ledger, v) \in Int /\ PostedC(ledger, v) \in Int
         /\ PostedW(ledger', v) = PostedW(ledger, v) + (IF v = u THEN -pack.price ELSE 0)
         /\ PostedC(ledger', v) = PostedC(ledger, v) + (IF v = u THEN pack.credit ELSE 0)
  <2> TAKE v \in Users
  <2> DEFINE mid == ledger \cup {paid}
  <2>1. ledger \in SUBSET Entry /\ IsFiniteSet(ledger) BY <1>1 DEF TypeOK, MoneyInv
  <2>2. /\ PostedW(ledger, v) \in Int /\ PostedC(ledger, v) \in Int
        /\ PostedW(mid, v) = PostedW(ledger, v) + IF paid.user = v THEN paid.wallet ELSE 0
        /\ PostedC(mid, v) = PostedC(ledger, v) + IF paid.user = v THEN paid.credit ELSE 0
    BY <1>3, <1>8, <2>1, PostedStep
  <2>3. mid \in SUBSET Entry /\ IsFiniteSet(mid) BY <1>3, <1>11, <2>1
  <2>4. got \notin mid
    <3>1. got # paid BY <1>3, <1>4
    <3> QED BY <1>8, <3>1
  <2>5. ledger' = mid \cup {got} BY <1>5
  <2> HIDE DEF mid
  <2>6. /\ PostedW(ledger', v) = PostedW(mid, v) + IF got.user = v THEN got.wallet ELSE 0
        /\ PostedC(ledger', v) = PostedC(mid, v) + IF got.user = v THEN got.credit ELSE 0
    BY <1>4, <2>3, <2>4, <2>5, PostedStep
  <2> QED BY <1>2, <1>3, <1>4, <2>2, <2>6
<1>13. \A v \in Users : balance'[v] = balance[v] + (IF v = u THEN -pack.price ELSE 0)
  <2> TAKE v \in Users
  <2>1. balance[v] \in Nat BY <1>1 DEF TypeOK
  <2>2. balance'[v] = IF v = u THEN balance[v] - pack.price ELSE balance[v]
    BY <1>1 DEF PurchaseCreditPack, TypeOK
  <2> QED BY <1>2, <2>1, <2>2
<1>14. reservations' = reservations BY DEF PurchaseCreditPack
<1>15. WalletConserved'
  <2> SUFFICES ASSUME NEW v \in Users PROVE balance'[v] + HeldWallet(v)' = PostedWallet(v)'
    BY DEF WalletConserved
  <2>1. balance[v] + HeldW(reservations, v) = PostedW(ledger, v)
    BY SumsNow DEF MoneyInv, WalletConserved
  <2>2. balance[v] \in Nat /\ HeldW(reservations, v) \in Nat BY <1>1, HeldNat DEF TypeOK
  <2> DEFINE x == IF v = u THEN -pack.price ELSE 0
  <2>3. x \in Int BY <1>2
  <2>4. balance'[v] = balance[v] + x /\ PostedW(ledger', v) = PostedW(ledger, v) + x
    BY <1>12, <1>13
  <2> HIDE DEF x
  <2>5. balance'[v] + HeldW(reservations, v) = PostedW(ledger', v)
    BY ONLY <2>1, <2>2, <2>3, <2>4
  <2> QED BY <1>14, <2>5, SumsNext
<1>16. /\ grants[u][s].remaining = 0 /\ HeldC(reservations, u, s) = 0
       /\ Own(grants, reservations, u)[s] = 0
       /\ Own(grants', reservations', u)[s] = pack.credit
  <2>1. /\ grants[u][s].remaining \in Nat /\ HeldC(reservations, u, s) \in Nat
        /\ Own(grants, reservations, u)[s]
              = grants[u][s].remaining + HeldC(reservations, u, s)
    BY <1>1, HeldNat DEF TypeOK, Own, Grant
  <2>2. Own(grants, reservations, u)[s] <= 0
    BY <1>6 DEF MoneyInv, GrantsBounded
  <2>3. Own(grants', reservations', u)[s] = pack.credit + HeldC(reservations, u, s)
    BY <1>7, <1>9, <1>14 DEF Own
  <2> QED BY <1>2, <2>1, <2>2, <2>3
<1>17. \A v \in Users, i \in Slots : v # u \/ i # s =>
          Own(grants', reservations', v)[i] = Own(grants, reservations, v)[i]
  BY <1>9, <1>14 DEF Own
<1>18. GrantsBounded'
  <2> SUFFICES ASSUME NEW v \in Users, NEW i \in Slots
               PROVE  /\ Own(grants', reservations', v)[i] <= grants'[v][i].original
                      /\ grants'[v][i].status = "none" => grants'[v][i].original = 0
    BY DEF GrantsBounded
  <2>1. CASE v = u /\ i = s BY <1>2, <1>7, <1>9, <1>16, <2>1
  <2>2. CASE v # u \/ i # s BY <1>9, <1>17, <2>2 DEF MoneyInv, GrantsBounded
  <2> QED BY <2>1, <2>2
<1>19. CreditConserved'
  <2> SUFFICES ASSUME NEW v \in Users PROVE CreditOwned(v)' = PostedCredit(v)'
    BY DEF CreditConserved
  <2>1. Owned(grants, reservations, v) = PostedC(ledger, v)
    BY SumsNow DEF MoneyInv, CreditConserved
  <2> DEFINE f == Own(grants, reservations, v)
             h == Own(grants', reservations', v)
  <2>2. /\ \A i \in Slots : f[i] \in Nat
        /\ \A i \in Slots : h[i] \in Nat
    BY <1>1, OwnNat DEF TypeOK
  <2>3. CASE v = u
    <3>1. \A i \in Slots \ {s} : h[i] = f[i] BY <1>17
    <3>2. f[s] = 0 /\ h[s] = pack.credit BY <1>16, <2>3
    <3> HIDE DEF f, h
    <3>3. \A i \in Slots : f[i] \in Int BY <2>2
    <3>4. \A i \in Slots : h[i] \in Int BY <2>2
    <3>5. SumFunctionOnSet(h, Slots) = SumFunctionOnSet(f, Slots) + h[s] - f[s]
      <4>1. s \in Slots OBVIOUS
      <4> QED BY <4>1, <3>1, <3>3, <3>4, SlotsFinite, SumUpdate
    <3>6. SumFunctionOnSet(f, Slots) \in Int BY <3>3, SlotsFinite, SumInt
    <3>7. SumFunctionOnSet(h, Slots) = SumFunctionOnSet(f, Slots) + pack.credit
      BY <1>2, <3>2, <3>5, <3>6
    <3>8. Owned(grants', reservations', v) = Owned(grants, reservations, v) + pack.credit
      BY <3>7 DEF Owned, f, h
    <3>9. PostedC(ledger', v) = PostedC(ledger, v) + pack.credit BY <1>12, <2>3
    <3> QED BY <2>1, <3>8, <3>9, SumsNext
  <2>4. CASE v # u
    <3>1. \A i \in Slots : h[i] = f[i] BY <1>17, <2>4
    <3> HIDE DEF f, h
    <3>2. \A i \in Slots : f[i] \in Int BY <2>2
    <3>3. SumFunctionOnSet(h, Slots) = SumFunctionOnSet(f, Slots)
      BY <3>1, <3>2, SlotsFinite, SumSame
    <3>4. PostedC(ledger', v) = PostedC(ledger, v)
      <4>1. PostedC(ledger, v) \in Int BY <1>12
      <4>2. PostedC(ledger', v) = PostedC(ledger, v) + 0 BY <1>12, <2>4
      <4> QED BY <4>1, <4>2
    <3>5. Owned(grants', reservations', v) = Owned(grants, reservations, v)
      BY <3>3 DEF Owned, f, h
    <3> QED BY <2>1, <3>4, <3>5, SumsNext
  <2> QED BY <2>3, <2>4
<1> QED BY <1>1, <1>10, <1>11, <1>15, <1>18, <1>19 DEF MoneyInv

\* A batch of reservations is given back to its owners.
LEMMA ReapedSums ==
  ASSUME TypeOK, NEW rs \in SUBSET ReservationIds, NEW u \in Users,
         reservations' = [r \in ReservationIds |->
            IF r \in rs THEN [reservations[r] EXCEPT !.status = "released"] ELSE reservations[r]]
  PROVE  /\ HeldW(reservations, u) = HeldW(reservations', u) + ReapedWallet(rs, u)
         /\ \A i \in Slots : HeldC(reservations, u, i)
                = HeldC(reservations', u, i) + ReapedHolds(rs, u)[i]
<1>1. \A r \in ReservationIds : reservations[r] \in Reservation BY DEF TypeOK
<1>2. /\ \A r \in rs : reservations'[r].status = "released"
      /\ \A r \in ReservationIds \ rs : reservations'[r] = reservations[r]
  BY <1>1 DEF Reservation
<1>3. HeldW(reservations, u) = HeldW(reservations', u) + ReapedWallet(rs, u)
  <2> DEFINE f == WalletPart(reservations', u)
             h == WalletPart(reservations, u)
             d == [r \in ReservationIds |->
                     IF r \in rs /\ Holding(r, u) THEN reservations[r].wallet ELSE 0]
  <2>1. \A r \in ReservationIds : f[r] \in Int /\ d[r] \in Int /\ h[r] = f[r] + d[r]
    <3> TAKE r \in ReservationIds
    <3>1. reservations[r].wallet \in Nat BY <1>1 DEF Reservation
    <3>2. CASE r \in rs
      <4>1. f[r] = 0 BY <1>2, <3>2 DEF WalletPart
      <4>2. d[r] = h[r] BY <3>2 DEF WalletPart, Holding
      <4>3. h[r] \in Nat BY <3>1 DEF WalletPart
      <4> QED BY <4>1, <4>2, <4>3
    <3>3. CASE r \notin rs
      <4>1. d[r] = 0 BY <3>3
      <4>2. f[r] = h[r] BY <1>2, <3>3 DEF WalletPart
      <4>3. h[r] \in Nat BY <3>1 DEF WalletPart
      <4> QED BY <4>1, <4>2, <4>3
    <3> QED BY <3>2, <3>3
  <2> HIDE DEF f, h, d
  <2>2. SumFunctionOnSet(h, ReservationIds)
          = SumFunctionOnSet(f, ReservationIds) + SumFunctionOnSet(d, ReservationIds)
    BY <2>1, IdentityAssumption, SumAdd
  <2> QED BY <2>2 DEF f, h, d, HeldW, ReapedWallet
<1>4. ASSUME NEW i \in Slots
      PROVE  HeldC(reservations, u, i) = HeldC(reservations', u, i) + ReapedHolds(rs, u)[i]
  <2> DEFINE f == CreditPart(reservations', u, i)
             h == CreditPart(reservations, u, i)
             d == [r \in ReservationIds |->
                     IF r \in rs /\ Holding(r, u) THEN reservations[r].holds[i] ELSE 0]
  <2>1. \A r \in ReservationIds : f[r] \in Int /\ d[r] \in Int /\ h[r] = f[r] + d[r]
    <3> TAKE r \in ReservationIds
    <3>1. reservations[r].holds[i] \in Nat BY <1>1 DEF Reservation
    <3>2. CASE r \in rs
      <4>1. f[r] = 0 BY <1>2, <3>2 DEF CreditPart
      <4>2. d[r] = h[r] BY <3>2 DEF CreditPart, Holding
      <4>3. h[r] \in Nat BY <3>1 DEF CreditPart
      <4> QED BY <4>1, <4>2, <4>3
    <3>3. CASE r \notin rs
      <4>1. d[r] = 0 BY <3>3
      <4>2. f[r] = h[r] BY <1>2, <3>3 DEF CreditPart
      <4>3. h[r] \in Nat BY <3>1 DEF CreditPart
      <4> QED BY <4>1, <4>2, <4>3
    <3> QED BY <3>2, <3>3
  <2>2. ReapedHolds(rs, u)[i] = SumFunctionOnSet(d, ReservationIds) BY DEF ReapedHolds
  <2> HIDE DEF f, h, d
  <2>3. SumFunctionOnSet(h, ReservationIds)
          = SumFunctionOnSet(f, ReservationIds) + SumFunctionOnSet(d, ReservationIds)
    BY <2>1, IdentityAssumption, SumAdd
  <2> QED BY <2>2, <2>3 DEF f, h, HeldC
<1> QED BY <1>3, <1>4

LEMMA MoneyReap == ASSUME MoneyInv, ReapExpired PROVE MoneyInv'
<1>1. TypeOK /\ TypeOK' BY TypeReap DEF MoneyInv
<1>2. PICK rs \in SUBSET ReservationIds :
        /\ reservations' = [r \in ReservationIds |->
              IF r \in rs THEN [reservations[r] EXCEPT !.status = "released"]
              ELSE reservations[r]]
        /\ balance' = [u \in Users |-> balance[u] + ReapedWallet(rs, u)]
        /\ grants' = [u \in Users |-> RestoreGrants(grants[u], ReapedHolds(rs, u))]
  BY DEF ReapExpired, Reapable
<1>3. ASSUME NEW u \in Users
      PROVE  balance'[u] + HeldW(reservations', u) = balance[u] + HeldW(reservations, u)
  <2>1. HeldW(reservations, u) = HeldW(reservations', u) + ReapedWallet(rs, u)
    BY <1>1, <1>2, ReapedSums
  <2>2. /\ balance[u] \in Nat /\ HeldW(reservations', u) \in Nat /\ ReapedWallet(rs, u) \in Nat
    BY <1>1, HeldNat, ReapedNat DEF TypeOK
  <2>3. balance'[u] = balance[u] + ReapedWallet(rs, u) BY <1>2
  <2> QED BY ONLY <2>1, <2>2, <2>3
<1>4. ASSUME NEW u \in Users, NEW i \in Slots
      PROVE  /\ Own(grants', reservations', u)[i] = Own(grants, reservations, u)[i]
             /\ grants'[u][i].original = grants[u][i].original
             /\ grants'[u][i].key = grants[u][i].key
             /\ grants'[u][i].status = "none" => grants[u][i].status = "none"
  <2> DEFINE back == ReapedHolds(rs, u)
  <2>1. back \in [Slots -> Nat] BY <1>1, ReapedNat
  <2>2. HeldC(reservations, u, i) = HeldC(reservations', u, i) + back[i]
    BY <1>1, <1>2, ReapedSums
  <2>3. grants'[u] = RestoreGrants(grants[u], back) BY <1>2
  <2> HIDE DEF back
  <2>4. /\ grants[u] \in [Slots -> Grant] /\ grants[u][i].remaining \in Nat
        /\ grants[u][i].original \in Nat
        /\ HeldC(reservations', u, i) \in Nat /\ back[i] \in Nat
    BY <1>1, <2>1, HeldNat DEF TypeOK, Grant
  <2>5. /\ Own(grants, reservations, u)[i] = grants[u][i].remaining + HeldC(reservations, u, i)
        /\ Own(grants', reservations', u)[i] = grants'[u][i].remaining + HeldC(reservations', u, i)
    BY DEF Own
  <2>6. Own(grants, reservations, u)[i] <= grants[u][i].original
    BY DEF MoneyInv, GrantsBounded
  <2>7. grants[u][i].remaining + back[i] <= grants[u][i].original
    BY ONLY <2>2, <2>4, <2>5, <2>6
  <2>8. /\ grants'[u][i].remaining = grants[u][i].remaining + back[i]
        /\ grants'[u][i].original = grants[u][i].original
        /\ grants'[u][i].key = grants[u][i].key
        /\ grants'[u][i].status = "none" => grants[u][i].status = "none"
    BY <2>1, <2>3, <2>4, <2>7, RestoreFacts
  <2>9. Own(grants', reservations', u)[i] = Own(grants, reservations, u)[i]
    BY ONLY <2>2, <2>4, <2>5, <2>8
  <2> QED BY <2>8, <2>9
<1>5. GrantFrame(grants, grants') BY <1>4 DEF GrantFrame
<1>6. UNCHANGED ledger BY DEF ReapExpired
<1> QED BY <1>1, <1>3, <1>4, <1>5, <1>6, QuietStep

LEMMA MoneyOthers ==
  ASSUME MoneyInv,
         \/ \E u \in Users, k \in RequestKeys, f \in Fingerprints, e \in Tasks :
               \/ ClaimChatRequest(u, k, f, e)
               \/ ClaimRefused(u, k, f, e)
               \/ FailChatRequest(u, k, f, e)
         \/ \E r \in ReservationIds : LapseReservation(r)
         \/ \E u \in Users, i \in Slots : LapseGrant(u, i)
         \/ \E u \in Users : MarkExpired(u)
         \/ \E u \in Users, k \in RequestKeys : LapseChat(u, k)
         \/ \E e \in Executions : EndExecution(e)
  PROVE  MoneyInv'
<1>1. TypeOK /\ TypeOK' BY TypeClaims, TypeTime DEF MoneyInv
<1>2. UNCHANGED <<balance, ledger>>
  BY DEF ClaimChatRequest, ClaimRefused, FailChatRequest, LapseReservation, LapseGrant,
         MarkExpired, LapseChat, EndExecution
<1>3. \A r \in ReservationIds :
        /\ reservations'[r].status = reservations[r].status
        /\ reservations'[r].user = reservations[r].user
        /\ reservations'[r].wallet = reservations[r].wallet
        /\ reservations'[r].holds = reservations[r].holds
  <2>1. CASE \E r \in ReservationIds : LapseReservation(r)
    <3>1. PICK q \in ReservationIds : LapseReservation(q) BY <2>1
    <3>2. \A r \in ReservationIds : reservations[r] \in Reservation BY <1>1 DEF TypeOK
    <3>3. \A r \in ReservationIds : reservations'[r] =
            IF r = q THEN [reservations[r] EXCEPT !.leased = FALSE] ELSE reservations[r]
      BY <1>1, <3>1 DEF LapseReservation, TypeOK
    <3> QED BY <3>2, <3>3 DEF Reservation
  <2>2. CASE ~ \E r \in ReservationIds : LapseReservation(r)
    <3>1. reservations' = reservations
      BY <2>2 DEF ClaimChatRequest, ClaimRefused, FailChatRequest, LapseGrant, MarkExpired,
                  LapseChat, EndExecution
    <3> QED BY <3>1
  <2> QED BY <2>1, <2>2
<1>4. \A u \in Users, i \in Slots :
        /\ grants'[u][i].remaining = grants[u][i].remaining
        /\ grants'[u][i].original = grants[u][i].original
        /\ grants'[u][i].key = grants[u][i].key
        /\ grants'[u][i].status = "none" => grants[u][i].status = "none"
  <2>1. CASE \E u \in Users, i \in Slots : LapseGrant(u, i)
    <3>1. PICK v \in Users, j \in Slots : LapseGrant(v, j) BY <2>1
    <3>2. \A u \in Users, i \in Slots : grants[u][i] \in Grant BY <1>1 DEF TypeOK
    <3>3. \A u \in Users, i \in Slots : grants'[u][i] =
            IF u = v /\ i = j THEN [grants[u][i] EXCEPT !.past = TRUE] ELSE grants[u][i]
      BY <1>1, <3>1 DEF LapseGrant, TypeOK
    <3> TAKE u \in Users, i \in Slots
    <3>4. CASE u = v /\ i = j
      <4>1. grants[u][i] \in Grant /\ grants'[u][i] = [grants[u][i] EXCEPT !.past = TRUE]
        BY <3>2, <3>3, <3>4
      <4> QED BY ONLY <4>1 DEF Grant
    <3>5. CASE ~ (u = v /\ i = j)
      <4>1. grants'[u][i] = grants[u][i] BY <3>3, <3>5
      <4> QED BY <4>1
    <3> QED BY <3>4, <3>5
  <2>2. CASE \E u \in Users : MarkExpired(u)
    <3>1. PICK v \in Users : MarkExpired(v) BY <2>2
    <3> DEFINE none == [i \in Slots |-> 0]
    <3>2. \A u \in Users : grants'[u] = IF u = v THEN Spend(grants[u], none) ELSE grants[u]
      BY <1>1, <3>1 DEF MarkExpired, TypeOK
    <3>3. none \in [Slots -> Nat] /\ \A i \in Slots : none[i] = 0 OBVIOUS
    <3> HIDE DEF none
    <3> TAKE u \in Users, i \in Slots
    <3>4. grants[u] \in [Slots -> Grant] /\ grants[u][i].remaining \in Nat
      BY <1>1 DEF TypeOK, Grant
    <3>5. CASE u = v
      <4>1. /\ Spend(grants[u], none)[i].remaining = grants[u][i].remaining - none[i]
            /\ Spend(grants[u], none)[i].original = grants[u][i].original
            /\ Spend(grants[u], none)[i].key = grants[u][i].key
            /\ Spend(grants[u], none)[i].status = "none" => grants[u][i].status = "none"
        BY <3>3, <3>4, SpendFacts
      <4>2. grants[u][i].remaining - none[i] = grants[u][i].remaining BY <3>3, <3>4
      <4>3. grants'[u] = Spend(grants[u], none) BY <3>2, <3>5
      <4> QED BY <4>1, <4>2, <4>3
    <3>6. CASE u # v BY <3>2, <3>6
    <3> QED BY <3>5, <3>6
  <2>3. CASE ~ (\E u \in Users, i \in Slots : LapseGrant(u, i)) /\ ~ \E u \in Users : MarkExpired(u)
    <3>1. grants' = grants
      BY <2>3 DEF ClaimChatRequest, ClaimRefused, FailChatRequest, LapseReservation,
                  LapseChat, EndExecution
    <3> QED BY <3>1
  <2> QED BY <2>1, <2>2, <2>3
<1> QED BY <1>1, <1>2, <1>3, <1>4, MoneyFrame

LEMMA MoneyInit == Init => MoneyInv
<1> SUFFICES ASSUME Init PROVE MoneyInv OBVIOUS
<1>1. TypeOK BY TypeInit
<1>2. IsFiniteSet(ledger)
  <2> DEFINE f == [u \in Users |-> TrialEntry(u)]
  <2>1. f \in Surjection(Users, ledger) BY DEF Init, Surjection
  <2> HIDE DEF f
  <2> QED BY <2>1, IdentityAssumption, FS_Surjection
<1>3. /\ \A u \in Users : TrialEntry(u) \in ledger
      /\ \A e \in ledger : \E u \in Users : e = TrialEntry(u)
  BY DEF Init
<1>4. \A u \in Users :
        /\ TrialEntry(u).user = u /\ TrialEntry(u).id.ns = "trial-credit"
        /\ TrialEntry(u).wallet = 0 /\ TrialEntry(u).credit = TrialCredit
  BY DEF TrialEntry, LedgerEntry, OpId
<1>5. TrialCredit \in Nat BY MoneyAssumption
<1>6. ASSUME NEW u \in Users
      PROVE  /\ HeldW(reservations, u) = 0
             /\ \A i \in Slots : HeldC(reservations, u, i) = 0
  <2>1. \A r \in ReservationIds : reservations[r].status = "none" BY DEF Init, NoReservation
  <2>2. \A r \in ReservationIds : WalletPart(reservations, u)[r] = 0 BY <2>1 DEF WalletPart
  <2>3. \A i \in Slots, r \in ReservationIds : CreditPart(reservations, u, i)[r] = 0
    BY <2>1 DEF CreditPart
  <2>4. HeldW(reservations, u) = 0 BY <2>2, IdentityAssumption, SumZero DEF HeldW
  <2>5. \A i \in Slots : HeldC(reservations, u, i) = 0
    BY <2>3, IdentityAssumption, SumZero DEF HeldC
  <2> QED BY <2>4, <2>5
<1>7. ASSUME NEW u \in Users, NEW i \in Slots
      PROVE  /\ grants[u][i].original = IF i = 1 THEN TrialCredit ELSE 0
             /\ grants[u][i].remaining = IF i = 1 THEN TrialCredit ELSE 0
             /\ grants[u][i].status = "none" => i # 1
             /\ Own(grants, reservations, u)[i] = IF i = 1 THEN TrialCredit ELSE 0
  <2>1. grants[u][i] = IF i = 1 THEN TrialGrant ELSE NoGrant BY DEF Init
  <2>2. /\ grants[u][i].original = IF i = 1 THEN TrialCredit ELSE 0
        /\ grants[u][i].remaining = IF i = 1 THEN TrialCredit ELSE 0
        /\ grants[u][i].status = "none" => i # 1
    BY <2>1 DEF TrialGrant, NoGrant
  <2>3. Own(grants, reservations, u)[i] = grants[u][i].remaining + HeldC(reservations, u, i)
    BY DEF Own
  <2> QED BY <1>5, <1>6, <2>2, <2>3
<1>8. PurchasesHaveGrants BY <1>3, <1>4 DEF PurchasesHaveGrants
<1>9. GrantsBounded BY <1>5, <1>7 DEF GrantsBounded
<1>10. WalletConserved
  <2> SUFFICES ASSUME NEW u \in Users PROVE balance[u] + HeldWallet(u) = PostedWallet(u)
    BY DEF WalletConserved
  <2> DEFINE f == [e \in ledger |-> IF e.user = u THEN e.wallet ELSE 0]
  <2>1. \A e \in ledger : f[e] = 0 BY <1>3, <1>4
  <2>2. PostedWallet(u) = SumFunctionOnSet(f, ledger) BY DEF PostedWallet
  <2> HIDE DEF f
  <2>3. SumFunctionOnSet(f, ledger) = 0 BY <1>2, <2>1, SumZero
  <2>4. balance[u] = 0 BY DEF Init
  <2> QED BY <1>6, <2>2, <2>3, <2>4, SumsNow
<1>11. CreditConserved
  <2> SUFFICES ASSUME NEW u \in Users PROVE CreditOwned(u) = PostedCredit(u)
    BY DEF CreditConserved
  <2> DEFINE own == Own(grants, reservations, u)
             f == [e \in ledger |-> IF e.user = u THEN e.credit ELSE 0]
             mine == TrialEntry(u)
  <2>1. \A i \in Slots : own[i] = IF i = 1 THEN TrialCredit ELSE 0 BY <1>7
  <2>2. Owned(grants, reservations, u) = SumFunctionOnSet(own, Slots) BY DEF Owned
  <2>3. PostedCredit(u) = SumFunctionOnSet(f, ledger) BY DEF PostedCredit
  <2>4. mine \in ledger /\ f[mine] = TrialCredit BY <1>3, <1>4
  <2>5. \A e \in ledger \ {mine} : f[e] = 0 BY <1>3, <1>4
  <2> HIDE DEF own, f, mine
  <2>6. SumFunctionOnSet(own, Slots) = TrialCredit
    <3>1. 1 \in Slots BY IdentityAssumption DEF Slots
    <3>2. \A i \in Slots : own[i] \in Int BY <1>5, <2>1
    <3>3. SumFunctionOnSet(own, Slots) = own[1] + SumFunctionOnSet(own, Slots \ {1})
      BY <3>1, <3>2, SlotsFinite, SumRemove
    <3> DEFINE T == Slots \ {1}
    <3>4. IsFiniteSet(T) BY SlotsFinite, FS_RemoveElement
    <3>5. \A i \in T : own[i] = 0 BY <2>1
    <3>6. own[1] = TrialCredit BY <2>1, <3>1
    <3>7. SumFunctionOnSet(own, Slots) = own[1] + SumFunctionOnSet(own, T) BY <3>3
    <3> HIDE DEF T
    <3>8. SumFunctionOnSet(own, T) = 0 BY <3>4, <3>5, SumZero
    <3> QED BY <1>5, <3>6, <3>7, <3>8
  <2>7. SumFunctionOnSet(f, ledger) = TrialCredit
    <3>1. \A e \in ledger : f[e] \in Int BY <1>5, <2>4, <2>5
    <3>2. SumFunctionOnSet(f, ledger) = f[mine] + SumFunctionOnSet(f, ledger \ {mine})
      BY <1>2, <2>4, <3>1, SumRemove
    <3> DEFINE T == ledger \ {mine}
    <3>3. IsFiniteSet(T) BY <1>2, FS_RemoveElement
    <3>4. \A e \in T : f[e] = 0 BY <2>5
    <3>5. SumFunctionOnSet(f, ledger) = f[mine] + SumFunctionOnSet(f, T) BY <3>2
    <3> HIDE DEF T
    <3>6. SumFunctionOnSet(f, T) = 0 BY <3>3, <3>4, SumZero
    <3> QED BY <1>5, <2>4, <3>5, <3>6
  <2> QED BY <2>2, <2>3, <2>6, <2>7, SumsNow
<1> QED BY <1>1, <1>2, <1>8, <1>9, <1>10, <1>11 DEF MoneyInv

LEMMA MoneyNext == MoneyInv /\ [Next]_vars => MoneyInv'
<1> SUFFICES ASSUME MoneyInv, [Next]_vars PROVE MoneyInv' OBVIOUS
<1>1. CASE UNCHANGED vars
  <2>1. TypeOK' BY <1>1, TypeNext DEF MoneyInv
  <2>2. /\ balance' = balance /\ ledger' = ledger /\ grants' = grants
        /\ reservations' = reservations
    BY <1>1 DEF vars
  <2> QED BY <2>1, <2>2, MoneyFrame
<1>2. CASE Next
  BY <1>2, MoneyTopup, MoneyPurchase, MoneyRecordUsage, MoneyReserve, MoneyRelease,
     MoneyReap, MoneySettleAgain, MoneySettleFirst, MoneyOthers DEF Next
<1> QED BY <1>1, <1>2

LEMMA MoneyAlways == Spec => []MoneyInv
BY MoneyInit, MoneyNext, PTL DEF Spec

\* For any users, keys, amounts and number of grants, and in any order of the
\* transactions: a wallet and what reservations hold of it add up to its ledger,
\* so the opening_balance correction made at a start of the server is zero.
THEOREM WalletConservation == Spec => []WalletConserved
<1>1. MoneyInv => WalletConserved BY DEF MoneyInv
<1> QED BY <1>1, MoneyAlways, PTL

\* The same for the credit of an account: allocateFunds, restoreGrants and the
\* reaper neither lose nor create a cent of it.
THEOREM CreditConservation == Spec => []CreditConserved
<1>1. MoneyInv => CreditConserved BY DEF MoneyInv
<1> QED BY <1>1, MoneyAlways, PTL


(***************************************************************************)
(* Cached answers and the ledger.                                          *)
(***************************************************************************)

\* Steps that leave the chat rows alone and post nothing for a chat.
LEMMA ChatFrame ==
  ASSUME ChatBillingConsistent, chat' = chat, ledger \subseteq ledger',
         \A e \in ledger' \ ledger : e.id.ns # "chat"
  PROVE  ChatBillingConsistent'
<1> SUFFICES ASSUME NEW u \in Users, NEW k \in RequestKeys
             PROVE  /\ chat[u][k].status = "complete" => Posted(u, ChatId(k, chat[u][k].fp))' # {}
                    /\ chat[u][k].status = "failed" => Posted(u, ChatId(k, chat[u][k].fp))' = {}
  BY DEF ChatBillingConsistent, Posted, ChatId
<1> DEFINE id == ChatId(k, chat[u][k].fp)
<1>1. id.ns = "chat" BY DEF ChatId
<1>2. \A i : i.ns = "chat" => {e \in ledger' : e.user = u /\ e.id = i} = Posted(u, i)
  BY DEF Posted
<1>3. Posted(u, ChatId(k, chat[u][k].fp))' = Posted(u, id)
  <2>1. Posted(u, ChatId(k, chat[u][k].fp))' = {e \in ledger' : e.user = u /\ e.id = id}
    BY DEF Posted, ChatId
  <2> HIDE DEF id
  <2> QED BY <1>1, <1>2, <2>1
<1> QED BY <1>3 DEF ChatBillingConsistent

\* Steps that change one chat row and nothing in the ledger.
LEMMA ChatRowChange ==
  ASSUME TypeOK, ChatBillingConsistent, UNCHANGED ledger,
         NEW u \in Users, NEW k \in RequestKeys, NEW row,
         chat' = [chat EXCEPT ![u][k] = row],
         row.status = "complete" => Posted(u, ChatId(k, row.fp)) # {},
         row.status = "failed" => Posted(u, ChatId(k, row.fp)) = {}
  PROVE  ChatBillingConsistent'
BY DEF ChatBillingConsistent, Posted, TypeOK

LEMMA ChatClaims ==
  ASSUME TypeOK, ChatBillingConsistent,
         NEW u \in Users, NEW k \in RequestKeys, NEW f \in Fingerprints, NEW e \in Tasks,
         ClaimChatRequest(u, k, f, e) \/ ClaimRefused(u, k, f, e)
  PROVE  ChatBillingConsistent'
<1>1. \A v \in Users, j \in RequestKeys :
        \/ chat'[v][j] = chat[v][j]
        \/ chat'[v][j].status \in {"none", "pending"}
  <2>1. SweepStale \in [Users -> [RequestKeys -> ChatRow]] BY SweepType
  <2>2. \A v \in Users, j \in RequestKeys :
          SweepStale[v][j] = chat[v][j] \/ SweepStale[v][j].status = "none"
    BY DEF SweepStale, NoChat
  <2> QED BY <2>1, <2>2 DEF ClaimChatRequest, ClaimRefused
<1>2. UNCHANGED ledger BY DEF ClaimChatRequest, ClaimRefused
<1> QED BY <1>1, <1>2 DEF ChatBillingConsistent, Posted

LEMMA ChatFail ==
  ASSUME TypeOK, ChatBillingConsistent,
         NEW u \in Users, NEW k \in RequestKeys, NEW f \in Fingerprints, NEW e \in Tasks,
         FailChatRequest(u, k, f, e)
  PROVE  ChatBillingConsistent'
<1> DEFINE row == Marked(chat[u][k], "failed")
<1>1. row.status = "failed" /\ row.fp = f
  <2>1. chat[u][k] \in ChatRow /\ chat[u][k].fp = f BY DEF FailChatRequest, TypeOK
  <2> QED BY <2>1 DEF Marked, ChatRow
<1>2. chat' = [chat EXCEPT ![u][k] = row] BY DEF FailChatRequest, TypeOK
<1> HIDE DEF row
<1>3. Posted(u, ChatId(k, row.fp)) = {} BY <1>1 DEF FailChatRequest
<1>4. row.status # "complete" /\ UNCHANGED ledger BY <1>1 DEF FailChatRequest
<1> QED BY <1>2, <1>3, <1>4, ChatRowChange

LEMMA ChatSettleAgain ==
  ASSUME TypeOK, ChatBillingConsistent,
         NEW u \in Users, NEW r \in ReservationIds, NEW k \in RequestKeys,
         NEW f \in Fingerprints, NEW e \in Tasks, NEW cost \in Costs,
         SettleAgain(u, r, k, f, e, cost)
  PROVE  ChatBillingConsistent'
<1>1. Posted(u, ChatId(k, f)) # {} BY DEF SettleAgain
<1>2. CASE chat[u][k].status = "pending"
  <2> DEFINE row == Marked(chat[u][k], "complete")
  <2>1. row.status = "complete" /\ row.fp = f
    BY DEF Marked, SettleAgain, SettleableChat, TypeOK, ChatRow
  <2>2. chat' = [chat EXCEPT ![u][k] = row] BY <1>2 DEF SettleAgain, TypeOK
  <2> HIDE DEF row
  <2> QED BY <1>1, <2>1, <2>2, ChatRowChange DEF SettleAgain
<1>3. CASE chat[u][k].status # "pending" BY <1>3 DEF SettleAgain, ChatBillingConsistent, Posted
<1> QED BY <1>2, <1>3

\* What a first settlement does to the ledger and the chat row.
LEMMA SettleFirstPosts ==
  ASSUME TypeOK, NEW u \in Users, NEW r \in ReservationIds, NEW k \in RequestKeys,
         NEW f \in Fingerprints, NEW e \in Tasks, NEW cost \in Costs,
         SettleFirst(u, r, k, f, e, cost)
  PROVE  /\ \E w, c : ledger' = ledger \cup {LedgerEntry(u, ChatId(k, f), "usage", w, c)}
         /\ chat' = [chat EXCEPT ![u][k] = Marked(chat[u][k], "complete")]
         /\ chat[u][k].fp = f
<1>1. \E w, c : ledger' = ledger \cup {LedgerEntry(u, ChatId(k, f), "usage", w, c)}
  BY DEF SettleFirst
<1> QED BY <1>1 DEF SettleFirst, SettleableChat, TypeOK

LEMMA ChatSettleFirst ==
  ASSUME TypeOK, ChatBillingConsistent,
         NEW u \in Users, NEW r \in ReservationIds, NEW k \in RequestKeys,
         NEW f \in Fingerprints, NEW e \in Tasks, NEW cost \in Costs,
         SettleFirst(u, r, k, f, e, cost)
  PROVE  ChatBillingConsistent'
<1>1. PICK w, c : ledger' = ledger \cup {LedgerEntry(u, ChatId(k, f), "usage", w, c)}
  BY SettleFirstPosts
<1> DEFINE new == LedgerEntry(u, ChatId(k, f), "usage", w, c)
           row == Marked(chat[u][k], "complete")
<1>2. new.user = u /\ new.id = ChatId(k, f) BY DEF LedgerEntry
<1>3. chat' = [chat EXCEPT ![u][k] = row] BY SettleFirstPosts
<1>4. row.status = "complete" /\ row.fp = f
  <2>1. chat[u][k].fp = f BY SettleFirstPosts
  <2>2. chat[u][k] \in ChatRow BY DEF TypeOK
  <2> QED BY <2>1, <2>2 DEF Marked, ChatRow
<1> HIDE DEF new, row
<1>5. \A v \in Users, j \in RequestKeys : \A g :
        <<v, j>> # <<u, k>> => Posted(v, ChatId(j, g))' = Posted(v, ChatId(j, g))
  <2> SUFFICES ASSUME NEW v \in Users, NEW j \in RequestKeys, NEW g, <<v, j>> # <<u, k>>
               PROVE  Posted(v, ChatId(j, g))' = Posted(v, ChatId(j, g))
    OBVIOUS
  <2>1. ~ (new.user = v /\ new.id = ChatId(j, g)) BY <1>2 DEF ChatId
  <2>2. ChatId(j, g)' = ChatId(j, g) BY DEF ChatId
  <2> QED BY <1>1, <2>1, <2>2 DEF Posted, new
<1>6. Posted(u, ChatId(k, f))' # {} BY <1>1, <1>2 DEF Posted, new, ChatId
<1>7. \A v \in Users, j \in RequestKeys :
        <<v, j>> # <<u, k>> => chat'[v][j] = chat[v][j]
  BY <1>3 DEF TypeOK
<1>8. chat'[u][k] = row BY <1>3 DEF TypeOK
<1> QED BY <1>4, <1>5, <1>6, <1>7, <1>8 DEF ChatBillingConsistent

LEMMA ChatNext == TypeOK /\ ChatBillingConsistent /\ [Next]_vars => ChatBillingConsistent'
<1> SUFFICES ASSUME TypeOK, ChatBillingConsistent, [Next]_vars PROVE ChatBillingConsistent'
  OBVIOUS
<1>1. CASE UNCHANGED vars BY <1>1, ChatFrame DEF vars
<1>2. ASSUME NEW u \in Users, NEW o \in OpKeys, NEW c \in TopupAmounts, Topup(u, o, c)
      PROVE  ChatBillingConsistent'
  BY <1>2, ChatFrame DEF Topup, LedgerEntry, OpId
<1>3. ASSUME NEW u \in Users, NEW o \in OpKeys, NEW p \in Packs, PurchaseCreditPack(u, o, p)
      PROVE  ChatBillingConsistent'
  BY <1>3, ChatFrame DEF PurchaseCreditPack, LedgerEntry, OpId
<1>4. ASSUME NEW u \in Users, NEW o \in OpKeys, NEW c \in Costs, RecordUsage(u, o, c)
      PROVE  ChatBillingConsistent'
  <2>1. PICK w, d : ledger' = ledger \cup {LedgerEntry(u, OpId("raw", o), "usage", w, d)}
    BY <1>4 DEF RecordUsage
  <2> QED BY <1>4, <2>1, ChatFrame DEF RecordUsage, LedgerEntry, OpId
<1>5. ASSUME NEW u \in Users, NEW r \in ReservationIds, NEW a \in ReserveAmounts, NEW e \in Tasks,
             ReserveUsage(u, r, a, e)
      PROVE  ChatBillingConsistent'
  BY <1>5, ChatFrame DEF ReserveUsage
<1>6. ASSUME NEW u \in Users, NEW r \in ReservationIds, ReleaseUsage(u, r)
      PROVE  ChatBillingConsistent'
  BY <1>6, ChatFrame DEF ReleaseUsage
<1>7. CASE ReapExpired BY <1>7, ChatFrame DEF ReapExpired
<1>8. CASE \E r \in ReservationIds : LapseReservation(r)
  BY <1>8, ChatFrame DEF LapseReservation
<1>9. CASE \E u \in Users, i \in Slots : LapseGrant(u, i) BY <1>9, ChatFrame DEF LapseGrant
<1>10. CASE \E u \in Users : MarkExpired(u) BY <1>10, ChatFrame DEF MarkExpired
<1>11. ASSUME NEW u \in Users, NEW k \in RequestKeys, LapseChat(u, k)
       PROVE  ChatBillingConsistent'
  <2> DEFINE row == [chat[u][k] EXCEPT !.stale = TRUE]
  <2>1. row.status = chat[u][k].status /\ row.fp = chat[u][k].fp BY DEF TypeOK, ChatRow
  <2>2. chat' = [chat EXCEPT ![u][k] = row] BY <1>11 DEF LapseChat, TypeOK
  <2> HIDE DEF row
  <2>3. /\ row.status = "complete" => Posted(u, ChatId(k, row.fp)) # {}
        /\ row.status = "failed" => Posted(u, ChatId(k, row.fp)) = {}
    BY <2>1 DEF ChatBillingConsistent
  <2>4. UNCHANGED ledger BY <1>11 DEF LapseChat
  <2> QED BY <2>2, <2>3, <2>4, ChatRowChange
<1>12. CASE \E e \in Executions : EndExecution(e) BY <1>12, ChatFrame DEF EndExecution
<1> QED
  BY <1>1, <1>2, <1>3, <1>4, <1>5, <1>6, <1>7, <1>8, <1>9, <1>10, <1>11, <1>12,
     ChatClaims, ChatFail, ChatSettleAgain, ChatSettleFirst DEF Next

\* A cached answer always has its billing record, and a request that the client
\* is told failed was never charged: settleUsage and failChatRequest agree
\* whatever order they commit in.
THEOREM CachedAnswersAreBilled == Spec => []ChatBillingConsistent
<1>1. Init => ChatBillingConsistent BY DEF Init, NoChat, ChatBillingConsistent
<1> QED BY <1>1, TypeCorrect, ChatNext, PTL DEF Spec

(***************************************************************************)
(* One charge for each request, and paid answers that stay.                *)
(***************************************************************************)

\* A chat request has at most one entry.
OneChatEntry ==
    \A d, e \in ledger : d.user = e.user /\ d.id = e.id /\ d.id.ns = "chat" => d = e

\* What a step does to the chat entries: none is added, or the one of a request that
\* has none yet and whose row is completed.
LEMMA ChatEntries ==
  ASSUME TypeOK, [Next]_vars
  PROVE  \/ /\ ledger \subseteq ledger'
            /\ \A e \in ledger' \ ledger : e.id.ns # "chat"
         \/ \E u \in Users, k \in RequestKeys, f \in Fingerprints, new \in ledger' :
               /\ ledger' = ledger \cup {new}
               /\ new.user = u /\ new.id = ChatId(k, f)
               /\ Posted(u, ChatId(k, f)) = {}
               /\ chat'[u][k].status = "complete" /\ chat'[u][k].fp = f
<1>1. ASSUME NEW u \in Users, NEW o \in OpKeys, NEW c \in TopupAmounts, Topup(u, o, c)
      PROVE  ledger \subseteq ledger' /\ \A e \in ledger' \ ledger : e.id.ns # "chat"
  BY <1>1 DEF Topup, LedgerEntry, OpId
<1>2. ASSUME NEW u \in Users, NEW o \in OpKeys, NEW p \in Packs, PurchaseCreditPack(u, o, p)
      PROVE  ledger \subseteq ledger' /\ \A e \in ledger' \ ledger : e.id.ns # "chat"
  BY <1>2 DEF PurchaseCreditPack, LedgerEntry, OpId
<1>3. ASSUME NEW u \in Users, NEW o \in OpKeys, NEW c \in Costs, RecordUsage(u, o, c)
      PROVE  ledger \subseteq ledger' /\ \A e \in ledger' \ ledger : e.id.ns # "chat"
  <2>1. PICK w, d : ledger' = ledger \cup {LedgerEntry(u, OpId("raw", o), "usage", w, d)}
    BY <1>3 DEF RecordUsage
  <2> QED BY <2>1 DEF LedgerEntry, OpId
<1>4. ASSUME NEW u \in Users, NEW r \in ReservationIds, NEW k \in RequestKeys,
             NEW f \in Fingerprints, NEW e \in Tasks, NEW cost \in Costs,
             SettleFirst(u, r, k, f, e, cost)
      PROVE  \E new \in ledger' :
               /\ ledger' = ledger \cup {new}
               /\ new.user = u /\ new.id = ChatId(k, f)
               /\ Posted(u, ChatId(k, f)) = {}
               /\ chat'[u][k].status = "complete" /\ chat'[u][k].fp = f
  <2>1. PICK w, c : ledger' = ledger \cup {LedgerEntry(u, ChatId(k, f), "usage", w, c)}
    BY <1>4, SettleFirstPosts
  <2> DEFINE new == LedgerEntry(u, ChatId(k, f), "usage", w, c)
             row == Marked(chat[u][k], "complete")
  <2>2. new.user = u /\ new.id = ChatId(k, f) BY DEF LedgerEntry
  <2>3. Posted(u, ChatId(k, f)) = {} BY <1>4 DEF SettleFirst
  <2>4. chat[u][k].fp = f /\ chat' = [chat EXCEPT ![u][k] = row] BY <1>4, SettleFirstPosts
  <2>5. row.status = "complete" /\ row.fp = f
    <3>1. chat[u][k] \in ChatRow BY DEF TypeOK
    <3> QED BY <2>4, <3>1 DEF Marked, ChatRow
  <2> HIDE DEF new, row
  <2>6. chat'[u][k] = row BY <2>4 DEF TypeOK
  <2> QED BY <2>1, <2>2, <2>3, <2>5, <2>6 DEF new
<1>5. CASE ledger' = ledger BY <1>5
<1> QED
  BY <1>1, <1>2, <1>3, <1>4, <1>5
     DEF Next, vars, ReserveUsage, ReleaseUsage, ReapExpired, ClaimChatRequest, ClaimRefused,
         FailChatRequest, SettleAgain, LapseReservation, LapseGrant, MarkExpired, LapseChat,
         EndExecution

LEMMA OneEntryNext == TypeOK /\ OneChatEntry /\ [Next]_vars => OneChatEntry'
<1> SUFFICES ASSUME TypeOK, OneChatEntry, [Next]_vars,
                    NEW d \in ledger', NEW e \in ledger',
                    d.user = e.user, d.id = e.id, d.id.ns = "chat"
             PROVE  d = e
  BY DEF OneChatEntry
<1>1. CASE ledger \subseteq ledger' /\ \A x \in ledger' \ ledger : x.id.ns # "chat"
  BY <1>1 DEF OneChatEntry
<1>2. ASSUME NEW u \in Users, NEW k \in RequestKeys, NEW f \in Fingerprints, NEW new,
             ledger' = ledger \cup {new}, new.user = u, new.id = ChatId(k, f),
             Posted(u, ChatId(k, f)) = {}
      PROVE  d = e
  BY <1>2 DEF OneChatEntry, Posted
<1> QED BY <1>1, <1>2, ChatEntries

\* Posted never loses an entry, and has exactly one of a chat request that was charged.
LEMMA PostedChat ==
  ASSUME OneChatEntry, NEW u \in Users, NEW k, NEW f, Posted(u, ChatId(k, f)) # {}
  PROVE  \E e \in ledger : Posted(u, ChatId(k, f)) = {e}
<1>1. PICK e \in ledger : e.user = u /\ e.id = ChatId(k, f) BY DEF Posted
<1>2. e.id.ns = "chat" BY <1>1 DEF ChatId
<1>3. ASSUME NEW d \in ledger, d.user = u, d.id = ChatId(k, f) PROVE d = e
  BY <1>1, <1>2, <1>3 DEF OneChatEntry
<1> QED BY <1>1, <1>3 DEF Posted

LEMMA LedgerGrows == ASSUME TypeOK, [Next]_vars PROVE ledger \subseteq ledger'
BY ChatEntries

\* A request that becomes charged is completed in the same transaction.
LEMMA ChargedIsCompleted ==
  ASSUME TypeOK, [Next]_vars,
         NEW u \in Users, NEW k \in RequestKeys, NEW f \in Fingerprints,
         Posted(u, ChatId(k, f)) = {}, Posted(u, ChatId(k, f))' # {}
  PROVE  chat'[u][k].status = "complete" /\ chat'[u][k].fp = f
<1>1. PICK e \in ledger' : e.user = u /\ e.id = ChatId(k, f) BY DEF Posted, ChatId
<1>2. e \notin ledger BY <1>1 DEF Posted
<1>3. e.id.ns = "chat" BY <1>1 DEF ChatId
<1>4. PICK v \in Users, j \in RequestKeys, g \in Fingerprints, new \in ledger' :
        /\ ledger' = ledger \cup {new}
        /\ new.user = v /\ new.id = ChatId(j, g)
        /\ chat'[v][j].status = "complete" /\ chat'[v][j].fp = g
  BY <1>2, <1>3, ChatEntries
<1>5. v = u /\ ChatId(j, g) = ChatId(k, f) BY <1>1, <1>2, <1>4
<1>6. j = k /\ g = f BY <1>5 DEF ChatId
<1> QED BY <1>4, <1>5, <1>6

\* No transaction touches a completed row that has not lapsed.
LEMMA CompletedStays ==
  ASSUME TypeOK, [Next]_vars, NEW u \in Users, NEW k \in RequestKeys,
         chat[u][k].status = "complete", ~chat[u][k].stale
  PROVE  chat'[u][k].status = "complete" /\ chat'[u][k].fp = chat[u][k].fp
<1>0. SweepStale \in [Users -> [RequestKeys -> ChatRow]] /\ SweepStale[u][k] = chat[u][k]
  BY SweepType DEF SweepStale
<1>1. ASSUME NEW v \in Users, NEW j \in RequestKeys, NEW f \in Fingerprints, NEW e \in Tasks,
             ClaimChatRequest(v, j, f, e)
      PROVE  chat'[u][k] = chat[u][k]
  <2>1. ~(v = u /\ j = k) BY <1>0, <1>1 DEF ClaimChatRequest
  <2> QED BY <1>0, <1>1, <2>1 DEF ClaimChatRequest
<1>2. ASSUME NEW v \in Users, NEW j \in RequestKeys, NEW f \in Fingerprints, NEW e \in Tasks,
             ClaimRefused(v, j, f, e)
      PROVE  chat'[u][k] = chat[u][k]
  BY <1>0, <1>2 DEF ClaimRefused
<1>3. ASSUME NEW v \in Users, NEW j \in RequestKeys, NEW f \in Fingerprints, NEW e \in Tasks,
             FailChatRequest(v, j, f, e)
      PROVE  chat'[u][k] = chat[u][k]
  <2>1. ~(v = u /\ j = k) BY <1>3 DEF FailChatRequest
  <2> QED BY <1>3, <2>1 DEF FailChatRequest, TypeOK
<1>4. ASSUME NEW v \in Users, NEW r \in ReservationIds, NEW j \in RequestKeys,
             NEW f \in Fingerprints, NEW e \in Tasks, NEW cost \in Costs,
             SettleAgain(v, r, j, f, e, cost)
      PROVE  chat'[u][k] = chat[u][k]
  <2>1. CASE chat[v][j].status = "pending"
    <3>1. ~(v = u /\ j = k) BY <2>1
    <3> QED BY <1>4, <2>1, <3>1 DEF SettleAgain, TypeOK
  <2> QED BY <1>4, <2>1 DEF SettleAgain
<1>5. ASSUME NEW v \in Users, NEW r \in ReservationIds, NEW j \in RequestKeys,
             NEW f \in Fingerprints, NEW e \in Tasks, NEW cost \in Costs,
             SettleFirst(v, r, j, f, e, cost)
      PROVE  chat'[u][k] = chat[u][k]
  <2>1. ~(v = u /\ j = k) BY <1>5 DEF SettleFirst
  <2> QED BY <1>5, <2>1 DEF SettleFirst, TypeOK
<1>6. ASSUME NEW v \in Users, NEW j \in RequestKeys, LapseChat(v, j)
      PROVE  chat'[u][k].status = "complete" /\ chat'[u][k].fp = chat[u][k].fp
  <2>1. chat'[u][k] = chat[u][k] \/ chat'[u][k] = [chat[u][k] EXCEPT !.stale = TRUE]
    BY <1>6 DEF LapseChat, TypeOK
  <2>2. chat[u][k] \in ChatRow BY DEF TypeOK
  <2> QED BY <2>1, <2>2 DEF ChatRow
<1>7. CASE chat' = chat BY <1>7
<1> QED
  BY <1>1, <1>2, <1>3, <1>4, <1>5, <1>6, <1>7
     DEF Next, vars, Topup, PurchaseCreditPack, RecordUsage, ReserveUsage, ReleaseUsage,
         ReapExpired, LapseReservation, LapseGrant, MarkExpired, EndExecution

LEMMA ChargesAlways == Spec => [](TypeOK /\ ChatBillingConsistent /\ OneChatEntry)
<1>1. Init => ChatBillingConsistent BY DEF Init, NoChat, ChatBillingConsistent
<1>2. Init => OneChatEntry BY DEF Init, OneChatEntry, TrialEntry, LedgerEntry, OpId
<1> QED BY <1>1, <1>2, TypeInit, TypeNext, ChatNext, OneEntryNext, PTL DEF Spec

(***************************************************************************)
(* The meter.                                                              *)
(***************************************************************************)

\* What PrepaidMeter sees of the tables.
Funds == [u \in Users |-> balance[u] + HeldWallet(u) + CreditOwned(u)]
Charged == [u \in Users |-> {e.id : e \in {d \in ledger : d.user = u /\ d.type = "usage"}}]

\* What an account owns is what its ledger says, and never less than nothing.
LEMMA FundsPosted ==
  ASSUME MoneyInv, NEW u \in Users
  PROVE  /\ Funds[u] = PostedW(ledger, u) + PostedC(ledger, u)
         /\ Funds[u] \in Nat
         /\ PostedW(ledger, u) \in Int /\ PostedC(ledger, u) \in Int
         /\ balance[u] \in Nat /\ balance[u] <= Funds[u]
<1>1. /\ balance[u] \in Nat /\ reservations \in [ReservationIds -> Reservation]
      /\ grants \in [Users -> [Slots -> Grant]]
  BY DEF MoneyInv, TypeOK
<1>2. HeldWallet(u) \in Nat /\ CreditOwned(u) \in Nat BY <1>1, SumsNow, HeldNat, OwnNat
<1>3. balance[u] + HeldWallet(u) = PostedW(ledger, u) /\ CreditOwned(u) = PostedC(ledger, u)
  BY SumsNow DEF MoneyInv, WalletConserved, CreditConserved
<1>4. Funds[u] = balance[u] + HeldWallet(u) + CreditOwned(u) BY DEF Funds
<1> QED BY <1>1, <1>2, <1>3, <1>4

LEMMA FundsPostedNext ==
  ASSUME MoneyInv', NEW u \in Users
  PROVE  /\ Funds'[u] = PostedW(ledger', u) + PostedC(ledger', u)
         /\ Funds'[u] \in Nat
<1>1. /\ balance'[u] \in Nat /\ reservations' \in [ReservationIds -> Reservation]
      /\ grants' \in [Users -> [Slots -> Grant]]
  BY DEF MoneyInv, TypeOK
<1>2. HeldW(reservations', u) \in Nat /\ Owned(grants', reservations', u) \in Nat
  BY <1>1, HeldNat, OwnNat
<1>3. /\ HeldWallet(u)' = HeldW(reservations', u)
      /\ CreditOwned(u)' = Owned(grants', reservations', u)
      /\ PostedWallet(u)' = PostedW(ledger', u) /\ PostedCredit(u)' = PostedC(ledger', u)
  BY SumsNext
<1>4. /\ balance'[u] + HeldW(reservations', u) = PostedW(ledger', u)
      /\ Owned(grants', reservations', u) = PostedC(ledger', u)
  BY <1>3 DEF MoneyInv, WalletConserved, CreditConserved
<1>5. Funds'[u] = balance'[u] + HeldW(reservations', u) + Owned(grants', reservations', u)
  BY <1>3 DEF Funds
<1> QED BY <1>1, <1>2, <1>4, <1>5

\* The funds are a function of the ledger: what posts nothing changes nothing.
LEMMA NothingPosted ==
  ASSUME MoneyInv, MoneyInv', ledger' = ledger
  PROVE  UNCHANGED <<Funds, Charged>>
<1>1. \A u \in Users : Funds'[u] = Funds[u] BY FundsPosted, FundsPostedNext
<1>2. Funds' = Funds BY <1>1 DEF Funds
<1>3. Charged' = Charged BY DEF Charged
<1> QED BY <1>2, <1>3

\* One entry e is posted for user u.
LEMMA OnePosted ==
  ASSUME MoneyInv, MoneyInv', NEW u \in Users, NEW e \in Entry, e \notin ledger,
         ledger' = ledger \cup {e}, e.user = u
  PROVE  /\ Funds' = [Funds EXCEPT ![u] = @ + e.wallet + e.credit]
         /\ e.type # "usage" => Charged' = Charged
         /\ e.type = "usage" => Charged' = [Charged EXCEPT ![u] = @ \cup {e.id}]
<1>1. ledger \in SUBSET Entry /\ IsFiniteSet(ledger) BY DEF MoneyInv, TypeOK
<1>2. e.wallet \in Int /\ e.credit \in Int BY DEF Entry
<1>3. ASSUME NEW v \in Users
      PROVE  Funds'[v] = IF v = u THEN Funds[u] + e.wallet + e.credit ELSE Funds[v]
  <2>1. /\ PostedW(ledger', v) = PostedW(ledger, v) + IF e.user = v THEN e.wallet ELSE 0
        /\ PostedC(ledger', v) = PostedC(ledger, v) + IF e.user = v THEN e.credit ELSE 0
    BY <1>1, PostedStep
  <2>2. /\ Funds[v] = PostedW(ledger, v) + PostedC(ledger, v)
        /\ PostedW(ledger, v) \in Int /\ PostedC(ledger, v) \in Int
        /\ Funds'[v] = PostedW(ledger', v) + PostedC(ledger', v)
    BY FundsPosted, FundsPostedNext
  <2> QED BY <1>2, <2>1, <2>2
<1>4. Funds' = [Funds EXCEPT ![u] = @ + e.wallet + e.credit] BY <1>3 DEF Funds
<1>5. ASSUME NEW v \in Users
      PROVE  Charged'[v] = IF v = u /\ e.type = "usage" THEN Charged[u] \cup {e.id} ELSE Charged[v]
  BY DEF Charged
<1>6. e.type # "usage" => Charged' = Charged BY <1>5 DEF Charged
<1>7. e.type = "usage" => Charged' = [Charged EXCEPT ![u] = @ \cup {e.id}] BY <1>5 DEF Charged
<1> QED BY <1>4, <1>6, <1>7

\* Posting the charge of a request that has none is a charge of the meter.
LEMMA ChargeSeen ==
  ASSUME MoneyInv, MoneyInv', NEW u \in Users, NEW id \in LedgerId, Posted(u, id) = {},
         id \in {ChatId(k, f) : k \in RequestKeys, f \in Fingerprints}
                  \cup {OpId("raw", o) : o \in OpKeys},
         NEW w \in Int, NEW c \in Int, NEW cents \in Costs \cup {0}, w + c = -cents,
         ledger' = ledger \cup {LedgerEntry(u, id, "usage", w, c)}
  PROVE  Meter!Next
<1> DEFINE e == LedgerEntry(u, id, "usage", w, c)
<1>1. e \in Entry BY EntryType
<1>2. /\ e.user = u /\ e.id = id /\ e.type = "usage" /\ e.wallet = w /\ e.credit = c
  BY DEF LedgerEntry
<1>3. e \notin ledger BY <1>2 DEF Posted
<1>4. ledger' = ledger \cup {e} OBVIOUS
<1> HIDE DEF e
<1>5. /\ Funds' = [Funds EXCEPT ![u] = @ + w + c]
      /\ Charged' = [Charged EXCEPT ![u] = @ \cup {id}]
  BY <1>1, <1>2, <1>3, <1>4, OnePosted
<1>6. cents \in Nat BY MoneyAssumption
<1>7. Funds[u] \in Nat /\ Funds'[u] \in Nat BY FundsPosted, FundsPostedNext
<1>8. Funds[u] + w + c = Funds[u] - cents BY <1>6, <1>7
<1>9. Funds' = [Funds EXCEPT ![u] = @ - cents] BY <1>5, <1>8
<1>10. Funds'[u] = Funds[u] - cents BY <1>9 DEF Funds
<1>11. Funds[u] >= cents BY <1>6, <1>7, <1>10
<1>12. id \notin Charged[u] BY DEF Charged, Posted
<1>13. Meter!Charge(u, id, cents)
  BY <1>5, <1>9, <1>11, <1>12 DEF Meter!Charge, Funds, Charged
<1>14. /\ u \in Users /\ cents \in Costs \cup {0}
       /\ id \in {ChatId(k, f) : k \in RequestKeys, f \in Fingerprints}
                   \cup {OpId("raw", o) : o \in OpKeys}
  OBVIOUS
<1> QED BY ONLY <1>13, <1>14 DEF Meter!Next

\* A purchase posts what the pack costs and what it brings.
LEMMA PurchaseSeen ==
  ASSUME MoneyInv, MoneyInv', NEW u \in Users, NEW o \in OpKeys, NEW pack \in Packs,
         PurchaseCreditPack(u, o, pack)
  PROVE  Meter!Next
<1> DEFINE paid == LedgerEntry(u, OpId("pack-purchase", o), "pack_purchase", -pack.price, 0)
           got == LedgerEntry(u, OpId("credit-grant", o), "credit_grant", 0, pack.credit)
           mid == ledger \cup {paid}
<1>1. pack.price \in Nat /\ pack.credit \in Nat BY MoneyAssumption
<1>2. /\ paid \in Entry /\ paid.user = u /\ paid.wallet = -pack.price /\ paid.credit = 0
      /\ paid.type = "pack_purchase" /\ paid.id.ns = "pack-purchase" /\ paid.id.key = o
  <2>1. OpId("pack-purchase", o) \in LedgerId BY IdType
  <2>2. -pack.price \in Int BY <1>1
  <2>3. paid \in Entry BY <2>1, <2>2, EntryType
  <2> QED BY <2>3 DEF LedgerEntry, OpId
<1>3. /\ got \in Entry /\ got.user = u /\ got.wallet = 0 /\ got.credit = pack.credit
      /\ got.type = "credit_grant" /\ got.id.ns = "credit-grant" /\ got.id.key = o
  <2>1. OpId("credit-grant", o) \in LedgerId BY IdType
  <2>2. got \in Entry BY <1>1, <2>1, EntryType
  <2> QED BY <2>2 DEF LedgerEntry, OpId
<1>4. ledger' = ledger \cup {paid, got} BY DEF PurchaseCreditPack
<1>5. balance[u] >= pack.price BY DEF PurchaseCreditPack
<1>6. paid \notin ledger /\ got \notin ledger
  <2>1. \A j \in Slots : grants[u][j].key # o BY DEF PurchaseCreditPack
  <2>2. \A e \in ledger : e.user = u /\ e.id.ns \in {"pack-purchase", "credit-grant"}
                             => e.id.key # o
    BY <2>1 DEF MoneyInv, PurchasesHaveGrants
  <2> HIDE DEF paid, got
  <2> QED BY <1>2, <1>3, <2>2
<1> HIDE DEF paid, got
<1>7. got # paid BY <1>2, <1>3
<1>8. ledger \in SUBSET Entry /\ IsFiniteSet(ledger) BY DEF MoneyInv, TypeOK
<1>9. mid \in SUBSET Entry /\ IsFiniteSet(mid) BY <1>2, <1>8, FS_AddElement
<1>10. ledger' = mid \cup {got} /\ got \notin mid BY <1>4, <1>6, <1>7
<1>11. \A v \in Users :
         /\ PostedW(mid, v) = PostedW(ledger, v) + IF v = u THEN -pack.price ELSE 0
         /\ PostedC(mid, v) = PostedC(ledger, v) + IF v = u THEN 0 ELSE 0
  <2> TAKE v \in Users
  <2>1. /\ PostedW(mid, v) = PostedW(ledger, v) + IF paid.user = v THEN paid.wallet ELSE 0
        /\ PostedC(mid, v) = PostedC(ledger, v) + IF paid.user = v THEN paid.credit ELSE 0
    BY <1>2, <1>6, <1>8, PostedStep
  <2> HIDE DEF mid
  <2> QED BY ONLY <1>2, <2>1
<1> HIDE DEF mid
<1>12. \A v \in Users :
         /\ PostedW(ledger', v) = PostedW(mid, v) + IF v = u THEN 0 ELSE 0
         /\ PostedC(ledger', v) = PostedC(mid, v) + IF v = u THEN pack.credit ELSE 0
  <2> TAKE v \in Users
  <2>1. /\ PostedW(ledger', v) = PostedW(mid, v) + IF got.user = v THEN got.wallet ELSE 0
        /\ PostedC(ledger', v) = PostedC(mid, v) + IF got.user = v THEN got.credit ELSE 0
    <3>1. /\ PostedW(mid \cup {got}, v) = PostedW(mid, v) + IF got.user = v THEN got.wallet ELSE 0
          /\ PostedC(mid \cup {got}, v) = PostedC(mid, v) + IF got.user = v THEN got.credit ELSE 0
      BY <1>3, <1>9, <1>10, PostedStep
    <3> QED BY <1>10, <3>1
  <2> QED BY ONLY <1>3, <2>1
<1>13. ASSUME NEW v \in Users
       PROVE  Funds'[v] = IF v = u THEN Funds[u] - pack.price + pack.credit ELSE Funds[v]
  <2>1. /\ Funds[v] = PostedW(ledger, v) + PostedC(ledger, v)
        /\ PostedW(ledger, v) \in Int /\ PostedC(ledger, v) \in Int
        /\ Funds'[v] = PostedW(ledger', v) + PostedC(ledger', v)
    BY FundsPosted, FundsPostedNext
  <2> QED BY <1>1, <1>11, <1>12, <2>1
<1>14. Funds' = [Funds EXCEPT ![u] = @ - pack.price + pack.credit] BY <1>13 DEF Funds
<1>15. Funds[u] >= pack.price
  <2>1. Funds[u] \in Nat /\ balance[u] \in Nat /\ balance[u] <= Funds[u] BY FundsPosted
  <2> QED BY <1>1, <1>5, <2>1
<1>16. Charged' = Charged BY <1>2, <1>3, <1>4 DEF Charged
<1>17. Meter!BuyPack(u, pack) BY <1>14, <1>15, <1>16 DEF Meter!BuyPack, Funds, Charged
<1> QED BY <1>17 DEF Meter!Next

\* Every transaction is a step of the meter or leaves it alone.
LEMMA MeterStep ==
  ASSUME MoneyInv, [Next]_vars
  PROVE  Meter!Next \/ UNCHANGED <<Funds, Charged>>
<1>0. MoneyInv' BY MoneyNext
<1>1. ASSUME NEW u \in Users, NEW o \in OpKeys, NEW cents \in TopupAmounts, Topup(u, o, cents)
      PROVE  Meter!Next
  <2> DEFINE e == LedgerEntry(u, OpId("raw", o), "topup", cents, 0)
  <2>1. cents \in Nat BY MoneyAssumption
  <2>2. e \in Entry BY <2>1, IdType, EntryType
  <2>3. /\ e.user = u /\ e.id = OpId("raw", o) /\ e.type = "topup"
        /\ e.wallet = cents /\ e.credit = 0
    BY DEF LedgerEntry
  <2>4. ledger' = ledger \cup {e} BY <1>1 DEF Topup
  <2> HIDE DEF e
  <2>5. e \notin ledger BY <1>1, <2>3 DEF Topup, Posted
  <2>6. /\ Funds' = [Funds EXCEPT ![u] = @ + cents + 0]
        /\ Charged' = Charged
    BY <1>0, <2>2, <2>3, <2>4, <2>5, OnePosted
  <2>7. Funds[u] + cents + 0 = Funds[u] + cents
    <3>1. Funds[u] \in Nat BY FundsPosted
    <3> QED BY <2>1, <3>1
  <2>8. Funds' = [Funds EXCEPT ![u] = @ + cents] BY <2>6, <2>7
  <2>9. Meter!Deposit(u, cents) BY <2>6, <2>8 DEF Meter!Deposit, Funds, Charged
  <2> QED BY <2>9 DEF Meter!Next
<1>2. ASSUME NEW u \in Users, NEW o \in OpKeys, NEW pack \in Packs,
             PurchaseCreditPack(u, o, pack)
      PROVE  Meter!Next
  BY <1>0, <1>2, PurchaseSeen
<1>3. ASSUME NEW u \in Users, NEW o \in OpKeys, NEW cost \in Costs, RecordUsage(u, o, cost)
      PROVE  Meter!Next
  <2>1. PICK a \in Draw(Spendable(grants[u]), balance[u], Billed(u, cost)) :
          ledger' = ledger \cup {LedgerEntry(u, OpId("raw", o), "usage", -a.wallet, -Credit(a))}
    BY <1>3 DEF RecordUsage
  <2>2. Billed(u, cost) \in Costs \cup {0} /\ Billed(u, cost) \in Nat
    BY MoneyAssumption, BilledNat DEF Billed
  <2>3. a.wallet \in Nat /\ Credit(a) \in Nat /\ Credit(a) + a.wallet = Billed(u, cost)
    <3>1. grants[u] \in [Slots -> Grant] /\ balance[u] \in Nat BY DEF MoneyInv, TypeOK
    <3> QED BY <2>2, <3>1, SpendableType, DrawFacts
  <2>4. Posted(u, OpId("raw", o)) = {} /\ OpId("raw", o) \in LedgerId
    BY <1>3, IdType DEF RecordUsage
  <2> DEFINE w == -a.wallet
             c == -Credit(a)
  <2>5. w \in Int /\ c \in Int /\ w + c = -Billed(u, cost) BY <2>2, <2>3
  <2>6. ledger' = ledger \cup {LedgerEntry(u, OpId("raw", o), "usage", w, c)} BY <2>1
  <2> HIDE DEF w, c
  <2> QED BY <1>0, <2>2, <2>4, <2>5, <2>6, ChargeSeen
<1>4. ASSUME NEW u \in Users, NEW r \in ReservationIds, NEW k \in RequestKeys,
             NEW f \in Fingerprints, NEW x \in Tasks, NEW cost \in Costs,
             SettleFirst(u, r, k, f, x, cost)
      PROVE  Meter!Next
  <2> DEFINE row == reservations[r]
             due == Billed(u, cost)
             covered == Lesser(due, Total(row))
  <2>1. PICK paid \in Draw(row.holds, row.wallet, covered),
             extra \in Draw(Spendable(grants[u]), balance[u], due - covered) :
          ledger' = ledger \cup {LedgerEntry(u, ChatId(k, f), "usage",
              -(paid.wallet + extra.wallet), -(Credit(paid) + Credit(extra)))}
    BY <1>4 DEF SettleFirst
  <2>2. due \in Costs \cup {0} /\ due \in Nat BY MoneyAssumption, BilledNat DEF Billed
  <2>3. TypeOK BY DEF MoneyInv
  <2>4. Total(row) \in Nat BY <2>3, HoldingType
  <2>5. Posted(u, ChatId(k, f)) = {} /\ ChatId(k, f) \in LedgerId
    BY <1>4, IdType DEF SettleFirst
  <2> HIDE DEF due
  <2>6. /\ paid.wallet \in Nat /\ Credit(paid) \in Nat
        /\ Credit(paid) + paid.wallet = covered
        /\ extra.wallet \in Nat /\ Credit(extra) \in Nat
        /\ Credit(extra) + extra.wallet = due - covered
    BY <2>1, <2>2, <2>3, SettleDraws
  <2>7. covered \in Nat BY <2>2, <2>4 DEF Lesser
  <2> DEFINE w == -(paid.wallet + extra.wallet)
             c == -(Credit(paid) + Credit(extra))
  <2> HIDE DEF covered
  <2>8. w \in Int /\ c \in Int /\ w + c = -due BY <2>2, <2>6, <2>7
  <2>9. ledger' = ledger \cup {LedgerEntry(u, ChatId(k, f), "usage", w, c)} BY <2>1
  <2> HIDE DEF w, c
  <2> QED BY <1>0, <2>2, <2>5, <2>8, <2>9, ChargeSeen
<1>5. CASE ledger' = ledger BY <1>0, <1>5, NothingPosted
<1> QED
  BY <1>1, <1>2, <1>3, <1>4, <1>5
     DEF Next, vars, ReserveUsage, ReleaseUsage, ReapExpired, ClaimChatRequest, ClaimRefused,
         FailChatRequest, SettleAgain, LapseReservation, LapseGrant, MarkExpired, LapseChat,
         EndExecution

\* The money tables implement the prepaid meter: in what an account owns, reservations,
\* refunds, reaping, expiry and repeated settlements are invisible, each request is
\* charged at most once, its bill exactly, and only from what is there.
THEOREM BillingImplementsMeter == Spec => MeterPromise
<1>1. Init => Meter!Init
  <2> SUFFICES ASSUME Init PROVE Meter!Init OBVIOUS
  <2>1. MoneyInv BY MoneyInit
  <2>2. Funds \in [Users -> Nat] BY <2>1, FundsPosted DEF Funds
  <2>3. Charged = [u \in Users |-> {}] BY DEF Init, Charged, TrialEntry, LedgerEntry
  <2> QED BY <2>2, <2>3 DEF Meter!Init, Funds, Charged
<1>2. MoneyInv /\ [Next]_vars => [Meter!Next]_<<Funds, Charged>>
  BY MeterStep
<1> QED BY <1>1, <1>2, MoneyAlways, PTL DEF Spec, MeterPromise, Meter!Spec, Funds, Charged

=============================================================================
