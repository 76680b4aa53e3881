---------------------------- MODULE BillingProofs ----------------------------
(***************************************************************************)
(* What holds of Billing for any users, amounts, packs and numbers of      *)
(* grants and reservations.                                                *)
(***************************************************************************)
EXTENDS Billing, SumTheorems

(***************************************************************************)
(* Drawing and restoring funds.                                            *)
(***************************************************************************)

\* A user has finitely many grants.
LEMMA SlotsFinite == IsFiniteSet(Slots)
BY IdentityAssumption, FS_Interval DEF Slots

\* The credit part of an allocation is a natural number.
LEMMA CreditNat ==
  ASSUME NEW a, a.holds \in [Slots -> Nat]
  PROVE  Credit(a) \in Nat
<1>1. \A i \in Slots : a.holds[i] \in Nat OBVIOUS
<1> QED BY <1>1, SlotsFinite, SumNat DEF Credit

\* What an allocation takes is there, and adds up to the amount.
LEMMA DrawFacts ==
  ASSUME NEW available \in [Slots -> Nat], NEW cash \in Nat, NEW amount \in Nat,
         NEW a \in Draw(available, cash, amount)
  PROVE  /\ a.holds \in [Slots -> Nat]
         /\ a.wallet \in Nat
         /\ a.wallet <= cash
         /\ \A i \in Slots : a.holds[i] <= available[i]
         /\ Credit(a) \in Nat
         /\ Credit(a) + a.wallet = amount
<1>1. a \in [holds : [Slots -> 0 .. amount], wallet : 0 .. Lesser(cash, amount)]
  BY DEF Draw
<1>2. a.holds \in [Slots -> 0 .. amount] /\ a.wallet \in 0 .. Lesser(cash, amount)
  BY <1>1
<1>3. a.holds \in [Slots -> Nat]
  BY <1>2
<1>4. a.wallet \in Nat /\ a.wallet <= cash
  BY <1>2 DEF Lesser
<1>5. Credit(a) \in Nat
  BY <1>3, CreditNat
<1> QED BY <1>3, <1>4, <1>5 DEF Draw, Total

\* allocateFunds takes natural amounts of natural remainders.
LEMMA SpendableType ==
  ASSUME NEW gs \in [Slots -> Grant]
  PROVE  /\ Spendable(gs) \in [Slots -> Nat]
         /\ \A i \in Slots : Spendable(gs)[i] <= gs[i].remaining
BY DEF Spendable, Grant

\* Spending what is there leaves well-formed grants.
LEMMA SpendType ==
  ASSUME NEW gs \in [Slots -> Grant], NEW holds \in [Slots -> Nat],
         \A i \in Slots : holds[i] <= gs[i].remaining
  PROVE  Spend(gs, holds) \in [Slots -> Grant]
<1>1. ASSUME NEW i \in Slots
      PROVE  [gs[i] EXCEPT !.remaining = @ - holds[i],
                           !.status = IF gs[i].remaining = holds[i] THEN "depleted"
                                      ELSE "active"] \in Grant
  <2>1. gs[i] \in Grant /\ holds[i] \in Nat /\ gs[i].remaining - holds[i] \in Nat
    BY DEF Grant
  <2> QED BY <2>1 DEF Grant
<1>2. ASSUME NEW i \in Slots PROVE [gs[i] EXCEPT !.status = "expired"] \in Grant
  BY DEF Grant
<1> QED BY <1>1, <1>2 DEF Spend

\* Restoring leaves well-formed grants.
LEMMA RestoreType ==
  ASSUME NEW gs \in [Slots -> Grant], NEW back \in [Slots -> Nat]
  PROVE  RestoreGrants(gs, back) \in [Slots -> Grant]
<1>1. ASSUME NEW i \in Slots
      PROVE  [gs[i] EXCEPT !.remaining = Lesser(gs[i].original, @ + back[i]),
                           !.status = IF gs[i].past THEN "expired" ELSE "active"] \in Grant
  <2>1. gs[i] \in Grant /\ Lesser(gs[i].original, gs[i].remaining + back[i]) \in Nat
    BY DEF Grant, Lesser
  <2> QED BY <2>1 DEF Grant
<1> QED BY <1>1 DEF RestoreGrants

\* A bill is a natural number, that of an administrator too.
LEMMA BilledNat ==
  ASSUME NEW u \in Users, NEW cents \in Nat
  PROVE  Billed(u, cents) \in Nat
BY DEF Billed

(***************************************************************************)
(* Type correctness.                                                       *)
(***************************************************************************)

\* What a reservation holds is well-formed.
LEMMA HoldingType ==
  ASSUME TypeOK, NEW r \in ReservationIds
  PROVE  /\ reservations[r] \in Reservation
         /\ reservations[r].wallet \in Nat
         /\ reservations[r].holds \in [Slots -> Nat]
         /\ Credit(reservations[r]) \in Nat
         /\ Total(reservations[r]) \in Nat
<1>1. reservations[r] \in Reservation BY DEF TypeOK
<1>2. reservations[r].wallet \in Nat /\ reservations[r].holds \in [Slots -> Nat]
  BY <1>1 DEF Reservation
<1>3. Credit(reservations[r]) \in Nat BY <1>2, CreditNat
<1> QED BY <1>1, <1>2, <1>3 DEF Total

\* Refunds of a reaped batch are natural numbers.
LEMMA ReapedNat ==
  ASSUME TypeOK, NEW rs \in SUBSET ReservationIds, NEW u \in Users
  PROVE  ReapedWallet(rs, u) \in Nat /\ ReapedHolds(rs, u) \in [Slots -> Nat]
<1>1. IsFiniteSet(ReservationIds) BY IdentityAssumption
<1>2. ReapedWallet(rs, u) \in Nat
  <2> DEFINE f == [r \in ReservationIds |->
                     IF r \in rs /\ Holding(r, u) THEN reservations[r].wallet ELSE 0]
  <2>1. \A r \in ReservationIds : f[r] \in Nat BY HoldingType
  <2> HIDE DEF f
  <2>2. SumFunctionOnSet(f, ReservationIds) \in Nat BY <1>1, <2>1, SumNat
  <2> QED BY <2>2 DEF ReapedWallet, f
<1>3. ASSUME NEW i \in Slots
      PROVE  SumFunctionOnSet([r \in ReservationIds |->
               IF r \in rs /\ Holding(r, u) THEN reservations[r].holds[i] ELSE 0],
               ReservationIds) \in Nat
  <2> DEFINE f == [r \in ReservationIds |->
                     IF r \in rs /\ Holding(r, u) THEN reservations[r].holds[i] ELSE 0]
  <2>1. \A r \in ReservationIds : f[r] \in Nat BY HoldingType
  <2> HIDE DEF f
  <2>2. SumFunctionOnSet(f, ReservationIds) \in Nat BY <1>1, <2>1, SumNat
  <2> QED BY <2>2 DEF f
<1> QED BY <1>2, <1>3 DEF ReapedHolds

\* Entries are well-formed.
LEMMA EntryType ==
  ASSUME NEW u \in Users, NEW id \in LedgerId,
         NEW type \in {"topup", "usage", "pack_purchase", "credit_grant", "trial_credit"},
         NEW wallet \in Int, NEW credit \in Int
  PROVE  LedgerEntry(u, id, type, wallet, credit) \in Entry
BY DEF LedgerEntry, Entry

\* Keys are well-formed.
LEMMA IdType ==
  /\ \A k \in RequestKeys, f \in Fingerprints : ChatId(k, f) \in LedgerId
  /\ \A o \in OpKeys \cup {None} : \A ns \in {"raw", "pack-purchase", "credit-grant", "trial-credit"} :
        OpId(ns, o) \in LedgerId
BY DEF ChatId, OpId, LedgerId

LEMMA TypeInit == Init => TypeOK
<1> SUFFICES ASSUME Init PROVE TypeOK OBVIOUS
<1>1. TrialGrant \in Grant /\ NoGrant \in Grant
  BY MoneyAssumption DEF TrialGrant, NoGrant, Grant
<1>2. NoReservation \in Reservation BY DEF NoReservation, Reservation
<1>3. NoChat \in ChatRow BY DEF NoChat, ChatRow
<1>4. \A u \in Users : TrialEntry(u) \in Entry
  BY EntryType, IdType, MoneyAssumption DEF TrialEntry
<1> QED BY <1>1, <1>2, <1>3, <1>4 DEF Init, TypeOK

LEMMA TypeTopup ==
  ASSUME TypeOK, NEW u \in Users, NEW o \in OpKeys, NEW cents \in TopupAmounts,
         Topup(u, o, cents)
  PROVE  TypeOK'
<1>1. cents \in Nat BY MoneyAssumption
<1>2. balance' \in [Users -> Nat] BY <1>1 DEF Topup, TypeOK
<1>3. ledger' \subseteq Entry BY <1>1, EntryType, IdType DEF Topup, TypeOK
<1> QED BY <1>2, <1>3 DEF Topup, TypeOK

LEMMA TypePurchase ==
  ASSUME TypeOK, NEW u \in Users, NEW o \in OpKeys, NEW pack \in Packs,
         PurchaseCreditPack(u, o, pack)
  PROVE  TypeOK'
<1>1. pack.price \in Nat /\ pack.credit \in Nat BY MoneyAssumption
<1>2. balance[u] - pack.price \in Nat BY <1>1 DEF PurchaseCreditPack, TypeOK
<1>3. balance' \in [Users -> Nat] BY <1>2 DEF PurchaseCreditPack, TypeOK
<1>4. ledger' \subseteq Entry
  <2>1. LedgerEntry(u, OpId("pack-purchase", o), "pack_purchase", -pack.price, 0) \in Entry
    BY <1>1, EntryType, IdType
  <2>2. LedgerEntry(u, OpId("credit-grant", o), "credit_grant", 0, pack.credit) \in Entry
    BY <1>1, EntryType, IdType
  <2> QED BY <2>1, <2>2 DEF PurchaseCreditPack, TypeOK
<1>5. grants' \in [Users -> [Slots -> Grant]]
  <2> DEFINE bought == [status |-> "active", past |-> FALSE, original |-> pack.credit,
                        remaining |-> pack.credit, key |-> o]
  <2>1. bought \in Grant BY <1>1 DEF Grant
  <2> HIDE DEF bought
  <2>2. PICK i \in Slots : grants' = [grants EXCEPT ![u][i] = bought]
    BY DEF PurchaseCreditPack, bought
  <2> QED BY <2>1, <2>2 DEF TypeOK
<1> QED BY <1>3, <1>4, <1>5 DEF PurchaseCreditPack, TypeOK

LEMMA TypeRecordUsage ==
  ASSUME TypeOK, NEW u \in Users, NEW o \in OpKeys, NEW cost \in Costs,
         RecordUsage(u, o, cost)
  PROVE  TypeOK'
<1>1. Billed(u, cost) \in Nat BY MoneyAssumption, BilledNat
<1>2. grants[u] \in [Slots -> Grant] /\ balance[u] \in Nat BY DEF TypeOK
<1>3. PICK a \in Draw(Spendable(grants[u]), balance[u], Billed(u, cost)) :
        /\ balance' = [balance EXCEPT ![u] = @ - a.wallet]
        /\ grants' = [grants EXCEPT ![u] = Spend(@, a.holds)]
        /\ ledger' = ledger \cup
              {LedgerEntry(u, OpId("raw", o), "usage", -a.wallet, -Credit(a))}
  BY DEF RecordUsage
<1>4. /\ a.holds \in [Slots -> Nat] /\ a.wallet \in Nat /\ a.wallet <= balance[u]
      /\ \A i \in Slots : a.holds[i] <= Spendable(grants[u])[i]
      /\ Credit(a) \in Nat
  BY <1>1, <1>2, SpendableType, DrawFacts
<1>5. Spend(grants[u], a.holds) \in [Slots -> Grant]
  <2>1. \A i \in Slots : a.holds[i] <= grants[u][i].remaining
    BY <1>2, <1>4, SpendableType DEF Grant
  <2> QED BY <1>2, <1>4, <2>1, SpendType
<1>6. balance' \in [Users -> Nat] BY <1>2, <1>3, <1>4 DEF TypeOK
<1>7. grants' \in [Users -> [Slots -> Grant]] BY <1>3, <1>5 DEF TypeOK
<1>8. ledger' \subseteq Entry BY <1>3, <1>4, EntryType, IdType DEF TypeOK
<1> QED BY <1>6, <1>7, <1>8 DEF RecordUsage, TypeOK

LEMMA TypeReserve ==
  ASSUME TypeOK, NEW u \in Users, NEW r \in ReservationIds, NEW amount \in ReserveAmounts,
         NEW e \in Tasks, ReserveUsage(u, r, amount, e)
  PROVE  TypeOK'
<1>1. Billed(u, amount) \in Nat BY MoneyAssumption, BilledNat
<1>2. grants[u] \in [Slots -> Grant] /\ balance[u] \in Nat BY DEF TypeOK
<1>3. PICK a \in Draw(Spendable(grants[u]), balance[u], Billed(u, amount)) :
        /\ balance' = [balance EXCEPT ![u] = @ - a.wallet]
        /\ grants' = [grants EXCEPT ![u] = Spend(@, a.holds)]
        /\ reservations' = [reservations EXCEPT ![r] =
              [status |-> "reserved", user |-> u, exec |-> e, wallet |-> a.wallet,
               holds |-> a.holds, leased |-> TRUE]]
  BY DEF ReserveUsage
<1>4. /\ a.holds \in [Slots -> Nat] /\ a.wallet \in Nat /\ a.wallet <= balance[u]
      /\ \A i \in Slots : a.holds[i] <= Spendable(grants[u])[i]
  BY <1>1, <1>2, SpendableType, DrawFacts
<1>5. Spend(grants[u], a.holds) \in [Slots -> Grant]
  <2>1. \A i \in Slots : a.holds[i] <= grants[u][i].remaining
    BY <1>2, <1>4, SpendableType DEF Grant
  <2> QED BY <1>2, <1>4, <2>1, SpendType
<1>6. balance' \in [Users -> Nat] BY <1>2, <1>3, <1>4 DEF TypeOK
<1>7. grants' \in [Users -> [Slots -> Grant]] BY <1>3, <1>5 DEF TypeOK
<1>8. reservations' \in [ReservationIds -> Reservation]
  <2>1. [status |-> "reserved", user |-> u, exec |-> e, wallet |-> a.wallet,
         holds |-> a.holds, leased |-> TRUE] \in Reservation
    BY <1>4 DEF Reservation, Tasks
  <2> QED BY <1>3, <2>1 DEF TypeOK
<1> QED BY <1>6, <1>7, <1>8 DEF ReserveUsage, TypeOK

LEMMA TypeRelease ==
  ASSUME TypeOK, NEW u \in Users, NEW r \in ReservationIds, ReleaseUsage(u, r)
  PROVE  TypeOK'
<1>1. reservations[r].wallet \in Nat /\ reservations[r].holds \in [Slots -> Nat]
  BY HoldingType
<1>2. RestoreGrants(grants[u], reservations[r].holds) \in [Slots -> Grant]
  BY <1>1, RestoreType DEF TypeOK
<1>3. balance' \in [Users -> Nat] BY <1>1 DEF ReleaseUsage, TypeOK
<1>4. grants' \in [Users -> [Slots -> Grant]] BY <1>2 DEF ReleaseUsage, TypeOK
<1>5. reservations' \in [ReservationIds -> Reservation]
  <2>1. [reservations[r] EXCEPT !.status = "released"] \in Reservation
    BY HoldingType DEF Reservation
  <2> QED BY <2>1 DEF ReleaseUsage, TypeOK
<1> QED BY <1>3, <1>4, <1>5 DEF ReleaseUsage, TypeOK

LEMMA TypeReap == ASSUME TypeOK, ReapExpired PROVE TypeOK'
<1>1. PICK rs \in SUBSET ReservationIds :
        /\ reservations' = [r \in ReservationIds |->
              IF r \in rs THEN [reservations[r] EXCEPT !.status = "released"]
              ELSE reservations[r]]
        /\ balance' = [u \in Users |-> balance[u] + ReapedWallet(rs, u)]
        /\ grants' = [u \in Users |-> RestoreGrants(grants[u], ReapedHolds(rs, u))]
  BY DEF ReapExpired, Reapable
<1>2. balance' \in [Users -> Nat]
  <2>1. \A u \in Users : ReapedWallet(rs, u) \in Nat BY ReapedNat
  <2>2. \A u \in Users : balance[u] + ReapedWallet(rs, u) \in Nat BY <2>1 DEF TypeOK
  <2> QED BY <1>1, <2>2
<1>3. grants' \in [Users -> [Slots -> Grant]]
  <2>1. \A u \in Users : RestoreGrants(grants[u], ReapedHolds(rs, u)) \in [Slots -> Grant]
    BY ReapedNat, RestoreType DEF TypeOK
  <2> QED BY <1>1, <2>1
<1>4. reservations' \in [ReservationIds -> Reservation]
  <2>1. \A r \in ReservationIds : [reservations[r] EXCEPT !.status = "released"] \in Reservation
    BY HoldingType DEF Reservation
  <2> QED BY <1>1, <2>1 DEF TypeOK
<1> QED BY <1>2, <1>3, <1>4 DEF ReapExpired, TypeOK

\* Rows stay well-formed when they are marked.
LEMMA MarkedType ==
  ASSUME NEW row \in ChatRow, NEW status \in {"pending", "complete", "failed"}
  PROVE  Marked(row, status) \in ChatRow
BY DEF Marked, ChatRow

LEMMA SweepType == ASSUME TypeOK PROVE SweepStale \in [Users -> [RequestKeys -> ChatRow]]
<1>1. NoChat \in ChatRow BY DEF NoChat, ChatRow
<1> QED BY <1>1 DEF SweepStale, TypeOK

LEMMA TypeClaims ==
  ASSUME TypeOK, NEW u \in Users, NEW k \in RequestKeys, NEW f \in Fingerprints, NEW e \in Tasks,
         \/ ClaimChatRequest(u, k, f, e)
         \/ ClaimRefused(u, k, f, e)
         \/ FailChatRequest(u, k, f, e)
  PROVE  TypeOK'
<1>1. CASE ClaimChatRequest(u, k, f, e)
  <2> DEFINE row == [status |-> "pending", fp |-> f, exec |-> e, stale |-> FALSE]
  <2>1. row \in ChatRow BY DEF ChatRow, Tasks
  <2>2. chat' = [SweepStale EXCEPT ![u][k] = row] BY <1>1 DEF ClaimChatRequest
  <2> HIDE DEF row
  <2>3. chat' \in [Users -> [RequestKeys -> ChatRow]] BY <2>1, <2>2, SweepType
  <2> QED BY <1>1, <2>3 DEF ClaimChatRequest, TypeOK
<1>2. CASE ClaimRefused(u, k, f, e) BY <1>2, SweepType DEF ClaimRefused, TypeOK
<1>3. CASE FailChatRequest(u, k, f, e) BY <1>3, MarkedType DEF FailChatRequest, TypeOK
<1> QED BY <1>1, <1>2, <1>3

LEMMA TypeSettleAgain ==
  ASSUME TypeOK, NEW u \in Users, NEW r \in ReservationIds, NEW k \in RequestKeys,
         NEW f \in Fingerprints, NEW e \in Tasks, NEW cost \in Costs,
         SettleAgain(u, r, k, f, e, cost)
  PROVE  TypeOK'
<1>1. reservations[r].wallet \in Nat /\ reservations[r].holds \in [Slots -> Nat]
  BY HoldingType
<1>2. RestoreGrants(grants[u], reservations[r].holds) \in [Slots -> Grant]
  BY <1>1, RestoreType DEF TypeOK
<1>3. balance' \in [Users -> Nat] BY <1>1 DEF SettleAgain, TypeOK
<1>4. grants' \in [Users -> [Slots -> Grant]] BY <1>2 DEF SettleAgain, TypeOK
<1>5. reservations' \in [ReservationIds -> Reservation]
  <2>1. [reservations[r] EXCEPT !.status = "released"] \in Reservation
    BY HoldingType DEF Reservation
  <2> QED BY <2>1 DEF SettleAgain, TypeOK
<1>6. chat' \in [Users -> [RequestKeys -> ChatRow]]
  BY MarkedType DEF SettleAgain, TypeOK
<1> QED BY <1>3, <1>4, <1>5, <1>6 DEF SettleAgain, TypeOK

\* The two allocations of a first settlement: what the reservation pays, and
\* what is taken beyond it.
LEMMA SettleDraws ==
  ASSUME TypeOK, NEW u \in Users, NEW r \in ReservationIds, NEW due \in Nat,
         NEW paid \in Draw(reservations[r].holds, reservations[r].wallet,
                           Lesser(due, Total(reservations[r]))),
         NEW extra \in Draw(Spendable(grants[u]), balance[u],
                            due - Lesser(due, Total(reservations[r])))
  PROVE  /\ paid.holds \in [Slots -> Nat] /\ paid.wallet \in Nat
         /\ paid.wallet <= reservations[r].wallet
         /\ \A i \in Slots : paid.holds[i] <= reservations[r].holds[i]
         /\ Credit(paid) \in Nat
         /\ Credit(paid) + paid.wallet = Lesser(due, Total(reservations[r]))
         /\ extra.holds \in [Slots -> Nat] /\ extra.wallet \in Nat
         /\ extra.wallet <= balance[u]
         /\ \A i \in Slots : extra.holds[i] <= grants[u][i].remaining
         /\ Credit(extra) \in Nat
         /\ Credit(extra) + extra.wallet = due - Lesser(due, Total(reservations[r]))
<1>1. /\ reservations[r].wallet \in Nat /\ reservations[r].holds \in [Slots -> Nat]
      /\ Total(reservations[r]) \in Nat
  BY HoldingType
<1>2. /\ Lesser(due, Total(reservations[r])) \in Nat
      /\ due - Lesser(due, Total(reservations[r])) \in Nat
  BY <1>1 DEF Lesser
<1>3. grants[u] \in [Slots -> Grant] /\ balance[u] \in Nat BY DEF TypeOK
<1>4. /\ paid.holds \in [Slots -> Nat] /\ paid.wallet \in Nat
      /\ paid.wallet <= reservations[r].wallet
      /\ \A i \in Slots : paid.holds[i] <= reservations[r].holds[i]
      /\ Credit(paid) \in Nat
      /\ Credit(paid) + paid.wallet = Lesser(due, Total(reservations[r]))
  BY <1>1, <1>2, DrawFacts
<1>5. /\ Spendable(grants[u]) \in [Slots -> Nat]
      /\ \A i \in Slots : Spendable(grants[u])[i] <= grants[u][i].remaining
  BY <1>3, SpendableType
<1>6. /\ extra.holds \in [Slots -> Nat] /\ extra.wallet \in Nat
      /\ extra.wallet <= balance[u]
      /\ \A i \in Slots : extra.holds[i] <= Spendable(grants[u])[i]
      /\ Credit(extra) \in Nat
      /\ Credit(extra) + extra.wallet = due - Lesser(due, Total(reservations[r]))
  BY <1>2, <1>3, <1>5, DrawFacts
<1>7. \A i \in Slots : extra.holds[i] <= grants[u][i].remaining
  BY <1>3, <1>5, <1>6 DEF Grant
<1> QED BY <1>4, <1>6, <1>7

LEMMA TypeSettleFirst ==
  ASSUME TypeOK, NEW u \in Users, NEW r \in ReservationIds, NEW k \in RequestKeys,
         NEW f \in Fingerprints, NEW e \in Tasks, NEW cost \in Costs,
         SettleFirst(u, r, k, f, e, cost)
  PROVE  TypeOK'
<1> DEFINE row == reservations[r]
           due == Billed(u, cost)
           covered == Lesser(due, Total(row))
<1>1. due \in Nat BY MoneyAssumption, BilledNat
<1>2. PICK paid \in Draw(row.holds, row.wallet, covered),
           extra \in Draw(Spendable(grants[u]), balance[u], due - covered) :
        /\ balance' = [balance EXCEPT ![u] = @ + row.wallet - paid.wallet - extra.wallet]
        /\ grants' = [grants EXCEPT ![u] =
              IF due > covered THEN Spend(@, extra.holds)
              ELSE RestoreGrants(@, [i \in Slots |-> row.holds[i] - paid.holds[i]])]
        /\ ledger' = ledger \cup {LedgerEntry(u, ChatId(k, f), "usage",
              -(paid.wallet + extra.wallet), -(Credit(paid) + Credit(extra)))}
  BY DEF SettleFirst
<1>3. /\ paid.holds \in [Slots -> Nat] /\ paid.wallet \in Nat
      /\ paid.wallet <= row.wallet
      /\ \A i \in Slots : paid.holds[i] <= row.holds[i]
      /\ Credit(paid) \in Nat
      /\ extra.holds \in [Slots -> Nat] /\ extra.wallet \in Nat
      /\ extra.wallet <= balance[u]
      /\ \A i \in Slots : extra.holds[i] <= grants[u][i].remaining
      /\ Credit(extra) \in Nat
  <2> HIDE DEF due
  <2> QED BY <1>1, <1>2, SettleDraws
<1>4. row.wallet \in Nat /\ row.holds \in [Slots -> Nat] BY HoldingType
<1>5. grants[u] \in [Slots -> Grant] /\ balance[u] \in Nat BY DEF TypeOK
<1>6. balance' \in [Users -> Nat]
  <2>1. balance[u] + row.wallet - paid.wallet - extra.wallet \in Nat BY <1>3, <1>4, <1>5
  <2> QED BY <1>2, <2>1 DEF TypeOK
<1>7. grants' \in [Users -> [Slots -> Grant]]
  <2>1. Spend(grants[u], extra.holds) \in [Slots -> Grant] BY <1>3, <1>5, SpendType
  <2>2. [i \in Slots |-> row.holds[i] - paid.holds[i]] \in [Slots -> Nat] BY <1>3, <1>4
  <2>3. RestoreGrants(grants[u], [i \in Slots |-> row.holds[i] - paid.holds[i]])
          \in [Slots -> Grant]
    BY <1>5, <2>2, RestoreType
  <2> QED BY <1>2, <2>1, <2>3 DEF TypeOK
<1>8. ledger' \subseteq Entry
  <2>1. -(paid.wallet + extra.wallet) \in Int /\ -(Credit(paid) + Credit(extra)) \in Int
    BY <1>3
  <2>2. ChatId(k, f) \in LedgerId BY IdType
  <2>3. LedgerEntry(u, ChatId(k, f), "usage", -(paid.wallet + extra.wallet),
                    -(Credit(paid) + Credit(extra))) \in Entry
    BY <2>1, <2>2, EntryType
  <2> QED BY <1>2, <2>3 DEF TypeOK
<1>9. reservations' \in [ReservationIds -> Reservation]
  <2>1. [reservations[r] EXCEPT !.status = "settled"] \in Reservation
    BY HoldingType DEF Reservation
  <2> QED BY <2>1 DEF SettleFirst, TypeOK
<1>10. chat' \in [Users -> [RequestKeys -> ChatRow]] BY MarkedType DEF SettleFirst, TypeOK
<1> QED BY <1>6, <1>7, <1>8, <1>9, <1>10 DEF SettleFirst, TypeOK

\* The passing of time.
LEMMA TypeTime ==
  ASSUME TypeOK,
         \/ \E r \in ReservationIds : LapseReservation(r)
         \/ \E u \in Users, i \in Slots : LapseGrant(u, i)
         \/ \E u \in Users : MarkExpired(u)
         \/ \E u \in Users, k \in RequestKeys : LapseChat(u, k)
         \/ \E e \in Executions : EndExecution(e)
  PROVE  TypeOK'
<1>1. CASE \E r \in ReservationIds : LapseReservation(r)
  <2>1. \A r \in ReservationIds : [reservations[r] EXCEPT !.leased = FALSE] \in Reservation
    BY HoldingType DEF Reservation
  <2> QED BY <1>1, <2>1 DEF LapseReservation, TypeOK
<1>2. CASE \E u \in Users, i \in Slots : LapseGrant(u, i)
  <2>1. \A g \in Grant : [g EXCEPT !.past = TRUE] \in Grant BY DEF Grant
  <2> QED BY <1>2, <2>1 DEF LapseGrant, TypeOK
<1>3. CASE \E u \in Users : MarkExpired(u)
  <2>1. PICK u \in Users : grants' = [grants EXCEPT ![u] = Spend(@, [i \in Slots |-> 0])]
    BY <1>3 DEF MarkExpired
  <2>2. Spend(grants[u], [i \in Slots |-> 0]) \in [Slots -> Grant]
    <3> DEFINE none == [i \in Slots |-> 0]
    <3>1. grants[u] \in [Slots -> Grant] /\ none \in [Slots -> Nat] BY DEF TypeOK
    <3>2. \A i \in Slots : none[i] <= grants[u][i].remaining BY <3>1 DEF Grant
    <3> HIDE DEF none
    <3>3. Spend(grants[u], none) \in [Slots -> Grant] BY <3>1, <3>2, SpendType
    <3> QED BY <3>3 DEF none
  <2> QED BY <1>3, <2>1, <2>2 DEF MarkExpired, TypeOK
<1>4. CASE \E u \in Users, k \in RequestKeys : LapseChat(u, k)
  <2>1. \A row \in ChatRow : [row EXCEPT !.stale = TRUE] \in ChatRow BY DEF ChatRow
  <2> QED BY <1>4, <2>1 DEF LapseChat, TypeOK
<1>5. CASE \E e \in Executions : EndExecution(e)
  BY <1>5 DEF EndExecution, TypeOK
<1> QED BY <1>1, <1>2, <1>3, <1>4, <1>5

LEMMA TypeNext == TypeOK /\ [Next]_vars => TypeOK'
<1> SUFFICES ASSUME TypeOK, [Next]_vars PROVE TypeOK' OBVIOUS
<1>1. CASE UNCHANGED vars BY <1>1 DEF vars, TypeOK
<1>2. CASE Next
  BY <1>2, TypeTopup, TypePurchase, TypeRecordUsage, TypeReserve, TypeRelease, TypeReap,
     TypeClaims, TypeSettleAgain, TypeSettleFirst, TypeTime DEF Next
<1> QED BY <1>1, <1>2

\* The tables stay well-formed; in particular no transaction takes a wallet or
\* the remainder of a grant below zero (the CHECK constraints of cod_users and
\* cod_credit_grants never fire).
THEOREM TypeCorrect == Spec => []TypeOK
BY TypeInit, TypeNext, PTL DEF Spec

(***************************************************************************)
(* Grants.                                                                 *)
(***************************************************************************)

\* A grant never holds more than it began with, is active while there is something
\* in it to spend, and only expires once it was given.
GoodGrant(g) ==
    /\ g.remaining <= g.original
    /\ g.remaining > 0 /\ ~g.past => g.status = "active"
    /\ g.status = "none" => ~g.past

GrantsOK == \A u \in Users, i \in Slots : GoodGrant(grants[u][i])

\* Spending only what allocateFunds may take keeps grants good, and takes nothing of
\* one that has lapsed.
LEMMA SpendGood ==
  ASSUME NEW gs \in [Slots -> Grant], NEW holds \in [Slots -> Nat],
         \A i \in Slots : holds[i] <= Spendable(gs)[i],
         NEW i \in Slots, GoodGrant(gs[i])
  PROVE  /\ GoodGrant(Spend(gs, holds)[i])
         /\ gs[i].past => Spend(gs, holds)[i].remaining = gs[i].remaining
<1> DEFINE g == gs[i]
           left == g.remaining - holds[i]
<1>1. g \in Grant /\ holds[i] \in Nat OBVIOUS
<1>2. g.remaining \in Nat /\ g.original \in Nat BY <1>1 DEF Grant
<1>3. holds[i] <= IF g.status = "active" /\ ~g.past THEN g.remaining ELSE 0
  BY DEF Spendable
<1>4. CASE holds[i] > 0
  <2>1. g.status = "active" /\ ~g.past /\ holds[i] <= g.remaining BY <1>1, <1>2, <1>3, <1>4
  <2>2. left \in Nat /\ left <= g.original BY <1>1, <1>2, <2>1 DEF GoodGrant
  <2>3. Spend(gs, holds)[i] = [g EXCEPT !.remaining = left,
          !.status = IF g.remaining = holds[i] THEN "depleted" ELSE "active"]
    BY <1>4 DEF Spend
  <2>4. left > 0 => g.remaining # holds[i] BY <1>1, <1>2
  <2> HIDE DEF left
  <2> QED BY <1>1, <2>1, <2>2, <2>3, <2>4 DEF GoodGrant, Grant
<1>5. CASE ~ holds[i] > 0
  <2>1. Spend(gs, holds)[i] =
          IF g.status = "active" /\ g.past THEN [g EXCEPT !.status = "expired"] ELSE g
    BY <1>5 DEF Spend
  <2> QED BY <1>1, <2>1 DEF GoodGrant, Grant
<1> QED BY <1>4, <1>5

\* Giving back keeps grants good, and takes nothing of any.
LEMMA RestoreGood ==
  ASSUME NEW gs \in [Slots -> Grant], NEW back \in [Slots -> Nat], NEW i \in Slots,
         GoodGrant(gs[i])
  PROVE  /\ GoodGrant(RestoreGrants(gs, back)[i])
         /\ RestoreGrants(gs, back)[i].remaining >= gs[i].remaining
<1> DEFINE g == gs[i]
           more == Lesser(g.original, g.remaining + back[i])
<1>1. g \in Grant /\ back[i] \in Nat OBVIOUS
<1>2. g.remaining \in Nat /\ g.original \in Nat BY <1>1 DEF Grant
<1>3. CASE back[i] = 0
  <2>1. RestoreGrants(gs, back)[i] = g BY <1>3 DEF RestoreGrants
  <2> QED BY <1>2, <2>1
<1>4. CASE back[i] # 0
  <2>1. RestoreGrants(gs, back)[i] =
          [g EXCEPT !.remaining = more, !.status = IF g.past THEN "expired" ELSE "active"]
    BY <1>4 DEF RestoreGrants
  <2>2. more \in Nat /\ more <= g.original /\ more >= g.remaining
    BY <1>1, <1>2 DEF Lesser, GoodGrant
  <2> HIDE DEF more
  <2> QED BY <1>1, <2>1, <2>2 DEF GoodGrant, Grant
<1> QED BY <1>3, <1>4

\* A step that keeps grants good and takes nothing of one that has lapsed.
GrantsKept == GrantsOK' /\ \A u \in Users, i \in Slots :
    grants[u][i].past => grants'[u][i].remaining >= grants[u][i].remaining

\* The grants of one account change.
LEMMA GrantsOfOne ==
  ASSUME TypeOK, GrantsOK, NEW u \in Users, NEW gs,
         grants' = [grants EXCEPT ![u] = gs],
         \A i \in Slots : /\ GoodGrant(gs[i])
                          /\ grants[u][i].past => gs[i].remaining >= grants[u][i].remaining
  PROVE  GrantsKept
<1>1. ASSUME NEW v \in Users, NEW i \in Slots
      PROVE  /\ GoodGrant(grants'[v][i])
             /\ grants[v][i].past => grants'[v][i].remaining >= grants[v][i].remaining
  <2>1. grants'[v] = IF v = u THEN gs ELSE grants[v] BY DEF TypeOK
  <2>2. grants[v][i].remaining \in Nat BY DEF TypeOK, Grant
  <2> QED BY <2>1, <2>2 DEF GrantsOK
<1> QED BY <1>1 DEF GrantsKept, GrantsOK, GoodGrant

\* An allocation takes only what is spendable.
LEMMA DrawnIsSpendable ==
  ASSUME TypeOK, NEW u \in Users, NEW amount \in Nat,
         NEW a \in Draw(Spendable(grants[u]), balance[u], amount)
  PROVE  a.holds \in [Slots -> Nat] /\ \A i \in Slots : a.holds[i] <= Spendable(grants[u])[i]
<1>1. Spendable(grants[u]) \in [Slots -> Nat] /\ balance[u] \in Nat
  BY SpendableType DEF TypeOK
<1> QED BY <1>1, DrawFacts

\* The grants of an account are spent from.
LEMMA GrantsSpent ==
  ASSUME TypeOK, GrantsOK, NEW u \in Users, NEW holds \in [Slots -> Nat],
         \A i \in Slots : holds[i] <= Spendable(grants[u])[i],
         grants' = [grants EXCEPT ![u] = Spend(@, holds)]
  PROVE  GrantsKept
<1>1. grants[u] \in [Slots -> Grant] BY DEF TypeOK
<1>2. \A i \in Slots : grants[u][i].remaining \in Nat BY <1>1 DEF Grant
<1>3. \A i \in Slots :
        /\ GoodGrant(Spend(grants[u], holds)[i])
        /\ grants[u][i].past => Spend(grants[u], holds)[i].remaining = grants[u][i].remaining
  BY <1>1, SpendGood DEF GrantsOK
<1> DEFINE gs == Spend(grants[u], holds)
<1>4. grants' = [grants EXCEPT ![u] = gs] BY DEF TypeOK
<1>5. \A i \in Slots : GoodGrant(gs[i]) BY <1>3
<1>6. \A i \in Slots : grants[u][i].past => gs[i].remaining = grants[u][i].remaining
  BY <1>3
<1> HIDE DEF gs
<1>7. \A i \in Slots : grants[u][i].past => gs[i].remaining >= grants[u][i].remaining
  BY <1>2, <1>6
<1> QED BY ONLY <1>4, <1>5, <1>7, GrantsOfOne, TypeOK, GrantsOK

\* Something is given back to the grants of an account.
LEMMA GrantsRestored ==
  ASSUME TypeOK, GrantsOK, NEW u \in Users, NEW back \in [Slots -> Nat],
         grants' = [grants EXCEPT ![u] = RestoreGrants(@, back)]
  PROVE  GrantsKept
<1>1. grants[u] \in [Slots -> Grant] BY DEF TypeOK
<1>2. \A i \in Slots :
        /\ GoodGrant(RestoreGrants(grants[u], back)[i])
        /\ RestoreGrants(grants[u], back)[i].remaining >= grants[u][i].remaining
  BY <1>1, RestoreGood DEF GrantsOK
<1>3. grants' = [grants EXCEPT ![u] = RestoreGrants(grants[u], back)] BY DEF TypeOK
<1> QED BY <1>2, <1>3, GrantsOfOne

LEMMA GrantsSame ==
  ASSUME TypeOK, GrantsOK, grants' = grants
  PROVE  GrantsKept
<1>1. \A u \in Users, i \in Slots : grants[u][i].remaining \in Nat BY DEF TypeOK, Grant
<1> QED BY <1>1 DEF GrantsKept, GrantsOK, GoodGrant

LEMMA GrantsNext == TypeOK /\ GrantsOK /\ [Next]_vars => GrantsKept
<1> SUFFICES ASSUME TypeOK, GrantsOK, [Next]_vars PROVE GrantsKept OBVIOUS
<1>1. ASSUME NEW u \in Users, NEW o \in OpKeys, NEW pack \in Packs,
             PurchaseCreditPack(u, o, pack)
      PROVE  GrantsKept
  <2> DEFINE bought == [status |-> "active", past |-> FALSE, original |-> pack.credit,
                        remaining |-> pack.credit, key |-> o]
  <2>1. pack.credit \in Nat BY MoneyAssumption
  <2>2. GoodGrant(bought) BY <2>1 DEF GoodGrant
  <2> HIDE DEF bought
  <2>3. PICK i \in Slots : /\ grants[u][i].status = "none"
                           /\ grants' = [grants EXCEPT ![u][i] = bought]
    BY <1>1 DEF PurchaseCreditPack, bought
  <2> DEFINE gs == [grants[u] EXCEPT ![i] = bought]
  <2>4. grants' = [grants EXCEPT ![u] = gs] BY <2>3 DEF TypeOK
  <2>5. ~grants[u][i].past BY <2>3 DEF GrantsOK, GoodGrant
  <2>6. ASSUME NEW j \in Slots
        PROVE  /\ GoodGrant(gs[j])
               /\ grants[u][j].past => gs[j].remaining >= grants[u][j].remaining
    <3>1. gs[j] = IF j = i THEN bought ELSE grants[u][j] BY DEF TypeOK
    <3>2. grants[u][j].remaining \in Nat BY DEF TypeOK, Grant
    <3> QED BY <2>2, <2>5, <3>1, <3>2 DEF GrantsOK
  <2> HIDE DEF gs
  <2> QED BY <2>4, <2>6, GrantsOfOne
<1>2. ASSUME NEW u \in Users, NEW o \in OpKeys, NEW cost \in Costs, RecordUsage(u, o, cost)
      PROVE  GrantsKept
  <2>1. PICK a \in Draw(Spendable(grants[u]), balance[u], Billed(u, cost)) :
          grants' = [grants EXCEPT ![u] = Spend(@, a.holds)]
    BY <1>2 DEF RecordUsage
  <2>2. Billed(u, cost) \in Nat BY MoneyAssumption, BilledNat
  <2> QED BY <2>1, <2>2, DrawnIsSpendable, GrantsSpent
<1>3. ASSUME NEW u \in Users, NEW r \in ReservationIds, NEW amount \in ReserveAmounts,
             NEW e \in Tasks, ReserveUsage(u, r, amount, e)
      PROVE  GrantsKept
  <2>1. PICK a \in Draw(Spendable(grants[u]), balance[u], Billed(u, amount)) :
          grants' = [grants EXCEPT ![u] = Spend(@, a.holds)]
    BY <1>3 DEF ReserveUsage
  <2>2. Billed(u, amount) \in Nat BY MoneyAssumption, BilledNat
  <2> QED BY <2>1, <2>2, DrawnIsSpendable, GrantsSpent
<1>4. ASSUME NEW u \in Users, NEW r \in ReservationIds, ReleaseUsage(u, r) PROVE GrantsKept
  BY <1>4, HoldingType, GrantsRestored DEF ReleaseUsage
<1>5. CASE ReapExpired
  <2>1. PICK rs \in SUBSET ReservationIds :
          grants' = [u \in Users |-> RestoreGrants(grants[u], ReapedHolds(rs, u))]
    BY <1>5 DEF ReapExpired, Reapable
  <2>2. ASSUME NEW u \in Users, NEW i \in Slots
        PROVE  /\ GoodGrant(grants'[u][i])
               /\ grants'[u][i].remaining >= grants[u][i].remaining
    <3>1. grants[u] \in [Slots -> Grant] BY DEF TypeOK
    <3>2. GoodGrant(grants[u][i]) BY DEF GrantsOK
    <3>3. ReapedHolds(rs, u) \in [Slots -> Nat] BY ReapedNat
    <3>4. grants'[u] = RestoreGrants(grants[u], ReapedHolds(rs, u)) BY <2>1
    <3> QED BY <3>1, <3>2, <3>3, <3>4, RestoreGood
  <2> QED BY <2>2 DEF GrantsKept, GrantsOK, GoodGrant
<1>6. ASSUME NEW u \in Users, NEW r \in ReservationIds, NEW k \in RequestKeys,
             NEW f \in Fingerprints, NEW e \in Tasks, NEW cost \in Costs,
             SettleAgain(u, r, k, f, e, cost)
      PROVE  GrantsKept
  BY <1>6, HoldingType, GrantsRestored, GrantsSame DEF SettleAgain
<1>7. ASSUME NEW u \in Users, NEW r \in ReservationIds, NEW k \in RequestKeys,
             NEW f \in Fingerprints, NEW e \in Tasks, NEW cost \in Costs,
             SettleFirst(u, r, k, f, e, cost)
      PROVE  GrantsKept
  <2> DEFINE row == reservations[r]
             due == Billed(u, cost)
             covered == Lesser(due, Total(row))
  <2>1. PICK paid \in Draw(row.holds, row.wallet, covered),
             extra \in Draw(Spendable(grants[u]), balance[u], due - covered) :
          grants' = [grants EXCEPT ![u] =
              IF due > covered THEN Spend(@, extra.holds)
              ELSE RestoreGrants(@, [i \in Slots |-> row.holds[i] - paid.holds[i]])]
    BY <1>7 DEF SettleFirst
  <2>2. due \in Nat BY MoneyAssumption, BilledNat
  <2>3. due - covered \in Nat BY <2>2, HoldingType DEF Lesser
  <2> HIDE DEF due
  <2>4. /\ paid.holds \in [Slots -> Nat]
        /\ \A i \in Slots : paid.holds[i] <= row.holds[i]
    BY <2>1, <2>2, SettleDraws
  <2>5. row.holds \in [Slots -> Nat] BY HoldingType
  <2>6. [i \in Slots |-> row.holds[i] - paid.holds[i]] \in [Slots -> Nat] BY <2>4, <2>5
  <2> HIDE DEF row, covered
  <2>7. CASE due > covered
    BY <2>1, <2>3, <2>7, DrawnIsSpendable, GrantsSpent
  <2>8. CASE ~ due > covered
    BY <2>1, <2>6, <2>8, GrantsRestored
  <2> QED BY <2>7, <2>8
<1>8. ASSUME NEW u \in Users, NEW i \in Slots, LapseGrant(u, i) PROVE GrantsKept
  <2> DEFINE late == [grants[u][i] EXCEPT !.past = TRUE]
             gs == [grants[u] EXCEPT ![i] = late]
  <2>1. grants' = [grants EXCEPT ![u] = gs] BY <1>8 DEF LapseGrant, TypeOK
  <2>2. grants[u][i] \in Grant /\ grants[u][i].status # "none" /\ ~grants[u][i].past
    BY <1>8 DEF LapseGrant, TypeOK
  <2>3. GoodGrant(late) BY <2>2 DEF GoodGrant, GrantsOK, Grant
  <2>4. \A j \in Slots : gs[j] = IF j = i THEN late ELSE grants[u][j] BY DEF TypeOK
  <2>5. \A j \in Slots : grants[u][j].remaining \in Nat BY DEF TypeOK, Grant
  <2> HIDE DEF gs
  <2>6. late.remaining = grants[u][i].remaining BY <2>2 DEF Grant
  <2>7. \A j \in Slots : GoodGrant(grants[u][j]) BY DEF GrantsOK
  <2> HIDE DEF late
  <2>8. \A j \in Slots : /\ GoodGrant(gs[j])
                         /\ grants[u][j].past => gs[j].remaining >= grants[u][j].remaining
    BY <2>3, <2>4, <2>5, <2>6, <2>7
  <2> QED BY <2>1, <2>8, GrantsOfOne
<1>9. ASSUME NEW u \in Users, MarkExpired(u) PROVE GrantsKept
  <2> DEFINE none == [i \in Slots |-> 0]
  <2>1. none \in [Slots -> Nat] OBVIOUS
  <2>2. \A i \in Slots : none[i] <= Spendable(grants[u])[i] BY DEF Spendable, TypeOK, Grant
  <2>3. grants' = [grants EXCEPT ![u] = Spend(@, none)] BY <1>9 DEF MarkExpired
  <2> HIDE DEF none
  <2> QED BY <2>1, <2>2, <2>3, GrantsSpent
<1>10. CASE grants' = grants BY <1>10, GrantsSame
<1> QED
  BY <1>1, <1>2, <1>3, <1>4, <1>5, <1>6, <1>7, <1>8, <1>9, <1>10
     DEF Next, vars, Topup, ClaimChatRequest, ClaimRefused, FailChatRequest, LapseReservation,
         LapseChat, EndExecution

LEMMA GrantsInit == Init => GrantsOK
BY MoneyAssumption DEF Init, GrantsOK, GoodGrant, TrialGrant, NoGrant

LEMMA GrantsAlways == Spec => [](TypeOK /\ GrantsOK)
<1>1. GrantsKept => GrantsOK' BY DEF GrantsKept
<1> QED BY <1>1, TypeInit, TypeNext, GrantsInit, GrantsNext, PTL DEF Spec

\* Credit that a release, a settlement below the reservation or the reaper gives back
\* can be spent again: allocateFunds only looks at active grants, and in any order of
\* the transactions a grant with something left is active until its expiry.
THEOREM GivenBackIsSpendable == Spec => []GrantsStaySpendable
<1>1. GrantsOK => GrantsStaySpendable BY DEF GrantsOK, GoodGrant, GrantsStaySpendable
<1> QED BY <1>1, GrantsAlways, PTL

\* What has lapsed is never spent, not even between its expiry and the next reader
\* that brings its status up to date, and no refund or cap takes anything of it.
THEOREM LapsedIsNotSpent == Spec => LapsedCreditNotSpent
<1>1. TypeOK /\ GrantsOK /\ [Next]_vars =>
        [\A u \in Users, i \in Slots :
            grants[u][i].past => grants'[u][i].remaining >= grants[u][i].remaining]_vars
  BY GrantsNext DEF GrantsKept
<1> QED BY <1>1, GrantsAlways, PTL DEF Spec, LapsedCreditNotSpent

=============================================================================
