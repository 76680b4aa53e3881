-------------------------- MODULE GateAndFilesProofs --------------------------
(***************************************************************************)
(* Theorems about AuditGate and ProjectFiles, for any reports, paths,      *)
(* directories and limits: the gate of the dependencies passes exactly     *)
(* what was reviewed, and the tree and the changes of a project are        *)
(* complete, or say what they leave out.                                   *)
(***************************************************************************)
EXTENDS AuditGate, ProjectFiles, SumTheorems

-----------------------------------------------------------------------------
(* Lists that name everything once. *)

\* A list names as many things as it is long just when it names none twice.
LEMMA DistinctCount ==
  ASSUME NEW n \in Nat, NEW T, NEW f \in Surjection(1..n, T)
  PROVE  /\ IsFiniteSet(T)
         /\ Cardinality(T) = n <=> \A i, j \in 1..n : f[i] = f[j] => i = j
<1>1. IsFiniteSet(1..n) /\ Cardinality(1..n) = n BY FS_Interval
<1>2. IsFiniteSet(T) /\ (Cardinality(T) = Cardinality(1..n) <=> f \in Injection(1..n, T))
  BY <1>1, FS_Surjection
<1>3. f \in Injection(1..n, T) <=> \A i, j \in 1..n : f[i] = f[j] => i = j
  BY DEF Injection, IsInjective, Surjection
<1> QED BY <1>1, <1>2, <1>3

\* The advisories of a list are the pinned ones, once each, as the code compares them
\* just when the list is one of their orders.
LEMMA EachOnceIsSound ==
  ASSUME NEW s \in Seq(Advisories)
  PROVE  EachOnce(s) <=> s \in Sound
<1> DEFINE n == Cardinality(Pinned)
<1>1. n \in Nat BY AuditAssumption, FS_CardinalityType
<1>2. s \in [1..Len(s) -> Advisories] /\ Len(s) \in Nat /\ DOMAIN s = 1..Len(s) OBVIOUS
<1>3. ASSUME EachOnce(s) PROVE s \in Sound
  <2>1. Len(s) = n /\ s \in [1..n -> Pinned] BY <1>2, <1>3 DEF EachOnce
  <2> DEFINE T == {s[i] : i \in 1..n}
  <2>2. T \in SUBSET Pinned BY <2>1
  <2>3. s \in Surjection(1..n, T) BY <2>1 DEF Surjection
  <2>4. \A i, j \in 1..n : s[i] = s[j] => i = j BY <2>1, <1>2, <1>3 DEF EachOnce
  <2>5. T = Pinned
    <3> HIDE DEF T
    <3>1. Cardinality(T) = n BY <2>3, <2>4, <1>1, DistinctCount
    <3> QED BY <3>1, <2>2, AuditAssumption, FS_Subset
  <2> QED BY <2>1, <2>5 DEF Sound
<1>4. ASSUME s \in Sound PROVE EachOnce(s)
  <2>1. s \in [1..n -> Pinned] /\ {s[i] : i \in DOMAIN s} = Pinned BY <1>4 DEF Sound
  <2>2. DOMAIN s = 1..n BY <2>1
  <2>3. Len(s) = n BY <2>2, <1>1, <1>2
  <2>4. s \in Surjection(1..n, Pinned) BY <2>1, <2>2 DEF Surjection
  <2>5. \A i, j \in 1..n : s[i] = s[j] => i = j BY <2>4, <1>1, DistinctCount
  <2> QED BY <2>1, <2>2, <2>3, <2>5 DEF EachOnce
<1> QED BY <1>3, <1>4

\* The names of the allowlist, and its paths, are told apart as they are counted.
LEMMA AllowlistCounts ==
  ASSUME IsInput(input)
  PROVE  (\A i, j \in DOMAIN Allowlisted :
             i # j => Allowlisted[i].name # Allowlisted[j].name /\ Allowlisted[i].path # Allowlisted[j].path)
         <=> /\ Cardinality(AllowedNames) = Len(Allowlisted)
             /\ Cardinality({Allowlisted[i].path : i \in DOMAIN Allowlisted}) = Len(Allowlisted)
<1> DEFINE A == Allowlisted
<1> DEFINE n == Len(A)
<1> DEFINE names == [i \in 1..n |-> A[i].name]
<1> DEFINE paths == [i \in 1..n |-> A[i].path]
<1>1. A \in Seq([name : Packages, path : STRING]) BY DEF IsInput, Allowlisted
<1> HIDE DEF A
<1>2. n \in Nat /\ DOMAIN A = 1..n BY <1>1
<1> HIDE DEF n
<1>4. names \in Surjection(1..n, {A[i].name : i \in DOMAIN A}) BY <1>2 DEF Surjection
<1>5. paths \in Surjection(1..n, {A[i].path : i \in DOMAIN A}) BY <1>2 DEF Surjection
<1>6. Cardinality({A[i].name : i \in DOMAIN A}) = n <=> \A i, j \in 1..n : names[i] = names[j] => i = j
  <2> HIDE DEF names
  <2> QED BY <1>2, <1>4, DistinctCount
<1>7. Cardinality({A[i].path : i \in DOMAIN A}) = n <=> \A i, j \in 1..n : paths[i] = paths[j] => i = j
  <2> HIDE DEF paths
  <2> QED BY <1>2, <1>5, DistinctCount
<1>8. (\A i, j \in 1..n : names[i] = names[j] => i = j) <=> \A i, j \in DOMAIN A : A[i].name = A[j].name => i = j
  BY <1>2
<1>9. (\A i, j \in 1..n : paths[i] = paths[j] => i = j) <=> \A i, j \in DOMAIN A : A[i].path = A[j].path => i = j
  BY <1>2
<1> HIDE DEF names, paths
<1> QED BY <1>6, <1>7, <1>8, <1>9 DEF A, n, AllowedNames

-----------------------------------------------------------------------------
(* What reachesImageSize computes: it is defined by recursion over the path, *)
(* so that first a function is named that satisfies its equation.            *)

Step(g, n, v) ==
    IF n = ImageSize THEN TRUE
    ELSE IF n \in v THEN FALSE
    ELSE /\ n \in Affected
         /\ \E r \in References(n) : g[v \cup {n}][r]

Recurs(g) == g = [v \in SUBSET Packages |-> [n \in Packages |-> Step(g, n, v)]]

\* A group of packages that no reference leaves, but for those on the path, and that no
\* reference leaves to image-size.
Trap(group, v) ==
    /\ group \in SUBSET (Packages \ v) /\ ImageSize \notin group
    /\ \A p \in group \cap Affected :
          References(p) \subseteq group \cup v /\ ImageSize \notin References(p)

Trapped(n, v) == \E group \in SUBSET Packages : n \in group /\ Trap(group, v)

\* What the recursion comes to: neither on the path nor in such a group.
Escapes(n, v) == n = ImageSize \/ (n \notin v /\ ~Trapped(n, v))

LEMMA ReportTypes ==
  ASSUME IsInput(input)
  PROVE  /\ Affected \subseteq Packages
         /\ \A p \in Affected : References(p) \subseteq Packages /\ Own(p) \in Seq(Advisories)
BY DEF IsInput, Affected, References, Own

\* A package is in such a group just when it is not affected, or everything it refers to
\* is on the path that it prolongs or in a group beside it.
LEMMA TrapStep ==
  ASSUME IsInput(input), NEW v \in SUBSET Packages, NEW n \in Packages,
         n # ImageSize, n \notin v
  PROVE  Trapped(n, v) <=>
            ~(n \in Affected /\ \E r \in References(n) : Escapes(r, v \cup {n}))
<1> DEFINE w == v \cup {n}
<1>1. ASSUME Trapped(n, v), n \in Affected, NEW r \in References(n), Escapes(r, w) PROVE FALSE
  <2>1. PICK group \in SUBSET Packages : n \in group /\ Trap(group, v) BY <1>1 DEF Trapped
  <2>2. r \in group \cup v /\ r # ImageSize BY <1>1, <2>1 DEF Trap
  <2>3. r \notin w BY <1>1, <2>2 DEF Escapes
  <2> DEFINE rest == group \ {n}
  <2>4. r \in rest /\ rest \in SUBSET Packages BY <2>2, <2>3, <2>1
  <2>5. Trap(rest, w) BY <2>1 DEF Trap
  <2> QED BY <2>2, <2>4, <2>5, <1>1 DEF Escapes, Trapped
<1>2. ASSUME ~(n \in Affected /\ \E r \in References(n) : Escapes(r, w)) PROVE Trapped(n, v)
  <2> DEFINE all == {p \in Packages : Trapped(p, w)}
  <2> DEFINE group == all \cup {n}
  <2>1. ASSUME NEW p \in all
        PROVE  /\ p \notin w /\ p # ImageSize
               /\ p \in Affected => References(p) \subseteq all \cup w /\ ImageSize \notin References(p)
    <3>1. PICK g \in SUBSET Packages : p \in g /\ Trap(g, w) BY DEF Trapped
    <3>2. g \subseteq all BY <3>1 DEF Trapped
    <3> QED BY <3>1, <3>2 DEF Trap
  <2>2. ASSUME n \in Affected
        PROVE  References(n) \subseteq group \cup v /\ ImageSize \notin References(n)
    <3>1. ASSUME NEW r \in References(n) PROVE r # ImageSize /\ (r \in w \/ r \in all)
      BY <1>2, <2>2, ReportTypes DEF Escapes
    <3> QED BY <3>1
  <2>3. group \in SUBSET Packages /\ n \in group OBVIOUS
  <2>4. Trap(group, v)
    <3> HIDE DEF all
    <3>1. all \subseteq Packages BY DEF all
    <3>2. group \in SUBSET (Packages \ v) /\ ImageSize \notin group BY <2>1, <3>1
    <3>3. ASSUME NEW p \in group \cap Affected
          PROVE  References(p) \subseteq group \cup v /\ ImageSize \notin References(p)
      BY <2>1, <2>2, <3>3
    <3> QED BY <3>2, <3>3 DEF Trap
  <2> QED BY <2>3, <2>4 DEF Trapped
<1> QED BY <1>1, <1>2

\* So there is a function that satisfies the equation of reachesImageSize.
LEMMA EscapesRecurs ==
  ASSUME IsInput(input)
  PROVE  Recurs([v \in SUBSET Packages |-> [n \in Packages |-> Escapes(n, v)]])
<1> DEFINE g == [v \in SUBSET Packages |-> [n \in Packages |-> Escapes(n, v)]]
<1>1. ASSUME NEW v \in SUBSET Packages, NEW n \in Packages PROVE Escapes(n, v) = Step(g, n, v)
  <2>1. CASE n = ImageSize BY <2>1 DEF Escapes, Step
  <2>2. CASE n # ImageSize /\ n \in v BY <2>2 DEF Escapes, Step
  <2>3. CASE n # ImageSize /\ n \notin v
    <3>1. Escapes(n, v) <=> (n \in Affected /\ \E r \in References(n) : Escapes(r, v \cup {n}))
      BY <2>3, TrapStep DEF Escapes
    <3>2. ASSUME n \in Affected, NEW r \in References(n)
          PROVE  g[v \cup {n}][r] = Escapes(r, v \cup {n})
      BY <3>2, ReportTypes
    <3> HIDE DEF g
    <3>3. Step(g, n, v) <=> (n \in Affected /\ \E r \in References(n) : Escapes(r, v \cup {n}))
      BY <2>3, <3>2 DEF Step
    <3>4. Escapes(n, v) \in BOOLEAN /\ Step(g, n, v) \in BOOLEAN BY DEF Escapes, Step
    <3> QED BY <3>1, <3>3, <3>4
  <2> QED BY <2>1, <2>2, <2>3
<1>2. g = [v \in SUBSET Packages |-> [n \in Packages |-> Step(g, n, v)]]
  <2> DEFINE h == [v \in SUBSET Packages |-> [n \in Packages |-> Step(g, n, v)]]
  <2>1. \A v \in SUBSET Packages : g[v] = h[v] BY <1>1
  <2> QED BY <2>1
<1> QED BY <1>2 DEF Recurs

LEMMA ReachesRecurs ==
  ASSUME IsInput(input)
  PROVE  Recurs(reachesImageSize)
<1>1. reachesImageSize = CHOOSE h : Recurs(h)
  BY Zenon DEF reachesImageSize, Step, MetAgain, Recurs
<1> HIDE DEF Recurs
<1> QED BY <1>1, EscapesRecurs

\* And it is the only one: with fewer packages left beside the path, and none at last,
\* the recursion ends.
LEMMA ReachesIsEscapes ==
  ASSUME IsInput(input), NEW v \in SUBSET Packages, NEW n \in Packages
  PROVE  reachesImageSize[v][n] <=> Escapes(n, v)
<1> DEFINE g == reachesImageSize
<1> DEFINE Left(w) == Packages \ w
<1> DEFINE T == {u \in SUBSET Packages : \E m \in Packages : ~(g[Left(u)][m] <=> Escapes(m, Left(u)))}
<1>1. ASSUME NEW w \in SUBSET Packages, NEW m \in Packages PROVE g[w][m] = Step(g, m, w)
  BY ReachesRecurs DEF Recurs
<1> HIDE DEF g
<1>2. T = {}
  <2>1. SUFFICES ASSUME T # {} PROVE FALSE OBVIOUS
  <2>2. T \in SUBSET (SUBSET Packages) OBVIOUS
  <2> HIDE DEF T
  <2>3. PICK u \in T : \A y \in T : y \subseteq u => y = u
    BY <2>1, <2>2, MinimalSubset, AuditAssumption
  <2> DEFINE w == Left(u)
  <2>4. u \in SUBSET Packages /\ w \in SUBSET Packages BY <2>3, <2>2
  <2>5. PICK m \in Packages : ~(g[w][m] <=> Escapes(m, w)) BY <2>3 DEF T
  <2>6. g[w][m] = Step(g, m, w) BY <1>1, <2>4
  <2>7. m # ImageSize /\ m \notin w BY <2>5, <2>6 DEF Step, Escapes
  <2> DEFINE smaller == u \ {m}
  <2>8. smaller \in SUBSET Packages /\ smaller \subseteq u /\ smaller # u /\ Left(smaller) = w \cup {m}
    BY <2>4, <2>7
  <2>9. smaller \notin T BY <2>8, <2>3
  <2>10. \A r \in Packages : g[w \cup {m}][r] <=> Escapes(r, w \cup {m})
    <3> HIDE DEF Left, smaller, w
    <3>1. \A r \in Packages : g[Left(smaller)][r] <=> Escapes(r, Left(smaller)) BY <2>8, <2>9 DEF T
    <3> QED BY <3>1, <2>8
  <2> HIDE DEF w
  <2>11. m \in Affected => \A r \in References(m) : g[w \cup {m}][r] <=> Escapes(r, w \cup {m})
    BY <2>10, ReportTypes
  <2>12. Step(g, m, w) <=> (m \in Affected /\ \E r \in References(m) : Escapes(r, w \cup {m}))
    BY <2>7, <2>11 DEF Step
  <2>13. Escapes(m, w) <=> (m \in Affected /\ \E r \in References(m) : Escapes(r, w \cup {m}))
    BY <2>4, <2>7, TrapStep DEF Escapes
  <2> QED BY <2>5, <2>6, <2>12, <2>13
<1>3. Left(v) \in SUBSET Packages /\ Left(Left(v)) = v OBVIOUS
<1>4. Left(v) \notin T BY <1>2
<1>5. g[Left(Left(v))][n] <=> Escapes(n, Left(Left(v)))
  <2> HIDE DEF Left
  <2> QED BY <1>3, <1>4
<1> QED BY <1>3, <1>5 DEF g

\* From the start of a path: no group that no reference leaves.
LEMMA ReachesFromStart ==
  ASSUME IsInput(input), NEW n \in Packages
  PROVE  reachesImageSize[{}][n] <=> n = ImageSize \/ ~Trapped(n, {})
BY ReachesIsEscapes DEF Escapes

-----------------------------------------------------------------------------
(* The gate. *)

\* Every group of affected packages is affected from outside of it.
NoClosedGroup ==
    \A group \in SUBSET (Affected \ {ImageSize}) :
          group # {} => \E p \in group : ~(References(p) \subseteq group)

\* The walks over the references succeed just when no group is closed.
LEMMA WalksAgree ==
  ASSUME IsInput(input), ImageSize \in Affected,
         \A p \in Affected : References(p) \subseteq Affected
  PROVE  NoClosedGroup <=> \A p \in Affected \ {ImageSize} :
            References(p) # {} /\ \A r \in References(p) : reachesImageSize[{}][r]
<1>1. Affected \subseteq Packages BY ReportTypes
<1>2. ASSUME NoClosedGroup, NEW p \in Affected \ {ImageSize}
      PROVE  References(p) # {} /\ \A r \in References(p) : reachesImageSize[{}][r]
  <2>1. References(p) # {}
    <3>1. {p} \in SUBSET (Affected \ {ImageSize}) /\ {p} # {} OBVIOUS
    <3>2. \E q \in {p} : ~(References(q) \subseteq {p}) BY <1>2, <3>1 DEF NoClosedGroup
    <3> QED BY <3>2
  <2>2. ASSUME NEW r \in References(p), r # ImageSize, Trapped(r, {}) PROVE FALSE
    <3>1. PICK trap \in SUBSET Packages : r \in trap /\ Trap(trap, {}) BY <2>2 DEF Trapped
    <3> DEFINE group == trap \cap Affected
    <3>2. group \in SUBSET (Affected \ {ImageSize}) /\ r \in group BY <3>1, <2>2 DEF Trap
    <3>3. PICK q \in group : ~(References(q) \subseteq group) BY <3>2, <1>2 DEF NoClosedGroup
    <3>4. References(q) \subseteq trap /\ References(q) \subseteq Affected BY <3>1 DEF Trap
    <3> QED BY <3>3, <3>4
  <2>3. ASSUME NEW r \in References(p) PROVE reachesImageSize[{}][r]
    <3>1. r \in Packages BY <1>1
    <3> QED BY <3>1, <2>2, ReachesFromStart
  <2> QED BY <2>1, <2>3
<1>3. ASSUME \A p \in Affected \ {ImageSize} :
                References(p) # {} /\ \A r \in References(p) : reachesImageSize[{}][r],
             NEW group \in SUBSET (Affected \ {ImageSize}), group # {},
             \A p \in group : References(p) \subseteq group
      PROVE  FALSE
  <2>1. PICK p \in group : TRUE BY <1>3
  <2>2. PICK r \in References(p) : reachesImageSize[{}][r] BY <1>3, <2>1
  <2>3. r \in group /\ r \in Packages /\ r # ImageSize BY <1>3, <1>1, <2>2
  <2>4. Trap(group, {}) BY <1>1, <1>3 DEF Trap
  <2>5. Trapped(r, {}) BY <2>3, <2>4, <1>1 DEF Trapped
  <2> QED BY <2>2, <2>3, <2>5, ReachesFromStart
<1> QED BY <1>2, <1>3 DEF NoClosedGroup

\* What the checks ask of the inputs.
AllHold ==
    /\ AllowlistHolds /\ input.today <= input.expires
    /\ ProductionHolds /\ FullAuditHolds /\ LockfileHolds /\ MitigationsHold

LEMMA FullAuditAgrees ==
  ASSUME IsInput(input), ImageSize \in AllowedNames
  PROVE  FullAuditHolds <=>
            /\ Affected = AllowedNames /\ \A p \in Affected : input.full[p].unchanged
            /\ References(ImageSize) = {} /\ Own(ImageSize) \in Sound
            /\ \A p \in Affected \ {ImageSize} : Own(p) = <<>> /\ References(p) \subseteq Affected
            /\ NoClosedGroup
<1> DEFINE Agreed ==
            /\ Affected = AllowedNames /\ \A p \in Affected : input.full[p].unchanged
            /\ References(ImageSize) = {} /\ Own(ImageSize) \in Sound
            /\ \A p \in Affected \ {ImageSize} : Own(p) = <<>> /\ References(p) \subseteq Affected
            /\ NoClosedGroup
<1>1. ASSUME FullAuditHolds PROVE Agreed
  <2>1. ImageSize \in Affected /\ (\A p \in Affected : References(p) \subseteq Affected) BY <1>1 DEF FullAuditHolds
  <2>2. Own(ImageSize) \in Sound BY <2>1, <1>1, ReportTypes, EachOnceIsSound DEF FullAuditHolds
  <2>3. \A p \in Affected \ {ImageSize} :
            References(p) # {} /\ \A r \in References(p) : reachesImageSize[{}][r]
    BY <1>1 DEF FullAuditHolds
  <2>4. NoClosedGroup BY <2>1, <2>3, WalksAgree
  <2> QED BY <1>1, <2>1, <2>2, <2>4 DEF FullAuditHolds
<1>2. ASSUME Agreed PROVE FullAuditHolds
  <2>1. ImageSize \in Affected /\ (\A p \in Affected : References(p) \subseteq Affected) BY <1>2
  <2>2. EachOnce(Own(ImageSize)) BY <2>1, <1>2, ReportTypes, EachOnceIsSound
  <2>3. \A p \in Affected \ {ImageSize} :
            References(p) # {} /\ \A r \in References(p) : reachesImageSize[{}][r]
    BY <2>1, <1>2, WalksAgree
  <2>4. Own(ImageSize) # <<>>
    <3>1. Cardinality(Pinned) # 0 BY AuditAssumption, FS_EmptySet
    <3> QED BY <2>2, <3>1 DEF EachOnce
  <2> QED BY <1>2, <2>1, <2>2, <2>3, <2>4 DEF FullAuditHolds
<1> QED BY <1>1, <1>2

LEMMA ChecksAreExact == ASSUME IsInput(input) PROVE AllHold <=> AsReviewed
<1>1. input.allowlist.advisories \in Seq(Advisories) BY DEF IsInput
<1>2. AllowlistHolds <=>
         /\ input.allowlist.pinned /\ input.allowlist.advisories \in Sound
         /\ ImageSize \in AllowedNames /\ Cardinality(AllowedNames) = Len(Allowlisted)
         /\ Cardinality({Allowlisted[i].path : i \in DOMAIN Allowlisted}) = Len(Allowlisted)
  BY <1>1, EachOnceIsSound, AllowlistCounts DEF AllowlistHolds
<1>3. ProductionHolds <=> input.production.entries \subseteq {"low"} /\ input.production.total # "high"
  BY DEF IsInput, ProductionHolds
<1>4. LockfileHolds <=> input.lock = [reviewed |-> TRUE, copies |-> 1, parents |-> 1]
  <2> DEFINE lock == input.lock
  <2>1. lock \in [reviewed : BOOLEAN, copies : Nat, parents : Nat] BY DEF IsInput
  <2> HIDE DEF lock
  <2>2. lock.reviewed /\ lock.copies = 1 /\ lock.parents = 1
          <=> lock = [reviewed |-> TRUE, copies |-> 1, parents |-> 1]
    BY <2>1
  <2> QED BY <2>2 DEF LockfileHolds, lock
<1> QED BY <1>2, <1>3, <1>4, FullAuditAgrees DEF AllHold, AsReviewed, NoClosedGroup, MitigationsHold

Ended == {"failed", "unknown"}
FromAudits == {"audits", "production", "full", "lockfile", "mitigations", "test", "passed", "unmitigated"}

\* The checks come in their order: each that is behind held.
GateInv ==
    /\ IsInput(input) /\ parsed \subseteq {"production", "full"}
    /\ check \in {"allowlist", "expiry"} \cup FromAudits \cup Ended
    /\ check \in {"expiry"} \cup FromAudits => AllowlistHolds
    /\ check \in FromAudits => input.today <= input.expires
    /\ check \in FromAudits \ {"audits"} => parsed = {"production", "full"}
    /\ check \in FromAudits \ {"audits", "production"} => ProductionHolds
    /\ check \in {"lockfile", "mitigations", "test", "passed", "unmitigated"} => FullAuditHolds
    /\ check \in {"mitigations", "test", "passed", "unmitigated"} => LockfileHolds
    /\ check \in {"test", "passed", "unmitigated"} => MitigationsHold
    /\ check = "failed" => ~AllHold

LEMMA OrderSteps ==
  /\ After("allowlist") = "expiry" /\ After("expiry") = "audits" /\ After("audits") = "production"
  /\ After("production") = "full" /\ After("full") = "lockfile" /\ After("lockfile") = "mitigations"
  /\ After("mitigations") = "test"
<1>1. ASSUME NEW i \in 1..7 PROVE After(Order[i]) = Order[1 + i]
  <2>1. DOMAIN Order = 1..8 BY DEF Order
  <2>2. \A j \in 1..8 : Order[j] = Order[i] => j = i BY DEF Order
  <2>3. i \in DOMAIN Order BY <2>1
  <2> QED BY <2>1, <2>2, <2>3 DEF After
<1>2. After(Order[1]) = Order[2] /\ After(Order[2]) = Order[3] /\ After(Order[3]) = Order[4]
      /\ After(Order[4]) = Order[5] /\ After(Order[5]) = Order[6] /\ After(Order[6]) = Order[7]
      /\ After(Order[7]) = Order[8]
  BY <1>1
<1> QED BY <1>2 DEF Order

\* The checks read the inputs alone.
LEMMA SameInput ==
  ASSUME input' = input
  PROVE  /\ AllowlistHolds' <=> AllowlistHolds
         /\ ProductionHolds' <=> ProductionHolds
         /\ FullAuditHolds' <=> FullAuditHolds
         /\ LockfileHolds' <=> LockfileHolds
         /\ MitigationsHold' <=> MitigationsHold
         /\ AllHold' <=> AllHold
<1>1. (AllowlistHolds' <=> AllowlistHolds) /\ (AllowedNames' = AllowedNames)
  BY DEF AllowlistHolds, Allowlisted, AllowedNames, EachOnce
<1>2. (ProductionHolds' <=> ProductionHolds) /\ (LockfileHolds' <=> LockfileHolds)
      /\ (MitigationsHold' <=> MitigationsHold)
  BY DEF ProductionHolds, LockfileHolds, MitigationsHold
<1>3. FullAuditHolds' <=> FullAuditHolds
  BY <1>1 DEF FullAuditHolds, Affected, References, Own, reachesImageSize, EachOnce
<1> QED BY <1>1, <1>2, <1>3 DEF AllHold

\* A check that fails is one of those that must hold.
LEMMA ValidateInv == ASSUME GateInv, Validate PROVE GateInv'
<1>1. input' = input /\ parsed' = parsed BY DEF Validate
<1>2. /\ AllowlistHolds' <=> AllowlistHolds
      /\ ProductionHolds' <=> ProductionHolds
      /\ FullAuditHolds' <=> FullAuditHolds
      /\ LockfileHolds' <=> LockfileHolds
      /\ MitigationsHold' <=> MitigationsHold
      /\ AllHold' <=> AllHold
  BY <1>1, SameInput
<1>3. CASE check = "allowlist"
  <2>1. check' = IF AllowlistHolds THEN "expiry" ELSE "failed" BY <1>3, OrderSteps DEF Validate, Holds
  <2> QED BY <1>1, <1>2, <1>3, <2>1 DEF GateInv, FromAudits, Ended, AllHold
<1>4. CASE check = "expiry"
  <2>1. check' = IF input.today <= input.expires THEN "audits" ELSE "failed"
    BY <1>4, OrderSteps DEF Validate, Holds
  <2> QED BY <1>1, <1>2, <1>4, <2>1 DEF GateInv, FromAudits, Ended, AllHold
<1>5. CASE check = "production"
  <2>1. check' = IF ProductionHolds THEN "full" ELSE "failed" BY <1>5, OrderSteps DEF Validate, Holds
  <2> QED BY <1>1, <1>2, <1>5, <2>1 DEF GateInv, FromAudits, Ended, AllHold
<1>6. CASE check = "full"
  <2>1. check' = IF FullAuditHolds THEN "lockfile" ELSE "failed" BY <1>6, OrderSteps DEF Validate, Holds
  <2> QED BY <1>1, <1>2, <1>6, <2>1 DEF GateInv, FromAudits, Ended, AllHold
<1>7. CASE check = "lockfile"
  <2>1. check' = IF LockfileHolds THEN "mitigations" ELSE "failed" BY <1>7, OrderSteps DEF Validate, Holds
  <2> QED BY <1>1, <1>2, <1>7, <2>1 DEF GateInv, FromAudits, Ended, AllHold
<1>8. CASE check = "mitigations"
  <2>1. check' = IF MitigationsHold THEN "test" ELSE "failed" BY <1>8, OrderSteps DEF Validate, Holds
  <2> QED BY <1>1, <1>2, <1>8, <2>1 DEF GateInv, FromAudits, Ended, AllHold
<1> QED BY <1>3, <1>4, <1>5, <1>6, <1>7, <1>8 DEF Validate

\* Both audits answer before anything is made of them.
LEMMA RunNpmAuditInv == ASSUME GateInv, RunNpmAudit PROVE GateInv'
<1>1. input' = input /\ check = "audits" BY DEF RunNpmAudit
<1>2. (AllowlistHolds' <=> AllowlistHolds) /\ (input.today <= input.expires)' = (input.today <= input.expires)
  BY <1>1, SameInput
<1>3. PICK report \in {"production", "full"} \ parsed :
          /\ report = "production" \/ "production" \in parsed
          /\ \/ parsed' = parsed \cup {report}
                /\ check' = IF report = "full" THEN After(check) ELSE check
             \/ parsed' = parsed /\ check' = "unknown"
  BY DEF RunNpmAudit
<1>4. CASE parsed' = parsed /\ check' = "unknown"
  BY <1>1, <1>4 DEF GateInv, FromAudits, Ended
<1>5. CASE parsed' = parsed \cup {report} /\ report = "production" /\ check' = "audits"
  BY <1>1, <1>2, <1>5 DEF GateInv, FromAudits, Ended
<1>6. CASE parsed' = parsed \cup {report} /\ report = "full" /\ check' = "production"
  BY <1>1, <1>2, <1>3, <1>6 DEF GateInv, FromAudits, Ended
<1> QED BY <1>1, <1>3, <1>4, <1>5, <1>6, OrderSteps

LEMMA RunMitigationTestInv == ASSUME GateInv, RunMitigationTest PROVE GateInv'
<1>1. input' = input /\ parsed' = parsed /\ check = "test" /\ check' \in {"passed", "unmitigated"}
  BY DEF RunMitigationTest
<1> QED BY <1>1, SameInput DEF GateInv, FromAudits, Ended

LEMMA GateStepInv == ASSUME GateInv, [AuditNext]_auditVars PROVE GateInv'
<1>1. CASE Validate BY <1>1, ValidateInv
<1>2. CASE RunNpmAudit BY <1>2, RunNpmAuditInv
<1>3. CASE RunMitigationTest BY <1>3, RunMitigationTestInv
<1>4. CASE UNCHANGED auditVars
  <2>1. input' = input /\ check' = check /\ parsed' = parsed BY <1>4 DEF auditVars
  <2> QED BY <2>1, SameInput DEF GateInv
<1> QED BY <1>1, <1>2, <1>3, <1>4 DEF AuditNext

LEMMA GateExact == ASSUME GateInv PROVE GateIsExact
<1>1. AllHold <=> AsReviewed BY ChecksAreExact DEF GateInv
<1>2. check \in {"test", "passed", "unmitigated"} => AllHold /\ parsed = {"production", "full"}
  BY DEF GateInv, FromAudits, AllHold
<1> QED BY <1>1, <1>2 DEF GateIsExact, GateInv

\* GateIsExact, for any packages, advisories and inputs: the checks of the script, the
\* walk over the references among them, accept a report just when no group of packages
\* is affected from within, and so let through nothing that was not reviewed.
THEOREM TheGateIsExact == AuditSpec => []GateIsExact
<1>1. AuditInit => GateInv
  BY AuditAssumption DEF AuditInit, GateInv, FromAudits, Ended
<1>2. GateInv /\ [AuditNext]_auditVars => GateInv' BY GateStepInv
<1>3. GateInv => GateIsExact BY GateExact
<1> QED BY <1>1, <1>2, <1>3, PTL DEF AuditSpec

-----------------------------------------------------------------------------
(* The changes of a project. *)

Preparing == {"rev-parse", "ls-files"}
Making == {"preview", "summary"}

DiffTypes ==
    /\ git.running \subseteq Preparing \cup Making \cup {"unstaged", "staged"}
    /\ git = [running |-> git.running, shown |-> git.shown]
    /\ todo \in Seq(PathTypes) /\ entries \in Seq(Nat)
    /\ budget \in [output : Nat, included : Nat, bytes : Nat, files : Nat]

DiffLimits ==
    /\ Printed <= DiffOutputLimit
    /\ budget.files <= PreviewLimit /\ budget.bytes <= TotalLimit
    /\ budget.included <= PathLimit /\ budget.included <= Len(todo)

\* The output that is counted is what will be printed, as long as it is being made; what
\* was made is complete unless a command has failed.
DiffStages ==
    /\ "rev-parse" \in git.running => git.running = {"rev-parse"}
    /\ git.running \cap Preparing # {} =>
          entries = <<>> /\ budget.included = 0 /\ budget.output = 0 /\ git.running \cap Making = {}
    /\ git.running \cap Making # {} =>
          Printed = budget.output /\ budget.output <= EntryLimit /\ Len(entries) = budget.included
    /\ git.running \cap (Preparing \cup Making) = {} /\ git.shown \in {"none", "changes"} =>
          Len(entries) = budget.included + (IF Omitted > 0 THEN 1 ELSE 0)
    /\ git.shown # "none" => git.running = {}

DiffInv == DiffTypes /\ DiffLimits /\ DiffStages

LEMMA PrintedNothing == ASSUME entries = <<>> PROVE Printed = 0
<1>1. DOMAIN entries = {} BY DOMAIN <<>> = {}
<1> QED BY <1>1, SumEmpty DEF Printed

\* An entry more adds its size, and a line break unless it is the first.
LEMMA PrintedMore ==
  ASSUME entries \in Seq(Nat), NEW size \in Nat, entries' = Append(entries, size)
  PROVE  Printed \in Nat /\ Printed' = Printed + Added(size)
<1> DEFINE n == Len(entries)
<1>1. n \in Nat /\ DOMAIN entries = 1..n /\ \A i \in 1..n : entries[i] \in Nat OBVIOUS
<1>2. DOMAIN entries' = (1..n) \cup {n + 1} /\ Len(entries') = n + 1 /\ entries' # <<>> OBVIOUS
<1>3. entries'[n + 1] = size /\ \A i \in 1..n : entries'[i] = entries[i] OBVIOUS
<1>4. entries = <<>> <=> n = 0 OBVIOUS
<1>5. SumFunctionOnSet(entries, 1..n) \in Nat
  <2>1. IsFiniteSet(1..n) BY <1>1, FS_Interval
  <2> HIDE DEF n
  <2> QED BY <2>1, <1>1, SumNat
<1>6. SumFunctionOnSet(entries', (1..n) \cup {n + 1}) = SumFunctionOnSet(entries, 1..n) + size
  <2> DEFINE S == 1..n
  <2> DEFINE f == entries
  <2> DEFINE h == entries'
  <2> DEFINE last == n + 1
  <2> DEFINE U == S \cup {last}
  <2>1. IsFiniteSet(S) BY <1>1, FS_Interval
  <2>2. last \notin S BY <1>1
  <2>3. (\A x \in S : f[x] \in Int) /\ (\A x \in S : h[x] = f[x]) BY <1>1, <1>3
  <2>4. h[last] \in Int /\ h[last] = size BY <1>3
  <2>5. U = S \cup {last} OBVIOUS
  <2> HIDE DEF S, f, h, last, U
  <2>6. SumFunctionOnSet(h, U) = SumFunctionOnSet(f, S) + h[last]
    BY ONLY <2>1, <2>2, <2>3, <2>4, <2>5, SumInsert
  <2> QED BY <2>4, <2>6 DEF S, f, h, last, U
<1>7. Printed' = SumFunctionOnSet(entries', (1..n) \cup {n + 1}) + n
  BY <1>1, <1>2 DEF Printed
<1>8. Printed = SumFunctionOnSet(entries, 1..n) + (IF n = 0 THEN 0 ELSE n - 1)
  BY <1>1, <1>4 DEF Printed
<1> HIDE DEF n
<1> QED BY <1>1, <1>4, <1>5, <1>6, <1>7, <1>8 DEF Added

LEMMA PrintedSame == ASSUME entries' = entries PROVE Printed' = Printed
BY DEF Printed

LEMMA LimitTypes ==
  /\ DiffOutputLimit \in Nat /\ SummaryReserve \in Nat /\ FileLimit \in Nat /\ TotalLimit \in Nat
  /\ PreviewLimit \in Nat /\ PathLimit \in Nat
  /\ EntryLimit \in Nat /\ EntryLimit + SummaryReserve = DiffOutputLimit /\ SummaryReserve > 1
BY DiffAssumption DEF EntryLimit

LEMMA DiffInitInv == DiffInit => DiffInv
<1> SUFFICES ASSUME DiffInit PROVE DiffInv OBVIOUS
<1>1. Printed = 0 BY PrintedNothing DEF DiffInit
<1>2. todo \in Seq(PathTypes) BY DiffAssumption DEF DiffInit
<1> QED BY <1>1, <1>2, LimitTypes
  DEF DiffInit, DiffInv, DiffTypes, DiffLimits, DiffStages, Preparing, Making

LEMMA ShowingEnds ==
  ASSUME NEW what, Showing(what)
  PROVE  /\ git'.running = {} /\ git'.shown = what
         /\ git' = [running |-> git'.running, shown |-> git'.shown]
BY DEF Showing

\* The commands: what fails leaves what was made unseen.
LEMMA RevParseInv == ASSUME DiffInv, RevParse PROVE DiffInv'
<1>1. UNCHANGED <<todo, entries, budget>> /\ Printed' = Printed /\ Omitted' = Omitted /\ EntryLimit' = EntryLimit
  BY PrintedSame DEF RevParse, Omitted, EntryLimit
<1>2. DiffTypes' /\ DiffLimits'
  <2>1. git'.running \subseteq {"unstaged", "staged", "ls-files"}
        /\ git' = [running |-> git'.running, shown |-> git'.shown]
    <3>1. CASE git' = [git EXCEPT !.running = {"unstaged", "staged", "ls-files"}]
      BY <3>1 DEF DiffInv, DiffTypes
    <3>2. CASE Showing("no repository") \/ Showing("timeout") BY <3>2, ShowingEnds
    <3> QED BY <3>1, <3>2 DEF RevParse
  <2> QED BY <1>1, <2>1 DEF DiffInv, DiffTypes, DiffLimits, Preparing
<1>3. CASE git' = [git EXCEPT !.running = {"unstaged", "staged", "ls-files"}]
  <2>1. git'.running = {"unstaged", "staged", "ls-files"} /\ git'.shown = git.shown
    BY <1>3 DEF DiffInv, DiffTypes
  <2>2. "rev-parse" \in git.running /\ git.running \cap Preparing # {} BY DEF RevParse, Preparing
  <2> QED BY <1>1, <1>2, <2>1, <2>2 DEF DiffInv, DiffStages, Preparing, Making
<1>4. CASE Showing("no repository") \/ Showing("timeout")
  <2>1. git'.running = {} /\ git'.shown \in {"no repository", "timeout"} BY <1>4, ShowingEnds
  <2>2. git'.shown \notin {"none", "changes"}
    <3>1. \A what \in {"no repository", "timeout"} : what \notin {"none", "changes"} BY Zenon
    <3> QED BY <2>1, <3>1
  <2> QED BY <1>2, <2>1, <2>2 DEF DiffInv, DiffStages
<1> QED BY <1>3, <1>4 DEF RevParse

LEMMA CommandEndsInv == ASSUME DiffInv, NEW c \in {"unstaged", "staged", "ls-files"}, CommandEnds(c) PROVE DiffInv'
<1>1. UNCHANGED <<todo, entries, budget>> /\ Printed' = Printed /\ Omitted' = Omitted /\ EntryLimit' = EntryLimit
  BY PrintedSame DEF CommandEnds, Omitted, EntryLimit
<1>2. c \in git.running BY DEF CommandEnds
<1>3. DiffTypes' /\ DiffLimits'
  BY <1>1 DEF DiffInv, DiffTypes, DiffLimits, CommandEnds, Showing, Preparing, Making
<1>4. CASE Showing("timeout") \/ Showing("failed")
  BY <1>1, <1>3, <1>4 DEF DiffInv, DiffStages, Preparing, Making, Showing
<1>5. CASE git' = [git EXCEPT !.running = (@ \ {c}) \cup (IF c = "ls-files" THEN {"preview"} ELSE {})]
  <2>1. git'.running = (git.running \ {c}) \cup (IF c = "ls-files" THEN {"preview"} ELSE {})
        /\ git'.shown = git.shown
    BY <1>5 DEF DiffInv, DiffTypes
  <2>2. "rev-parse" \notin git.running BY <1>2 DEF DiffInv, DiffStages
  <2>3. CASE c = "ls-files"
    <3>1. entries = <<>> /\ budget.included = 0 /\ budget.output = 0 BY <1>2, <2>3 DEF DiffInv, DiffStages, Preparing
    <3>2. Printed = 0 BY <3>1, PrintedNothing
    <3>3. git'.running \cap Preparing = {} /\ git'.running \cap Making # {} /\ "rev-parse" \notin git'.running
      BY <2>1, <2>2, <2>3 DEF Preparing, Making
    <3>4. git.shown = "none" /\ Len(entries) = 0 BY <1>2, <3>1 DEF DiffInv, DiffStages
    <3> QED BY <1>1, <1>3, <2>1, <3>1, <3>2, <3>3, <3>4, LimitTypes DEF DiffInv, DiffStages
  <2>4. CASE c # "ls-files"
    <3>1. git'.running \cap Preparing = git.running \cap Preparing
          /\ git'.running \cap Making = git.running \cap Making
      BY <2>1, <2>4 DEF Preparing, Making
    <3>2. git'.running \cap (Preparing \cup Making) = git.running \cap (Preparing \cup Making) BY <3>1
    <3>3. git.shown = "none" /\ "rev-parse" \notin git'.running BY <1>2, <2>1, <2>2 DEF DiffInv, DiffStages
    <3> QED BY <1>1, <1>3, <2>1, <3>1, <3>2, <3>3 DEF DiffInv, DiffStages
  <2> QED BY <2>3, <2>4
<1> QED BY <1>4, <1>5 DEF CommandEnds

\* An entry that fits is counted with its line break; one that does not, or a timeout,
\* ends the preview.
LEMMA EntryInv ==
  ASSUME DiffInv, Looking, NEW size \in Nat, NEW preview \in [bytes : Nat, files : Nat], NEW stop \in BOOLEAN,
         budget.bytes + preview.bytes <= TotalLimit, budget.files + preview.files <= PreviewLimit,
         AppendPathDiff(size, preview), Onward(size, stop), todo' = todo
  PROVE  DiffInv'
<1>1. /\ "preview" \in git.running /\ git.running \cap Making # {}
      /\ git.running \cap Preparing = {} /\ git.shown = "none"
      /\ budget.included < Len(todo) /\ budget.included < PathLimit
  BY DEF Looking, Seen, DiffInv, DiffStages, Making
<1>2. Printed = budget.output /\ budget.output <= EntryLimit /\ Len(entries) = budget.included
  BY <1>1 DEF DiffInv, DiffStages
<1>3. git' = [running |-> git'.running, shown |-> git'.shown] /\ git'.shown = "none"
      /\ git'.running \cap Preparing = {} /\ git'.running \cap Making # {}
      /\ git'.running \subseteq Preparing \cup Making \cup {"unstaged", "staged"}
  <2>1. CASE git' = git BY <2>1, <1>1 DEF DiffInv, DiffTypes
  <2>2. CASE git' = [git EXCEPT !.running = (@ \ {"preview"}) \cup {"summary"}]
    <3>1. git'.running = (git.running \ {"preview"}) \cup {"summary"} /\ git'.shown = "none"
          /\ git' = [running |-> git'.running, shown |-> git'.shown]
      BY <2>2, <1>1 DEF DiffInv, DiffTypes
    <3> QED BY <3>1, <1>1 DEF DiffInv, DiffTypes, Preparing, Making
  <2> QED BY <2>1, <2>2 DEF Onward
<1>4. "rev-parse" \notin git'.running /\ git'.running \cap (Preparing \cup Making) # {} BY <1>3 DEF Preparing
<1>5. EntryLimit' = EntryLimit BY DEF EntryLimit
<1>6. budget \in [output : Nat, included : Nat, bytes : Nat, files : Nat] /\ entries \in Seq(Nat)
      /\ todo \in Seq(PathTypes) /\ Len(todo) \in Nat
      /\ budget.output \in Nat /\ budget.included \in Nat /\ budget.bytes \in Nat /\ budget.files \in Nat
      /\ preview.bytes \in Nat /\ preview.files \in Nat
  BY DEF DiffInv, DiffTypes
<1>7. CASE Fits(size)
  <2>1. entries' = Append(entries, size) /\ Added(size) \in Nat
        /\ budget' = [budget EXCEPT !.output = @ + Added(size), !.included = @ + 1,
                                    !.bytes = @ + preview.bytes, !.files = @ + preview.files]
    BY <1>7 DEF AppendPathDiff, Added
  <2>2. Printed' = Printed + Added(size) BY <2>1, <1>6, PrintedMore
  <2>3. entries' \in Seq(Nat) /\ Len(entries') = Len(entries) + 1 BY <2>1, <1>6
  <2>4. /\ budget'.output = budget.output + Added(size) /\ budget'.included = budget.included + 1
        /\ budget'.bytes = budget.bytes + preview.bytes /\ budget'.files = budget.files + preview.files
        /\ budget' \in [output : Nat, included : Nat, bytes : Nat, files : Nat]
    <3> DEFINE added == Added(size)
    <3>1. added \in Nat
          /\ budget' = [budget EXCEPT !.output = @ + added, !.included = @ + 1,
                                      !.bytes = @ + preview.bytes, !.files = @ + preview.files]
      BY <2>1
    <3> HIDE DEF added
    <3>2. /\ budget.output + added \in Nat /\ budget.included + 1 \in Nat
          /\ budget.bytes + preview.bytes \in Nat /\ budget.files + preview.files \in Nat
      BY <3>1, <1>6
    <3>3. /\ budget'.output = budget.output + added /\ budget'.included = budget.included + 1
          /\ budget'.bytes = budget.bytes + preview.bytes /\ budget'.files = budget.files + preview.files
          /\ budget' \in [output : Nat, included : Nat, bytes : Nat, files : Nat]
      BY <3>1, <3>2, <1>6
    <3> QED BY <3>3 DEF added
  <2>5. Printed' = budget'.output /\ budget'.output <= EntryLimit /\ Len(entries') = budget'.included
    BY <2>2, <2>3, <2>4, <1>2, <1>7 DEF Fits
  <2>6. DiffTypes' BY <1>3, <1>6, <2>3, <2>4 DEF DiffTypes
  <2>7. DiffLimits'
    <3>1. Len(todo') = Len(todo) /\ budget'.included = budget.included + 1 BY <2>4
    <3>2. budget'.included <= Len(todo') BY <3>1, <1>1, <1>6
    <3>3. budget'.included <= PathLimit
      <4>1. budget.included \in Nat /\ budget.included < PathLimit /\ PathLimit \in Nat BY <1>1, <1>6, LimitTypes
      <4> QED BY ONLY <4>1, <3>1
    <3>4. Printed' <= DiffOutputLimit BY <2>4, <2>5, LimitTypes
    <3> QED BY <3>2, <3>3, <3>4, <2>4 DEF DiffLimits
  <2>8. DiffStages' BY <1>3, <1>4, <1>5, <2>5 DEF DiffStages
  <2> QED BY <2>6, <2>7, <2>8 DEF DiffInv
<1>8. CASE ~Fits(size)
  <2>1. entries' = entries
        /\ budget' = [budget EXCEPT !.bytes = @ + preview.bytes, !.files = @ + preview.files]
    BY <1>8 DEF AppendPathDiff
  <2>2. Printed' = Printed BY <2>1, PrintedSame
  <2>4. /\ budget'.output = budget.output /\ budget'.included = budget.included
        /\ budget'.bytes = budget.bytes + preview.bytes /\ budget'.files = budget.files + preview.files
        /\ budget' \in [output : Nat, included : Nat, bytes : Nat, files : Nat]
    <3>1. budget.bytes + preview.bytes \in Nat /\ budget.files + preview.files \in Nat BY <1>6
    <3> QED BY <3>1, <2>1, <1>6
  <2>6. DiffTypes' BY <1>3, <1>6, <2>1, <2>4 DEF DiffTypes
  <2>7. DiffLimits'
    <3>1. Len(todo') = Len(todo) /\ budget'.included = budget.included BY <2>4
    <3>2. Printed' <= DiffOutputLimit BY <2>2, <1>2, <1>6, LimitTypes
    <3>3. budget'.included <= Len(todo') /\ budget'.included <= PathLimit BY <3>1, <1>1, <1>6, LimitTypes
    <3> QED BY <3>2, <3>3, <2>4 DEF DiffLimits
  <2>8. DiffStages' BY <1>2, <1>3, <1>4, <1>5, <2>1, <2>2, <2>4 DEF DiffStages
  <2> QED BY <2>6, <2>7, <2>8 DEF DiffInv
<1> QED BY <1>7, <1>8

LEMMA PlaceholderInv == ASSUME DiffInv, Placeholder PROVE DiffInv'
<1>1. NoPreview \in [bytes : Nat, files : Nat] /\ NoPreview.bytes = 0 /\ NoPreview.files = 0 BY DEF NoPreview
<1>2. budget.bytes + NoPreview.bytes <= TotalLimit /\ budget.files + NoPreview.files <= PreviewLimit
  BY <1>1 DEF DiffInv, DiffTypes, DiffLimits
<1> QED BY <1>1, <1>2, EntryInv DEF Placeholder

\* What is previewed was within the limits with it.
LEMMA PreviewInv == ASSUME DiffInv, Preview PROVE DiffInv'
<1>1. PICK size \in DiffSizes, timeout \in BOOLEAN :
          /\ AppendPathDiff(size, [bytes |-> NextPath.size, files |-> 1])
          /\ Onward(size, timeout)
  BY DEF Preview
<1>2. Looking /\ todo' = todo /\ Previewable(NextPath) BY DEF Preview
<1>3. NextPath \in PathTypes
  <2>1. todo \in Seq(PathTypes) /\ budget.included \in Nat BY DEF DiffInv, DiffTypes
  <2>2. budget.included + 1 \in 1..Len(todo) BY <1>2, <2>1 DEF Looking, Seen
  <2> QED BY <2>1, <2>2 DEF NextPath, Seen
<1> DEFINE preview == [bytes |-> NextPath.size, files |-> 1]
<1>4. preview \in [bytes : Nat, files : Nat] /\ preview.bytes = NextPath.size /\ preview.files = 1
  BY <1>3 DEF PathTypes
<1>5. budget.bytes + preview.bytes <= TotalLimit /\ budget.files + preview.files <= PreviewLimit
  BY <1>2, <1>4, LimitTypes DEF Previewable, DiffInv, DiffTypes
<1>6. size \in Nat BY DiffAssumption
<1>7. AppendPathDiff(size, preview) BY <1>1
<1> HIDE DEF preview
<1> QED BY <1>1, <1>2, <1>4, <1>5, <1>6, <1>7, EntryInv

\* The line that counts what is left out has room: it was kept free for it.
LEMMA SummaryInv == ASSUME DiffInv, Summary PROVE DiffInv'
<1>1. UNCHANGED <<todo, budget>> /\ git.running \cap Making # {}
      /\ git' = [git EXCEPT !.running = @ \ {"preview", "summary"}]
  BY DEF Summary, Making
<1>2. /\ Printed = budget.output /\ budget.output <= EntryLimit /\ Len(entries) = budget.included
      /\ git.running \cap Preparing = {} /\ git.shown = "none" /\ "rev-parse" \notin git.running
  BY <1>1 DEF DiffInv, DiffStages, Making
<1>3. /\ git'.running = git.running \ Making /\ git'.shown = "none"
      /\ git' = [running |-> git'.running, shown |-> git'.shown]
  BY <1>1, <1>2 DEF DiffInv, DiffTypes, Making
<1>4. /\ git'.running \cap Making = {} /\ git'.running \cap Preparing = {} /\ "rev-parse" \notin git'.running
      /\ git'.running \cap (Preparing \cup Making) = {}
  BY <1>2, <1>3
<1>5. budget \in [output : Nat, included : Nat, bytes : Nat, files : Nat] /\ entries \in Seq(Nat)
      /\ todo \in Seq(PathTypes) /\ Len(todo) \in Nat
  BY DEF DiffInv, DiffTypes
<1>6. Omitted' = Omitted BY <1>1 DEF Omitted
<1>7. /\ entries' \in Seq(Nat) /\ Printed' <= DiffOutputLimit
      /\ Len(entries') = budget.included + (IF Omitted > 0 THEN 1 ELSE 0)
  <2>1. CASE Omitted > 0
    <3>1. entries' = Append(entries, SummaryReserve - 1) BY <2>1 DEF Summary
    <3>2. SummaryReserve - 1 \in Nat BY LimitTypes
    <3>3. Printed \in Nat /\ Printed' = Printed + Added(SummaryReserve - 1) BY <3>1, <3>2, <1>5, PrintedMore
    <3>4. entries' \in Seq(Nat) /\ Len(entries') = Len(entries) + 1 BY <3>1, <3>2, <1>5
    <3>5. Added(SummaryReserve - 1) <= SummaryReserve /\ Added(SummaryReserve - 1) \in Nat
      BY <3>2, LimitTypes DEF Added
    <3>6. Printed' <= DiffOutputLimit
      <4> DEFINE added == Added(SummaryReserve - 1)
      <4>1. added \in Nat /\ added <= SummaryReserve /\ Printed' = Printed + added BY <3>3, <3>5
      <4> HIDE DEF added
      <4> QED BY <4>1, <3>3, <1>2, LimitTypes
    <3> QED BY <2>1, <3>4, <3>6, <1>2
  <2>2. CASE ~(Omitted > 0)
    <3>1. entries' = entries BY <2>2 DEF Summary
    <3>2. Printed' = Printed BY <3>1, PrintedSame
    <3> QED BY <2>2, <3>1, <3>2, <1>2, <1>5 DEF DiffInv, DiffLimits
  <2> QED BY <2>1, <2>2
<1>8. DiffTypes' BY <1>1, <1>3, <1>5, <1>7 DEF DiffTypes, DiffInv
<1>9. DiffLimits' BY <1>1, <1>7 DEF DiffLimits, DiffInv
<1>10. DiffStages' BY <1>1, <1>3, <1>4, <1>6, <1>7 DEF DiffStages
<1> QED BY <1>8, <1>9, <1>10 DEF DiffInv

LEMMA ShownInv == ASSUME DiffInv, Shown PROVE DiffInv'
<1>1. UNCHANGED <<todo, entries, budget>> /\ Printed' = Printed /\ Omitted' = Omitted /\ EntryLimit' = EntryLimit
  BY PrintedSame DEF Shown, Omitted, EntryLimit
<1>2. git.running = {} /\ git.shown = "none" /\ git'.running = {} /\ git'.shown = "changes"
      /\ git' = [running |-> git'.running, shown |-> git'.shown]
  BY ShowingEnds DEF Shown
<1>3. DiffTypes' BY <1>1, <1>2 DEF DiffInv, DiffTypes
<1>4. DiffLimits' BY <1>1 DEF DiffInv, DiffLimits
<1>5. DiffStages' BY <1>1, <1>2 DEF DiffInv, DiffStages
<1> QED BY <1>3, <1>4, <1>5 DEF DiffInv

LEMMA DiffStepInv == ASSUME DiffInv, [DiffNext]_diffVars PROVE DiffInv'
<1>1. CASE UNCHANGED diffVars
  <2>1. git' = git /\ todo' = todo /\ entries' = entries /\ budget' = budget BY <1>1 DEF diffVars
  <2>2. Printed' = Printed /\ Omitted' = Omitted /\ EntryLimit' = EntryLimit
    BY <2>1, PrintedSame DEF Omitted, EntryLimit
  <2> QED BY <2>1, <2>2 DEF DiffInv, DiffTypes, DiffLimits, DiffStages
<1> QED BY <1>1, RevParseInv, CommandEndsInv, PlaceholderInv, PreviewInv, SummaryInv, ShownInv DEF DiffNext

LEMMA DiffInvComplete == ASSUME DiffInv PROVE DiffComplete
<1>1. git.shown = "changes" => git.running = {} BY DEF DiffInv, DiffStages
<1> QED BY <1>1 DEF DiffInv, DiffLimits, DiffStages, DiffComplete

\* The preview of a project's changes keeps within its limits, the line that counts what
\* it leaves out included, and shows or counts every untracked path.
THEOREM DiffIsComplete == DiffSpec => []DiffComplete
<1>1. DiffInit => DiffInv BY DiffInitInv
<1>2. DiffInv /\ [DiffNext]_diffVars => DiffInv' BY DiffStepInv
<1>3. DiffInv => DiffComplete BY DiffInvComplete
<1> QED BY <1>1, <1>2, <1>3, PTL DEF DiffSpec

-----------------------------------------------------------------------------
(* The tree of a project. *)

Named(name) == \E j \in DOMAIN listing : listing[j].name = name
BeingRead(dir) == \E k \in DOMAIN stack : stack[k].dir = dir

Levels == [dir : DOMAIN tree, next : Nat \ {0}, depth : Nat]
Items == [name : STRING, depth : Nat]

TreeTypes ==
    /\ IsTree(tree) /\ stack \in Seq(Levels) /\ listing \in Seq(Items)
    /\ nodes \in [remaining : Nat, truncated : BOOLEAN, failed : BOOLEAN]
    /\ nodes.remaining = NodeLimit - 1 - Len(listing)

\* Nothing is listed twice, and only below what is listed.
ListedOnce ==
    /\ \A i, j \in DOMAIN listing : listing[i].name = listing[j].name => i = j
    /\ \A j \in DOMAIN listing : \E d \in DOMAIN tree : \E i \in DOMAIN Entries(d) :
          listing[j].name = Entries(d)[i].name /\ (d = Top \/ Named(d))

\* A directory that is being read is the top one or is listed, and of its entries those
\* before the next are listed, the others not yet.
LevelRead(l) ==
    /\ \/ l.dir = Top /\ l.depth = 0
       \/ l.dir # Top /\ l.depth > 0 /\ InListing(l.dir, l.depth - 1)
    /\ \A i \in DOMAIN Entries(l.dir) :
          IF i < l.next THEN InListing(Entries(l.dir)[i].name, l.depth) ELSE ~Named(Entries(l.dir)[i].name)

StackRead ==
    /\ \A k \in DOMAIN stack : LevelRead(stack[k])
    /\ \A j, k \in DOMAIN stack : stack[j].dir = stack[k].dir => j = k

\* What is not being read any more has been read to its end, unless that is said.
ReadToEnd ==
    ~nodes.truncated =>
        /\ BeingRead(Top) \/ AllInListing(Top, 0)
        /\ \A d \in DOMAIN tree, depth \in 0..(DepthLimit - 1) :
              InListing(d, depth) => BeingRead(d) \/ AllInListing(d, depth + 1)

TreeInv == TreeTypes /\ ListedOnce /\ StackRead /\ ReadToEnd

LEMMA TreeInitInv == TreeInit => TreeInv
<1> SUFFICES ASSUME TreeInit PROVE TreeInv OBVIOUS
<1> DEFINE level == [dir |-> Top, next |-> 1, depth |-> 0]
<1>1. IsTree(tree) /\ Top \in DOMAIN tree BY TreeAssumption DEF TreeInit, IsTree
<1>2. stack = <<level>> /\ level \in Levels BY <1>1 DEF TreeInit, Levels
<1>3. DOMAIN stack = {1} /\ stack[1] = level /\ stack \in Seq(Levels) BY <1>2
<1>4. listing = <<>> /\ listing \in Seq(Items) /\ DOMAIN listing = {} /\ Len(listing) = 0 BY DEF TreeInit
<1>5. TreeTypes BY <1>1, <1>3, <1>4, TreeAssumption DEF TreeInit, TreeTypes
<1>6. ListedOnce BY <1>4 DEF ListedOnce
<1>7. LevelRead(level)
  <2>1. \A i \in DOMAIN Entries(Top) : ~(i < 1) /\ ~Named(Entries(Top)[i].name)
    BY <1>1, <1>4 DEF IsTree, Entries, Named
  <2> QED BY <2>1 DEF LevelRead
<1>8. StackRead BY <1>3, <1>7 DEF StackRead
<1>9. ReadToEnd BY <1>3, <1>4 DEF ReadToEnd, BeingRead, InListing
<1> QED BY <1>5, <1>6, <1>8, <1>9 DEF TreeInv

\* What the entries of a tree are.
LEMMA EntryFacts ==
  ASSUME IsTree(tree), NEW d \in DOMAIN tree
  PROVE  /\ DOMAIN Entries(d) = 1..Len(Entries(d)) /\ Len(Entries(d)) \in Nat
         /\ \A i \in DOMAIN Entries(d) :
               /\ Entries(d)[i] \in [name : STRING, dir : BOOLEAN]
               /\ Entries(d)[i].name # Top
               /\ Entries(d)[i].dir <=> Entries(d)[i].name \in DOMAIN tree
               /\ \A c \in DOMAIN tree : \A j \in DOMAIN Entries(c) :
                     Entries(c)[j].name = Entries(d)[i].name => c = d /\ j = i
<1>1. Entries(d) \in Seq([name : STRING, dir : BOOLEAN]) BY DEF IsTree, Entries
<1>2. \A i \in DOMAIN Entries(d) :
               /\ Entries(d)[i].name # Top
               /\ Entries(d)[i].dir <=> Entries(d)[i].name \in DOMAIN tree
  BY DEF IsTree, Entries
<1>3. \A i \in DOMAIN Entries(d) : \A c \in DOMAIN tree : \A j \in DOMAIN Entries(c) :
         Entries(c)[j].name = Entries(d)[i].name => c = d /\ j = i
  BY Zenon DEF IsTree, Entries
<1>4. DOMAIN Entries(d) = 1..Len(Entries(d)) /\ Len(Entries(d)) \in Nat
      /\ \A i \in DOMAIN Entries(d) : Entries(d)[i] \in [name : STRING, dir : BOOLEAN]
  <2> DEFINE s == Entries(d)
  <2> DEFINE E == [name : STRING, dir : BOOLEAN]
  <2>1. s \in Seq(E) BY <1>1
  <2> HIDE DEF s, E
  <2>2. DOMAIN s = 1..Len(s) /\ Len(s) \in Nat /\ \A i \in DOMAIN s : s[i] \in E BY <2>1
  <2> QED BY <2>2 DEF s, E
<1> QED BY <1>2, <1>3, <1>4

LEMMA ListedIsNamed == ASSUME NEW n, NEW depth, InListing(n, depth) PROVE Named(n)
BY DEF InListing, Named

LEMMA Joined ==
  ASSUME NEW L, NEW a \in Seq(L), NEW b \in Seq(L)
  PROVE  /\ a \o b \in Seq(L) /\ DOMAIN (a \o b) = 1..(Len(a) + Len(b))
         /\ \A k \in 1..Len(a) : (a \o b)[k] = a[k]
         /\ \A k \in 1..Len(b) : (a \o b)[Len(a) + k] = b[k]
OBVIOUS

\* The last level, with its next entry one further, and perhaps one level more.
LEMMA StackMoves ==
  ASSUME stack \in Seq(Levels), stack # <<>>,
         NEW more \in Seq(Levels), Len(more) \in {0, 1},
         stack' = [stack EXCEPT ![Len(stack)].next = @ + 1] \o more
  PROVE  /\ DOMAIN stack = 1..Len(stack) /\ Len(stack) \in Nat \ {0}
         /\ stack' \in Seq(Levels) /\ DOMAIN stack' = 1..(Len(stack) + Len(more))
         /\ \A k \in 1..(Len(stack) - 1) : stack'[k] = stack[k]
         /\ stack'[Len(stack)] = [stack[Len(stack)] EXCEPT !.next = @ + 1]
         /\ Len(more) = 1 => stack'[Len(stack) + 1] = more[1]
<1> DEFINE n == Len(stack)
<1> DEFINE next == [stack[n] EXCEPT !.next = @ + 1]
<1> DEFINE at == [stack EXCEPT ![n].next = @ + 1]
<1>1. n \in Nat \ {0} /\ DOMAIN stack = 1..n /\ stack \in [1..n -> Levels] OBVIOUS
<1>2. n \in 1..n
  <2> HIDE DEF n
  <2> QED BY <1>1
<1>3. at = [stack EXCEPT ![n] = next] OBVIOUS
<1> HIDE DEF n, at
<1>4. next \in Levels
  <2>1. stack[n] \in Levels BY <1>1, <1>2
  <2> DEFINE l == stack[n]
  <2>2. l \in [dir : DOMAIN tree, next : Nat \ {0}, depth : Nat] BY <2>1 DEF Levels
  <2> HIDE DEF l
  <2>3. l.next + 1 \in Nat \ {0} BY <2>2
  <2>4. [l EXCEPT !.next = @ + 1] \in [dir : DOMAIN tree, next : Nat \ {0}, depth : Nat] BY <2>2, <2>3
  <2> QED BY <2>4 DEF l, Levels
<1> HIDE DEF next
<1>5. at \in [1..n -> Levels] /\ at[n] = next /\ \A k \in 1..(n - 1) : at[k] = stack[k]
  BY <1>1, <1>2, <1>3, <1>4
<1>6. at \in Seq(Levels) /\ Len(at) = n BY <1>1, <1>5
<1>7. stack' = at \o more /\ stack' \in Seq(Levels) /\ DOMAIN stack' = 1..(n + Len(more))
  <2>1. stack' = at \o more BY DEF at, n
  <2>2. at \o more \in Seq(Levels) /\ DOMAIN (at \o more) = 1..(n + Len(more)) BY <1>6, Joined
  <2> QED BY <2>1, <2>2
<1>8. (\A k \in 1..n : stack'[k] = at[k]) /\ (Len(more) = 1 => stack'[n + 1] = more[1])
  BY <1>1, <1>6, <1>7, Joined
<1>9. stack'[n] = next /\ \A k \in 1..(n - 1) : stack'[k] = stack[k] BY <1>1, <1>2, <1>5, <1>8
<1> QED BY <1>1, <1>7, <1>8, <1>9 DEF next, n

\* One item more in the listing.
LEMMA ListingMoves ==
  ASSUME listing \in Seq(Items), NEW item \in Items, listing' = Append(listing, item)
  PROVE  /\ listing' \in Seq(Items) /\ Len(listing') = Len(listing) + 1 /\ Len(listing) \in Nat
         /\ \A j \in DOMAIN listing : j \in DOMAIN listing' /\ listing'[j] = listing[j]
         /\ \A j \in DOMAIN listing' : j \in DOMAIN listing \/ (j = Len(listing) + 1 /\ listing'[j] = item)
         /\ \A x : Named(x)' <=> Named(x) \/ x = item.name
         /\ \A x, depth : InListing(x, depth)' <=>
               InListing(x, depth) \/ (x = item.name /\ depth = item.depth)
<1> DEFINE m == Len(listing)
<1>1. m \in Nat /\ DOMAIN listing = 1..m OBVIOUS
<1>2. listing' \in Seq(Items) /\ Len(listing') = m + 1 /\ DOMAIN listing' = 1..(m + 1)
      /\ listing'[m + 1] = item /\ \A j \in 1..m : listing'[j] = listing[j]
  OBVIOUS
<1> HIDE DEF m
<1>3. \A j \in DOMAIN listing : j \in DOMAIN listing' /\ listing'[j] = listing[j] BY <1>1, <1>2
<1>4. \A j \in DOMAIN listing' : j \in DOMAIN listing \/ (j = m + 1 /\ listing'[j] = item) BY <1>1, <1>2
<1>5. m + 1 \in DOMAIN listing' /\ listing'[m + 1] = item BY <1>1, <1>2
<1>6. ASSUME NEW x PROVE Named(x)' <=> Named(x) \/ x = item.name BY <1>3, <1>4, <1>5 DEF Named
<1>7. ASSUME NEW x, NEW depth
      PROVE  InListing(x, depth)' <=> InListing(x, depth) \/ (x = item.name /\ depth = item.depth)
  <2>1. item = [name |-> x, depth |-> depth] <=> x = item.name /\ depth = item.depth BY DEF Items
  <2> QED BY <2>1, <1>3, <1>4, <1>5 DEF InListing
<1> QED BY <1>1, <1>2, <1>3, <1>4, <1>6, <1>7 DEF m

\* The next entry has not been listed; a directory is read after it is listed, and its
\* own entries have not been listed before it.
LEMMA ListEntryInv == ASSUME TreeInv, ListEntry PROVE TreeInv'
<1> DEFINE n == Len(stack)
<1> DEFINE l == Level
<1> DEFINE d == l.dir
<1> DEFINE e == Entries(l.dir)[l.next]
<1> DEFINE item == [name |-> e.name, depth |-> l.depth]
<1> DEFINE more == IF e.dir THEN Entered(e.name, l.depth + 1) ELSE <<>>
<1> DEFINE pushed == [dir |-> e.name, next |-> 1, depth |-> l.depth + 1]
<1>1. /\ IsTree(tree) /\ stack \in Seq(Levels) /\ listing \in Seq(Items) /\ stack # <<>> /\ tree' = tree
      /\ nodes \in [remaining : Nat, truncated : BOOLEAN, failed : BOOLEAN] /\ nodes.remaining > 0
      /\ nodes.remaining = NodeLimit - 1 - Len(listing)
      /\ listing' = Append(listing, item)
      /\ stack' = [stack EXCEPT ![Len(stack)].next = @ + 1] \o more
      /\ nodes' = [nodes EXCEPT !.remaining = @ - 1,
                       !.truncated = @ \/ Overfull \/ Unread(e, l.depth + 1)]
  BY DEF TreeInv, TreeTypes, ListEntry, Reading
<1>2. n \in DOMAIN stack /\ DOMAIN stack = 1..n /\ n \in Nat \ {0} /\ l = stack[n] /\ l \in Levels
  <2>1. n \in DOMAIN stack /\ DOMAIN stack = 1..n /\ n \in Nat \ {0} /\ stack \in [1..n -> Levels] BY <1>1
  <2>2. l = stack[n] BY DEF Level
  <2> HIDE DEF n, l
  <2> QED BY <2>1, <2>2
<1>3. d \in DOMAIN tree /\ l.next \in Nat \ {0} /\ l.depth \in Nat BY <1>2 DEF Levels
<1>4. l.next \in DOMAIN Entries(d)
  <2>1. ~(l.next > Len(Entries(d))) BY DEF ListEntry, AtEnd
  <2> HIDE DEF d, l
  <2> QED BY <2>1, <1>1, <1>3, EntryFacts
<1>5. LevelRead(l) /\ \A j, k \in DOMAIN stack : stack[j].dir = stack[k].dir => j = k
  BY <1>2 DEF TreeInv, StackRead
<1> HIDE DEF l, n
<1>6. /\ e \in [name : STRING, dir : BOOLEAN] /\ e.name # Top /\ (e.dir <=> e.name \in DOMAIN tree)
      /\ \A c \in DOMAIN tree : \A j \in DOMAIN Entries(c) : Entries(c)[j].name = e.name => c = d /\ j = l.next
  BY <1>1, <1>3, <1>4, EntryFacts
<1>7. ~Named(e.name) BY <1>3, <1>4, <1>5 DEF LevelRead
<1>8. item \in Items /\ item.name = e.name /\ item.depth = l.depth BY <1>3, <1>6 DEF Items
<1>9. /\ more \in Seq(Levels) /\ Len(more) \in {0, 1}
      /\ Len(more) = 1 => e.dir /\ more[1] = pushed /\ e.name \in DOMAIN tree
      /\ e.dir /\ l.depth + 1 <= DepthLimit /\ nodes.remaining > 1 => Len(more) = 1
  <2>1. CASE more = <<>>
    <3>1. ~(e.dir /\ l.depth + 1 <= DepthLimit /\ nodes.remaining > 1)
      BY <2>1, <1>1, <1>3, TreeAssumption DEF Entered
    <3> HIDE DEF more
    <3> QED BY <3>1, <2>1
  <2>2. CASE more # <<>>
    <3>1. e.dir /\ more = <<pushed>> BY <2>2 DEF Entered
    <3>2. pushed \in Levels BY <3>1, <1>3, <1>6 DEF Levels
    <3> HIDE DEF more, pushed
    <3> QED BY <3>1, <3>2, <1>6
  <2> QED BY <2>1, <2>2
<1> HIDE DEF more
<1>10. /\ stack' \in Seq(Levels) /\ DOMAIN stack' = 1..(n + Len(more))
       /\ \A k \in 1..(n - 1) : stack'[k] = stack[k]
       /\ stack'[n] = [l EXCEPT !.next = @ + 1]
       /\ Len(more) = 1 => stack'[n + 1] = more[1]
  BY <1>1, <1>2, <1>9, StackMoves DEF n
<1> HIDE DEF item
<1>11. /\ listing' \in Seq(Items) /\ Len(listing') = Len(listing) + 1 /\ Len(listing) \in Nat
       /\ \A j \in DOMAIN listing : j \in DOMAIN listing' /\ listing'[j] = listing[j]
       /\ \A j \in DOMAIN listing' : j \in DOMAIN listing \/ (j = Len(listing) + 1 /\ listing'[j] = item)
       /\ \A x : Named(x)' <=> Named(x) \/ x = e.name
       /\ \A x, depth : InListing(x, depth)' <=> InListing(x, depth) \/ (x = e.name /\ depth = l.depth)
  BY <1>1, <1>8, ListingMoves
<1>12. \A c : Entries(c)' = Entries(c) BY <1>1 DEF Entries
<1>13. Levels' = Levels BY <1>1 DEF Levels
<1>14. TreeTypes'
  <2>1. nodes' \in [remaining : Nat, truncated : BOOLEAN, failed : BOOLEAN]
        /\ nodes'.remaining = nodes.remaining - 1
    <3> DEFINE cut == nodes.truncated \/ Overfull \/ Unread(e, l.depth + 1)
    <3>1. cut \in BOOLEAN /\ nodes' = [nodes EXCEPT !.remaining = @ - 1, !.truncated = cut]
      <4>1. nodes' = [nodes EXCEPT !.remaining = @ - 1, !.truncated = cut] BY <1>1
      <4>2. cut \in BOOLEAN OBVIOUS
      <4> HIDE DEF cut
      <4> QED BY <4>1, <4>2
    <3> HIDE DEF cut
    <3>2. nodes.remaining - 1 \in Nat BY <1>1
    <3> QED BY <3>1, <3>2, <1>1
  <2>2. IsTree(tree') BY <1>1
  <2> QED BY <1>1, <1>10, <1>11, <1>13, <2>1, <2>2, TreeAssumption DEF TreeTypes
<1>15. d = Top \/ Named(d) BY <1>5, ListedIsNamed DEF LevelRead
<1>16. ListedOnce'
  <2>1. ASSUME NEW i \in DOMAIN listing', NEW j \in DOMAIN listing', listing'[i].name = listing'[j].name
        PROVE  i = j
    <3>1. ASSUME NEW k \in DOMAIN listing PROVE listing'[k].name # e.name
      BY <1>7, <1>11 DEF Named
    <3> QED BY <2>1, <3>1, <1>8, <1>11 DEF TreeInv, ListedOnce
  <2>2. ASSUME NEW j \in DOMAIN listing'
        PROVE  \E c \in DOMAIN tree' : \E i \in DOMAIN Entries(c)' :
                  listing'[j].name = Entries(c)'[i].name /\ (c = Top \/ Named(c)')
    <3>1. CASE j \in DOMAIN listing
      <4>1. PICK c \in DOMAIN tree : \E i \in DOMAIN Entries(c) :
               listing[j].name = Entries(c)[i].name /\ (c = Top \/ Named(c))
        BY <3>1 DEF TreeInv, ListedOnce
      <4> QED BY <4>1, <3>1, <1>1, <1>11, <1>12
    <3>2. CASE listing'[j] = item
      BY <3>2, <1>1, <1>3, <1>4, <1>8, <1>11, <1>12, <1>15
    <3> QED BY <3>1, <3>2, <1>11
  <2> QED BY <2>1, <2>2 DEF ListedOnce
<1> DEFINE In(x, y) == InListing(x, y) \/ (x = e.name /\ y = l.depth)
<1> DEFINE Nm(x) == Named(x) \/ x = e.name
<1> DEFINE Read(q) ==
      /\ (q.dir = Top /\ q.depth = 0) \/ (q.dir # Top /\ q.depth > 0 /\ In(q.dir, q.depth - 1))
      /\ \A i \in DOMAIN Entries(q.dir) :
            IF i < q.next THEN In(Entries(q.dir)[i].name, q.depth) ELSE ~Nm(Entries(q.dir)[i].name)
<1>17. ASSUME NEW k \in 1..(n - 1) PROVE Read(stack[k])
  <2>1. k \in DOMAIN stack /\ k # n BY <1>2
  <2>2. LevelRead(stack[k]) /\ stack[k].dir # d BY <2>1, <1>2, <1>5 DEF TreeInv, StackRead
  <2>3. stack[k].dir \in DOMAIN tree
    <3>1. stack[k] \in Levels BY <2>1, <1>1
    <3> QED BY <3>1 DEF Levels
  <2>4. \A i \in DOMAIN Entries(stack[k].dir) : Entries(stack[k].dir)[i].name # e.name BY <2>2, <2>3, <1>6
  <2> QED BY <2>2, <2>4 DEF LevelRead
<1>18. Read([l EXCEPT !.next = @ + 1])
  <2> DEFINE q == [l EXCEPT !.next = @ + 1]
  <2>1. q.dir = d /\ q.depth = l.depth /\ q.next = l.next + 1 BY <1>2 DEF Levels
  <2>2. ASSUME NEW i \in DOMAIN Entries(d)
        PROVE  IF i < l.next + 1 THEN In(Entries(d)[i].name, l.depth) ELSE ~Nm(Entries(d)[i].name)
    <3>1. i \in Nat BY <1>1, <1>3, EntryFacts
    <3>2. CASE i < l.next BY <3>1, <3>2, <1>3, <1>5 DEF LevelRead
    <3>3. CASE i = l.next BY <3>3, <1>3
    <3>4. CASE i > l.next
      <4>1. Entries(d)[i].name # e.name BY <3>4, <1>3, <1>6, <3>1
      <4>2. ~(i < l.next) /\ ~(i < l.next + 1) BY <3>1, <3>4, <1>3
      <4> QED BY <4>1, <4>2, <1>5 DEF LevelRead
    <3> QED BY <3>1, <3>2, <3>3, <3>4, <1>3
  <2> HIDE DEF q
  <2> QED BY <2>1, <2>2, <1>5 DEF LevelRead, q
<1>19. ASSUME Len(more) = 1 PROVE Read(pushed)
  <2>1. e.name \in DOMAIN tree BY <1>9, <1>19
  <2>2. ASSUME NEW i \in DOMAIN Entries(e.name) PROVE ~Nm(Entries(e.name)[i].name) /\ ~(i < 1)
    <3> DEFINE x == Entries(e.name)[i].name
    <3>1. \A c \in DOMAIN tree : \A j \in DOMAIN Entries(c) : Entries(c)[j].name = x => c = e.name
      BY <1>1, <2>1, EntryFacts
    <3>2. x # e.name BY <3>1, <1>3, <1>4, <1>6, <1>7, <1>15
    <3>3. ~Named(x)
      <4>1. SUFFICES ASSUME NEW j \in DOMAIN listing, listing[j].name = x PROVE FALSE BY DEF Named
      <4>2. PICK c \in DOMAIN tree : \E m \in DOMAIN Entries(c) :
               listing[j].name = Entries(c)[m].name /\ (c = Top \/ Named(c))
        BY DEF TreeInv, ListedOnce
      <4>3. c = e.name BY <4>1, <4>2, <3>1
      <4> QED BY <4>2, <4>3, <1>6, <1>7
    <3>4. ~(i < 1) BY <1>1, <2>1, EntryFacts
    <3> QED BY <3>2, <3>3, <3>4
  <2>3. pushed.depth > 0 /\ pushed.depth - 1 = l.depth BY <1>3
  <2> QED BY <2>2, <2>3, <1>6
<1> HIDE DEF Read, In, Nm, pushed
<1>20. ASSUME NEW k \in DOMAIN stack' PROVE k \in 1..(n - 1) \/ k = n \/ (Len(more) = 1 /\ k = n + 1)
  <2> DEFINE m == Len(more)
  <2>1. n \in Nat \ {0} /\ m \in {0, 1} /\ k \in 1..(n + m) BY <1>2, <1>9, <1>10
  <2> HIDE DEF m
  <2>2. k \in 1..(n - 1) \/ k = n \/ (m = 1 /\ k = n + 1) BY <2>1
  <2> QED BY <2>2 DEF m
<1>21. ASSUME NEW k \in DOMAIN stack' PROVE Read(stack'[k])
  <2>1. k \in 1..(n - 1) \/ k = n \/ (Len(more) = 1 /\ k = n + 1) BY <1>20
  <2>2. CASE k \in 1..(n - 1)
    <3>1. stack'[k] = stack[k] BY <2>2, <1>10
    <3> QED BY <3>1, <2>2, <1>17
  <2>3. CASE k = n
    <3>1. stack'[k] = [l EXCEPT !.next = @ + 1] BY <2>3, <1>10
    <3> QED BY <3>1, <1>18
  <2>4. CASE Len(more) = 1 /\ k = n + 1
    <3>1. stack'[k] = pushed BY <2>4, <1>9, <1>10
    <3> QED BY <3>1, <2>4, <1>19
  <2> QED BY <2>1, <2>2, <2>3, <2>4
<1>22. (\A k \in DOMAIN stack : LevelRead(stack[k]))'
  BY <1>1, <1>11, <1>12, <1>21 DEF LevelRead, Read, In, Nm
<1>23. ASSUME NEW j \in DOMAIN stack', NEW k \in DOMAIN stack', stack'[j].dir = stack'[k].dir PROVE j = k
  <2>1. \A m \in 1..n : stack'[m].dir = stack[m].dir
    <3>1. stack'[n].dir = l.dir BY <1>2, <1>10 DEF Levels
    <3>2. \A m \in 1..n : m = n \/ m \in 1..(n - 1) BY <1>2
    <3> QED BY <3>1, <3>2, <1>2, <1>10
  <2>2. ASSUME Len(more) = 1, NEW m \in 1..n PROVE stack'[n + 1].dir # stack[m].dir
    <3>1. stack'[n + 1].dir = e.name BY <2>2, <1>9, <1>10 DEF pushed
    <3>2. LevelRead(stack[m]) BY <2>2, <1>2 DEF TreeInv, StackRead
    <3>3. stack[m].dir = Top \/ Named(stack[m].dir) BY <3>2, ListedIsNamed DEF LevelRead
    <3> QED BY <3>1, <3>3, <1>6, <1>7
  <2>3. \A m \in DOMAIN stack' : m \in 1..n \/ (Len(more) = 1 /\ m = n + 1) BY <1>20, <1>2
  <2>4. CASE j \in 1..n /\ k \in 1..n BY <2>1, <2>4, <1>2, <1>5, <1>23
  <2>5. CASE Len(more) = 1 /\ j = n + 1 /\ k \in 1..n BY <2>1, <2>2, <2>5, <1>23
  <2>6. CASE Len(more) = 1 /\ k = n + 1 /\ j \in 1..n BY <2>1, <2>2, <2>6, <1>23
  <2> QED BY <2>3, <2>4, <2>5, <2>6
<1>24. StackRead' BY <1>22, <1>23 DEF StackRead
<1>25. \A c : BeingRead(c) => BeingRead(c)'
  <2>1. ASSUME NEW k \in DOMAIN stack PROVE k \in DOMAIN stack' /\ stack'[k].dir = stack[k].dir
    <3>1. k \in DOMAIN stack' /\ (k = n \/ k \in 1..(n - 1)) BY <1>2, <1>9, <1>10
    <3>2. stack'[n].dir = l.dir BY <1>2, <1>10 DEF Levels
    <3> QED BY <3>1, <3>2, <1>2, <1>10
  <2> QED BY <2>1 DEF BeingRead
<1>26. \A c, y : AllInListing(c, y) => AllInListing(c, y)' BY <1>11, <1>12 DEF AllInListing
<1>27. ReadToEnd'
  <2>1. SUFFICES ASSUME ~nodes'.truncated PROVE ReadToEnd' BY DEF ReadToEnd
  <2>2. ~nodes.truncated /\ ~Unread(e, l.depth + 1) BY <2>1, <1>1
  <2>3. BeingRead(Top)' \/ AllInListing(Top, 0)' BY <2>2, <1>25, <1>26 DEF TreeInv, ReadToEnd
  <2>4. ASSUME NEW c \in DOMAIN tree, NEW y \in 0..(DepthLimit - 1), InListing(c, y)'
        PROVE  BeingRead(c)' \/ AllInListing(c, y + 1)'
    <3>1. CASE InListing(c, y) BY <3>1, <2>2, <1>25, <1>26 DEF TreeInv, ReadToEnd
    <3>2. CASE c = e.name /\ y = l.depth
      <4>1. e.dir /\ l.depth + 1 <= DepthLimit BY <3>2, <1>3, <1>6, TreeAssumption
      <4>2. nodes.remaining > 1 BY <4>1, <2>2, <1>1 DEF Unread
      <4>3. Len(more) = 1 BY <4>1, <4>2, <1>9
      <4>4. n + 1 \in DOMAIN stack' /\ stack'[n + 1].dir = e.name BY <4>3, <1>2, <1>9, <1>10 DEF pushed
      <4> QED BY <4>4, <3>2 DEF BeingRead
    <3> QED BY <3>1, <3>2, <2>4, <1>11
  <2> QED BY <2>3, <2>4, <1>1 DEF ReadToEnd
<1> QED BY <1>14, <1>16, <1>24, <1>27 DEF TreeInv

\* A directory that is left has been read to its end, or the listing is said to be cut.
LEMMA LeaveDirectoryInv == ASSUME TreeInv, LeaveDirectory PROVE TreeInv'
<1> DEFINE n == Len(stack)
<1> DEFINE l == Level
<1>1. /\ IsTree(tree) /\ stack \in Seq(Levels) /\ stack # <<>> /\ tree' = tree /\ listing' = listing
      /\ nodes \in [remaining : Nat, truncated : BOOLEAN, failed : BOOLEAN]
      /\ nodes.remaining = NodeLimit - 1 - Len(listing)
      /\ stack' = SubSeq(stack, 1, Len(stack) - 1)
      /\ nodes' = [nodes EXCEPT !.truncated = @ \/ Overfull \/ ~AtEnd]
  BY DEF TreeInv, TreeTypes, LeaveDirectory, Reading
<1>2. /\ n \in DOMAIN stack /\ DOMAIN stack = 1..n /\ n \in Nat \ {0} /\ l = stack[n] /\ l \in Levels
      /\ DOMAIN stack' = 1..(n - 1) /\ stack' \in Seq(Levels) /\ \A k \in 1..(n - 1) : stack'[k] = stack[k]
  <2>1. n \in DOMAIN stack /\ DOMAIN stack = 1..n /\ n \in Nat \ {0} /\ stack \in [1..n -> Levels] BY <1>1
  <2>2. l = stack[n] BY DEF Level
  <2>3. DOMAIN stack' = 1..(n - 1) /\ stack' \in Seq(Levels) /\ \A k \in 1..(n - 1) : stack'[k] = stack[k]
    BY <1>1, <2>1
  <2> HIDE DEF n, l
  <2> QED BY <2>1, <2>2, <2>3
<1> HIDE DEF n, l
<1>3. l.dir \in DOMAIN tree /\ l.next \in Nat \ {0} /\ l.depth \in Nat /\ LevelRead(l)
  BY <1>2 DEF Levels, TreeInv, StackRead
<1>4. Levels' = Levels /\ (\A c : Entries(c)' = Entries(c)) BY <1>1 DEF Levels, Entries
<1>5. (\A x : Named(x)' <=> Named(x)) /\ (\A x, y : InListing(x, y)' <=> InListing(x, y))
  BY <1>1 DEF Named, InListing
<1>6. nodes' \in [remaining : Nat, truncated : BOOLEAN, failed : BOOLEAN] /\ nodes'.remaining = nodes.remaining
      /\ (~nodes'.truncated => ~nodes.truncated /\ ~Overfull /\ AtEnd)
  <2> DEFINE cut == nodes.truncated \/ Overfull \/ ~AtEnd
  <2>1. nodes' = [nodes EXCEPT !.truncated = cut] BY <1>1
  <2>2. cut \in BOOLEAN /\ (~cut => ~nodes.truncated /\ ~Overfull /\ AtEnd) OBVIOUS
  <2> HIDE DEF cut
  <2> QED BY <2>1, <2>2, <1>1
<1>7. TreeTypes' BY <1>1, <1>2, <1>4, <1>6 DEF TreeTypes, TreeInv
<1>8. ListedOnce' BY <1>1 DEF TreeInv, ListedOnce, Named, Entries
<1>9. (\A k \in DOMAIN stack : LevelRead(stack[k]))'
  <2>1. \A k \in DOMAIN stack' : k \in DOMAIN stack /\ stack'[k] = stack[k] BY <1>2
  <2>2. \A k \in DOMAIN stack' : LevelRead(stack[k]) BY <2>1 DEF TreeInv, StackRead
  <2> QED BY <2>1, <2>2, <1>4, <1>5 DEF LevelRead
<1>10. StackRead'
  <2>1. \A k \in DOMAIN stack' : k \in DOMAIN stack /\ stack'[k] = stack[k] BY <1>2
  <2> QED BY <2>1, <1>9 DEF TreeInv, StackRead
<1>11. ReadToEnd'
  <2>1. SUFFICES ASSUME ~nodes'.truncated PROVE ReadToEnd' BY DEF ReadToEnd
  <2>2. ~nodes.truncated /\ ~Overfull /\ AtEnd BY <2>1, <1>6
  <2>3. AllInListing(l.dir, l.depth)
    <3>1. Len(Entries(l.dir)) \in Nat /\ DOMAIN Entries(l.dir) = 1..Len(Entries(l.dir)) BY <1>1, <1>3, EntryFacts
    <3>2. l.next > Len(Entries(l.dir))
      <4>1. ~(Len(Entries(l.dir)) > DirectoryLimit) /\ (l.next > Len(Entries(l.dir)) \/ l.next > DirectoryLimit)
        BY <2>2 DEF Overfull, AtEnd, l
      <4> QED BY <4>1, <3>1, <1>3, TreeAssumption
    <3>3. \A i \in DOMAIN Entries(l.dir) : i < l.next BY <3>1, <3>2, <1>3
    <3> QED BY <3>3, <1>3 DEF LevelRead, AllInListing
  <2>4. \A c : BeingRead(c) => BeingRead(c)' \/ c = l.dir
    <3>1. \A k \in DOMAIN stack : k = n \/ (k \in DOMAIN stack' /\ stack'[k] = stack[k]) BY <1>2
    <3> QED BY <3>1, <1>2 DEF BeingRead
  <2>5. \A c, y : AllInListing(c, y)' <=> AllInListing(c, y) BY <1>4, <1>5 DEF AllInListing
  <2>6. BeingRead(Top)' \/ AllInListing(Top, 0)'
    <3>1. CASE BeingRead(Top) /\ l.dir = Top BY <3>1, <2>3, <2>5, <1>3 DEF LevelRead
    <3> QED BY <3>1, <2>2, <2>4, <2>5 DEF TreeInv, ReadToEnd
  <2>7. ASSUME NEW c \in DOMAIN tree, NEW y \in 0..(DepthLimit - 1), InListing(c, y)
        PROVE  BeingRead(c)' \/ AllInListing(c, y + 1)'
    <3>1. CASE c = l.dir
      <4>1. c # Top
        <5>1. PICK j \in DOMAIN listing : listing[j].name = c BY <2>7 DEF InListing
        <5>2. PICK p \in DOMAIN tree : \E i \in DOMAIN Entries(p) : listing[j].name = Entries(p)[i].name
          BY DEF TreeInv, ListedOnce
        <5> QED BY <5>1, <5>2, <1>1, EntryFacts
      <4>2. l.depth > 0 /\ InListing(c, l.depth - 1) BY <3>1, <4>1, <1>3 DEF LevelRead
      <4>3. y = l.depth - 1
        <5>1. PICK i \in DOMAIN listing : listing[i] = [name |-> c, depth |-> y] BY <2>7 DEF InListing
        <5>2. PICK j \in DOMAIN listing : listing[j] = [name |-> c, depth |-> l.depth - 1] BY <4>2 DEF InListing
        <5>3. i = j BY <5>1, <5>2 DEF TreeInv, ListedOnce
        <5>4. [name |-> c, depth |-> y].depth = [name |-> c, depth |-> l.depth - 1].depth BY <5>1, <5>2, <5>3
        <5> QED BY <5>4
      <4>4. y + 1 = l.depth BY <4>3, <1>3
      <4> QED BY <4>4, <3>1, <2>3, <2>5
    <3>2. CASE c # l.dir BY <3>2, <2>2, <2>4, <2>5, <2>7 DEF TreeInv, ReadToEnd
    <3> QED BY <3>1, <3>2
  <2> QED BY <2>6, <2>7, <1>1, <1>5 DEF ReadToEnd
<1> QED BY <1>7, <1>8, <1>10, <1>11 DEF TreeInv

LEMMA TreeStepInv == ASSUME TreeInv, [TreeNext]_treeVars PROVE TreeInv'
<1>1. CASE ListEntry BY <1>1, ListEntryInv
<1>2. CASE LeaveDirectory BY <1>2, LeaveDirectoryInv
<1>3. CASE ReadFails \/ UNCHANGED treeVars
  <2>1. tree' = tree /\ stack' = stack /\ listing' = listing BY <1>3 DEF ReadFails, treeVars
  <2>2. /\ nodes' \in [remaining : Nat, truncated : BOOLEAN, failed : BOOLEAN]
        /\ nodes'.remaining = nodes.remaining /\ nodes'.truncated = nodes.truncated
    BY <1>3 DEF ReadFails, treeVars, TreeInv, TreeTypes
  <2>3. TreeTypes' BY <2>1, <2>2 DEF TreeInv, TreeTypes, Levels
  <2>4. ListedOnce' BY <2>1 DEF TreeInv, ListedOnce, Named, Entries
  <2>5. StackRead' BY <2>1 DEF TreeInv, StackRead, LevelRead, Named, InListing, Entries
  <2>6. ReadToEnd' BY <2>1, <2>2 DEF TreeInv, ReadToEnd, BeingRead, AllInListing, InListing, Entries
  <2> QED BY <2>3, <2>4, <2>5, <2>6 DEF TreeInv
<1> QED BY <1>1, <1>2, <1>3 DEF TreeNext

LEMMA TreeInvComplete == ASSUME TreeInv PROVE TreeComplete
<1>1. Len(listing) + (IF nodes.truncated THEN 1 ELSE 0) <= NodeLimit
  <2>1. Len(listing) \in Nat /\ nodes.remaining \in Nat /\ nodes.remaining = NodeLimit - 1 - Len(listing)
    BY DEF TreeInv, TreeTypes
  <2> QED BY <2>1, TreeAssumption
<1>2. stack = <<>> => \A c : ~BeingRead(c) BY DEF BeingRead
<1> QED BY <1>1, <1>2 DEF TreeInv, ListedOnce, ReadToEnd, TreeComplete

\* The list of a project's files keeps within its limit, names nothing twice, and is
\* complete above the depth limit unless it says that it is cut.
THEOREM TreeIsComplete == TreeSpec => []TreeComplete
<1>1. TreeInit => TreeInv BY TreeInitInv
<1>2. TreeInv /\ [TreeNext]_treeVars => TreeInv' BY TreeStepInv
<1>3. TreeInv => TreeComplete BY TreeInvComplete
<1> QED BY <1>1, <1>2, <1>3, PTL DEF TreeSpec

\* FilesSafe, for any projects and limits: what the desktop shows of the files of a
\* project is complete, or says what it leaves out.
THEOREM FilesAreSafe == FilesSpec => []FilesSafe
<1>1. DiffComplete /\ TreeComplete => FilesSafe BY DEF FilesSafe
<1> QED BY <1>1, DiffIsComplete, TreeIsComplete, PTL DEF FilesSpec

=============================================================================
