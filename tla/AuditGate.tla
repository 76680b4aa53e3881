----------------------------- MODULE AuditGate ------------------------------
(***************************************************************************)
(* The gate that every release passes: the audit of the dependencies may   *)
(* report image-size, for the two advisories that were reviewed, and what  *)
(* is affected through it, and nothing else.  Source:                      *)
(* scripts/check-npm-audit.mjs.                                            *)
(*                                                                         *)
(* One execution of the gate: the inputs are fixed, the checks come one    *)
(* after the other, and the first that fails ends it.  A field that must   *)
(* be as it was reviewed is told to be so or not.                          *)
(***************************************************************************)
EXTENDS Integers, Sequences, FiniteSets

CONSTANTS
    Packages,       \* names in the audit report
    ImageSize,      \* image-size
    Advisories,     \* what a report may name as the cause itself
    Pinned,         \* PINNED_ADVISORIES
    Inputs          \* what the gate may find

\* What the files and reports that the gate reads may hold.
IsInput(i) ==
    /\ i.allowlist \in [pinned : BOOLEAN, advisories : Seq(Advisories),
                       packages : Seq([name : Packages, path : STRING])]
    /\ i.production \in [entries : SUBSET {"low", "high", "critical"}, total : {"none", "low", "high"}]
    /\ DOMAIN i.full \subseteq Packages
    /\ i.full \in [DOMAIN i.full -> [packages : SUBSET Packages, advisories : Seq(Advisories),
                                     unchanged : BOOLEAN]]
    /\ i.lock \in [reviewed : BOOLEAN, copies : Nat, parents : Nat]

ASSUME AuditAssumption ==
    /\ IsFiniteSet(Packages) /\ ImageSize \in Packages
    /\ Pinned \subseteq Advisories /\ IsFiniteSet(Pinned) /\ Pinned # {}
    /\ \A i \in Inputs : IsInput(i)

VARIABLES
    input,          \* allowlist, date, reports, lockfile and mitigations
    check,          \* the check that is next, or the outcome
    parsed          \* reports that npm has answered with

auditVars == <<input, check, parsed>>

AuditInit ==
    /\ input \in Inputs
    /\ check = "allowlist"
    /\ parsed = {}

-----------------------------------------------------------------------------
(* The allowlist. *)

Allowlisted == input.allowlist.packages
AllowedNames == {Allowlisted[i].name : i \in DOMAIN Allowlisted}

\* Every advisory of a list is one that was pinned, each of them once.
EachOnce(advisories) ==
    /\ Len(advisories) = Cardinality(Pinned)
    /\ \A i, j \in DOMAIN advisories :
          advisories[i] \in Pinned /\ (advisories[i] = advisories[j] => i = j)

\* validateAllowlist: what the script has pinned, and packages told apart by name and path.
AllowlistHolds ==
    /\ input.allowlist.pinned
    /\ EachOnce(input.allowlist.advisories)
    /\ \A i, j \in DOMAIN Allowlisted :
          i # j => Allowlisted[i].name # Allowlisted[j].name /\ Allowlisted[i].path # Allowlisted[j].path
    /\ ImageSize \in AllowedNames

-----------------------------------------------------------------------------
(* The reports: package -> what it is affected by, advisories in order. *)

Affected == DOMAIN input.full
References(p) == input.full[p].packages
Own(p) == input.full[p].advisories

\* Mutation of MetAgain: a circle of packages counts as reached.
MetAgainReached == TRUE

\* A package that is met again has not been reached by this path.
MetAgain == FALSE

\* reachesImageSize: depth first, visiting holds the path.
reachesImageSize[visiting \in SUBSET Packages] ==
    [name \in Packages |->
        IF name = ImageSize THEN TRUE
        ELSE IF name \in visiting THEN MetAgain
        ELSE /\ name \in Affected
             /\ \E r \in References(name) : reachesImageSize[visiting \cup {name}][r]]

\* validateFullAudit.
FullAuditHolds ==
    /\ Affected = AllowedNames
    /\ \A p \in Affected :
          /\ input.full[p].unchanged
          /\ References(p) # {} \/ Own(p) # <<>>
          /\ References(p) \subseteq AllowedNames
    /\ References(ImageSize) = {}
    /\ EachOnce(Own(ImageSize))
    /\ \A p \in Affected \ {ImageSize} :
          /\ Own(p) = <<>>
          /\ \A r \in References(p) : reachesImageSize[{}][r]

\* validateProductionAudit: the entries, and the totals when there are any.
ProductionHolds ==
    /\ \A severity \in input.production.entries : severity \notin {"high", "critical"}
    /\ input.production.total \in {"none", "low"}

\* validateLockfile: the reviewed packages and chain, and image-size installed once, for
\* one parent.
LockfileHolds ==
    /\ input.lock.reviewed
    /\ input.lock.copies = 1
    /\ input.lock.parents = 1

\* validateMitigationHashes.
MitigationsHold == input.mitigations = "reviewed"

-----------------------------------------------------------------------------
(* runAuditGate. *)

Holds(step) ==
    CASE step = "allowlist"   -> AllowlistHolds
      [] step = "expiry"      -> input.today <= input.expires
      [] step = "production"  -> ProductionHolds
      [] step = "full"        -> FullAuditHolds
      [] step = "lockfile"    -> LockfileHolds
      [] step = "mitigations" -> MitigationsHold

Order == <<"allowlist", "expiry", "audits", "production", "full", "lockfile", "mitigations", "test">>
After(step) == Order[1 + CHOOSE i \in DOMAIN Order : Order[i] = step]

\* readJson and validate*: the next check, or the end.
Validate ==
    /\ check \in {"allowlist", "expiry", "production", "full", "lockfile", "mitigations"}
    /\ check' = IF Holds(check) THEN After(check) ELSE "failed"
    /\ UNCHANGED <<input, parsed>>

\* runNpmAudit, for the production workspaces and for the whole tree: no answer, or one
\* that is no report, ends the gate.
RunNpmAudit ==
    /\ check = "audits"
    /\ \E report \in {"production", "full"} \ parsed :
          /\ report = "production" \/ "production" \in parsed
          /\ \/ parsed' = parsed \cup {report}
                /\ check' = IF report = "full" THEN After(check) ELSE check
             \/ parsed' = parsed /\ check' = "unknown"
    /\ UNCHANGED input

\* runMitigationTest.
RunMitigationTest ==
    /\ check = "test"
    /\ check' \in {"passed", "unmitigated"}
    /\ UNCHANGED <<input, parsed>>

AuditNext == Validate \/ RunNpmAudit \/ RunMitigationTest

AuditSpec == AuditInit /\ [][AuditNext]_auditVars

-----------------------------------------------------------------------------
\* The orders in which a report may name the pinned advisories, once each.
Sound == {s \in [1..Cardinality(Pinned) -> Pinned] : {s[i] : i \in DOMAIN s} = Pinned}

\* What was reviewed: two advisories, of image-size alone; every group of other packages
\* is affected from outside of it, so that image-size is behind all of them.
AsReviewed ==
    /\ input.allowlist.pinned /\ input.allowlist.advisories \in Sound
    /\ ImageSize \in AllowedNames /\ Cardinality(AllowedNames) = Len(Allowlisted)
    /\ Cardinality({Allowlisted[i].path : i \in DOMAIN Allowlisted}) = Len(Allowlisted)
    /\ input.today <= input.expires
    /\ input.production.entries \subseteq {"low"} /\ input.production.total # "high"
    /\ Affected = AllowedNames /\ \A p \in Affected : input.full[p].unchanged
    /\ References(ImageSize) = {} /\ Own(ImageSize) \in Sound
    /\ \A p \in Affected \ {ImageSize} : Own(p) = <<>> /\ References(p) \subseteq Affected
    /\ \A group \in SUBSET (Affected \ {ImageSize}) :
          group # {} => \E p \in group : ~(References(p) \subseteq group)
    /\ input.lock = [reviewed |-> TRUE, copies |-> 1, parents |-> 1]
    /\ input.mitigations = "reviewed"

(* The gate passes exactly what was reviewed, whatever the packages of the   *)
(* report blame each other for, in circles too, and in whatever order the    *)
(* advisories come: a cause that nobody reviewed is never let through, and   *)
(* no release is stopped for how the report is written.                      *)
GateIsExact ==
    /\ check \in {"test", "passed", "unmitigated"} => AsReviewed /\ parsed = {"production", "full"}
    /\ check = "failed" => ~AsReviewed

=============================================================================
