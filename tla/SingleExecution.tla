--------------------------- MODULE SingleExecution ---------------------------
(***************************************************************************)
(* What the lease of a task promises: its executions run one at a time,    *)
(* each begins once and ends once, only an execution whose lease has not   *)
(* lapsed can end well, and a lapsed lease never comes back.  TaskLease    *)
(* implements it.                                                          *)
(***************************************************************************)
CONSTANT Executions

VARIABLE fate       \* execution -> how far it has come

Fate == {"unused", "live", "lapsed", "complete", "failed", "cancelled", "interrupted"}

Init == fate = [e \in Executions |-> "unused"]

Become(e, from, to) ==
    /\ fate[e] \in from
    /\ fate' = [fate EXCEPT ![e] = to]

Begin(e) ==
    /\ \A d \in Executions : fate[d] \notin {"live", "lapsed"}
    /\ Become(e, {"unused"}, "live")

Finish(e) == \E verdict \in {"complete", "failed"} : Become(e, {"live"}, verdict)

Lapse(e) == Become(e, {"live"}, "lapsed")

Interrupt(e) == Become(e, {"lapsed"}, "interrupted")

Cancel(e) == Become(e, {"live", "lapsed"}, "cancelled")

Next == \E e \in Executions :
            Begin(e) \/ Finish(e) \/ Lapse(e) \/ Interrupt(e) \/ Cancel(e)

Spec == Init /\ [][Next]_fate

=============================================================================
