---------------------------- MODULE MCChatGateway ----------------------------
(* The requests with which TLC checks ChatGateway: one body belongs to a task, *)
(* the other to none.                                                        *)
EXTENDS ChatGateway, TLC

CONSTANTS f1, f2, e1

OneTaskBody == [f \in {f1, f2} |-> IF f = f1 THEN e1 ELSE NoTask]
OnlyTaskBody == [f \in {f1} |-> e1]
NoTaskBody == [f \in {f1} |-> NoTask]
NoPacks == {}

\* Handlers and reservation ids are interchangeable; used for safety only.
Interchangeable == Permutations(Handlers) \cup Permutations(ReservationIds)

=============================================================================
