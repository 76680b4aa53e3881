--------------------------- MODULE MCTaskClients ---------------------------
(* Two scenes of TaskClients, one of them chosen in the initial state: one   *)
(* client with everything that it does, and several windows on the device of *)
(* the task that race for one execution of it.                               *)
EXTENDS TaskClients, TLC

VARIABLE scene

\* Ids and claims are drawn at random.
Alike == Permutations(Executions) \cup Permutations(Tokens)

TheClient == CHOOSE c \in Clients : TRUE

Alone == scene = "alone" /\ (ClientNext(TheClient) \/ ServeLate \/ Time)

\* There is one execution, the device stays seen, nothing is cancelled, and a window synchronizes
\* between its runs.
Race ==
    /\ scene = "race" /\ ClientsNext
    /\ \A d, e \in Executions : d # e /\ origin'[d] # NoClaim => origin'[e] = NoClaim
    /\ deviceSeen => deviceSeen'
    /\ used'.cancels = 0
    /\ \A c \in Clients : Awaits(c, "sync")' => client'[c].run = "idle"

ScenesInit == ClientsInit /\ scene \in {"alone", "race"}

ScenesNext == (Alone \/ Race) /\ UNCHANGED scene

ScenesSpec == ScenesInit /\ [][ScenesNext]_<<scene, clientVars>>

=============================================================================
