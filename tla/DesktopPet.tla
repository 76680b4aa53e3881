------------------------------ MODULE DesktopPet ------------------------------
(***************************************************************************)
(* The desktop pet of COD Desktop: the main process starts the audited     *)
(* program with a loopback proxy that carries the token of the signed-in   *)
(* user, and stops both.  Launches and stops are not serialized: each step *)
(* is the code between two awaits of one call.                             *)
(***************************************************************************)
EXTENDS Naturals, FiniteSets

CONSTANTS
    PetLaunches,   \* calls of launchDesktopPet
    PetStops,      \* calls of stopDesktopPet
    NoPet,
    MaxSignIns     \* bound: sessions of the renderer

PetCalls == PetLaunches \cup PetStops

VARIABLES
    petSession,        \* [number, in]: the session of the renderer and whether it is signed in
    desktopPetBusy,    \* the call whose end enables the buttons again, or NoPet
    petCall,           \* each call: its step, the token it was given, and what it holds
    desktopPetProcess, \* the launch whose process this is, or NoPet
    desktopPetProxy,   \* the launch whose proxy this is, or NoPet
    pets,              \* the launches whose process runs
    petProxies         \* the launches whose proxy listens

petVars == <<petSession, desktopPetBusy, petCall, desktopPetProcess, desktopPetProxy, pets, petProxies>>

NoPetCall == [at |-> "unused", token |-> 0, process |-> NoPet, proxy |-> NoPet]

PetInit ==
    /\ petSession = [number |-> 1, in |-> TRUE] /\ desktopPetBusy = NoPet
    /\ petCall = [c \in PetCalls |-> NoPetCall]
    /\ desktopPetProcess = NoPet /\ desktopPetProxy = NoPet
    /\ pets = {} /\ petProxies = {}

desktopPetIsRunning == desktopPetProcess \in pets

PetGoes(c, step) == petCall' = [petCall EXCEPT ![c].at = step]

PetReturns(c) == /\ PetGoes(c, "done")
                 /\ desktopPetBusy' = IF desktopPetBusy = c THEN NoPet ELSE desktopPetBusy

-----------------------------------------------------------------------------
(* Stopping: a call takes over the process and the proxy, and ends them.    *)

TakeOverPet(c) ==
    /\ petCall' = [petCall EXCEPT ![c].at = "stopping", ![c].process = desktopPetProcess,
                                  ![c].proxy = desktopPetProxy]
    /\ desktopPetProcess' = NoPet /\ desktopPetProxy' = NoPet

\* handleDesktopPetStop: the button is there while a pet runs and no other call is shown.
handleDesktopPetStop(s) ==
    /\ petCall[s].at = "unused" /\ desktopPetBusy = NoPet
    /\ TakeOverPet(s) /\ desktopPetBusy' = s
    /\ UNCHANGED <<petSession, pets, petProxies>>

\* clearAuthenticatedUi: sign-out, or a session that expired, stops the pet and waits for nothing.
PetSignOut(s) ==
    /\ petCall[s].at = "unused" /\ petSession.in
    /\ petSession' = [petSession EXCEPT !.in = FALSE]
    /\ TakeOverPet(s)
    /\ UNCHANGED <<desktopPetBusy, pets, petProxies>>

PetSignIn ==
    /\ ~petSession.in /\ petSession.number < MaxSignIns
    /\ petSession' = [number |-> petSession.number + 1, in |-> TRUE]
    /\ UNCHANGED <<desktopPetBusy, petCall, desktopPetProcess, desktopPetProxy, pets, petProxies>>

\* terminateChildProcess, then close: the process has ended before the proxy closes.
PetTerminated(c) ==
    /\ petCall[c].at = "stopping"
    /\ pets' = pets \ {petCall[c].process}
    /\ PetGoes(c, "closing")
    /\ UNCHANGED <<petSession, desktopPetBusy, desktopPetProcess, desktopPetProxy, petProxies>>

PetClosed(c) ==
    /\ petCall[c].at = "closing"
    /\ petProxies' = petProxies \ {petCall[c].proxy}
    /\ IF c \in PetStops THEN PetReturns(c)
       ELSE /\ PetGoes(c, "binding") /\ UNCHANGED desktopPetBusy
    /\ UNCHANGED <<petSession, desktopPetProcess, desktopPetProxy, pets>>

-----------------------------------------------------------------------------
(* Launching.                                                              *)

\* handleDesktopPetLaunch, up to the discovery that hashes the installed program.
handleDesktopPetLaunch(l) ==
    /\ petCall[l].at = "unused" /\ petSession.in /\ desktopPetBusy = NoPet
    /\ petCall' = [petCall EXCEPT ![l].at = "discovering", ![l].token = petSession.number]
    /\ desktopPetBusy' = l
    /\ UNCHANGED <<petSession, desktopPetProcess, desktopPetProxy, pets, petProxies>>

\* No installation, or one with another hash, is refused; a pet that runs is left alone.
PetRefused(l) ==
    /\ petCall[l].at = "discovering"
    /\ PetReturns(l)
    /\ UNCHANGED <<petSession, desktopPetProcess, desktopPetProxy, pets, petProxies>>

PetDiscovered(l) ==
    /\ petCall[l].at = "discovering" /\ ~desktopPetIsRunning
    /\ TakeOverPet(l)
    /\ UNCHANGED <<petSession, desktopPetBusy, pets, petProxies>>

\* startPetChatProxy listens, and the program is spawned with its address.
PetBound(l) ==
    /\ petCall[l].at = "binding"
    /\ petProxies' = petProxies \cup {l} /\ PetGoes(l, "spawning")
    /\ UNCHANGED <<petSession, desktopPetBusy, desktopPetProcess, desktopPetProxy, pets>>

PetSpawnFails(l) ==
    /\ petCall[l].at = "spawning"
    /\ petProxies' = petProxies \ {l} /\ PetReturns(l)
    /\ UNCHANGED <<petSession, desktopPetProcess, desktopPetProxy, pets>>

PetSpawned(l) ==
    /\ petCall[l].at = "spawning"
    /\ pets' = pets \cup {l}
    /\ desktopPetProcess' = l /\ desktopPetProxy' = l
    /\ PetGoes(l, "settling")
    /\ UNCHANGED <<petSession, desktopPetBusy, petProxies>>

PetSettled(l) ==
    /\ petCall[l].at = "settling"
    /\ PetReturns(l)
    /\ UNCHANGED <<petSession, desktopPetProcess, desktopPetProxy, pets, petProxies>>

\* clearDesktopPet: the program ends by itself; its proxy is closed if it is still the current one.
clearDesktopPet(l) ==
    /\ l \in pets
    /\ pets' = pets \ {l}
    /\ IF desktopPetProcess = l
       THEN /\ desktopPetProcess' = NoPet /\ desktopPetProxy' = NoPet
            /\ petProxies' = petProxies \ {desktopPetProxy}
       ELSE UNCHANGED <<desktopPetProcess, desktopPetProxy, petProxies>>
    /\ UNCHANGED <<petSession, desktopPetBusy, petCall>>

-----------------------------------------------------------------------------

PetNext ==
    \/ PetSignIn
    \/ \E s \in PetStops : handleDesktopPetStop(s) \/ PetSignOut(s)
    \/ \E c \in PetCalls : PetTerminated(c) \/ PetClosed(c)
    \/ \E l \in PetLaunches :
          \/ handleDesktopPetLaunch(l) \/ PetRefused(l) \/ PetDiscovered(l) \/ PetBound(l)
          \/ PetSpawnFails(l) \/ PetSpawned(l) \/ PetSettled(l) \/ clearDesktopPet(l)

PetSpec == PetInit /\ [][PetNext]_petVars

-----------------------------------------------------------------------------
(* Signing out closes the proxy and the pet (docs/DESKTOP_PET_INTEGRATION, *)
(* line 12): once every call has ended, no pet and no proxy with a token   *)
(* is left of a session that has been signed out.                          *)
PetStopsAtSignOut ==
    (\A c \in PetCalls : petCall[c].at \in {"unused", "done"}) =>
        \A l \in pets \cup petProxies : petSession.in /\ petCall[l].token = petSession.number

===============================================================================
