SPECIFICATION PetSpec
CONSTANTS
    PetLaunches = {l1, l2}
    PetStops = {s1, s2}
    NoPet = NoPet
    MaxSignIns = 2
INVARIANT PetStopsAtSignOut
CHECK_DEADLOCK FALSE
