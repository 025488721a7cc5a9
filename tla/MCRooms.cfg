SPECIFICATION FairSpec
CONSTANTS
    ann = ann
    bob = bob
    k1 = k1
    k2 = k2
    Users = {ann, bob}
    Clients = {k1, k2}
    Owner <- MCOwner
    Capacity = 2
    None = None
INVARIANTS
    HubOpen
    NewestInRoom
    EventsTrue
PROPERTIES
    StartHeard
    PumpsEnd
CHECK_DEADLOCK FALSE
