SPECIFICATION Spec
CONSTANTS
    p1 = p1
    p2 = p2
    c1 = c1
    c2 = c2
    Clients = {p1, p2}
    Chunks = {c1}
    Capacity = 1
INVARIANTS
    EveryoneTold
