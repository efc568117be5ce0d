SPECIFICATION Spec
CONSTANTS
    long = long
    twin = twin
    short = short
    Procs = {p1, p2}
    Gens <- MCGens
    Chunks <- Split
    MaxChunks = 3
    None = None
    Unreadable = Unreadable
    Mixed = Mixed
    Unsettled = Unsettled

INVARIANT NeverMixed
