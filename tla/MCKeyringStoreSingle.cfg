SPECIFICATION Spec
CONSTANTS
    long = long
    twin = twin
    short = short
    Procs = {p1, p2}
    Gens <- MCGens
    Chunks <- Single
    MaxChunks = 1
    None = None
    Unreadable = Unreadable
    Mixed = Mixed
    Unsettled = Unsettled

PROPERTY ImplementsRegister
