SPECIFICATION Spec
CONSTANTS
    server = server
    other = other
    r1 = r1
    r2 = r2
    r3 = r3
    Procs <- MCProcs
    Requests <- MCRequests
    ProcOf <- MCProcOf
    None = None
    Refused = Refused
    MaxGen = 3
    MaxLapsed = 1

INVARIANTS
    TypeOK
    BehindOnlyByAccident
    RotationsJustified
    RefusedOnlyByRace
SYMMETRY Symmetry
CHECK_DEADLOCK FALSE
