SPECIFICATION FairSpec
CONSTANTS
    server = server
    other = other
    r1 = r1
    r2 = r2
    r3 = r3
    Procs <- OneProc
    Requests <- OneProcRequests
    ProcOf <- OneProcOf
    None = None
    Refused = Refused
    MaxGen = 3
    MaxLapsed = 1

PROPERTY EveryRequestEnds
CHECK_DEADLOCK FALSE
