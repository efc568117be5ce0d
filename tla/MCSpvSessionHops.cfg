SPECIFICATION Spec
CONSTANTS
    server = server
    cli = cli
    r1 = r1
    r2 = r2
    r3 = r3
    None = None
    Processes = {server}
    Requests = {r1, r2}
    ClientOf <- OneProcess
    MaxHops = 2
    MaxAttempts = 2
    MaxLogins = 2
    MaxVersions = 3
CHECK_DEADLOCK FALSE
INVARIANT RefusedBeyondBound
