SPECIFICATION Spec
CONSTANTS
    server = server
    cli = cli
    r1 = r1
    r2 = r2
    r3 = r3
    None = None
    Processes = {server, cli}
    Requests = {r1, r2}
    ClientOf <- TwoProcesses
    MaxHops = 2
    MaxAttempts = 1
    MaxLogins = 2
    MaxVersions = 2
CHECK_DEADLOCK FALSE
PROPERTY LoginNotClobbered
