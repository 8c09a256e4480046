SPECIFICATION FairSpec
CONSTANTS
    r1 = r1
    r2 = r2
    account = account
    invoice = invoice
    c1 = c1
    c2 = c2
    Rows = {r1}
    Types = {account}
    TypeOf <- OneRow
    Unsupported = {}
    Callers = {c1}
    MAX_RETRIES = 1
    Hazards = {"read_error"}
    MaxEdits = 2
    MaxRemoteWrites = 2
    MaxFaults = 2
INVARIANT CaughtUp
PROPERTIES Converges LockReleased
