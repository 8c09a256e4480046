SPECIFICATION Spec
CONSTANTS
    r1 = r1
    r2 = r2
    account = account
    invoice = invoice
    c1 = c1
    c2 = c2
    Rows = {r1, r2}
    Types = {account, invoice}
    TypeOf <- OneEach
    Unsupported = {}
    Callers = {c1, c2}
    MAX_RETRIES = 1
    Hazards = {"write_during_pull", "pull_error", "upsert_error", "cancel"}
    MaxEdits = 2
    MaxRemoteWrites = 1
    MaxFaults = 1
SYMMETRY Symmetry
INVARIANTS TypeOK MutualExclusion CleanIsReceived
PROPERTY NewestWins
CHECK_DEADLOCK FALSE
