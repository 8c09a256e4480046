SPECIFICATION FairSpec
CONSTANTS
    t1 = t1
    t2 = t2
    a1 = a1
    a2 = a2
    ledger = ledger
    tax = tax
    d1 = d1
    d2 = d2
    NoType = NoType
    None = None
    Types = {ledger, tax}
    TypeOf <- OneOfEach
    Agents = {a1, a2}
    Enabled = {a1, a2}
    Tasks = {t1}
    Initial <- Both
    Wants <- Untyped
    Handlers <- ByLedger
    Prio <- NormalTask
    MAX_RETRIES = 1
    DeadLetters = FALSE
    Dispatchers = {d1}
    Hazards = {"remove"}
    MaxFaults = 0
PROPERTY AdminEnds
CHECK_DEADLOCK FALSE
