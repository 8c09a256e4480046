SPECIFICATION FairSpec
CONSTANTS
    t1 = t1
    t2 = t2
    a1 = a1
    a2 = a2
    ledger = ledger
    tax = tax
    d1 = d1
    d2 = d2
    NoType = NoType
    None = None
    Types = {ledger, tax}
    TypeOf <- OneOfEach
    Agents = {a1, a2}
    Enabled = {a1, a2}
    Tasks = {t1, t2}
    Initial <- Both
    Wants <- LedgerAndTax
    Handlers <- Rightly
    Prio <- Normally
    MAX_RETRIES = 1
    DeadLetters = TRUE
    Dispatchers = {d1, d2}
    Hazards = {}
    MaxFaults = 0
PROPERTY EveryTaskEnds
CHECK_DEADLOCK FALSE
