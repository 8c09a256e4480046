SPECIFICATION Spec
CONSTANTS
    t1 = t1
    t2 = t2
    a1 = a1
    a2 = a2
    ledger = ledger
    tax = tax
    d1 = d1
    d2 = d2
    NoType = NoType
    None = None
    Types = {ledger, tax}
    TypeOf <- OneOfEach
    Agents = {a1, a2}
    Enabled = {a1, a2}
    Tasks = {t1, t2}
    Initial <- First
    Wants <- LedgerAndTax
    Handlers <- Rightly
    Prio <- LedgerFirst
    MAX_RETRIES = 1
    DeadLetters = TRUE
    Dispatchers = {d1, d2}
    Hazards = {"add", "remove", "stop", "persist_error", "crash"}
    MaxFaults = 1
SYMMETRY Symmetry
INVARIANTS TypeOK Accounted RetriesUsedUp StatusTruthful NoLostWakeup DeadLettersComplete
CHECK_DEADLOCK FALSE
