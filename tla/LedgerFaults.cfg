SPECIFICATION Spec
CONSTANTS
    bank = bank
    capital = capital
    sales = sales
    rent = rent
    deposit = deposit
    sale = sale
    refund = refund
    lease = lease
    slip = slip
    n1 = n1
    n2 = n2
    n3 = n3
    c1 = c1
    c2 = c2
    k1 = k1
    k2 = k2
    None = None
    Accounts = {bank, capital, sales, rent}
    KindOf <- FourKinds
    Numbers = {n1, n2, n3}
    NumberOf <- FourNumbers
    Txns = {deposit, sale}
    Entries <- SomeEntries
    Active = {bank, capital, sales, rent}
    Chart = {bank, capital}
    Seeded = {n1}
    Recorders = {c1, c2}
    Creators = {k1}
    Hazards = {"update", "delete", "replay", "cancel", "db_error"}
    MaxEdits = 3
SYMMETRY Symmetry
INVARIANTS TypeOK EntriesLinked
CHECK_DEADLOCK FALSE
