SPECIFICATION FairSpec
CONSTANTS
    bank = bank
    capital = capital
    sales = sales
    rent = rent
    deposit = deposit
    sale = sale
    refund = refund
    lease = lease
    slip = slip
    n1 = n1
    n2 = n2
    n3 = n3
    c1 = c1
    c2 = c2
    k1 = k1
    k2 = k2
    None = None
    Accounts = {bank, capital, sales, rent}
    KindOf <- FourKinds
    Numbers = {n1, n2, n3}
    NumberOf <- FourNumbers
    Txns = {deposit, sale, refund, lease, slip}
    Entries <- SomeEntries
    Active = {bank, sales, rent}
    Chart = {bank, sales}
    Seeded = {}
    Recorders = {c1, c2}
    Creators = {k1}
    Hazards = {}
    MaxEdits = 0
INVARIANTS TrialBalance NumbersInStep StatementsAgree 
PROPERTIES BooksKept RecordEnds
CHECK_DEADLOCK FALSE
