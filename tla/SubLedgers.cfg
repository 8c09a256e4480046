SPECIFICATION Spec
CONSTANTS
    rent = rent
    plain = plain
    taxed = taxed
    refund = refund
    note = note
    van = van
    desk = desk
    ann = ann
    bob = bob
    Documents = {rent, plain, taxed, refund, note, van, desk, ann, bob}
    Bills = {rent}
    LinesOf <- Lines
    FirstLine <- Firsts
    PartialAmounts = {1, 2}
    Invoices = {plain, taxed, refund}
    Subtotal <- Subtotals
    Tax <- Taxes
    Payments = {1, 4}
    Receipts = {note}
    ReceiptAmount <- Amounts
    Category <- Categories
    Assets = {van, desk}
    Cost <- Costs
    Salvage <- Salvages
    Life <- Lives
    Acquired <- Dates2
    Declining = {van}
    Dates = {1, 2}
    Prices = {0, 12, 20}
    Employees = {ann, bob}
    Rate <- Rates
    FederalRate <- Federal
    StateRate <- State
    LocalRate <- Local
    FederalAllowances <- Allowances
    StateAllowances <- Allowances
    Shifts <- SomeShifts
    MaxHours = 50
    MaxCalls = 7
INVARIANTS TypeOK BillsTied ReceivablesTied RegisterTied DepreciationLimited PayWithinGross
CHECK_DEADLOCK FALSE
