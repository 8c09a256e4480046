SPECIFICATION Spec
CHECK_DEADLOCK FALSE
CONSTANTS
  bank = bank
  card = card
  july = july
  august = august
  x1 = x1
  x2 = x2
  x3 = x3
  g1 = g1
  g2 = g2
  p1 = p1
  p2 = p2
  h1 = h1
  h2 = h2
  d1 = d1
  d2 = d2
  d3 = d3
  t1 = t1
  t2 = t2
  Mixes <- MCMixes
  Bank = {bank, card}
  Statement = {july, august}
  StatementOf <- MCStatementOf
  Book <- MCBook
  MaxCalls = 3
  Jurisdiction <- MCJurisdiction
  Code <- MCCode
  Defaults <- MCDefaults
  RateTable <- MCRateTable
  TaxKind = {"Income", "Sales"}
  Income = 6
  FilingId = {g1, g2}
  MaxTaxCalls = 4
  Accounts = {"1000", "1010", "1020", "1050", "2000", "3000", "4000", "5000"}
  KindOf <- MCKindOf
  Txns <- MCTxns
  Entries <- MCEntries
  TypeOf <- MCTypeOf
  DayOf <- MCDayOf
  DueOf <- MCDueOf
  InvoiceIn <- MCInvoiceIn
  NoDay <- MCNoDay
  NoInvoice = "none"
  Periods <- MCPeriods
  Budgets <- MCBudgets
  MaxReports = 2
  Auditor = {p1, p2}
  MaxEntries = 3
  MaxStamp = 1
  Holder = {h1, h2}
  Topic = {t1, t2}
  MaxShort = 2
  MaxLong = 1
  MaxRemembered = 5
  DocumentId = {h1, h2}
  Content <- MCContent
  MaxDocuments = 3
  Connector = {p1, p2}
  Statements = 2
  MaxDatabases = 2
  KeyHolder = {p1, p2}
  Password = {"first", "second", "third"}
  First = "first"
  Field = {"ssn", "tax_id"}
  Text = {t1, t2}
  Blob = {h1, h2}
  Data = {d1, d2, d3}
  Compressible = {d1}
  MaxVault = 5
  Payee = {"Acme", "ACME", "Bolt"}
  LowerCase <- MCLowerCase
  NoPayee = "none"
  Amount = {2, 5, 10}
  PayDay = {1, 3, 5}
  DuplicateDays = 2
  VendorDays = 3
  RoundFrom = 10
  Round = 5
  Deviations = 1
  MaxPayments = 3
  AccountText <- MCAccountText
  Misleading <- MCMisleading
  LlmAnswer <- MCLlmAnswer
  AccountName <- MCAccountName
  Chart <- MCChart
  WordsOf <- MCWordsOf
  MaxSuggestions = 3
  EmbeddingId = {h1, h2, d1}
  Paper = {t1, t2}
  Vector <- MCVector
  Threshold = 70
  Limit = 2
  MaxEmbeddings = 4
  StartDays <- MCStartDays
  Years = {1900, 1999, 2000, 2024}
  Births <- MCBirths
  Shifts <- MCShifts
SYMMETRY Symmetry
INVARIANTS
  FiguresSound
  
  StorageSound
  AdviceSound
  NumberInCategory
  
