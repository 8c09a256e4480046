SPECIFICATION Spec
CHECK_DEADLOCK FALSE
CONSTANTS
  c1 = c1
  c2 = c2
  n1 = n1
  n2 = n2
  m1 = m1
  m2 = m2
  address = address
  user = user
  endpoint = endpoint
  f1 = f1
  f2 = f2
  a1 = a1
  a2 = a2
  j1 = j1
  j2 = j2
  Mixes <- MCMixes
  Name <- MCName
  Mail <- MCMail
  AccessTTL = 1
  RefreshTTL = 3
  Client = {c1, c2}
  NewRole <- MCNewRole
  MaxRequests = 5
  MaxTime = 2
  Key = {address, endpoint, user}
  LimitsOf <- MCLimitsOf
  Minute = 3
  MaxAsked = 6
  MaxTicks = 7
  File = {f1, f2}
  GroupsOf <- MCGroupsOf
  MaxOrders = 2
  MaxRetries = 1
  MaxImported = 3
  Agents = {a1, a2}
  Jobs = {j1, j2}
  MaxAttempts = 2
  MaxReadings = 1
  MaxClock = 1
  Retention = 0
SYMMETRY Symmetry
INVARIANTS
  
  OrdersSound
  StatusSound
