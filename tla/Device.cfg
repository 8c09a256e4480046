SPECIFICATION Spec
CONSTANTS
  a1 = a1
  a2 = a2
  t1 = t1
  t2 = t2
  x1 = x1
  i1 = i1
  n1 = n1
  n2 = n2
  p = p
  q = q
  g = g
  h = h
  NoDb = NoDb
  Entity = {a1, a2, t1, t2, x1, i1}
  KindOf <- MCKindOf
  AccountOf <- MCAccountOf
  Number = {n1, n2}
  Stored = {a1, i1}
  Thread = {p, q}
  Handle = {g, h}
  Mixes <- MCMixes
  MaxFaults = 1
SYMMETRY Symmetric
INVARIANTS
  
  
  FlagSound
CHECK_DEADLOCK FALSE
