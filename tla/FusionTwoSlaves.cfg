CONSTANTS
  f1 = f1
  f2 = f2
  f3 = f3
  None = None
  Masters = {0}
  MaxFusions = 2
  Fusions = {f1, f2}
  MasterOf <- MasterOfEach
  Modules <- EachWithUarts
  MaxUarts = 2
  IntBits = 2
  MaxOpens = 2
SPECIFICATION Spec
INVARIANTS DataIsOwn
CHECK_DEADLOCK FALSE
