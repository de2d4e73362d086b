CONSTANTS
  f1 = f1
  f2 = f2
  f3 = f3
  None = None
  Masters = {0, 1}
  MaxFusions = 2
  Fusions = {f1, f2, f3}
  MasterOf <- MasterOfEach
  Modules <- OneWithUarts
  MaxUarts = 2
  IntBits = 2
  MaxOpens = 2
SPECIFICATION Spec
INVARIANTS SlotPerSlave RegistrationKept DataIsOwn
CHECK_DEADLOCK FALSE
