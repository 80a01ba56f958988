SPECIFICATION Spec
CONSTANTS
  k1 = k1
  k2 = k2
  k3 = k3
  k4 = k4
  k5 = k5
  NoKey = NoKey
  Keys <- MCKeys
  ValueLen <- MCValueLen
  Budget = 6
INVARIANTS
  TypeOK
  IndexMatchesSlots
  VacantIsExact
  BytesAccounted
PROPERTIES
  InsertionsEvictMinimally
  ImplementsByteBudgetCache
