SPECIFICATION TranslationSpec
CONSTANTS
  SMant = 2
  SExp = 5
  DMant = 7
  DExp = 6
  DBandLow = 10
  DBandHigh = 55
  DSplitBits = 4
  XLEN = 8
  IntSizes = {5, 8, 9}
  Exponents = {0, 1, 14, 16, 17, 30, 31}
  Factors <- FactorsDef
  Thirds <- ThirdsDef
  Word = 16
  Gprs = 6
  MaxTrace = 14
  FuelGuardMin = 3
  MaxBlock = 12
  HoistMin = 3
  PageSize = 4
  Windows <- WindowsDef
  Grants <- GrantsDef
  Refusals <- RefusalsDef
INVARIANTS
  FloatsExact
  ShortcutsAgree
  IntegersAgree
  CompiledFaithful
  FuelBounded
CHECK_DEADLOCK FALSE
