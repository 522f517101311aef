SPECIFICATION Spec
CONSTANTS
  Word = 16
  Gprs = 6
  MaxTrace = 14
  FuelGuardMin = 3
  MaxBlock = 12
  HoistMin = 3
  PageSize = 4
  Windows <- CarriedDef
  Grants <- AmpleDef
  Refusals <- RefusalsDef
INVARIANTS
  TailReproducesTemps
CHECK_DEADLOCK FALSE
