SPECIFICATION FairSpec
CONSTANTS
  Names = {mdl}
  Keys <- ThreeKeys
  Claims = {claim}
  Broken = Broken
  Dates <- TwoDates
  BadDate = BadDate
  DeviceKeys <- BothKeys
  Validities <- SomeValidities
INVARIANT
  TypeOK
PROPERTIES
  RefinesAtomicBuilder
  BorrowIsReturned
