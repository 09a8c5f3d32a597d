SPECIFICATION Spec
CONSTANTS
  CoordBytes = 2
  LongForm = 8
  Bytes <- SignBytes
  Widths <- SignerWidths
INVARIANTS
  TypeOK
  ConversionIsExact
  TruncatedNeverAccepted
CHECK_DEADLOCK FALSE
