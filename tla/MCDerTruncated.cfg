SPECIFICATION Spec
CONSTANTS
  CoordBytes = 2
  LongForm = 8
  Bytes <- SignBytes
  Widths <- SignerWidths
INVARIANT
  NeverPanics
CHECK_DEADLOCK FALSE
