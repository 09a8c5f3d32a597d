SPECIFICATION Spec
CONSTANTS
  Threads = {t1, t2}
  Spans = {s1}
  NoSpan = NoSpan
  Failing <- SomeFailing
  Filters <- SomeFilters
  MaxErrors = 2
  MaxLogs = 1
SYMMETRY Symmetry
INVARIANT
  ValidationIsLoggedLow
