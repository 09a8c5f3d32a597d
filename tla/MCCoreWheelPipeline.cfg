SPECIFICATION MCSpec
CONSTANTS
  pr1 = pr1
  pr2 = pr2
  push = push
  warm = warm
  badPush = badPush
  badWarm = badWarm
  Runs = {pr1, pr2, push, warm, badPush, badWarm}
  Event <- EventOf
  Ref <- RefOf
  Revision <- RevisionOf
  Exporting = {"old", "new"}
  MainRef = "main"
  Platforms <- TwoPlatforms
INVARIANTS
  TypeOK
  CachedWheelsAreKeyed
  GateVouchesForPinnedWheels
  TestedWheelsExport
PROPERTIES
  VerdictsAreFinal
  KeepsPromise
  VerdictReached
CHECK_DEADLOCK FALSE
