SPECIFICATION Spec
CONSTANTS
  Sessions <- SomeSessions
  Roots = {"r1", "r2"}
  Issuers = {"i1", "i2"}
  RootOf <- SomeRootOf
  DocLists <- SomeDocLists
  Trusts <- SomeTrusts
  Keys <- SomeKeys
  Algorithms <- SomeAlgorithms
  Claims = {"role"}
  BbsLists <- SomeBbsLists
  IndexLists <- SomeIndexLists
  Suites = {"SHAKE256"}
  None = None
  MaxSent = 1
INVARIANT
  AllItemsAreReturned
