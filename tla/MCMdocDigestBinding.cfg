SPECIFICATION Spec
CONSTANTS
  h1 = h1
  h2 = h2
  Handles = {h1, h2}
  BadDate = BadDate
  Requests <- OnlyLicense
  MaxDraws = 2
  MaxAnswers = 1
INVARIANT
  DigestsBindDisclosures
