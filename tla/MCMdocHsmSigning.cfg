SPECIFICATION Spec
CONSTANTS
  h1 = h1
  h2 = h2
  Handles = {h1, h2}
  BadDate = BadDate
  Requests <- AllRequests
  MaxDraws = 4
  MaxAnswers = 2
INVARIANTS
  TypeOK
  SignatureIdentifiesPreparation
  DigestIdsNameDisclosures
  CompletionRepeatable
PROPERTIES
  
  RefinesSplitSigning
