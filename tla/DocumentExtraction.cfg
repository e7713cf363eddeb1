CONSTANTS
  Sampling <- MCSampling
  Billing = TRUE
  Call <- MCCall
  Uri <- MCUri
  Targets <- MCTargets
  Allowed <- MCAllowed
  Public <- MCPublic
  MaxDocuments = 2
  MaxRedirects = 1
  Budget = 1
  MaxDays = 1
  MaxRestarts = 1
  Idle = Idle
  NoResult = NoResult
SPECIFICATION Spec
INVARIANTS
  BudgetHolds
  DocumentsAdmitted
  OneDocumentSuffices
PROPERTIES
  CallsEnd
