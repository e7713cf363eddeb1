SPECIFICATION Spec
SYMMETRY Slots
CONSTANTS
  hub = hub
  ledger = ledger
  search = search
  detail = detail
  plan = plan
  plan2 = plan2
  balance = balance
  journal = journal
  amended = amended
  Server = {hub}
  Op = {plan, plan2}
  Call = {c1}
  Approval = {}
  MaxEntries = 1
  Financial = {}
  Listed = {plan, plan2}
  ServerOf <- MCServerOf
  KeyOf <- MCKeyOf
  CacheTTL <- MCCacheTTL
  PublicSearch <- MCPublicSearch
  AccountRead <- MCAccountRead
  NeedsApproval <- MCWrites
  NeedsDeclaration <- MCWrites
  Window = 2
  ApprovalTTL = 2
  Timeout = 1
  None = None
INVARIANTS
  AnswersTheArguments
