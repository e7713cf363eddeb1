SPECIFICATION Spec
SYMMETRY Slots
CONSTANTS
  hub = hub
  ledger = ledger
  search = search
  detail = detail
  plan = plan
  plan2 = plan2
  balance = balance
  journal = journal
  amended = amended
  Server = {hub, ledger}
  Op = {search, detail, balance, journal, amended}
  Call = {c1, c2}
  Approval = {a1}
  MaxEntries = 1
  Financial = {ledger}
  Listed = {search, detail, balance, journal}
  ServerOf <- MCServerOf
  KeyOf <- MCKeyOf
  CacheTTL <- MCCacheTTL
  PublicSearch <- MCPublicSearch
  AccountRead <- MCAccountRead
  NeedsApproval <- MCWrites
  NeedsDeclaration <- MCWrites
  Window = 2
  ApprovalTTL = 2
  Timeout = 1
  None = None
INVARIANTS
  AnswersFresh
  WritesApproved
  FinancialNeverCached
PROPERTIES
  FinancialPaced
