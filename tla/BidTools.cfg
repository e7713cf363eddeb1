CONSTANTS
  Absent = Absent
  Unextracted = Unextracted
  NoAnswer = NoAnswer
  Cap = 2
  TopLimit = 2
  Collation <- MCCollation
  Bundled <- MCBundled
  NameLength <- MCNameLength
  Key <- MCKey
  Portals <- MCPortals
  Amendments <- MCAmendments
  Options <- MCOptions
  Profiles <- MCProfiles
  Extractions <- MCExtractions
  Remote <- MCRemote
  Limits = {2, 3}
  Remember = FALSE
  HalfDays = 3
SPECIFICATION Spec
INVARIANTS
  OverdueOnlyAfterJapanDay
  BetterProfileNeverHurts
  DatesAgree
  SilentOnlyIfUnreadable
  TopIssuersAreTop
  FactsCoverNotices
PROPERTIES
  WaitingNeverHelps
  AnswersRecent
CHECK_DEADLOCK FALSE
