CONSTANTS
  Absent = Absent
  Unextracted = Unextracted
  Nothing = Nothing
  Lists <- MCLists
  Capabilities <- MCCapabilities
  Searches = 3
  ViewHalfDays = 2
SPECIFICATION ViewSpec
INVARIANTS
  LockedHasCause
  SearchesSerial
  CardsAgreeWithRanking
  ToldTruly
CHECK_DEADLOCK FALSE
