CONSTANTS
  e1 = e1
  e2 = e2
  e3 = e3
  t1 = t1
  t2 = t2
  Entries = {e1, e2, e3}
  EntryOrder <- MCOrder
  Tokens = {t1, t2}
  NoToken = NoToken
  FirstTokens <- MCFirstTokens
  Editable = {e1}
  Removable = {e2}
SPECIFICATION Spec
CHECK_DEADLOCK FALSE
INVARIANTS
  OwnersAreRight
  NoOrphanedTelemetry
  ConflictIssueIsRight
PROPERTIES
  FirstTokenWins
  LifecycleEnds
