CONSTANTS
  d1 = d1
  d2 = d2
  q1 = q1
  s1 = s1
  s2 = s2
  s3 = s3
  a = a
  b = b
  read = read
  write = write
  auth = auth
  key = key
  old = old
  fresh = fresh
  Dialogs = {d1, d2}
  Requests = {q1}
  Servers = {s1, s2, s3}
  FirstData <- MCFirstData
  Urls = {a, b}
  Tools = {read, write}
  ToolsAt <- MCToolsAt
  HeaderKeys = {auth, key}
  Values = {old, fresh}
  Redacted = R
  AllTools = AllTools
  FormRows <- MCFormRows
  R = R
SYMMETRY MCSymmetry
SPECIFICATION Spec
CHECK_DEADLOCK FALSE
INVARIANTS
  OldCatalogOnlyFromMissedReload
PROPERTIES
  SecretsSurviveEdits
  EditKeepsAllowlist
  TwinsOnlyFromStaleCopies
