CONSTANTS
  r1 = r1
  r2 = r2
  r3 = r3
  r4 = r4
  l1 = l1
  l2 = l2
  u1 = u1
  u2 = u2
  Runs = {r1, r2, r3, r4}
  Lists = {l1, l2}
  ListOf <- MCListOf
  MayStart <- MCMayStart
  NoRun = NoRun
  Uids <- MCOneUid
  Shared = {l2}
  Attempts = 2
SPECIFICATION Spec
CHECK_DEADLOCK FALSE
INVARIANTS
  OneRunPerList
  NoForeignItems
  PromptExplainsItems
PROPERTIES
  RunsEnd
