CONSTANTS
  c1 = c1
  c2 = c2
  c3 = c3
  c4 = c4
  k1 = k1
  k2 = k2
  k3 = k3
  t1 = t1
  t2 = t2
  Calls = {c1, c2, c3, c4}
  Keys = {k1, k2, k3}
  KeyOf <- MCKeyOf
  Tools = {t1, t2}
  ToolOf <- MCToolOf
  Cached = {c1, c2, c3, c4}
  TTL <- MCTTL
  MaxEntries = 2
  MaxTime = 2
  MaxReloads = 1
SYMMETRY MCSymmetry
SPECIFICATION Spec
CHECK_DEADLOCK FALSE
INVARIANTS
  CacheIsBoundedMap
  OldServerOnlyFromOutlivingCall
  SensorShowsLastCall
PROPERTIES
  HitsAreFresh
  LiveResultsSurvive
