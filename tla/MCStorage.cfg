SPECIFICATION Spec

CONSTANTS
  Parts = {"collector", "failing_collector", "results", "archive", "core"}
  c1 = c1
  c2 = c2
  d = d
  d1 = d1
  d2 = d2
  g = g
  h = h
  n = n
  p = p
  q = q
  s = s
  t = t
  u = u
  v1 = v1
  v2 = v2
  w1 = w1
  w2 = w2
  x = x
  Fixed = Fixed
  Undefined = Undefined
  None = None

INVARIANTS
  CollectorIsComplete
  HistoryIsReplayed
  ArchiveTellsOneRun
  StoredDataIsConsistent

PROPERTIES
  NothingIsOverwritten

SYMMETRY Symmetric

CHECK_DEADLOCK FALSE
