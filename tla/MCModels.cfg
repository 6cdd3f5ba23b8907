SPECIFICATION Spec

CONSTANTS
  Undefined = Undefined
  None = None
  Parts = {"growth", "series", "csr", "players", "windows", "water", "drainage", "swmm", "rules", "network", "demand",
           "assignment", "kpis", "overlaps", "areas", "creator"}
  k1 = k1
  k2 = k2
  v1 = v1
  v2 = v2
  x = x
  y = y
  z = z
  a = a
  b = b
  m1 = m1
  m2 = m2
  i1 = i1
  i2 = i2
  c1 = c1
  c2 = c2
  Zero = Zero
  NaN = NaN
  Special = Special
  Infinite = Infinite
  Eps = Eps
  DefaultAlpha = DefaultAlpha

INVARIANTS
  EverythingIsPublished
  AdapterFollows
  RowsAreKept
  PlayersShowTheMoment
  WindowsAreShown
  WaterFollowsItsInputs
  DrainageHasOneEngine
  ImportInvertsSynthesis
  RulesAreCurrent
  AnswersArePaths
  DemandFollowsParameters
  AssignmentIsCurrent
  KpisAreCurrent
  OverlapsAreTheirOwn
  AggregatesFollowTheSource
  DatasetTellsTheSources

PROPERTIES
  ChangesArePassedOn

SYMMETRY Symmetric

CHECK_DEADLOCK FALSE
