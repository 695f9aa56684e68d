SPECIFICATION StoreSpec
CONSTANTS
  t1 = t1
  t2 = t2
  h1 = h1
  h2 = h2
  Threads = {t1, t2}
  Hashes = {h1, h2}
  None = None
  Stores <- SharedBody
  MaxLines = 2
  p1 = p1
  p2 = p2
  p3 = p3
  Procs = {p1, p2, p3}
  Nothing = Nothing
  Settings <- PlainAndRaces
  MaxFolders = 2
  MaxFailures = 2
  root = root
  child = child
  Actors = {p1, p2}
  Ids = {root, child}
  Nil = Nil
  Parent <- ChildOfRoot
  CompactAt = 2
  Budgets <- FamilyAndFaults
SYMMETRY Symmetric

INVARIANTS
  RefsSurvive
  ForkIsWhole
  PublishedStaysVisible
  OneWriter
  StaleIsReported
PROPERTIES
  TombstoneIsFinal
CHECK_DEADLOCK FALSE
