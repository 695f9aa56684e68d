SPECIFICATION FairSpec
CONSTANTS
    t1 = t1
    t2 = t2
    t3 = t3
    Threads = {t1, t2, t3}
    None = None
    NoSpace = NoSpace
    Causes = {NoSpace}
    Batches <- MCBatches
    FsyncDropsDirty = FALSE
    MaxLines = 5
    MaxFaults = 2
    MaxOpens = 2

INVARIANTS
  AckedSurvive
  SyncedIsStable
  TurnEndsCovered
PROPERTIES
  ImplementsDurableLog
  CallsReturn
