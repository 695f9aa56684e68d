CONSTANTS
  m1 = m1
  m2 = m2
  v1 = v1
  v2 = v2
  w1 = w1
  w2 = w2
  none = none
  Prompts = {m1, m2}
  Viewers = {v1, v2}
  Workers = {w1, w2}
  NoId = none
  a = a
  b = b
  st = st
  x = x
  None = None
  a1 = a1
  a2 = a2
  Nil = Nil
  Writers = {a1, a2}
  Worlds = {"fence", "old", "plain"}
  MaxEvents = 4
  Setups <- AllSetups
  MaxEpoch = 2
SPECIFICATION AllSpec
INVARIANTS
  CheckpointKeepsState
  RunsOnce
  CancelHitsItsTurn
  ReconnectAgrees
  RepeatedIsTrue
  NobodyWaits
  AcceptedIsHeard
PROPERTIES
  IsOneChain
CHECK_DEADLOCK FALSE
