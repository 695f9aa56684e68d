SPECIFICATION FairSpec
CONSTANTS
  native = native
  web = web
  input = input
  Agents <- MCAgents
  WebAgents <- MCWeb
  Inputs <- MCInputs
  Setups <- MCSetups

INVARIANTS
  NoGap
  EffectIsStored
  CheckpointCovers
PROPERTIES
  ClosesEnd
