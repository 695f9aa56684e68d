\* A prompt, three follow-ups of which the journal held one, a steer and a tool
\* call, over two turns; two responses of one piece over the addon's bridge; the
\* bounds of the core in WebAssembly are in MCFxAgent.
SPECIFICATION AgentSpec
CONSTANTS
  p1 = p1
  f1 = f1
  f2 = f2
  h1 = h1
  s1 = s1
  c1 = c1
  NoTurn = NoTurn
  Prompts <- MCPrompts
  FollowUps <- MCFollowUps
  Held <- MCHeld
  Steers <- MCSteers
  ToolCalls <- MCToolCalls
  MaxUnread = 1
  MaxGen = 2
  MaxFetches = 2
  MaxBody = 1
  MaxQueue = 1
  MaxDrain = 1
  MaxLines = 1
INVARIANTS
  FollowUpsInOrder
  KnowsTheJournal
  EndsAreTrue
  UsesLiveCore
  ImagesAsGiven
PROPERTIES
  CancelsEnd
  WritesOnlyForItsCall
CHECK_DEADLOCK FALSE
