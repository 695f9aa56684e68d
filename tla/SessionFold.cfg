SPECIFICATION Spec
CONSTANTS
    Null = Null
    Children = {"c"}
    Works = {"v", "w"}
    here = here
    there = there
    Workspaces = {here, there}
    Batches <- MCBatches
    Bases = {2, 3}
    MaxLines = 5
    MaxForks = 1
    MaxDamage = 1
SYMMETRY WorkspaceSymmetry

INVARIANTS
  StateIsFold
PROPERTIES
  ForkOwnsNoChildren
CHECK_DEADLOCK FALSE
