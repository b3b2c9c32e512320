\* A job per substage, one of which needs another.
CONSTANTS
  Stages <- ThreeStages
  Needs <- SomeNeeds
  Uses <- SomeUses
  Enough <- SomeEnough
  Builds = {"compile", "image"}
  Writes = {"lint", "publish"}
  Cuts = {"substage"}
  MaxFaults = 0
SPECIFICATION WorkflowSpec
INVARIANTS ReadsWhatSiblingsBuilt
CHECK_DEADLOCK FALSE
