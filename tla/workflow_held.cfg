\* A job per stage, the first of which tolerates a substage that is held.
CONSTANTS
  Stages <- ThreeStages
  Needs <- SomeNeeds
  Uses <- SomeUses
  Enough <- SomeEnough
  Builds = {"compile", "image"}
  Writes = {"lint", "publish"}
  Cuts = {"stage"}
  MaxFaults = 1
SPECIFICATION WorkflowSpec
INVARIANTS NoJobIsRefused
CHECK_DEADLOCK FALSE
