\* The line of versions over three commits, or polls among people's moves, or
\* runs of a workflow in each cut, with two failures or moves, or a lost poll.
CONSTANTS
  a = a
  b = b
  own = own
  other = other
  p1 = p1
  p2 = p2
  Subject <- Subjects
  Contains <- Has
  IsSelf <- Own
  Width <- Widths
  Vocabulary <- Lists
  Policies <- Policy
  FirstTag <- FirstVersion
  ByHand <- Finals
  LastCommit = 3
  Stages <- ThreeStages
  Needs <- SomeNeeds
  Uses <- SomeUses
  Enough <- SomeEnough
  Builds = {"compile", "image"}
  Writes = {"lint", "publish"}
  Cuts = {"stages", "stage", "substage"}
  MaxFaults = 2
SPECIFICATION FairSpec
INVARIANTS StaysInCap EveryCommitCounts OnlyHeldRefuses ReadsWhatStagesBuilt GreenIsProven
PROPERTIES NextIsNew WhatMovedIsTold PollsComeToRest RunsComeToAnEnd
CHECK_DEADLOCK FALSE
