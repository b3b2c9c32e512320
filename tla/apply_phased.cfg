\* Two processes in any mix of whole applies and phase jobs over three stages, the first of them tolerant.
CONSTANTS
  build = build
  test = test
  lint = lint
  pack = pack
  ship = ship
  Proc = {p1, p2}
  Rev = {r1}
  Sub <- ChainSub
  LastStage = 3
  StageOf <- ChainOf
  Needs <- ChainNeeds
  Gated = {test}
  Builds = {build}
  Publishes = {ship}
  Threshold <- OnePass
  Verbs = {"apply", "evaluate", "stages", "stage", "substage"}
  Decisions = {"skip", "proceed"}
  MaxFaults = 1
SPECIFICATION StaySpec
INVARIANTS NeedsFirst PhasesAgree
PROPERTY KeepsDiscipline
SYMMETRY Procs
