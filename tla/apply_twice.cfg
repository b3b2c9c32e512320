\* Two processes apply one revision at once, and one target fails once.
CONSTANTS
  build = build
  test = test
  lint = lint
  pack = pack
  ship = ship
  Proc = {p1, p2}
  Rev = {r1}
  Sub <- TwoStageSub
  LastStage = 2
  StageOf <- TwoStageOf
  Needs <- TwoStageNeeds
  Gated = {test}
  Builds = {build}
  Publishes = {ship}
  Threshold <- TwoPass
  Verbs = {"apply"}
  Decisions = {"proceed"}
  MaxFaults = 1
SPECIFICATION FairSpec
PROPERTY GreenStays
