\* Two CI runs or three processes that put records; one apply after another; one release job after another.
CONSTANTS
  c1 = c1
  c2 = c2
  k1 = k1
  k2 = k2
  p1 = p1
  p2 = p2
  q1 = q1
  q2 = q2
  q3 = q3
  r1 = r1
  r2 = r2
  build = build
  test = test
  ship = ship
  Process = {p1, p2, q1, q2, q3}
  Clone = {c1, c2, k1, k2}
  Home <- Homes
  Path = {"run", "revision", "other", "edited"}
  Value = {"failed", "passed"}
  Plan <- Plans
  Foreign = {"edited"}
  HasRemote = TRUE
  Disposable = {c1, c2}
  Together <- Scenes
  MaxFaults <- Bounds
SPECIFICATION MCSpec
INVARIANTS AcknowledgedIsOnRemote ForeignStaysHere OneNumberPerRevision OwnReleaseConverges
PROPERTIES EveryPlanEnds GreenStays EventuallyGreen DecisionsAreCarriedOut
