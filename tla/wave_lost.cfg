\* One remote wave with a command that fails at once.
CONSTANTS
  a = a
  b = b
  e = e
  Dir = {a, b, e}
  Root = "root"
  Needs <- Tested
  Substage = {"s1", "s2", "s3"}
  Targets <- Steps
  Sync = {"s3"}
  Call = {"s1", "s2"}
  Attempts = 2
  Askings <- Asks
  Polls = 2
  Page = 1
  Reaped = TRUE
  Written <- Example
  RepoName = {"x", "y"}
  EngineName = {"c", "r", "g", "p", "k", "t"}
  TargetName = {"make", "lint"}
  StageName = {"build", "ship", "docs", "code"}
  MaxEdits = 0
SPECIFICATION MCSpec
INVARIANTS FailureIsSeen
CHECK_DEADLOCK FALSE
