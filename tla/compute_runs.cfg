\* Two local runs over shared checkouts, or two remote substages with a second attempt.
CONSTANTS
  a = a
  b = b
  e = e
  Dir = {a, b, e}
  Root = "root"
  Needs <- Tested
  Substage = {"s1", "s2", "s3"}
  Targets <- Steps
  Sync = {"s3"}
  Call = {"s1", "s2"}
  Attempts = 2
  Askings <- Asks
  Polls = 2
  Page = 1
  Reaped = TRUE
  Written <- Example
  RepoName = {"x", "y"}
  EngineName = {"c", "r", "g", "p", "k", "t"}
  TargetName = {"make", "lint"}
  StageName = {"build", "ship", "docs", "code"}
  MaxEdits = 2
SPECIFICATION FairSpec
INVARIANTS NothingIsSkipped AnswersAreItsOwn WavesDoNotOverlap
PROPERTIES KeepsPromise EveryCallAnswers
CHECK_DEADLOCK FALSE
