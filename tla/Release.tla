------------------------------ MODULE Release ------------------------------
(***************************************************************************)
(* From a revision to the release that carries it: the decision of         *)
(* decideRelease (internal/controller/reconcilecontroller/release.go), the *)
(* publish of a release substage (publish.go) and the release engine       *)
(* (cmd/ci-artifact-release), which tags every repo of the release set and *)
(* publishes one GitHub release under that tag.                            *)
(*                                                                         *)
(* Several processes do this, each in a checkout of its own, cloned or     *)
(* pulled when it starts; they share the remotes, the GitHub releases and  *)
(* the records.  The stages that prove a revision are ApplyLoop.tla, the   *)
(* store of the records is StateStore.tla.  A commit is its number in the  *)
(* history of its repo, a version its number on the version line: how far  *)
(* a bump moves is left out, that it moves forward is not.                 *)
(***************************************************************************)
EXTENDS Integers, FiniteSets

CONSTANTS
  Proc,       \* forge-ci processes
  LastRepo,   \* the release set is 1..LastRepo, in the order it is tagged
  Home,       \* the repo the version line is read from
  LastRev,    \* revisions are 1..LastRev, in the order the checkouts move
  Pin,        \* the commit a revision holds of a repo
  Tree,       \* the files of a revision outside the ignored paths
  Ships,      \* the files a revision builds; NoFile if it builds none
  Releasing,  \* <<repo, commit>> whose subject the vocabulary releases
  Semantic,   \* versioning.strategy is semantic, not patch or minor
  Ignoring,   \* versioning.ignorePaths is not empty
  Fresh,      \* a process starts in a fresh clone (CI), not in a kept one
  Verbs,      \* a subset of {"apply", "evaluate", "stages"}
  LastVersion,\* bound on the version line
  MaxFaults   \* bound on crashes and calls that err

Repo    == 1..LastRepo
Rev     == 1..LastRev
Version == 1..LastVersion

NoFile == "no file"
None   == [version |-> 0]   \* no record, no decision

ASSUME ReleaseAssumption ==
  /\ LastRepo \in Nat \ {0}
  /\ LastRev \in Nat \ {0}
  /\ LastVersion \in Nat
  /\ Home \in Repo
  /\ Pin \in [Rev -> [Repo -> Nat \ {0}]]
  /\ \A r \in Rev, q \in Rev, m \in Repo : r <= q => Pin[r][m] <= Pin[q][m]
  /\ DOMAIN Tree = Rev /\ DOMAIN Ships = Rev
  /\ Semantic \in BOOLEAN /\ Ignoring \in BOOLEAN /\ Fresh \in BOOLEAN
  /\ Verbs \subseteq {"apply", "evaluate", "stages"}
  /\ MaxFaults \in Nat

VARIABLES
  head,       \* the revision a clone made now holds
  tags,       \* the commit a tag points at in a repo's remote, 0 if none
  published,  \* the revision the visible GitHub release of a version was built from
  byRev,      \* the release record of a revision
  byTag,      \* the release record of a version
  evaluated,  \* the evaluate-<rev> record
  ran,        \* revisions whose release substage has a passing run record
  pc,         \* where a process stands
  verb,       \* how it was started
  rev,        \* the revision it is bound to
  local,      \* the tags in its checkout
  decision,   \* what it goes by
  unread,     \* the repos whose tag the engine has yet to look for
  pending,    \* those it found without, and has yet to tag
  found,      \* the release was visible when it looked
  index,      \* the index the engine answered
  faults

records == <<byRev, byTag, evaluated, ran>>
remotes == <<tags, published>>
own     == <<verb, rev, local, decision, unread, pending, found, index>>
vars    == <<head, remotes, records, pc, own, faults>>

\* The files a release shipped, as its index tells them.
Index == {Ships[r] : r \in Rev} \union {NoFile}

\* A release record.  Its repos and its trees are those of the revision set.
Record == [rev : Rev, version : Version, set : Rev, index : Index]

\* A decision; previous is 0 when there is none to compare with.
Decision == [version : Version, previous : Version \union {0}, skip : BOOLEAN, set : Rev]

Tags == [Repo -> [Version -> Nat]]

TypeOK ==
  /\ head \in Rev
  /\ tags \in Tags
  /\ published \in [Version -> Rev \union {0}]
  /\ byRev \in [Rev -> Record \union {None}]
  /\ byTag \in [Version -> Record \union {None}]
  /\ evaluated \in [Rev -> Decision \union {None}]
  /\ ran \subseteq Rev
  /\ pc \in [Proc -> {"idle", "decide", "publish", "preflight", "tag", "push",
                      "byrev", "bytag", "answer"}]
  /\ verb \in [Proc -> {"apply", "evaluate", "stages"}]
  /\ rev \in [Proc -> Rev]
  /\ local \in [Proc -> Tags]
  /\ decision \in [Proc -> Decision \union {None}]
  /\ unread \in [Proc -> SUBSET Repo]
  /\ pending \in [Proc -> SUBSET Repo]
  /\ found \in [Proc -> BOOLEAN]
  /\ index \in [Proc -> Index]
  /\ faults \in 0..MaxFaults

-----------------------------------------------------------------------------
(* What a process reads.                                                   *)

NoTags == [m \in Repo |-> [v \in Version |-> 0]]

\* The version a process releases its revision under.
Number(p) == decision[p].version

Fault == faults < MaxFaults /\ faults' = faults + 1

\* The newest version tagged in the checkout of the home repo, 0 if none.
Latest(p) ==
  LET cut == {v \in Version : local[p][Home][v] # 0}
  IN  IF cut = {} THEN 0 ELSE CHOOSE v \in cut : \A w \in cut : w <= v

\* Mutant: the subjects are read from the start, not from the tag.
ScoresEverything(p, previous) ==
  Semantic => \E m \in Repo : \E k \in 1..Pin[rev[p]][m] : <<m, k>> \in Releasing

\* Something since the last tag releases.  A repo the tag is not known in is
\* read from its start.  Only the semantic strategy reads subjects.
Scores(p, previous) ==
  Semantic =>
    \E m \in Repo :
      LET since == IF previous = 0 THEN 0 ELSE local[p][m][previous]
      IN  \E k \in since + 1..Pin[rev[p]][m] : <<m, k>> \in Releasing

\* The last release's record holds the very set, or the very trees.
SameCode(r, previous) ==
  /\ previous # 0
  /\ byTag[previous] # None
  /\ \/ Pin[byTag[previous].set] = Pin[r]
     \/ Ignoring /\ Tree[byTag[previous].set] = Tree[r]

\* Mutant: the digests are not compared.
SameNames(p) ==
  LET previous == decision[p].previous
  IN  /\ previous # 0
      /\ byTag[previous] # None
      /\ byTag[previous].index # NoFile
      /\ Ships[rev[p]] # NoFile

\* What this revision built is byte for byte what the last release shipped.
SameBytes(p) ==
  LET previous == decision[p].previous
  IN  /\ previous # 0
      /\ byTag[previous] # None
      /\ byTag[previous].index # NoFile
      /\ byTag[previous].index = Ships[rev[p]]

\* Some remote holds the tag at another commit.
Refused(p) == \E m \in Repo : tags[m][Number(p)] \notin {0, Pin[rev[p]][m]}

\* The repos are gone through in their order.
First(repos) == CHOOSE m \in repos : \A n \in repos : m <= n

\* The repo tagged next.
Turn(p) == First(pending[p])

-----------------------------------------------------------------------------
Init ==
  /\ head = 1
  /\ tags = NoTags
  /\ published = [v \in Version |-> 0]
  /\ byRev = [r \in Rev |-> None]
  /\ byTag = [v \in Version |-> None]
  /\ evaluated = [r \in Rev |-> None]
  /\ ran = {}
  /\ pc = [p \in Proc |-> "idle"]
  /\ verb = [p \in Proc |-> "apply"]
  /\ rev = [p \in Proc |-> 1]
  /\ local = [p \in Proc |-> NoTags]
  /\ decision = [p \in Proc |-> None]
  /\ unread = [p \in Proc |-> {}]
  /\ pending = [p \in Proc |-> {}]
  /\ found = [p \in Proc |-> FALSE]
  /\ index = [p \in Proc |-> NoFile]
  /\ faults = 0

\* The process answers or errs.  What it tagged stays in a kept checkout.
Leave(p) ==
  /\ pc' = [pc EXCEPT ![p] = "idle"]
  /\ verb' = [verb EXCEPT ![p] = "apply"]
  /\ rev' = [rev EXCEPT ![p] = 1]
  /\ local' = [local EXCEPT ![p] = IF Fresh THEN NoTags ELSE @]
  /\ decision' = [decision EXCEPT ![p] = None]
  /\ unread' = [unread EXCEPT ![p] = {}]
  /\ pending' = [pending EXCEPT ![p] = {}]
  /\ found' = [found EXCEPT ![p] = FALSE]
  /\ index' = [index EXCEPT ![p] = NoFile]

GoTo(p, next) == pc' = [pc EXCEPT ![p] = next]

\* A fresh clone holds the remotes' tags; a kept checkout its own ones too.
CheckOut(p) ==
  local' = [local EXCEPT ![p] =
    IF Fresh THEN tags
    ELSE [m \in Repo |-> [v \in Version |->
            IF local[p][m][v] # 0 THEN local[p][m][v] ELSE tags[m][v]]]]

\* A process starts, bound to revision r.
Begin(p, v, next, r, d) ==
  /\ pc[p] = "idle"
  /\ v \in Verbs
  /\ GoTo(p, next)
  /\ verb' = [verb EXCEPT ![p] = v]
  /\ rev' = [rev EXCEPT ![p] = r]
  /\ decision' = [decision EXCEPT ![p] = d]
  /\ CheckOut(p)
  /\ UNCHANGED <<head, remotes, records, unread, pending, found, index, faults>>

\* A whole apply, or the evaluate phase of a phased one.
StartApply(p) ==
  \/ Begin(p, "apply", "decide", head, None)
  \/ Begin(p, "evaluate", "decide", head, None)

\* The job that holds the release substage goes by the recorded decision.
StartStages(p, r) ==
  /\ evaluated[r] # None
  /\ ~evaluated[r].skip
  /\ Begin(p, "stages", "publish", r, evaluated[r])

-----------------------------------------------------------------------------
(* decideRelease.                                                          *)

\* Where a decision is left: the evaluate phase records it, an apply goes on.
Decided(p, d) ==
  IF verb[p] = "evaluate"
    THEN Leave(p) /\ evaluated' = [evaluated EXCEPT ![rev[p]] = d]
    ELSE /\ IF d.skip THEN Leave(p)
            ELSE /\ GoTo(p, "publish")
                 /\ decision' = [decision EXCEPT ![p] = d]
                 /\ UNCHANGED <<verb, rev, local, unread, pending, found, index>>
         /\ UNCHANGED evaluated

\* The revision was released: its number is its number.
DecideReleased(p) ==
  /\ pc[p] = "decide"
  /\ byRev[rev[p]] # None
  /\ LET rec == byRev[rev[p]]
     IN  Decided(p, [version |-> rec.version, previous |-> 0, skip |-> FALSE, set |-> rec.set])
  /\ UNCHANGED <<head, remotes, byRev, byTag, ran, faults>>

\* Nothing since the last tag releases, or the last release holds the code.
DecideSkip(p) ==
  /\ pc[p] = "decide"
  /\ byRev[rev[p]] = None
  /\ Latest(p) # 0
  /\ ~Scores(p, Latest(p)) \/ SameCode(rev[p], Latest(p))
  /\ Decided(p, [version |-> Latest(p), previous |-> Latest(p), skip |-> TRUE, set |-> rev[p]])
  /\ UNCHANGED <<head, remotes, byRev, byTag, ran, faults>>

DecideBump(p) ==
  /\ pc[p] = "decide"
  /\ byRev[rev[p]] = None
  /\ Latest(p) < LastVersion
  /\ Latest(p) # 0 => Scores(p, Latest(p)) /\ ~SameCode(rev[p], Latest(p))
  /\ Decided(p, [version |-> Latest(p) + 1, previous |-> Latest(p), skip |-> FALSE, set |-> rev[p]])
  /\ UNCHANGED <<head, remotes, byRev, byTag, ran, faults>>

-----------------------------------------------------------------------------
(* The release substage.                                                   *)

\* Its run passed already: the record is reused.
Reuse(p) ==
  /\ pc[p] = "publish"
  /\ rev[p] \in ran
  /\ Leave(p)
  /\ UNCHANGED <<head, remotes, records, faults>>

\* Mutant: the record taken over is said to be of the revision's own commits.
ConvergeAsOwn(p) ==
  /\ pc[p] = "publish"
  /\ rev[p] \notin ran
  /\ SameBytes(p)
  /\ byRev' = [byRev EXCEPT ![rev[p]] =
                 [byTag[decision[p].previous] EXCEPT !.rev = rev[p], !.set = rev[p]]]
  /\ GoTo(p, "answer")
  /\ UNCHANGED <<head, remotes, byTag, evaluated, ran, own, faults>>

\* The bytes are those of the last release: the revision takes its record.
Converge(p) ==
  /\ pc[p] = "publish"
  /\ rev[p] \notin ran
  /\ SameBytes(p)
  /\ byRev' = [byRev EXCEPT ![rev[p]] = [byTag[decision[p].previous] EXCEPT !.rev = rev[p]]]
  /\ GoTo(p, "answer")
  /\ UNCHANGED <<head, remotes, byTag, evaluated, ran, own, faults>>

CallEngine(p) ==
  /\ pc[p] = "publish"
  /\ rev[p] \notin ran
  /\ ~SameBytes(p)
  /\ unread' = [unread EXCEPT ![p] = Repo]
  /\ GoTo(p, "preflight")
  /\ UNCHANGED <<head, remotes, records, verb, rev, local, decision, pending, found, index, faults>>

\* The engine reads before it writes, and others tag and publish meanwhile.
\* It looks for the tag in one repo after another: what is there at the
\* revision's commit is done, and what is there at another one is refused.
ReadTag(p) ==
  /\ pc[p] = "preflight"
  /\ unread[p] # {}
  /\ LET m  == First(unread[p])
         at == tags[m][Number(p)]
     IN  IF at \notin {0, Pin[rev[p]][m]} THEN Leave(p)
         ELSE /\ unread' = [unread EXCEPT ![p] = @ \ {m}]
              /\ pending' = [pending EXCEPT ![p] = IF at = 0 THEN @ \union {m} ELSE @]
              /\ UNCHANGED <<pc, verb, rev, local, decision, found, index>>
  /\ UNCHANGED <<head, remotes, records, faults>>

\* Mutant: cut tags are taken for a release somebody published.
ReadReleaseTagsOnly(p) ==
  /\ pc[p] = "preflight"
  /\ unread[p] = {}
  /\ GoTo(p, IF pending[p] = {} THEN "byrev" ELSE "tag")
  /\ UNCHANGED <<head, remotes, records, own, faults>>

\* Then for the release.  With every tag found there and the release visible
\* there is nothing left to do and no index to answer.  Else it digests what it
\* ships and, if no release is visible, makes a draft, which nobody sees.
ReadRelease(p) ==
  /\ pc[p] = "preflight"
  /\ unread[p] = {}
  /\ LET visible == published[Number(p)] # 0
         done    == pending[p] = {} /\ visible
     IN  /\ found' = [found EXCEPT ![p] = visible]
         /\ index' = [index EXCEPT ![p] = IF done THEN NoFile ELSE Ships[rev[p]]]
         /\ GoTo(p, IF done THEN "byrev" ELSE "tag")
  /\ UNCHANGED <<head, remotes, records, verb, rev, local, decision, unread, pending, faults>>

\* Mutant: a tag an interrupted run left in the checkout is refused.
TagHereOnce(p) ==
  /\ pc[p] = "tag"
  /\ pending[p] # {}
  /\ LET m == Turn(p)
         v == Number(p)
     IN  IF tags[m][v] # 0 \/ local[p][m][v] # 0
           THEN Leave(p)
           ELSE /\ local' = [local EXCEPT ![p][m][v] = Pin[rev[p]][m]]
                /\ GoTo(p, "push")
                /\ UNCHANGED <<verb, rev, decision, unread, pending, found, index>>
  /\ UNCHANGED <<head, remotes, records, faults>>

\* git.Tag asks the remote again, then the checkout, and tags the checkout.
TagHere(p) ==
  /\ pc[p] = "tag"
  /\ pending[p] # {}
  /\ LET m == Turn(p)
         v == Number(p)
         sha == Pin[rev[p]][m]
     IN  IF tags[m][v] = sha
           THEN /\ pending' = [pending EXCEPT ![p] = @ \ {m}]
                /\ UNCHANGED <<pc, verb, rev, decision, unread, found, index, local>>
           ELSE IF tags[m][v] # 0 \/ local[p][m][v] \notin {0, sha}
             THEN Leave(p)
             ELSE /\ local' = [local EXCEPT ![p][m][v] = sha]
                  /\ GoTo(p, "push")
                  /\ UNCHANGED <<verb, rev, decision, unread, pending, found, index>>
  /\ UNCHANGED <<head, remotes, records, faults>>

\* Mutant: the push overwrites the tag of the remote.
PushTagForced(p) ==
  /\ pc[p] = "push"
  /\ LET m == Turn(p)
     IN  /\ tags' = [tags EXCEPT ![m][Number(p)] = local[p][m][Number(p)]]
         /\ pending' = [pending EXCEPT ![p] = @ \ {m}]
         /\ GoTo(p, "tag")
         /\ UNCHANGED <<verb, rev, decision, unread, found, index, local>>
  /\ UNCHANGED <<head, published, records, faults>>

\* The remote takes the tag unless it has one of that name by now.
PushTag(p) ==
  /\ pc[p] = "push"
  /\ LET m == Turn(p)
         v == Number(p)
     IN  IF tags[m][v] = 0
           THEN /\ tags' = [tags EXCEPT ![m][v] = local[p][m][v]]
                /\ pending' = [pending EXCEPT ![p] = @ \ {m}]
                /\ GoTo(p, "tag")
                /\ UNCHANGED <<verb, rev, local, decision, unread, found, index>>
           ELSE Leave(p) /\ UNCHANGED tags
  /\ UNCHANGED <<head, published, records, faults>>

\* Mutant: the draft is published before the tags are cut.
PublishUntagged(p) ==
  /\ pc[p] = "tag"
  /\ IF found[p] THEN GoTo(p, "byrev") /\ UNCHANGED <<own, published>>
     ELSE IF published[Number(p)] # 0 THEN Leave(p) /\ UNCHANGED published
     ELSE /\ published' = [published EXCEPT ![Number(p)] = rev[p]]
          /\ found' = [found EXCEPT ![p] = TRUE]
          /\ UNCHANGED <<pc, verb, rev, local, decision, unread, pending, index>>
  /\ UNCHANGED <<head, tags, records, faults>>

\* Every tag is cut: the draft is published.  GitHub shows one release a tag.
Publish(p) ==
  /\ pc[p] = "tag"
  /\ pending[p] = {}
  /\ IF found[p] THEN GoTo(p, "byrev") /\ UNCHANGED <<own, published>>
     ELSE IF published[Number(p)] # 0 THEN Leave(p) /\ UNCHANGED published
     ELSE /\ published' = [published EXCEPT ![Number(p)] = rev[p]]
          /\ GoTo(p, "byrev")
          /\ UNCHANGED own
  /\ UNCHANGED <<head, tags, records, faults>>

\* What writeRelease records, in two puts.
Released(p) ==
  [rev |-> rev[p], version |-> Number(p), set |-> decision[p].set, index |-> index[p]]

RecordByRev(p) ==
  /\ pc[p] = "byrev"
  /\ byRev' = [byRev EXCEPT ![rev[p]] = Released(p)]
  /\ GoTo(p, "bytag")
  /\ UNCHANGED <<head, remotes, byTag, evaluated, ran, own, faults>>

RecordByTag(p) ==
  /\ pc[p] = "bytag"
  /\ byTag' = [byTag EXCEPT ![Number(p)] = Released(p)]
  /\ GoTo(p, "answer")
  /\ UNCHANGED <<head, remotes, byRev, evaluated, ran, own, faults>>

\* The substage's run is put.
Answer(p) ==
  /\ pc[p] = "answer"
  /\ ran' = ran \union {rev[p]}
  /\ Leave(p)
  /\ UNCHANGED <<head, remotes, byRev, byTag, evaluated, faults>>

-----------------------------------------------------------------------------
\* The process dies, or one of its calls errs.
Crash(p) ==
  /\ pc[p] # "idle"
  /\ Fault
  /\ Leave(p)
  /\ UNCHANGED <<head, remotes, records>>

\* Commits are pushed to the repos.
Move ==
  /\ head < LastRev
  /\ head' = head + 1
  /\ UNCHANGED <<remotes, records, pc, own, faults>>

Proceed(p) ==
  \/ DecideReleased(p)
  \/ DecideSkip(p)
  \/ DecideBump(p)
  \/ Reuse(p)
  \/ Converge(p)
  \/ CallEngine(p)
  \/ ReadTag(p)
  \/ ReadRelease(p)
  \/ TagHere(p)
  \/ PushTag(p)
  \/ Publish(p)
  \/ RecordByRev(p)
  \/ RecordByTag(p)
  \/ Answer(p)

Next ==
  \/ \E p \in Proc :
       \/ StartApply(p)
       \/ \E r \in Rev : StartStages(p, r)
       \/ Proceed(p)
       \/ Crash(p)
  \/ Move

Spec == Init /\ [][Next]_vars

\* A process that can take a step takes one, and somebody reruns the stages
\* job of a recorded decision until it passed.
Fairness ==
  \A p \in Proc : /\ WF_vars(Proceed(p))
                  /\ \A r \in Rev : SF_vars(r \notin ran /\ StartStages(p, r))

FairSpec == Spec /\ Fairness

-----------------------------------------------------------------------------
(* Properties.                                                             *)

\* What appears appears whole: under a visible release, every repo's tag is
\* at the commit the revision it was built from holds.
WholeReleases ==
  \A v \in Version, m \in Repo :
    published[v] # 0 => tags[m][v] = Pin[published[v]][m]

\* A revision with a release record has a visible release to show for it: one
\* of its own commits, or one of the commits of a revision that builds its very
\* bytes.  Whose files a release ships is not told by the commits alone: a job
\* that finds the release another one published, while tags of its own are
\* pending, records the index of the files it built itself.
RecordsTellTheTruth ==
  \A r \in Rev :
    byRev[r] # None =>
      LET from == published[byRev[r].version]
      IN  /\ from # 0
          /\ \E q \in Rev : Pin[q] = Pin[from] /\ (Pin[q] = Pin[r] \/ Ships[q] = Ships[r])

\* A revision is taken for released already only when the release that is
\* visible under that number ships its very files (publish.go).
ConvergesToWhatShips ==
  \A r \in Rev :
    byRev[r] # None /\ byRev[r].set # r =>
      LET from == published[byRev[r].version] IN from # 0 /\ Ships[from] = Ships[r]

\* What those two rest on.

\* Where a process has its tags behind it, or is about to put one.
Tagging(p) == pc[p] \in {"tag", "push", "byrev", "bytag"}

GoesByADecision(p) == pc[p] \notin {"idle", "decide"} => decision[p] \in Decision

\* The tags a process is done with are cut at its commits, the one it pushes
\* next is at its commit in its checkout, and it has an index to answer.
TagsItsOwn(p) ==
  /\ pc[p] = "preflight" \/ Tagging(p) =>
       \A m \in Repo \ (unread[p] \union pending[p]) : tags[m][Number(p)] = Pin[rev[p]][m]
  /\ Tagging(p) => unread[p] = {}
  /\ pc[p] = "push" => /\ pending[p] # {}
                       /\ local[p][Turn(p)][Number(p)] = Pin[rev[p]][Turn(p)]
  /\ pc[p] \in {"tag", "push"} => /\ found[p] => published[Number(p)] # 0
                                  /\ index[p] = Ships[rev[p]]

\* An index is that of a revision of the commits the version was built from, if
\* there is one.
IndexTells(i, v) ==
  /\ published[v] # 0
  /\ i = NoFile \/ \E q \in Rev : Pin[q] = Pin[published[v]] /\ i = Ships[q]

\* What is recorded, and what a process is about to record, is visible.
RecordsWhatIsVisible ==
  /\ \A p \in Proc :
       pc[p] \in {"byrev", "bytag"} => pending[p] = {} /\ IndexTells(index[p], Number(p))
  /\ \A v \in Version : byTag[v] # None => IndexTells(byTag[v].index, byTag[v].version)

\* Inductive, and enough for WholeReleases and RecordsTellTheTruth.
ReleasesAreBacked ==
  /\ WholeReleases
  /\ RecordsTellTheTruth
  /\ RecordsWhatIsVisible
  /\ \A p \in Proc : GoesByADecision(p) /\ TagsItsOwn(p)

\* A revision is released under one number.
OneNumberPerRevision ==
  \A v \in Version, w \in Version : published[v] # 0 /\ published[v] = published[w] => v = w

\* What the evaluation recorded for r says.
Says(r, skip) == evaluated[r] # None /\ evaluated[r].skip = skip

\* A released revision is not refused when its release is run again, if its
\* record is of its own release: it did not take over one that had shipped its
\* bytes, be it one of the very same commits.
OwnReleaseConverges ==
  \A p \in Proc :
    pc[p] = "preflight" /\ byRev[rev[p]] # None /\ byRev[rev[p]].set = rev[p] => ~Refused(p)

\* A remote, or a checkout somebody keeps, holds the tag of r's version at a
\* commit of another revision.
Overtaken(r) ==
  \E m \in Repo, p \in Proc :
    \E at \in {tags[m], local[p][m]} : at[evaluated[r].version] \notin {0, Pin[r][m]}

\* Whatever a release job died of, rerunning it finishes the release, unless
\* the number went to another revision.
DecisionsAreCarriedOut ==
  \A r \in Rev : Says(r, FALSE) ~> r \in ran \/ Says(r, TRUE) \/ (Says(r, FALSE) /\ Overtaken(r))
=============================================================================
