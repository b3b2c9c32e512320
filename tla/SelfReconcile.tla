---------------------------- MODULE SelfReconcile ----------------------------
(***************************************************************************)
(* How a pipeline keeps its own CI resources.                              *)
(*                                                                         *)
(* A run of the generated workflow is three jobs.  The first reconciles:   *)
(* it reads the ownership record, asks the engines what they declare and   *)
(* hands that to the managers, in the order of their aliases; a manager    *)
(* converges files in the checkout, enables workflows on the remote, then  *)
(* commits and pushes what it wrote.  A run that pushed is superseded by   *)
(* the run its push starts.  Otherwise the second job decides on a         *)
(* release and the third makes it.  One run at a time: a push while one is *)
(* under way queues the next.                                              *)
(*                                                                         *)
(* Somebody may run the reconcile on a laptop, in checkouts that are kept; *)
(* people push at any time.  What a file is rendered from is the pipeline  *)
(* and the image the jobs run in.                                          *)
(***************************************************************************)
EXTENDS Integers, FiniteSets

CONSTANTS
  CI,            \* the process of a run
  Laptops,       \* processes in checkouts that are kept
  LastFile,      \* workflow files, in the order they are declared
  LastRepo,      \* repos, the first of which holds the pipeline
  RepoOf,        \* the repo a file lies in
  Notifying,     \* repos a push to which starts a run
  LastAlias,     \* managers
  LastPipeline,  \* versions of the pipeline
  ManagerOf,     \* per version: the manager that declares a file, or 0
  MovesItsPin,   \* a release moves the image the jobs run in
  IgnoresFiles,  \* versioning.ignorePaths names the workflow files
  MaxEdits,      \* what people and the timer do: pushes, ticks, reconciles by hand
  MaxFaults

File     == 1..LastFile
Repo     == 1..LastRepo
Alias    == 1..LastAlias
Pipeline == 1..LastPipeline
Home     == 1

ASSUME ReconcileAssumption ==
  /\ CI \notin Laptops
  /\ LastFile \in Nat /\ LastRepo \in Nat \ {0} /\ LastAlias \in Nat \ {0}
  /\ LastPipeline \in Nat \ {0}
  /\ RepoOf \in [File -> Repo]
  /\ Notifying \subseteq Repo
  /\ ManagerOf \in [Pipeline -> [File -> Alias \union {0}]]
  /\ MovesItsPin \in BOOLEAN /\ IgnoresFiles \in BOOLEAN
  /\ MaxEdits \in Nat /\ MaxFaults \in Nat

VARIABLES
  pipeline, files,  \* what the remotes hold: the pipeline, the files
  enabled,          \* the workflows the remote runs
  owner,            \* the ownership record
  pin,              \* the image of the last release
  news, later,      \* kinds of commit since the last release: those an
                    \* evaluation has seen, and those it has not
  queued,           \* a run waits
  checkout,         \* per process: the repos it works in
  pc, manager, todo, due, changed, failing, owned,  \* per process: where it is
  moved, published, \* per process: what its managers answered
  edits, faults

remotes == <<pipeline, files, enabled, owner, pin, news, later>>
own     == <<pc, manager, todo, due, changed, failing, owned, moved, published>>
vars    == <<remotes, queued, checkout, own, edits, faults>>

Proc     == {CI} \union Laptops
Pin      == {0, 1}
Rendered == [pipeline : Pipeline, pin : Pin]
Absent   == [pipeline |-> 0, pin |-> 0]
Content  == Rendered \union {Absent}
Kinds    == {"work", "self"}

\* A file and the workflow it defines are two resources: an engine declares all its
\* files first and then all its workflows.
Resource  == 1..(2 * LastFile)
FileOf(k) == IF k <= LastFile THEN k ELSE k - LastFile
IsFile(k) == k <= LastFile
FileResource(f) == f

Checkout ==
  [pipeline : Pipeline, pin : Pin, disk : [File -> Content], head : [File -> Content],
   ahead : SUBSET Repo, behind : SUBSET Repo]

Places == {"idle", "realize", "settle", "push", "own", "answer", "evaluate", "release"}

TypeOK ==
  /\ pipeline \in Pipeline
  /\ files \in [File -> Content]
  /\ enabled \in [File -> BOOLEAN]
  /\ owner \in [Resource -> Alias \union {0}]
  /\ pin \in Pin
  /\ news \subseteq Kinds /\ later \subseteq Kinds
  /\ queued \in BOOLEAN
  /\ checkout \in [Proc -> Checkout]
  /\ pc \in [Proc -> Places]
  /\ manager \in [Proc -> Alias]
  /\ todo \in [Proc -> SUBSET Resource]
  /\ due \in [Proc -> SUBSET Repo]
  /\ changed \in [Proc -> SUBSET Resource]
  /\ failing \in [Proc -> BOOLEAN]
  /\ owned \in [Proc -> [Resource -> Alias \union {0}]]
  /\ moved \in [Proc -> BOOLEAN] /\ published \in [Proc -> BOOLEAN]
  /\ edits \in 0..MaxEdits
  /\ faults \in 0..MaxFaults

Fault == faults < MaxFaults /\ faults' = faults + 1

\* Something a person or the timer does.
Edit == edits < MaxEdits /\ edits' = edits + 1

Least(S) == CHOOSE k \in S : \A j \in S : k <= j

Declares(v, k) == ManagerOf[v][FileOf(k)]

\* What is declared of manager m.
Of(v, m) == {k \in Resource : Declares(v, k) = m}

FilesIn(r) == {f \in File : RepoOf[f] = r}

Want(p) == [pipeline |-> checkout[p].pipeline, pin |-> checkout[p].pin]

-----------------------------------------------------------------------------
\* A first bootstrap of version 1 pushed its files and recorded who owns them;
\* a workflow whose file was not on the remote yet it left to a later
\* reconcile.  Its push starts the first run, and version 2 may have been
\* pushed since.
Clone ==
  [pipeline |-> pipeline, pin |-> pin, disk |-> files, head |-> files, ahead |-> {}, behind |-> {}]

Init ==
  /\ pipeline \in {v \in Pipeline : v <= 2}
  /\ pin = 0
  /\ files = [f \in File |-> IF ManagerOf[1][f] = 0 THEN Absent ELSE [pipeline |-> 1, pin |-> 0]]
  /\ enabled = [f \in File |-> FALSE]
  /\ owner = [k \in Resource |-> Declares(1, k)]
  /\ news = {}
  /\ later = IF pipeline = 1 THEN {"self"} ELSE Kinds
  /\ queued = TRUE
  /\ checkout = [p \in Proc |-> Clone]
  /\ pc = [p \in Proc |-> "idle"]
  /\ manager = [p \in Proc |-> 1]
  /\ todo = [p \in Proc |-> {}]
  /\ due = [p \in Proc |-> {}]
  /\ changed = [p \in Proc |-> {}]
  /\ failing = [p \in Proc |-> FALSE]
  /\ owned = [p \in Proc |-> [k \in Resource |-> 0]]
  /\ moved = [p \in Proc |-> FALSE]
  /\ published = [p \in Proc |-> FALSE]
  /\ edits = 0
  /\ faults = 0

\* A push to r, by the processes in P or by a person: whoever else has r checked
\* out is behind.
Pushed(r, P, kind) ==
  /\ checkout' = [q \in Proc |->
       IF q \in P THEN [checkout[q] EXCEPT !.ahead = @ \ {r}]
       ELSE [checkout[q] EXCEPT !.behind = @ \union {r}]]
  /\ later' = later \union {kind}
  /\ queued' = (queued \/ r \in Notifying)

Stop(p) ==
  /\ pc' = [pc EXCEPT ![p] = "idle"]
  /\ manager' = [manager EXCEPT ![p] = 1]
  /\ todo' = [todo EXCEPT ![p] = {}]
  /\ due' = [due EXCEPT ![p] = {}]
  /\ changed' = [changed EXCEPT ![p] = {}]
  /\ failing' = [failing EXCEPT ![p] = FALSE]
  /\ owned' = [owned EXCEPT ![p] = [k \in Resource |-> 0]]
  /\ moved' = [moved EXCEPT ![p] = FALSE]
  /\ published' = [published EXCEPT ![p] = FALSE]

End(p)  == Stop(p) /\ UNCHANGED queued

\* A red run is started again: by a person, or by the next push or tick.
Fail(p) == Stop(p) /\ queued' = (queued \/ p = CI)

GoTo(p, next) == pc' = [pc EXCEPT ![p] = next]

-----------------------------------------------------------------------------
(* The reconcile.                                                          *)

Begin(p, v) ==
  /\ pc[p] = "idle"
  /\ GoTo(p, "realize")
  /\ owned' = [owned EXCEPT ![p] = owner]
  /\ todo' = [todo EXCEPT ![p] = Of(v, 1)]
  /\ UNCHANGED <<remotes, manager, due, changed, failing, moved, published, faults>>

\* The job clones every repo.
StartRun ==
  /\ queued
  /\ queued' = FALSE
  /\ checkout' = [checkout EXCEPT ![CI] = Clone]
  /\ Begin(CI, pipeline)
  /\ UNCHANGED edits

StartOnLaptop(p) ==
  /\ p # CI
  /\ Edit
  /\ Begin(p, checkout[p].pipeline)
  /\ UNCHANGED <<queued, checkout>>

Foreign(p, k) == owned[p][k] \notin {0, manager[p]}

\* What is kept takes no step: a file that holds what is declared, a workflow
\* the remote runs, a workflow whose file is not on the remote yet.
Kept(p, k) ==
  /\ ~Foreign(p, k)
  /\ IF IsFile(k) THEN checkout[p].disk[FileOf(k)] = Want(p)
     ELSE enabled[FileOf(k)] \/ files[FileOf(k)] = Absent

\* The manager comes to k.
Reaches(p, k) == pc[p] = "realize" /\ k \in todo[p] /\ \A j \in todo[p] : j < k => Kept(p, j)

\* The resources up to k are done, and k moved or not.
Did(p, k, change) ==
  /\ todo' = [todo EXCEPT ![p] = {j \in @ : j > k}]
  /\ changed' = [changed EXCEPT ![p] = IF change THEN @ \union {k} ELSE @]

\* Recorded under another manager: the whole reconcile returns on the spot,
\* what it wrote before unsettled.
RefuseForeign(p) ==
  \E k \in Resource :
    /\ Reaches(p, k)
    /\ Foreign(p, k)
    /\ Fail(p)
    /\ UNCHANGED <<remotes, checkout, edits, faults>>

WriteFile(p) ==
  \E k \in Resource :
    /\ Reaches(p, k)
    /\ ~Foreign(p, k)
    /\ IsFile(k)
    /\ checkout[p].disk[FileOf(k)] # Want(p)
    /\ checkout' = [checkout EXCEPT ![p].disk[FileOf(k)] = Want(p)]
    /\ Did(p, k, TRUE)
    /\ UNCHANGED <<remotes, queued, pc, manager, due, failing, owned, moved, published, edits, faults>>

EnableWorkflow(p) ==
  \E k \in Resource :
    /\ Reaches(p, k)
    /\ ~Foreign(p, k)
    /\ ~IsFile(k)
    /\ ~enabled[FileOf(k)]
    /\ files[FileOf(k)] # Absent
    /\ enabled' = [enabled EXCEPT ![FileOf(k)] = TRUE]
    /\ Did(p, k, TRUE)
    /\ UNCHANGED <<pipeline, files, owner, pin, news, later, queued, checkout, pc, manager, due,
                   failing, owned, moved, published, edits, faults>>

\* A resource that fails does not stop the ones after it.
ResourceFails(p) ==
  \E k \in Resource :
    /\ Reaches(p, k)
    /\ ~Foreign(p, k)
    /\ Fault
    /\ Did(p, k, FALSE)
    /\ failing' = [failing EXCEPT ![p] = TRUE]
    /\ UNCHANGED <<remotes, queued, checkout, pc, manager, due, owned, moved, published, edits>>

-----------------------------------------------------------------------------
(* The settle: repo by repo, what this reconcile wrote.                    *)

Written(p, r) == {FileOf(k) : k \in {j \in changed[p] : IsFile(j)}} \intersect FilesIn(r)

Realized(p) == pc[p] = "realize" /\ \A k \in todo[p] : Kept(p, k)

StartSettle(p) ==
  /\ Realized(p)
  /\ changed[p] # {}
  /\ todo' = [todo EXCEPT ![p] = {}]
  /\ due' = [due EXCEPT ![p] = {r \in Repo : Written(p, r) # {}}]
  /\ moved' = [moved EXCEPT ![p] = TRUE]
  /\ GoTo(p, "settle")
  /\ UNCHANGED <<remotes, queued, checkout, manager, changed, failing, owned, published, edits, faults>>

Settling(p, r) == due[p] # {} /\ r = Least(due[p])

\* What matches HEAD already leaves nothing to commit.
Commit(p) ==
  \E r \in Repo :
    LET c == checkout[p]
        head == [f \in File |-> IF f \in Written(p, r) THEN c.disk[f] ELSE c.head[f]]
    IN
    /\ pc[p] = "settle"
    /\ Settling(p, r)
    /\ IF head = c.head
         THEN due' = [due EXCEPT ![p] = @ \ {r}] /\ UNCHANGED <<checkout, pc>>
         ELSE /\ checkout' = [checkout EXCEPT ![p].head = head, ![p].ahead = @ \union {r}]
              /\ GoTo(p, "push")
              /\ UNCHANGED due
    /\ UNCHANGED <<remotes, queued, manager, todo, changed, failing, owned, moved, published, edits, faults>>

PushReaches(p, r) ==
  /\ r \notin checkout[p].behind
  /\ files' = [f \in File |-> IF RepoOf[f] = r THEN checkout[p].head[f] ELSE files[f]]
  /\ Pushed(r, {p}, "self")

AfterPush(p, r) ==
  /\ pc[p] = "push"
  /\ Settling(p, r)
  /\ due' = [due EXCEPT ![p] = @ \ {r}]
  /\ GoTo(p, "settle")
  /\ UNCHANGED <<pipeline, enabled, owner, pin, news, manager, todo, changed, owned, moved, edits>>

Push(p) ==
  \E r \in Repo :
    /\ AfterPush(p, r)
    /\ PushReaches(p, r)
    /\ published' = [published EXCEPT ![p] = TRUE]
    /\ UNCHANGED <<failing, faults>>

\* Mutant: a push that fails is a line of the report.
PushFailsQuietly(p) ==
  \E r \in Repo :
    /\ AfterPush(p, r)
    /\ r \in checkout[p].behind \/ Fault
    /\ (r \in checkout[p].behind => UNCHANGED faults)
    /\ UNCHANGED <<files, later, queued, checkout, published, failing>>

\* The remote refuses a branch that is behind, or cannot be reached.
PushFails(p) ==
  \E r \in Repo :
    /\ AfterPush(p, r)
    /\ IF r \in checkout[p].behind THEN UNCHANGED faults ELSE Fault
    /\ failing' = [failing EXCEPT ![p] = TRUE]
    /\ UNCHANGED <<files, later, queued, checkout, published>>

\* The push arrives, its answer does not.
PushUnanswered(p) ==
  \E r \in Repo :
    /\ AfterPush(p, r)
    /\ PushReaches(p, r)
    /\ Fault
    /\ failing' = [failing EXCEPT ![p] = TRUE]
    /\ UNCHANGED published

\* A manager is done; one that changed nothing settles nothing.
Settled(p) ==
  \/ pc[p] = "settle" /\ due[p] = {}
  \/ Realized(p) /\ changed[p] = {}

\* A manager that failed ends the apply, and nothing is recorded of the others.
NextManager(p) ==
  /\ Settled(p)
  /\ ~failing[p]
  /\ IF manager[p] < LastAlias
       THEN /\ manager' = [manager EXCEPT ![p] = @ + 1]
            /\ todo' = [todo EXCEPT ![p] = Of(checkout[p].pipeline, manager[p] + 1)]
            /\ GoTo(p, "realize")
       ELSE /\ todo' = [todo EXCEPT ![p] = {}]
            /\ GoTo(p, "own")
            /\ UNCHANGED manager
  /\ changed' = [changed EXCEPT ![p] = {}]
  /\ UNCHANGED <<remotes, queued, checkout, due, failing, owned, moved, published, edits, faults>>

\* Mutant: a resource that failed is a line of the report.
ManagerFailedQuietly(p) ==
  /\ Settled(p)
  /\ failing[p]
  /\ End(p)
  /\ UNCHANGED <<remotes, checkout, edits, faults>>

ManagerFailed(p) ==
  /\ Settled(p)
  /\ failing[p]
  /\ Fail(p)
  /\ UNCHANGED <<remotes, checkout, edits, faults>>

-----------------------------------------------------------------------------
(* The record and the answer.                                              *)

Merged(p) ==
  [k \in Resource |->
     IF Declares(checkout[p].pipeline, k) # 0 THEN Declares(checkout[p].pipeline, k) ELSE owned[p][k]]

\* Mutant: the record is put over whatever is there.
PutOwnershipBlind(p) ==
  /\ pc[p] = "own"
  /\ owner' = Merged(p)
  /\ GoTo(p, "answer")
  /\ UNCHANGED <<pipeline, files, enabled, pin, news, later, queued, checkout, manager, todo, due,
                 changed, failing, owned, moved, published, edits, faults>>

\* The state engine commits and pushes what differs, and refuses a record
\* somebody else changed meanwhile.
PutOwnership(p) ==
  /\ pc[p] = "own"
  /\ IF Merged(p) = owned[p] \/ owner \in {owned[p], Merged(p)}
       THEN /\ owner' = IF Merged(p) = owned[p] THEN owner ELSE Merged(p)
            /\ GoTo(p, "answer")
            /\ UNCHANGED <<queued, manager, todo, due, changed, failing, owned, moved, published>>
       ELSE Fail(p) /\ UNCHANGED owner
  /\ UNCHANGED <<pipeline, files, enabled, pin, news, later, checkout, edits, faults>>

\* Mutant: the jobs after a superseded reconcile run too.
AnswerOnce(p) ==
  /\ pc[p] = "answer"
  /\ IF p # CI THEN End(p)
     ELSE /\ GoTo(p, "evaluate")
          /\ UNCHANGED <<queued, manager, todo, due, changed, failing, owned, moved, published>>
  /\ UNCHANGED <<remotes, checkout, edits, faults>>

\* Mutant: superseded, when anything changed.
AnswerChanged(p) ==
  /\ pc[p] = "answer"
  /\ IF p # CI \/ moved[p] THEN End(p)
     ELSE /\ GoTo(p, "evaluate")
          /\ UNCHANGED <<queued, manager, todo, due, changed, failing, owned, moved, published>>
  /\ UNCHANGED <<remotes, checkout, edits, faults>>

\* Superseded, when what changed was pushed; otherwise converged, and the
\* next job runs.
Answer(p) ==
  /\ pc[p] = "answer"
  /\ IF p # CI \/ (moved[p] /\ published[p]) THEN End(p)
     ELSE /\ GoTo(p, "evaluate")
          /\ UNCHANGED <<queued, manager, todo, due, changed, failing, owned, moved, published>>
  /\ UNCHANGED <<remotes, checkout, edits, faults>>

-----------------------------------------------------------------------------
(* The jobs after it.                                                      *)

\* forge-ci's own commit scores a patch; a revision that changed ignored
\* paths only is the last release's code.
Evaluate(p) ==
  /\ pc[p] = "evaluate"
  /\ news' = news \union later
  /\ later' = {}
  /\ IF "work" \in news' \/ ("self" \in news' /\ ~IgnoresFiles)
       THEN /\ GoTo(p, "release")
            /\ UNCHANGED <<queued, manager, todo, due, changed, failing, owned, moved, published>>
       ELSE End(p)
  /\ UNCHANGED <<pipeline, files, enabled, owner, pin, checkout, edits, faults>>

Release(p) ==
  /\ pc[p] = "release"
  /\ news' = {}
  /\ pin' = IF MovesItsPin THEN 1 - pin ELSE pin
  /\ End(p)
  /\ UNCHANGED <<pipeline, files, enabled, owner, later, checkout, edits, faults>>

-----------------------------------------------------------------------------
(* What nobody in this code does.                                          *)

Crash(p) ==
  /\ pc[p] # "idle"
  /\ Fault
  /\ Fail(p)
  /\ UNCHANGED <<remotes, checkout, edits>>

PushWork(r) ==
  /\ Edit
  /\ Pushed(r, {}, "work")
  /\ UNCHANGED <<pipeline, files, enabled, owner, pin, news, own, faults>>

PushPipeline ==
  /\ Edit
  /\ pipeline < LastPipeline
  /\ pipeline' = pipeline + 1
  /\ Pushed(Home, {}, "work")
  /\ UNCHANGED <<files, enabled, owner, pin, news, own, faults>>

DeleteFile(p, f) ==
  /\ Edit
  /\ checkout[p].disk[f] # Absent
  /\ checkout' = [checkout EXCEPT ![p].disk[f] = Absent]
  /\ UNCHANGED <<remotes, queued, own, faults>>

Tick ==
  /\ Edit
  /\ queued' = TRUE
  /\ UNCHANGED <<remotes, checkout, own, faults>>

\* A laptop is brought up to date when nothing on it is in the way.
Pull(p) ==
  /\ p # CI
  /\ pc[p] = "idle"
  /\ checkout[p].ahead = {}
  /\ checkout[p].disk = checkout[p].head
  /\ checkout' = [checkout EXCEPT ![p] = Clone]
  /\ UNCHANGED <<remotes, queued, own, edits, faults>>

Step(p) ==
  \/ RefuseForeign(p)
  \/ WriteFile(p)
  \/ EnableWorkflow(p)
  \/ StartSettle(p)
  \/ Commit(p)
  \/ Push(p)
  \/ NextManager(p)
  \/ ManagerFailed(p)
  \/ PutOwnership(p)
  \/ Answer(p)
  \/ Evaluate(p)
  \/ Release(p)

Next ==
  \/ StartRun
  \/ \E p \in Laptops : StartOnLaptop(p) \/ Pull(p)
  \/ \E p \in Laptops, f \in File : DeleteFile(p, f)
  \/ \E p \in Proc : Step(p) \/ PushFails(p) \/ PushUnanswered(p) \/ ResourceFails(p) \/ Crash(p)
  \/ \E r \in Repo : PushWork(r)
  \/ PushPipeline
  \/ Tick

Spec == Init /\ [][Next]_vars

\* A run goes on and a queued one starts when the last one is over.  No timer
\* ticks by itself.
Fairness ==
  /\ WF_vars(StartRun)
  /\ WF_vars(Step(CI) \/ PushFails(CI))

FairSpec == Spec /\ Fairness

-----------------------------------------------------------------------------
(* Properties.                                                             *)

\* Whoever a resource was recorded under keeps it, however many reconciles of
\* different pipelines run at once: readOwnership and writeOwnership are far
\* apart, and only the refusal in between and the state engine's clash keep
\* one manager from taking over another's resource.
OwnersStay ==
  [][\A k \in Resource : owner[k] # 0 => owner'[k] = owner[k]]_vars

\* What a reconcile has been through was recorded under nobody, or under the
\* manager it declares it of: the managers before this one, this one's
\* resources up to where it is, and in the end all of them.
AsksForItsOwn(p) ==
  /\ pc[p] = "idle" => manager[p] = 1
  /\ \A k \in Resource :
       LET m == Declares(checkout[p].pipeline, k) IN
       /\ m # 0
       /\ \/ pc[p] # "idle" /\ m < manager[p]
          \/ pc[p] = "realize" /\ m = manager[p] /\ k \notin todo[p]
          \/ pc[p] \in {"settle", "push"} /\ m = manager[p]
          \/ pc[p] = "own"
       => owned[p][k] \in {0, m}

\* No reconcile comes to its record over a resource that another manager was
\* recorded to own when it began (Reconcile's refusal, resource by resource).
RecordsItsOwn == \A p \in Proc : AsksForItsOwn(p)

\* The jobs after a reconcile stand on what it declared: every file is as the
\* pipeline renders it, committed, and not waiting for a push.
StandsOnSettled ==
  pc[CI] \in {"evaluate", "release"} =>
    LET c == checkout[CI] IN
    \A f \in File :
      ManagerOf[c.pipeline][f] # 0 =>
        c.disk[f] = Want(CI) /\ c.head[f] = Want(CI) /\ RepoOf[f] \notin c.ahead

\* What differs from its commit was noted, and its repo is due.
NotesItsWrites ==
  \A f \in File : checkout[CI].disk[f] # checkout[CI].head[f] =>
    /\ FileResource(f) \in changed[CI]
    /\ \/ pc[CI] = "realize"
       \/ pc[CI] = "settle" /\ RepoOf[f] \in due[CI]
       \/ pc[CI] = "push" /\ RepoOf[f] \in due[CI] /\ ~Settling(CI, RepoOf[f])

\* A commit waits for the push under way.
AwaitsItsPush ==
  \A r \in checkout[CI].ahead : failing[CI] \/ (pc[CI] = "push" /\ Settling(CI, r))

\* The manager of f came to it.
CameTo(f) ==
  LET m == ManagerOf[checkout[CI].pipeline][f] IN
  /\ m # 0
  /\ \/ m < manager[CI]
     \/ m = manager[CI] /\ (pc[CI] = "realize" => FileResource(f) \notin todo[CI])

HoldsWhatItCameTo ==
  \A f \in File : CameTo(f) => failing[CI] \/ checkout[CI].disk[f] = Want(CI)

\* Only a reconcile that did not fail comes to its record, after the last manager.
EndsWithItsManagers ==
  pc[CI] \in {"own", "answer", "evaluate", "release"} => ~failing[CI] /\ manager[CI] = LastAlias

\* What a run has not settled yet is on its list, or the run fails: no file, no
\* commit and no manager falls between two steps of the apply.
TracksItsWork ==
  pc[CI] # "idle" =>
    NotesItsWrites /\ AwaitsItsPush /\ HoldsWhatItCameTo /\ EndsWithItsManagers

\* The pipeline declares a resource recorded under another manager: every
\* reconcile refuses until somebody imports or destroys it.
Refused ==
  \E k \in Resource : owner[k] # 0 /\ Declares(pipeline, k) \notin {0, owner[k]}

\* What people push is evaluated and released in the end: no run that was
\* superseded, queued behind another or died leaves it to nobody.
WorkIsReleased ==
  "work" \in later \union news ~> Refused \/ "work" \notin later \union news

\* A pipeline whose own releases change what it renders comes to rest: the
\* commits it makes do not have it release again for ever.
ReleasesEnd == <>[](pin = 0) \/ <>[](pin = 1)

\* In the end the remotes hold and run what the newest pipeline declares,
\* whatever a kept checkout of an older one pushed over it.
ResourcesFollow ==
  <>[](Refused \/ \A f \in File :
         ManagerOf[pipeline][f] # 0 => files[f].pipeline = pipeline /\ enabled[f])
=============================================================================
