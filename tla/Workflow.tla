------------------------------ MODULE Workflow ------------------------------
(***************************************************************************)
(* The jobs a generated workflow cuts an apply into                        *)
(* (internal/controller/workflowcontroller/templates.go), and what one of  *)
(* them does on its runner (reconcilecontroller/stagephase.go, carried.go, *)
(* release.go).  Each gated job is a fresh clone on a machine of its own.  *)
(* What it knows of the others is what the platform says of its needs, the *)
(* run records in the state repository, and the files the jobs before it   *)
(* kept as artifacts of the workflow run.                                  *)
(*                                                                         *)
(* A job is the set of the substages it runs.  Files are named by the      *)
(* substage that built them.  `here` is the artifact directory, keyed by   *)
(* revision, that `put` fills and the workflow packs and unpacks; `place`  *)
(* is where a target reads and writes, which `get` restores to.            *)
(***************************************************************************)
EXTENDS Integers, Sequences, FiniteSets

CONSTANTS
  Stages,      \* the stages in order, each the set of its substages
  Needs,       \* what a substage needs of its own stage
  Uses,        \* what it declares to read of earlier stages; {}: anything
  Enough,      \* how many green substages a stage's promotion asks for
  Builds,      \* the substages whose targets build files
  Writes,      \* the substages that commit to the pipeline's own repo
  Cuts,        \* the ways to cut the workflow into jobs
  MaxFaults    \* bound on failures of targets, runners and uploads

Substage == UNION {Stages[k] : k \in DOMAIN Stages}
Earlier(k) == UNION {Stages[l] : l \in 1 .. k - 1}
Commits  == 0 .. Cardinality(Writes) + MaxFaults
NoCommit == -1

\* What the configuration asks of a pipeline and its promotions.  No substage
\* takes the name of a fixed job.
ASSUME StagesAssumption ==
  /\ Stages \in Seq(SUBSET Substage) /\ Stages # <<>>
  /\ \A k \in DOMAIN Stages : Stages[k] # {} /\ IsFiniteSet(Stages[k])
  /\ \A k, l \in DOMAIN Stages : k # l => Stages[k] \cap Stages[l] = {}
  /\ \A k \in DOMAIN Stages : \A s \in Stages[k] :
       Needs[s] \subseteq Stages[k] /\ Uses[s] \subseteq Earlier(k)
  /\ \A k \in DOMAIN Stages : Enough[k] \in 0 .. Cardinality(Stages[k])
  /\ Substage \cap {"self-reconcile", "evaluate"} = {}
  /\ Builds \subseteq Substage /\ Writes \subseteq Substage
  /\ Cuts \subseteq {"stages", "stage", "substage"}
  /\ MaxFaults \in Nat

VARIABLES
  cut,       \* how this workflow is cut: "stages", "stage" or "substage"
  step,      \* where each job stands
  clone,     \* the commit of the pipeline's repo a job's runner cloned
  wrote,     \* the substages whose commits are in that clone, not pushed
  at,        \* the stage a job is in
  view,      \* what the job's process holds of its substages
  here,      \* on the runner: the files in the artifact directory
  made,      \* ... those of them that are newer than the mark
  place,     \* ... the files where targets read them
  kept,      \* the files each job kept for the jobs after it
  answer,    \* the last word a fixed job answered
  revision,  \* the revision it answered, which every job after it is told
  record,    \* the run records: of a substage, by revision
  tip,       \* the tip of the pipeline's repo at the remote
  lacked,    \* history: a substage ran without a file that was kept for it
  refused,   \* history: the jobs that were told they came out of order
  issues,    \* the open issues about this workflow
  faults

runner == <<clone, wrote, at, view, here, made, place>>
workflowVars   == <<cut, step, runner, kept, answer, revision, record, tip, lacked,
            refused, issues, faults>>

-----------------------------------------------------------------------------
\* The jobs.  A fixed job runs no substage; phasedJobs refuses a stage that
\* takes the name of one.
SelfReconcile == {"self-reconcile"}
Evaluate      == {"evaluate"}

Gated(c) ==
  CASE c = "stages"   -> {Substage}
    [] c = "stage"    -> {Stages[k] : k \in DOMAIN Stages}
    [] c = "substage" -> {{s} : s \in Substage}

Jobs   == {SelfReconcile, Evaluate} \cup Gated(cut)
AllJob == {SelfReconcile, Evaluate} \cup UNION {Gated(c) : c \in Cuts}

StageOf(s)   == CHOOSE k \in DOMAIN Stages : s \in Stages[k]
FirstStage(j) == CHOOSE k \in DOMAIN Stages :
                   j \cap Stages[k] # {} /\ \A l \in 1 .. k - 1 : j \cap Stages[l] = {}

\* Every job of the stage in front, and at substage granularity the jobs of
\* the siblings its substage needs.
StageInFront(j) == IF FirstStage(j) = 1 THEN {}
                   ELSE {i \in Gated(cut) : i \cap Stages[FirstStage(j) - 1] # {}}
Siblings(j)     == {i \in Gated(cut) \ {j} : \E s \in j : Needs[s] \cap i # {}}
\* Mutant: a job waits for the evaluation and its siblings alone.
JobNeedsNoStage(j) ==
  CASE j = SelfReconcile -> {}
    [] j = Evaluate      -> {SelfReconcile}
    [] OTHER             -> {Evaluate} \cup Siblings(j)
JobNeeds(j) ==
  CASE j = SelfReconcile -> {}
    [] j = Evaluate      -> {SelfReconcile}
    [] OTHER             -> {Evaluate} \cup StageInFront(j) \cup Siblings(j)

\* What the substages S declared they read; everything earlier if one of
\* them declared nothing.
UsesOf(S) == IF \E s \in S : Uses[s] = {} THEN Earlier(FirstStage(S))
             ELSE UNION {Uses[s] : s \in S}

Downloads(j) == FirstStage(j) > 1 \/ Siblings(j) # {} \/ cut = "stages"
\* Mutant: the names are those of the substages at either granularity.
UsedJobsBySubstage(j) ==
  IF \E s \in j : Uses[s] = {} THEN Gated(cut) ELSE {i \in Gated(cut) : \E s \in UsesOf(j) : i = {s}}
UsedJobs(j) == IF \E s \in j : Uses[s] = {} THEN Gated(cut)
                ELSE {i \in Gated(cut) : i \cap UsesOf(j) # {}}

-----------------------------------------------------------------------------
Done(j)      == step[j] \in {"success", "failure", "skipped"}
Green(s)     == record[s][revision] = "green"
Recorded(s)  == record[s][revision] # "none"
Promotes(k, S) == Cardinality(S) >= Enough[k]

WorkflowTypeOK ==
  /\ cut \in Cuts
  /\ step \in [AllJob -> {"waiting", "phase", "bring", "enter", "run", "pack",
                          "push", "list", "file", "success", "failure", "skipped"}]
  /\ clone \in [AllJob -> Commits]
  /\ wrote \in [AllJob -> SUBSET Writes]
  /\ at \in [AllJob -> DOMAIN Stages]
  /\ view \in [AllJob -> [Substage -> {"todo", "green", "failed", "held"}]]
  /\ \A f \in {here, made, place, kept} : f \in [AllJob -> SUBSET Builds]
  /\ answer \in {"none", "superseded", "converged", "skip", "proceed"}
  /\ revision \in Commits \cup {NoCommit}
  /\ record \in [Substage -> [Commits -> {"none", "green", "failed"}]]
  /\ tip \in Commits
  /\ lacked \subseteq Substage \X Builds
  /\ refused \subseteq AllJob
  /\ issues \in 0 .. Cardinality(AllJob)
  /\ faults \in 0 .. MaxFaults

WorkflowInit ==
  /\ cut \in Cuts
  /\ step    = [j \in AllJob |-> "waiting"]
  /\ clone   = [j \in AllJob |-> 0]
  /\ wrote   = [j \in AllJob |-> {}]
  /\ at      = [j \in AllJob |-> 1]
  /\ view    = [j \in AllJob |-> [s \in Substage |-> "todo"]]
  /\ here    = [j \in AllJob |-> {}]
  /\ made    = [j \in AllJob |-> {}]
  /\ place   = [j \in AllJob |-> {}]
  /\ kept    = [j \in AllJob |-> {}]
  /\ answer = "none" /\ revision = NoCommit
  \* An earlier run of the same revision may have left records; the files it
  \* built were artifacts of that run.
  /\ \E S \in {{}, Stages[1]} :
       record = [s \in Substage |-> [c \in Commits |-> IF c = 0 /\ s \in S THEN "green" ELSE "none"]]
  /\ tip = 0
  /\ lacked = {} /\ refused = {} /\ issues = 0 /\ faults = 0

-----------------------------------------------------------------------------
\* The platform: a job starts when its needs are over.  An `if` that asks no
\* status function also asks success() of all of them.
If(j) == CASE j = SelfReconcile -> TRUE
           [] j = Evaluate      -> answer = "converged"
           [] OTHER             -> answer = "proceed"

Start(j) ==
  /\ step[j] = "waiting"
  /\ \A i \in JobNeeds(j) : Done(i)
  /\ IF If(j) /\ \A i \in JobNeeds(j) : step[i] = "success"
     THEN /\ step'  = [step EXCEPT ![j] = IF j \in {SelfReconcile, Evaluate} THEN "phase" ELSE "bring"]
          /\ clone' = [clone EXCEPT ![j] = tip]
          /\ wrote' = [wrote EXCEPT ![j] = {}]
          /\ at'    = [at EXCEPT ![j] = IF j \in Gated(cut) THEN FirstStage(j) ELSE 1]
          /\ view'  = [view EXCEPT ![j] = [s \in Substage |-> "todo"]]
          /\ here'  = [here EXCEPT ![j] = {}]
          /\ made'  = [made EXCEPT ![j] = {}]
          /\ place' = [place EXCEPT ![j] = {}]
     ELSE step' = [step EXCEPT ![j] = "skipped"] /\ UNCHANGED runner
  /\ UNCHANGED <<cut, kept, answer, revision, record, tip, lacked, refused, issues, faults>>

\* A run whose self reconcile superseded it answers that word, and the
\* evaluate job asks for the other one.
AnswerReconcile(word) ==
  /\ step[SelfReconcile] = "phase"
  /\ step' = [step EXCEPT ![SelfReconcile] = "success"]
  /\ answer' = word
  /\ UNCHANGED <<cut, runner, kept, revision, record, tip, lacked, refused, issues, faults>>

AnswerEvaluate(word) ==
  /\ step[Evaluate] = "phase"
  /\ step' = [step EXCEPT ![Evaluate] = "success"]
  /\ answer' = word
  /\ revision' = clone[Evaluate]
  /\ UNCHANGED <<cut, runner, kept, record, tip, lacked, refused, issues, faults>>

\* Mutant: it resolves the one its own clone is at.
ToldNothing(j) == clone[j]

\* The revision a gated job is told with --revision.
Told(j) == revision

\* Download and unpack what the jobs before this one kept, then draw the mark.
Bring(j) ==
  /\ step[j] = "bring"
  /\ here' = [here EXCEPT ![j] = IF Downloads(j) THEN UNION {kept[i] : i \in UsedJobs(j)} ELSE {}]
  /\ step' = [step EXCEPT ![j] = "enter"]
  /\ UNCHANGED <<cut, clone, wrote, at, view, made, place, kept, answer, revision, record,
                 tip, lacked, refused, issues, faults>>

\* applyNamedStage: the stage in front must be recorded and promoted, and
\* what its substages and those of earlier stages built is restored.
Carried(j, k) == {s \in UsesOf(Stages[k]) : record[s][Told(j)] # "none" /\ s \in here[j]}
Advanced(k, r) ==
  /\ \A s \in Stages[k] : record[s][r] # "none"
  /\ Promotes(k, {s \in Stages[k] : record[s][r] = "green"})

Enter(j) ==
  /\ step[j] = "enter"
  /\ LET k == at[j] IN
       IF cut # "stages" /\ k > 1 /\ ~Advanced(k - 1, Told(j))
       THEN /\ step' = [step EXCEPT ![j] = "list"]
            /\ refused' = refused \cup {j}
            /\ UNCHANGED place
       ELSE /\ step' = [step EXCEPT ![j] = "run"]
            /\ place' = [place EXCEPT ![j] = IF cut # "stages" /\ k > 1 THEN Carried(j, k) ELSE {}]
            /\ UNCHANGED refused
  /\ UNCHANGED <<cut, clone, wrote, at, view, here, made, kept, answer, revision, record,
                 tip, lacked, issues, faults>>

-----------------------------------------------------------------------------
\* The substages of a job.  applyStage runs those whose needs are settled and
\* holds one whose need did not advance; applyOneSubstage asks nothing.
Turn(j, s) ==
  /\ step[j] = "run"
  /\ s \in j \cap Stages[at[j]]
  /\ view[j][s] = "todo"
  /\ cut # "substage" => \A n \in Needs[s] : view[j][n] # "todo"
IsHeld(j, s) == cut # "substage" /\ \E n \in Needs[s] : view[j][n] # "green"
\* A green record counts if what it built can be restored on this runner.
AtHand(j, s)   == s \in Builds => s \in here[j]
Reusable(j, s) == record[s][Told(j)] = "green" /\ AtHand(j, s)
Built(s) == {s} \cap Builds

\* What a job did not run for a need that did not pass.  It leaves no record.
HeldIn(j) == {s \in Substage : view[j][s] = "held"}

\* What a substage may read, and what is kept of it.  What a substage built in
\* an earlier attempt does not count while this one holds it.
MayRead(s) == Needs[s] \cup (IF Uses[s] = {} THEN Earlier(StageOf(s)) ELSE Uses[s])
Kept       == UNION {kept[i] : i \in Gated(cut)}

See(j, s, v) == view' = [view EXCEPT ![j][s] = v]

Hold(j, s) ==
  /\ Turn(j, s) /\ IsHeld(j, s)
  /\ See(j, s, "held")
  /\ UNCHANGED <<cut, step, clone, wrote, at, here, made, place, kept, answer, revision, record,
                 tip, lacked, refused, issues, faults>>

Reuse(j, s) ==
  /\ Turn(j, s) /\ ~IsHeld(j, s) /\ Reusable(j, s)
  /\ See(j, s, "green")
  /\ place' = [place EXCEPT ![j] = @ \cup (Built(s) \cap here[j])]
  /\ UNCHANGED <<cut, step, clone, wrote, at, here, made, kept, answer, revision, record,
                 tip, lacked, refused, issues, faults>>

\* The targets run over what is in place; put copies what they built under
\* the artifact directory, where it is newer than the mark.
Pass(j, s) ==
  /\ Turn(j, s) /\ ~IsHeld(j, s) /\ ~Reusable(j, s)
  /\ See(j, s, "green")
  /\ record' = [record EXCEPT ![s][Told(j)] = "green"]
  /\ lacked' = lacked \cup ({s} \X ((MayRead(s) \cap Kept) \ (place[j] \cup HeldIn(j))))
  /\ place'  = [place EXCEPT ![j] = @ \cup Built(s)]
  /\ here'   = [here EXCEPT ![j] = @ \cup Built(s)]
  /\ made'   = [made EXCEPT ![j] = @ \cup Built(s)]
  /\ wrote'  = [wrote EXCEPT ![j] = @ \cup ({s} \cap Writes)]
  /\ UNCHANGED <<cut, step, clone, at, kept, answer, revision, tip, refused, issues, faults>>

FailRun(j, s) ==
  /\ Turn(j, s) /\ ~IsHeld(j, s) /\ ~Reusable(j, s)
  /\ faults < MaxFaults /\ faults' = faults + 1
  /\ See(j, s, "failed")
  /\ record' = [record EXCEPT ![s][Told(j)] = "failed"]
  /\ UNCHANGED <<cut, step, clone, wrote, at, here, made, place, kept, answer, revision,
                 tip, lacked, refused, issues>>

\* Mutant: the job of a substage exits zero with a report that is blocked.
StageGreenBlocked(j) ==
  cut = "substage" \/ Promotes(at[j], {s \in j \cap Stages[at[j]] : view[j][s] = "green"})

\* The stage, or the substage, is over: exit zero if it advanced.
StageGreen(j) ==
  LET mine == j \cap Stages[at[j]]
      green == {s \in mine : view[j][s] = "green"}
  IN IF cut = "substage" THEN green = mine ELSE Promotes(at[j], green)

EndStage(j) ==
  /\ step[j] = "run"
  /\ \A s \in j \cap Stages[at[j]] : view[j][s] # "todo"
  /\ IF ~StageGreen(j) THEN step' = [step EXCEPT ![j] = "list"] /\ UNCHANGED at
     ELSE IF cut = "stages" /\ at[j] < Len(Stages)
          THEN at' = [at EXCEPT ![j] = @ + 1] /\ UNCHANGED step
          ELSE step' = [step EXCEPT ![j] = "pack"] /\ UNCHANGED at
  /\ UNCHANGED <<cut, clone, wrote, view, here, made, place, kept, answer, revision, record,
                 tip, lacked, refused, issues, faults>>

\* What is newer than the mark; a job that built nothing keeps nothing.
Packed(j) == made[j]

Pack(j) ==
  /\ step[j] = "pack"
  /\ kept' = [kept EXCEPT ![j] = IF Packed(j) = {} THEN @ ELSE Packed(j)]
  /\ step' = [step EXCEPT ![j] = "push"]
  /\ UNCHANGED <<cut, runner, answer, revision, record, tip, lacked, refused, issues, faults>>

\* git push origin HEAD:ref, refused when the remote moved since the clone,
\* even by a job that has nothing of its own to push.
Push(j) ==
  /\ step[j] = "push"
  /\ IF clone[j] # tip
     THEN step' = [step EXCEPT ![j] = "list"] /\ UNCHANGED tip
     ELSE /\ step' = [step EXCEPT ![j] = "success"]
          /\ tip'  = IF wrote[j] = {} THEN tip ELSE tip + 1
  /\ UNCHANGED <<cut, runner, kept, answer, revision, record, lacked, refused, issues, faults>>

-----------------------------------------------------------------------------
\* A job that failed opens an issue unless one is open.
ListIssues(j) ==
  /\ step[j] = "list"
  /\ step' = [step EXCEPT ![j] = IF issues > 0 THEN "failure" ELSE "file"]
  /\ UNCHANGED <<cut, runner, kept, answer, revision, record, tip, lacked, refused, issues, faults>>

File(j) ==
  /\ step[j] = "file"
  /\ step' = [step EXCEPT ![j] = "failure"]
  /\ issues' = issues + 1
  /\ UNCHANGED <<cut, runner, kept, answer, revision, record, tip, lacked, refused, faults>>

\* A step of a job fails for a reason of its own, or its runner is lost.
Break(j) ==
  /\ step[j] \in {"phase", "bring", "enter", "run", "pack", "push"}
  /\ faults < MaxFaults /\ faults' = faults + 1
  /\ \E s \in {"list", "failure"} : step' = [step EXCEPT ![j] = s]
  /\ UNCHANGED <<cut, runner, kept, answer, revision, record, tip, lacked, refused, issues>>

\* Somebody else pushes to the pipeline's repo while the run goes on.
PushElsewhere ==
  /\ faults < MaxFaults /\ faults' = faults + 1
  /\ tip' = tip + 1
  /\ UNCHANGED <<cut, step, runner, kept, answer, revision, record, lacked, refused, issues>>

\* The retention of what a job kept is over.
Expire(j) ==
  /\ kept[j] # {}
  /\ faults < MaxFaults /\ faults' = faults + 1
  /\ kept' = [kept EXCEPT ![j] = {}]
  /\ UNCHANGED <<cut, step, runner, answer, revision, record, tip, lacked, refused, issues>>

\* Somebody starts the failed jobs of a run that is over again, and with
\* them those that were skipped because of them.
Over == \A j \in Jobs : Done(j)
Rerun ==
  /\ Over
  /\ \E j \in Jobs : step[j] = "failure"
  /\ step' = [j \in AllJob |-> IF step[j] = "success" THEN "success" ELSE "waiting"]
  /\ UNCHANGED <<cut, runner, kept, answer, revision, record, tip, lacked, refused, issues, faults>>

Work ==
  \/ \E word \in {"superseded", "converged"} : AnswerReconcile(word)
  \/ \E word \in {"skip", "proceed"} : AnswerEvaluate(word)
  \/ \E j \in Jobs :
       \/ Start(j) \/ Bring(j) \/ Enter(j) \/ EndStage(j) \/ Pack(j) \/ Push(j)
       \/ ListIssues(j) \/ File(j)
       \/ \E s \in j \cap Substage : Hold(j, s) \/ Reuse(j, s) \/ Pass(j, s) \/ FailRun(j, s)
  \/ Rerun

Fault == PushElsewhere \/ \E j \in Jobs : Break(j) \/ Expire(j)

WorkflowNext == Work \/ Fault

WorkflowSpec == WorkflowInit /\ [][WorkflowNext]_workflowVars

\* The platform runs what it can run and a red run is started again; no
\* fault is forced.
Fairness == WF_workflowVars(Work)
FairWorkflowSpec == WorkflowSpec /\ Fairness

-----------------------------------------------------------------------------
\* A job waits for enough: when it asks whether the stage in front of it
\* advanced (stagephase.go:76), it never is too early, whatever failed, was
\* run again or moved the repo meanwhile.  It is refused only where that stage
\* advanced in spite of a substage it held.
HeldInFront(j) == \E i \in StageInFront(j) : HeldIn(i) # {}
OnlyHeldRefuses == \A j \in refused : HeldInFront(j)

\* "A substage of the stage in front with no record has not run, which is this
\* job arriving early" (stagephase.go:76): when the jobs in front are green,
\* it does not.
NoJobIsRefused == refused = {}

\* A substage reads what the stages before it built, on a runner that built
\* none of it (ci-compute-github/docs/usage.md:20), as long as it is kept.
ReadsWhatStagesBuilt == \A l \in lacked : l[2] \notin Earlier(StageOf(l[1]))

\* "a job that waits on a sibling downloads too, because the sibling may have
\* built what it is about to read" (templates.go:354).
ReadsWhatSiblingsBuilt == \A l \in lacked : l[2] \notin Needs[l[1]]

\* A run that is green throughout has proven its revision: every stage promotes
\* by what is recorded under the revision the evaluate job answered, and what
\* is not recorded was held.
Succeeded     == \A j \in Jobs : step[j] = "success"
GreenIsProven == Succeeded => \A k \in DOMAIN Stages :
  /\ Promotes(k, {s \in Stages[k] : Green(s)})
  /\ \A s \in Stages[k] : Recorded(s) \/ \E j \in Jobs : s \in HeldIn(j)

\* Whatever failed, a run that is started again ends: green, with nothing to
\* do, or refused for ever for what a stage held.
HadNothingToDo == Over /\ answer \in {"superseded", "skip"}
RunsEnd == <>[](Succeeded \/ HadNothingToDo \/ \E j \in refused : HeldInFront(j))
=============================================================================
