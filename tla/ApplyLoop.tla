----------------------------- MODULE ApplyLoop -----------------------------
(***************************************************************************)
(* The reconcile loop of forge-ci (internal/controller/reconcilecontroller)*)
(* from the resolved revision to the last stage: several processes - whole *)
(* applies, and the evaluate, stages, stage and substage jobs of a phased  *)
(* run - drive the stages of one pipeline and share nothing but the records*)
(* of the state store.                                                     *)
(*                                                                         *)
(* A substage stands for a <stage>/<substage> pair.  The store is a map    *)
(* here: one put or one get is one step (StateStore.tla is the git store). *)
(* What decideRelease answers is any member of Decisions (Release.tla).    *)
(***************************************************************************)
EXTENDS Integers, FiniteSets

CONSTANTS
  Proc,       \* forge-ci processes
  Rev,        \* revisions: one id per combination of commits and edits
  Sub,        \* the substages of every stage
  LastStage,  \* stages are 1..LastStage, in pipeline order
  StageOf,    \* the stage of a substage
  Needs,      \* what a substage needs, within its own stage
  Gated,      \* substages that declare a gate
  Builds,     \* substages whose passing run leaves artifacts behind
  Publishes,  \* substages that name an artifact engine
  Threshold,  \* percentage of a stage its promotion asks for; 100 is also
              \* what a stage with no promotion engine asks for
  Decisions,  \* what decideRelease may answer: a subset of {"skip","proceed"}
  Verbs,      \* the ways a process may be started, a subset of AllVerbs
  MaxFaults   \* bound on crashes, errors, failing runs, losses and edits

AllVerbs == {"apply", "evaluate", "stages", "stage", "substage"}

Stages == 1..LastStage

\* The substages stage k declares.
Subs(k) == {s \in Sub : StageOf[s] = k}

ASSUME PipelineAssumption ==
  /\ IsFiniteSet(Sub)
  /\ LastStage \in Nat \ {0}
  /\ StageOf \in [Sub -> Stages]
  /\ \A k \in Stages : Subs(k) # {}
  /\ Gated \subseteq Sub
  /\ Builds \subseteq Sub
  /\ Publishes \subseteq Sub \ Builds
  /\ Threshold \in [Stages -> 0..100]
  /\ Decisions \subseteq {"skip", "proceed"}
  /\ Verbs \subseteq AllVerbs
  /\ MaxFaults \in Nat

ASSUME NeedsAssumption ==
  /\ Needs \in [Sub -> SUBSET Sub]
  /\ \A s \in Sub : \A n \in Needs[s] : n # s /\ StageOf[n] = StageOf[s]
  /\ \E rank \in [Sub -> 1..Cardinality(Sub)] :
       \A s \in Sub : \A n \in Needs[s] : rank[n] < rank[s]

VARIABLES
  head,       \* the revision the checkout holds now
  approved,   \* gated substages whose approval file exists
  evaluated,  \* the evaluate-<rev> record
  minted,     \* revisions with a revision record
  runs,       \* the run record of a substage for a revision
  kept,       \* <<revision, substage>> whose artifacts can be brought back
  pc,         \* where a process stands
  verb,       \* how it was started
  rev,        \* the revision it is bound to
  stage,      \* the stage it is at
  asked,      \* the substages of that stage it was asked to run
  view,       \* what it holds of every substage, one goroutine each
  faults      \* faults so far

\* History: which substages of a revision once had a green record, and the
\* revisions an apply reported advanced to the end.
VARIABLES everGreen, advanced

store  == <<evaluated, minted, runs, kept>>
procs  == <<pc, verb, rev, stage, asked, view>>
env    == <<head, approved>>
vars   == <<store, procs, env, faults, everGreen, advanced>>

\* A run record: it passed with every gate passed, it passed with a gate
\* still open, it failed, or there is none.
Result == {"green", "open", "failed"}
Record == Result \union {"absent"}

\* A goroutine under way, and everything a process may hold of a substage.
\* A held substage is reported failed and never recorded.
Active == {"get", "run", "passed", "failing"}
View   == {"none", "ask", "todo", "held", "error"} \union Active \union Result

TypeOK ==
  /\ head \in Rev
  /\ approved \subseteq Gated
  /\ evaluated \in [Rev -> {"none", "skip", "proceed"}]
  /\ minted \subseteq Rev
  /\ runs \in [Rev -> [Sub -> Record]]
  /\ kept \subseteq Rev \X Builds
  /\ pc \in [Proc -> {"idle", "record", "mint", "ask", "stage"}]
  /\ verb \in [Proc -> AllVerbs]
  /\ rev \in [Proc -> Rev]
  /\ stage \in [Proc -> Stages]
  /\ asked \in [Proc -> SUBSET Sub]
  /\ view \in [Proc -> [Sub -> View]]
  /\ faults \in 0..MaxFaults
  /\ everGreen \in [Rev -> SUBSET Sub]
  /\ advanced \subseteq Rev

-----------------------------------------------------------------------------
(* What a process reads off its goroutines.                                *)

InView(p, vs) == {s \in Sub : view[p][s] \in vs}

\* Mutants: the gates forgotten, and a need that only has to finish.
GreenBarGates(p) == InView(p, {"green", "open"})
GreenOnceDone(p) == InView(p, Result)

Green(p) == InView(p, {"green"})

\* Promotion over a stage of which the substages in passed are green.
Promotes(k, passed) ==
  100 * Cardinality(passed \intersect Subs(k)) >= Threshold[k] * Cardinality(Subs(k))

\* A substage job runs its substage whatever it needs: the jobs around it
\* carry those edges.
Waits(p, s) == IF verb[p] = "substage" THEN {} ELSE Needs[s]

\* The next wave: what has not been placed and waits on nothing unplaced.
Wave(p) == {s \in InView(p, {"todo"}) : Waits(p, s) \intersect InView(p, {"todo"}) = {}}

\* No goroutine is under way: the wave's WaitGroup has been waited for.
Settled(p) == InView(p, Active) = {}

\* A record is reused when it is green and what it built can be restored.
AtHand(r, s) == s \in Builds => <<r, s>> \in kept
\* Mutants: no record reads as nothing to do, and the gates are forgotten.
ReusableUnrecorded(r, s) == runs[r][s] \in {"green", "absent"} /\ AtHand(r, s)
ReusableBarGates(r, s)   == runs[r][s] \in {"green", "open"} /\ AtHand(r, s)

Reusable(r, s) == runs[r][s] = "green" /\ AtHand(r, s)

\* What a passing run is recorded as: the gates are asked before the put.
Judged(s) == IF s \in Gated \ approved THEN "open" ELSE "green"

Fault == faults < MaxFaults /\ faults' = faults + 1

NoView == [s \in Sub |-> "none"]

\* The view of a process that has yet to run the substages in S.
Todo(S) == [s \in Sub |-> IF s \in S THEN "todo" ELSE "none"]

SetView(p, s, v) == view' = [view EXCEPT ![p][s] = v]

\* The process answers, or dies: what it held is gone, the records stay.
Leave(p) ==
  /\ pc' = [pc EXCEPT ![p] = "idle"]
  /\ view' = [view EXCEPT ![p] = NoView]
  /\ UNCHANGED <<verb, rev, stage, asked>>

-----------------------------------------------------------------------------
Init ==
  /\ head \in Rev
  /\ approved = {}
  /\ evaluated = [r \in Rev |-> "none"]
  /\ minted = {}
  /\ runs = [r \in Rev |-> [s \in Sub |-> "absent"]]
  /\ kept = {}
  /\ pc = [p \in Proc |-> "idle"]
  /\ verb = [p \in Proc |-> "apply"]
  /\ rev = [p \in Proc |-> head]
  /\ stage = [p \in Proc |-> 1]
  /\ asked = [p \in Proc |-> {}]
  /\ view = [p \in Proc |-> NoView]
  /\ faults = 0
  /\ everGreen = [r \in Rev |-> {}]
  /\ advanced = {}

\* A process starts, bound to revision r, at stage k, to run the substages S.
Begin(p, v, at, r, k, S, seen) ==
  /\ pc[p] = "idle"
  /\ v \in Verbs
  /\ pc' = [pc EXCEPT ![p] = at]
  /\ verb' = [verb EXCEPT ![p] = v]
  /\ rev' = [rev EXCEPT ![p] = r]
  /\ stage' = [stage EXCEPT ![p] = k]
  /\ asked' = [asked EXCEPT ![p] = S]
  /\ view' = [view EXCEPT ![p] = seen]
  /\ UNCHANGED <<store, env, faults, everGreen, advanced>>

\* forge-ci apply: the revision is what the checkout holds.  An apply whose
\* release decision is skip changes nothing and is not a step.
StartApply(p) ==
  /\ "proceed" \in Decisions
  /\ Begin(p, "apply", "mint", head, 1, Subs(1), NoView)

\* forge-ci apply --phase evaluate.
StartEvaluate(p) == Begin(p, "evaluate", "record", head, 1, {}, NoView)

\* forge-ci apply --phase stages --revision r, refused without a record that
\* says proceed.
StartStages(p, r) ==
  /\ evaluated[r] = "proceed"
  /\ Begin(p, "stages", "stage", r, 1, Subs(1), Todo(Subs(1)))

\* ... --stage k, and with --substage too: S is the whole stage or one of it.
\* Any stage but the first asks about the one in front of it before it runs.
StartStageJob(p, r, k, v, S) ==
  /\ evaluated[r] = "proceed"
  /\ IF k = 1
       THEN Begin(p, v, "stage", r, k, S, Todo(S))
       ELSE Begin(p, v, "ask", r, k, S,
                  [s \in Sub |-> IF s \in Subs(k - 1) THEN "ask" ELSE "none"])

StartJob(p) ==
  \E r \in Rev, k \in Stages :
    \/ StartStageJob(p, r, k, "stage", Subs(k))
    \/ \E s \in Subs(k) : StartStageJob(p, r, k, "substage", {s})

-----------------------------------------------------------------------------
(* The evaluate phase: the decision is recorded, then the revision minted. *)

RecordEvaluation(p) ==
  /\ pc[p] = "record"
  /\ \E d \in Decisions :
       /\ evaluated' = [evaluated EXCEPT ![rev[p]] = d]
       /\ pc' = [pc EXCEPT ![p] = IF d = "skip" THEN "idle" ELSE "mint"]
  /\ UNCHANGED <<minted, runs, kept, verb, rev, stage, asked, view, env, faults,
                 everGreen, advanced>>

Mint(p) ==
  /\ pc[p] = "mint"
  /\ minted' = minted \union {rev[p]}
  /\ IF verb[p] = "evaluate"
       THEN Leave(p)
       ELSE /\ pc' = [pc EXCEPT ![p] = "stage"]
            /\ view' = [view EXCEPT ![p] = Todo(asked[p])]
            /\ UNCHANGED <<verb, rev, stage, asked>>
  /\ UNCHANGED <<evaluated, runs, kept, env, faults, everGreen, advanced>>

-----------------------------------------------------------------------------
(* A stage job asks the promotion of the stage in front over its records,  *)
(* one record at a time.                                                   *)

\* A substage with no record refuses the job: it came too early.
AskRecord(p, s) ==
  /\ pc[p] = "ask"
  /\ view[p][s] = "ask"
  /\ IF runs[rev[p]][s] = "absent"
       THEN Leave(p)
       ELSE /\ SetView(p, s, runs[rev[p]][s])
            /\ UNCHANGED <<pc, verb, rev, stage, asked>>
  /\ UNCHANGED <<store, env, faults, everGreen, advanced>>

\* Mutant: a record, whatever it says, is enough.
EnterOnRecords(p) ==
  /\ pc[p] = "ask"
  /\ InView(p, {"ask"}) = {}
  /\ pc' = [pc EXCEPT ![p] = "stage"]
  /\ view' = [view EXCEPT ![p] = Todo(asked[p])]
  /\ UNCHANGED <<verb, rev, stage, asked, store, env, faults, everGreen, advanced>>

EnterStage(p) ==
  /\ pc[p] = "ask"
  /\ InView(p, {"ask"}) = {}
  /\ IF Promotes(stage[p] - 1, Green(p))
       THEN /\ pc' = [pc EXCEPT ![p] = "stage"]
            /\ view' = [view EXCEPT ![p] = Todo(asked[p])]
            /\ UNCHANGED <<verb, rev, stage, asked>>
       ELSE Leave(p)
  /\ UNCHANGED <<store, env, faults, everGreen, advanced>>

-----------------------------------------------------------------------------
(* One stage: waves of goroutines, a barrier between two waves.            *)

\* The next wave starts.  A substage one of whose needs did not advance is
\* held: it gets no goroutine.
BeginWave(p) ==
  /\ pc[p] = "stage"
  /\ Settled(p)
  /\ InView(p, {"error"}) = {}
  /\ Wave(p) # {}
  /\ view' = [view EXCEPT ![p] =
       [s \in Sub |->
          IF s \notin Wave(p) THEN view[p][s]
          ELSE IF Waits(p, s) \subseteq Green(p) THEN "get" ELSE "held"]]
  /\ UNCHANGED <<store, pc, verb, rev, stage, asked, env, faults, everGreen, advanced>>

\* Mutant: the record is not read.
LookUpNothing(p, s) ==
  /\ view[p][s] = "get"
  /\ SetView(p, s, "run")
  /\ UNCHANGED <<store, pc, verb, rev, stage, asked, env, faults, everGreen, advanced>>

\* The goroutine reads the record, and reuses it or runs the substage.
LookUp(p, s) ==
  /\ view[p][s] = "get"
  /\ SetView(p, s, IF Reusable(rev[p], s) THEN "green" ELSE "run")
  /\ UNCHANGED <<store, pc, verb, rev, stage, asked, env, faults, everGreen, advanced>>

\* Every target passed, or the publish did; what it built is kept.
Pass(p, s) ==
  /\ view[p][s] = "run"
  /\ kept' = IF s \in Builds THEN kept \union {<<rev[p], s>>} ELSE kept
  /\ SetView(p, s, "passed")
  /\ UNCHANGED <<evaluated, minted, runs, pc, verb, rev, stage, asked, env, faults,
                 everGreen, advanced>>

\* A target failed.  A publish has no such answer: it passes or it errs.
Fail(p, s) ==
  /\ view[p][s] = "run"
  /\ s \notin Publishes
  /\ Fault
  /\ SetView(p, s, "failing")
  /\ UNCHANGED <<store, pc, verb, rev, stage, asked, env, everGreen, advanced>>

\* An engine call of the goroutine errs: no record is written.
Err(p, s) ==
  /\ view[p][s] \in Active
  /\ Fault
  /\ SetView(p, s, "error")
  /\ UNCHANGED <<store, pc, verb, rev, stage, asked, env, everGreen, advanced>>

\* The gates are evaluated and the run is put.
PutRun(p, s) ==
  /\ view[p][s] \in {"passed", "failing"}
  /\ LET result == IF view[p][s] = "failing" THEN "failed" ELSE Judged(s)
     IN  /\ runs' = [runs EXCEPT ![rev[p]][s] = result]
         /\ SetView(p, s, result)
         /\ everGreen' = IF result = "green"
                           THEN [everGreen EXCEPT ![rev[p]] = @ \union {s}]
                           ELSE everGreen
  /\ UNCHANGED <<evaluated, minted, kept, pc, verb, rev, stage, asked, env, faults, advanced>>

\* The wave is over and one of its goroutines erred: so does the apply.
Abort(p) ==
  /\ pc[p] = "stage"
  /\ Settled(p)
  /\ InView(p, {"error"}) # {}
  /\ Leave(p)
  /\ UNCHANGED <<store, env, faults, everGreen, advanced>>

\* Every wave is over: promote.  A job ends here; an apply and the stages
\* phase go on to the next stage if there is one and this one advanced.
EndStage(p) ==
  /\ pc[p] = "stage"
  /\ Settled(p)
  /\ InView(p, {"todo", "error"}) = {}
  /\ LET loops == verb[p] \in {"apply", "stages"}
         goes  == loops /\ Promotes(stage[p], Green(p))
     IN  /\ IF goes /\ stage[p] < LastStage
              THEN /\ stage' = [stage EXCEPT ![p] = @ + 1]
                   /\ asked' = [asked EXCEPT ![p] = Subs(stage[p] + 1)]
                   /\ view' = [view EXCEPT ![p] = Todo(Subs(stage[p] + 1))]
                   /\ UNCHANGED <<pc, verb, rev>>
              ELSE Leave(p)
         /\ advanced' = IF goes /\ stage[p] = LastStage
                          THEN advanced \union {rev[p]} ELSE advanced
  /\ UNCHANGED <<store, env, faults, everGreen>>

-----------------------------------------------------------------------------
(* The world around the processes.                                         *)

\* The process dies, or a call outside its goroutines errs.
Crash(p) ==
  /\ pc[p] # "idle"
  /\ Fault
  /\ Leave(p)
  /\ UNCHANGED <<store, env, everGreen, advanced>>

\* A commit or an edit: the checkout is another revision.
Move ==
  /\ Fault
  /\ \E r \in Rev \ {head} : head' = r
  /\ UNCHANGED <<store, procs, approved, everGreen, advanced>>

\* What a run built is no longer there to bring back.
Lose ==
  /\ Fault
  /\ \E a \in kept : kept' = kept \ {a}
  /\ UNCHANGED <<evaluated, minted, runs, procs, env, everGreen, advanced>>

\* Somebody creates an approval file.  It names no revision.
Approve ==
  /\ \E s \in Gated \ approved : approved' = approved \union {s}
  /\ UNCHANGED <<store, procs, head, faults, everGreen, advanced>>

Goroutine(p, s) == LookUp(p, s) \/ Pass(p, s) \/ PutRun(p, s)

\* What a process that is not interrupted does next.
Proceed(p) ==
  \/ RecordEvaluation(p)
  \/ Mint(p)
  \/ EnterStage(p)
  \/ BeginWave(p)
  \/ Abort(p)
  \/ EndStage(p)
  \/ \E s \in Sub : AskRecord(p, s) \/ Goroutine(p, s)

Start(p) ==
  \/ StartApply(p)
  \/ StartEvaluate(p)
  \/ \E r \in Rev : StartStages(p, r)
  \/ StartJob(p)

Next ==
  \/ \E p \in Proc :
       \/ Start(p)
       \/ Proceed(p)
       \/ Crash(p)
       \/ \E s \in Sub : Fail(p, s) \/ Err(p, s)
  \/ Move
  \/ Lose
  \/ Approve

Spec == Init /\ [][Next]_vars

\* A process that can take a step takes one, a timer keeps starting applies
\* and somebody approves in the end.  Nothing makes a fault happen.
Fairness ==
  /\ \A p \in Proc : WF_vars(Proceed(p))
  /\ \A p \in Proc : WF_vars(StartApply(p))
  /\ WF_vars(Approve)

FairSpec == Spec /\ Fairness

-----------------------------------------------------------------------------
(* Properties.                                                             *)

\* Every stage in front of stage k once had enough green records for r.
ProvenUpTo(k, r) == \A j \in Stages : j < k => Promotes(j, everGreen[r])

\* Stages run in order, whoever runs them: a run is recorded for a revision
\* only when every stage in front of its own advanced on green records of
\* that very revision.  A stage job looks at one stage in front of it only.
StageOrder ==
  \A r \in Rev, s \in Sub : runs[r][s] # "absent" => ProvenUpTo(StageOf[s], r)

RunsAfterItsNeeds(p) ==
  \A s \in Sub :
    view[p][s] \in Active /\ verb[p] # "substage" => Needs[s] \subseteq everGreen[rev[p]]

\* No goroutine runs a substage before each of its needs has a green record
\* for the revision; a substage job leaves that to the jobs around it.
NeedsFirst == \A p \in Proc : RunsAfterItsNeeds(p)

\* An apply that reports every stage advanced has the records to show for it.
AdvancedIsProven ==
  \A r \in advanced : ProvenUpTo(LastStage + 1, r)

LeavesRecords(p) ==
  pc[p] = "stage" /\ stage[p] > 1 =>
    \A s \in Subs(stage[p] - 1) : runs[rev[p]][s] # "absent"

\* Whole and phased agree: a process past a stage leaves a record for every
\* substage of it, so the stage job after it is not refused.  A stage that
\* advances with a substage held has no record of that one: this is asked of
\* pipelines in which WholeWhereNeeded holds.
PhasesAgree == \A p \in Proc : LeavesRecords(p)

\* A stage with needs promotes on all of it.
WholeWhereNeeded ==
  \A k \in Stages : (\E s \in Subs(k) : Needs[s] # {}) => Threshold[k] = 100

\* The sets of green substages on which a stage advances.
Enough == [k \in Stages |-> {S \in SUBSET Sub : Promotes(k, S)}]

Discipline == INSTANCE StageDiscipline WITH
  recorded <- [r \in Rev |-> {s \in Sub : runs[r][s] # "absent"}],
  proven <- everGreen,
  done <- advanced

\* Processes, goroutines, crashes and overwritten records all together do what
\* StageDiscipline promises, one record at a time, and nothing else.
KeepsDiscipline == Discipline!Spec

\* What the safety properties rest on.  A process holds nothing the records
\* did not say, and it stands only where those records let it.

\* What p saw passed, or saw at all, the store has recorded.
SawRecords(p) ==
  \A s \in Sub : /\ view[p][s] = "green" => s \in everGreen[rev[p]]
                 /\ view[p][s] \in Result => runs[rev[p]][s] # "absent"

\* p runs the substages of its own stage, and nothing anywhere else.
WorksInItsStage(p) ==
  /\ asked[p] \subseteq Subs(stage[p])
  /\ pc[p] \in {"record", "mint"} => stage[p] = 1
  /\ \A s \in Sub :
       view[p][s] \in Active \union {"todo"} => pc[p] = "stage" /\ StageOf[s] = stage[p]

\* A job that asks looks at every substage of the stage in front of its own.
AsksTheStageInFront(p) ==
  pc[p] = "ask" =>
    stage[p] > 1 /\ \A s \in Subs(stage[p] - 1) : view[p][s] \in {"ask"} \union Result

\* p is at a stage only once those in front of it advanced.
StandsOnProvenStages(p) == pc[p] = "stage" => ProvenUpTo(stage[p], rev[p])

Backed(p) ==
  /\ SawRecords(p)
  /\ WorksInItsStage(p)
  /\ AsksTheStageInFront(p)
  /\ StandsOnProvenStages(p)
  /\ RunsAfterItsNeeds(p)

\* Inductive, and enough for StageOrder, NeedsFirst and AdvancedIsProven.
RecordsBackProgress ==
  /\ \A r \in Rev, s \in Sub : runs[r][s] = "green" => s \in everGreen[r]
  /\ StageOrder
  /\ AdvancedIsProven
  /\ \A p \in Proc : Backed(p)

\* An apply and a stages phase run the whole of every stage and lose sight of
\* none of its substages; what is held back is held for a need.
RunsTheWholeStage(p) ==
  LET loops == verb[p] \in {"apply", "stages"}
  IN  /\ loops => pc[p] # "ask" /\ (pc[p] # "idle" => asked[p] = Subs(stage[p]))
      /\ loops /\ pc[p] = "stage" =>
           \A s \in Subs(stage[p]) :
             view[p][s] \in {"todo", "held", "error"} \union Active \union Result
      /\ \A s \in Sub : view[p][s] = "held" => Needs[s] # {}

\* Inductive, over RecordsBackProgress and where WholeWhereNeeded holds.
NothingGoesUnrecorded == \A p \in Proc : RunsTheWholeStage(p) /\ LeavesRecords(p)

\* A green record whose artifacts are at hand is never lost to a later run.
GreenStays ==
  [][\A r \in Rev, s \in Sub : Reusable(r, s) => runs'[r][s] = "green"]_vars

\* Every process answers: no wave waits for a goroutine that never comes.
EveryProcessAnswers ==
  \A p \in Proc : pc[p] # "idle" ~> pc[p] = "idle"

\* Whatever crashed, failed or was lost on the way, the applies a timer keeps
\* starting leave the checkout's revision green in every substage.
EventuallyGreen ==
  <>[](\A s \in Sub : runs[head][s] = "green")
=============================================================================
