--------------------------- MODULE ApplyLoopProofs ---------------------------
(* Type correctness of ApplyLoop, and that no stage runs before the stages *)
(* in front of it advanced, for any number of processes, revisions, stages *)
(* and substages and any promotion threshold.                              *)
EXTENDS ApplyLoop, FiniteSetTheorems, TLAPS

-----------------------------------------------------------------------------
(* The shape every proof about a step has: one case for each action.       *)

\* A step is one of the actions, or changes nothing.
LEMMA Actions ==
  ASSUME [Next]_vars
  PROVE  \/ \E p \in Proc :
              \/ StartApply(p) \/ StartEvaluate(p)
              \/ \E r \in Rev : StartStages(p, r)
              \/ \E r \in Rev, k \in Stages, v \in {"stage", "substage"} :
                   \E S \in SUBSET Subs(k) : StartStageJob(p, r, k, v, S)
              \/ RecordEvaluation(p) \/ Mint(p) \/ EnterStage(p)
              \/ BeginWave(p) \/ Abort(p) \/ EndStage(p) \/ Crash(p)
              \/ \E s \in Sub :
                   \/ AskRecord(p, s) \/ LookUp(p, s) \/ Pass(p, s)
                   \/ PutRun(p, s) \/ Fail(p, s) \/ Err(p, s)
         \/ Move \/ Lose \/ Approve
         \/ UNCHANGED vars
<1>1. ASSUME NEW p \in Proc, StartJob(p)
      PROVE  \E r \in Rev, k \in Stages, v \in {"stage", "substage"} :
               \E S \in SUBSET Subs(k) : StartStageJob(p, r, k, v, S)
  BY <1>1 DEF StartJob
<1> QED
  BY <1>1 DEF Next, Start, Proceed, Goroutine

\* The views a process starts from.
LEMMA FreshViews == /\ NoView \in [Sub -> View]
                    /\ \A S : Todo(S) \in [Sub -> View]
  BY DEF NoView, Todo, View

\* Leaving keeps the process variables in their types.
LEMMA LeaveType ==
  ASSUME TypeOK, NEW p \in Proc, Leave(p)
  PROVE  /\ pc' \in [Proc -> {"idle", "record", "mint", "ask", "stage"}]
         /\ view' \in [Proc -> [Sub -> View]]
         /\ UNCHANGED <<verb, rev, stage, asked>>
  BY FreshViews DEF TypeOK, Leave

\* Starting with arguments of the right type does too.
LEMMA BeginType ==
  ASSUME TypeOK, NEW p \in Proc, NEW v, NEW at \in {"record", "mint", "ask", "stage"},
         NEW r \in Rev, NEW k \in Stages, NEW S \in SUBSET Sub, NEW seen \in [Sub -> View],
         Begin(p, v, at, r, k, S, seen)
  PROVE  TypeOK'
  BY PipelineAssumption DEF TypeOK, Begin, store, env

-----------------------------------------------------------------------------
\* Type correctness: every step of every process and of the world around
\* them keeps each variable in its type.
THEOREM TypeCorrect == Spec => []TypeOK
<1> USE PipelineAssumption, FreshViews
<1>1. Init => TypeOK
  BY DEF Init, TypeOK, Stages, AllVerbs, Record, Result
<1>2. TypeOK /\ [Next]_vars => TypeOK'
  <2> SUFFICES ASSUME TypeOK, [Next]_vars PROVE TypeOK'
    OBVIOUS
  <2>0. 1 \in Stages /\ \A k \in Stages : Subs(k) \in SUBSET Sub
    BY DEF Stages, Subs
  <2>1. ASSUME NEW p \in Proc, StartApply(p) \/ StartEvaluate(p) PROVE TypeOK'
    <3>1. head \in Rev /\ {} \in SUBSET Sub
      BY DEF TypeOK
    <3> QED
      BY <2>0, <2>1, <3>1, BeginType DEF StartApply, StartEvaluate
  <2>2. ASSUME NEW p \in Proc, NEW r \in Rev, StartStages(p, r) PROVE TypeOK'
    BY <2>0, <2>2, BeginType DEF StartStages
  <2>3. ASSUME NEW p \in Proc, NEW r \in Rev, NEW k \in Stages, NEW v,
               NEW S \in SUBSET Subs(k), StartStageJob(p, r, k, v, S)
        PROVE TypeOK'
    <3> DEFINE seen == [s \in Sub |-> IF s \in Subs(k - 1) THEN "ask" ELSE "none"]
    <3>1. S \in SUBSET Sub
      BY <2>0
    <3>2. seen \in [Sub -> View]
      BY DEF View
    <3>3. Begin(p, v, "stage", r, k, S, Todo(S)) \/ Begin(p, v, "ask", r, k, S, seen)
      BY <2>3 DEF StartStageJob
    <3> HIDE DEF seen
    <3> QED
      BY <3>1, <3>2, <3>3, BeginType
  <2>4. ASSUME NEW p \in Proc, RecordEvaluation(p) PROVE TypeOK'
    BY <2>4 DEF RecordEvaluation, TypeOK, env
  <2>5. ASSUME NEW p \in Proc, Mint(p) PROVE TypeOK'
    <3>1. CASE Leave(p)
      BY <2>5, <3>1, LeaveType DEF Mint, TypeOK, env
    <3>2. CASE ~ Leave(p)
      <4>1. /\ pc' = [pc EXCEPT ![p] = "stage"]
            /\ view' = [view EXCEPT ![p] = Todo(asked[p])]
            /\ minted' = minted \union {rev[p]}
            /\ UNCHANGED <<verb, rev, stage, asked, evaluated, runs, kept, env, faults,
                           everGreen, advanced>>
        BY <2>5, <3>2 DEF Mint
      <4> QED
        BY <4>1 DEF TypeOK, env
    <3> QED
      BY <3>1, <3>2
  <2>6. ASSUME NEW p \in Proc, NEW s \in Sub, AskRecord(p, s) PROVE TypeOK'
    <3>1. CASE Leave(p)
      BY <2>6, <3>1, LeaveType DEF AskRecord, TypeOK, store, env
    <3>2. CASE ~ Leave(p)
      <4>1. /\ view' = [view EXCEPT ![p][s] = runs[rev[p]][s]]
            /\ runs[rev[p]][s] # "absent"
            /\ UNCHANGED <<pc, verb, rev, stage, asked, store, env, faults, everGreen, advanced>>
        BY <2>6, <3>2 DEF AskRecord, SetView
      <4>2. runs[rev[p]][s] \in View
        BY <4>1 DEF TypeOK, Record, View
      <4> QED
        BY <4>1, <4>2 DEF TypeOK, store, env
    <3> QED
      BY <3>1, <3>2
  <2>7. ASSUME NEW p \in Proc, EnterStage(p) PROVE TypeOK'
    <3>1. CASE Leave(p)
      BY <2>7, <3>1, LeaveType DEF EnterStage, TypeOK, store, env
    <3>2. CASE ~ Leave(p)
      <4>1. /\ pc' = [pc EXCEPT ![p] = "stage"]
            /\ view' = [view EXCEPT ![p] = Todo(asked[p])]
            /\ UNCHANGED <<verb, rev, stage, asked, store, env, faults, everGreen, advanced>>
        BY <2>7, <3>2 DEF EnterStage
      <4> QED
        BY <4>1 DEF TypeOK, store, env
    <3> QED
      BY <3>1, <3>2
  <2>8. ASSUME NEW p \in Proc, BeginWave(p) PROVE TypeOK'
    BY <2>8 DEF BeginWave, TypeOK, store, env, View, Active
  <2>9. ASSUME NEW p \in Proc, NEW s \in Sub, LookUp(p, s) PROVE TypeOK'
    BY <2>9 DEF LookUp, SetView, TypeOK, store, env, View, Active, Result
  <2>10. ASSUME NEW p \in Proc, NEW s \in Sub, Pass(p, s) PROVE TypeOK'
    BY <2>10 DEF Pass, SetView, TypeOK, env, View, Active
  <2>11. ASSUME NEW p \in Proc, NEW s \in Sub, Fail(p, s) \/ Err(p, s) PROVE TypeOK'
    <3>1. /\ faults < MaxFaults /\ faults' = faults + 1
          /\ \E v \in {"failing", "error"} : view' = [view EXCEPT ![p][s] = v]
          /\ UNCHANGED <<pc, verb, rev, stage, asked, store, env, everGreen, advanced>>
      BY <2>11 DEF Fail, Err, Fault, SetView
    <3>2. faults' \in 0..MaxFaults
      BY <3>1 DEF TypeOK
    <3>3. {"failing", "error"} \subseteq View
      BY DEF View, Active
    <3> QED
      BY <3>1, <3>2, <3>3 DEF TypeOK, store, env
  <2>12. ASSUME NEW p \in Proc, NEW s \in Sub, PutRun(p, s) PROVE TypeOK'
    BY <2>12 DEF PutRun, Judged, SetView, TypeOK, env, View, Record, Result
  <2>13. ASSUME NEW p \in Proc, Abort(p) PROVE TypeOK'
    BY <2>13, LeaveType DEF Abort, TypeOK, store, env
  <2>14. ASSUME NEW p \in Proc, EndStage(p) PROVE TypeOK'
    <3>1. advanced' \in SUBSET Rev
      BY <2>14 DEF EndStage, TypeOK
    <3>2. CASE Leave(p)
      BY <2>14, <3>1, <3>2, LeaveType DEF EndStage, TypeOK, store, env
    <3>3. CASE ~ Leave(p)
      <4>1. stage[p] + 1 \in Stages
        BY <2>14, <3>3 DEF EndStage, TypeOK, Stages
      <4>2. Subs(stage[p] + 1) \in SUBSET Sub
        BY <2>0, <4>1
      <4>3. /\ stage' = [stage EXCEPT ![p] = @ + 1]
            /\ asked' = [asked EXCEPT ![p] = Subs(stage[p] + 1)]
            /\ view' = [view EXCEPT ![p] = Todo(Subs(stage[p] + 1))]
            /\ UNCHANGED <<pc, verb, rev, store, env, faults, everGreen>>
        BY <2>14, <3>3 DEF EndStage
      <4> QED
        BY <3>1, <4>1, <4>2, <4>3 DEF TypeOK, store, env
    <3> QED
      BY <3>2, <3>3
  <2>15. ASSUME NEW p \in Proc, Crash(p) PROVE TypeOK'
    BY <2>15, LeaveType DEF Crash, Fault, TypeOK, store, env
  <2>16. CASE Move \/ Lose \/ Approve
    BY <2>16 DEF Move, Lose, Approve, Fault, TypeOK, store, env, procs
  <2>17. CASE UNCHANGED vars
    BY <2>17 DEF TypeOK, vars, store, procs, env
  <2> QED
    BY Actions, <2>1, <2>2, <2>3, <2>4, <2>5, <2>6, <2>7, <2>8, <2>9, <2>10, <2>11,
       <2>12, <2>13, <2>14, <2>15, <2>16, <2>17
<1> QED
  BY <1>1, <1>2, PTL DEF Spec

-----------------------------------------------------------------------------
(* Stages run in order.  The invariant is RecordsBackProgress; everGreen   *)
(* and the set of recorded substages only grow, so what backs a process    *)
(* keeps backing it whatever the others do.                                *)

\* More green substages promote a stage that fewer promoted.
LEMMA PromotesGrows ==
  ASSUME NEW k \in Stages, NEW S, NEW T, S \subseteq T, Promotes(k, S)
  PROVE  Promotes(k, T)
<1> DEFINE A == S \intersect Subs(k)
           B == T \intersect Subs(k)
<1>1. IsFiniteSet(Subs(k))
  BY PipelineAssumption, FS_Subset DEF Subs
<1>2. IsFiniteSet(B) /\ IsFiniteSet(A)
  BY <1>1, FS_Subset
<1>3. Cardinality(A) <= Cardinality(B)
  BY <1>2, FS_Subset
<1>4. Cardinality(A) \in Nat /\ Cardinality(B) \in Nat /\ Cardinality(Subs(k)) \in Nat
  BY <1>1, <1>2, FS_CardinalityType
<1>5. Threshold[k] \in Nat
  BY PipelineAssumption
<1>6. 100 * Cardinality(A) >= Threshold[k] * Cardinality(Subs(k))
  BY DEF Promotes
<1>7. 100 * Cardinality(B) >= 100 * Cardinality(A)
  BY <1>3, <1>4
<1>8. Threshold[k] * Cardinality(Subs(k)) \in Int
  BY <1>4, <1>5
<1> HIDE DEF A, B
<1>9. 100 * Cardinality(B) >= Threshold[k] * Cardinality(Subs(k))
  BY <1>4, <1>6, <1>7, <1>8
<1> QED
  BY <1>9 DEF Promotes, B

\* The history only grows, and no record is ever taken back.
Grows == /\ \A r \in Rev : everGreen[r] \subseteq everGreen'[r]
         /\ \A r \in Rev, s \in Sub : runs[r][s] # "absent" => runs'[r][s] # "absent"

\* What was proven stays proven: everGreen loses nothing.
LEMMA ProvenGrows ==
  ASSUME Grows, NEW k, NEW r \in Rev, ProvenUpTo(k, r)
  PROVE  ProvenUpTo(k, r)'
BY PromotesGrows DEF Grows, ProvenUpTo

\* A process that does not move stays backed.
LEMMA StillBacked ==
  ASSUME TypeOK, Grows, NEW p \in Proc, Backed(p),
         pc'[p] = pc[p], verb'[p] = verb[p], rev'[p] = rev[p], stage'[p] = stage[p],
         asked'[p] = asked[p], view'[p] = view[p]
  PROVE  Backed(p)'
<1>1. rev[p] \in Rev
  BY DEF TypeOK
<1>2. SawRecords(p)'
  BY <1>1 DEF Backed, SawRecords, Grows
<1>3. WorksInItsStage(p)' /\ AsksTheStageInFront(p)'
  BY DEF Backed, WorksInItsStage, AsksTheStageInFront
<1>4. StandsOnProvenStages(p)'
  <2> SUFFICES ASSUME pc[p] = "stage" PROVE ProvenUpTo(stage[p], rev[p])'
    BY DEF StandsOnProvenStages, ProvenUpTo
  <2>1. ProvenUpTo(stage[p], rev[p])
    BY DEF Backed, StandsOnProvenStages
  <2> QED
    BY <1>1, <2>1, PromotesGrows DEF Grows, ProvenUpTo
<1>5. RunsAfterItsNeeds(p)'
  BY <1>1 DEF Backed, RunsAfterItsNeeds, Grows
<1> QED
  BY <1>2, <1>3, <1>4, <1>5 DEF Backed

\* Only p moves.
OthersStand(p) ==
  \A q \in Proc \ {p} :
    /\ pc'[q] = pc[q] /\ verb'[q] = verb[q] /\ rev'[q] = rev[q]
    /\ stage'[q] = stage[q] /\ asked'[q] = asked[q] /\ view'[q] = view[q]

\* Of a step that puts no record, only what p holds has to be shown backed.
LEMMA NoPut ==
  ASSUME TypeOK, RecordsBackProgress, NEW p \in Proc, OthersStand(p),
         UNCHANGED <<runs, everGreen, advanced>>, Backed(p)'
  PROVE  RecordsBackProgress'
<1>1. Grows
  BY DEF Grows
<1>2. \A q \in Proc : Backed(q)'
  BY <1>1, StillBacked DEF RecordsBackProgress, OthersStand
<1>3. StageOrder' /\ AdvancedIsProven'
  BY DEF RecordsBackProgress, StageOrder, AdvancedIsProven, ProvenUpTo
<1> QED
  BY <1>2, <1>3 DEF RecordsBackProgress

\* A process that leaves holds nothing, and what the others hold stays backed.
LEMMA LeaveBacked ==
  ASSUME TypeOK, NEW p \in Proc, Backed(p), Leave(p)
  PROVE  Backed(p)' /\ OthersStand(p)
<1>1. pc'[p] = "idle" /\ view'[p] = NoView /\ UNCHANGED <<verb, rev, stage, asked>>
  BY DEF Leave, TypeOK
<1>2. Backed(p)'
  BY <1>1 DEF Backed, SawRecords, WorksInItsStage, AsksTheStageInFront, StandsOnProvenStages,
              RunsAfterItsNeeds, NoView, Result, Active
<1>3. OthersStand(p)
  BY DEF Leave, TypeOK, OthersStand
<1> QED
  BY <1>2, <1>3

\* A process that sets out to run S, of a stage it may stand at, is backed.
LEMMA TodoBacked ==
  ASSUME NEW p \in Proc, pc'[p] = "stage", NEW S, S \subseteq Subs(stage'[p]),
         view'[p] = Todo(S), asked'[p] = S, ProvenUpTo(stage[p], rev[p])'
  PROVE  Backed(p)'
BY DEF Backed, SawRecords, WorksInItsStage, AsksTheStageInFront, StandsOnProvenStages,
       RunsAfterItsNeeds, Todo, Result, Active, Subs

\* A start binds p to a stage and to substages of that stage.
LEMMA BeginMoves ==
  ASSUME TypeOK, NEW p \in Proc, NEW v, NEW at, NEW r, NEW k, NEW S, NEW seen,
         Begin(p, v, at, r, k, S, seen)
  PROVE  /\ pc'[p] = at /\ verb'[p] = v /\ rev'[p] = r /\ stage'[p] = k
         /\ asked'[p] = S /\ view'[p] = seen
         /\ OthersStand(p)
         /\ UNCHANGED <<runs, everGreen, advanced>>
BY DEF TypeOK, Begin, OthersStand, store

\* A process that starts keeps the invariant.
LEMMA StartKeeps ==
  ASSUME TypeOK, RecordsBackProgress, NEW p \in Proc,
         \/ StartApply(p) \/ StartEvaluate(p)
         \/ \E r \in Rev : StartStages(p, r)
         \/ \E r \in Rev, k \in Stages, v \in {"stage", "substage"} :
              \E S \in SUBSET Subs(k) : StartStageJob(p, r, k, v, S)
  PROVE  RecordsBackProgress'
<1>1. \A r : ProvenUpTo(1, r)'
  BY DEF ProvenUpTo, Stages
<1>2. ASSUME NEW at \in {"mint", "record"}, NEW v, NEW S \in SUBSET Subs(1),
             Begin(p, v, at, head, 1, S, NoView)
      PROVE  RecordsBackProgress'
  <2>1. Backed(p)'
    BY <1>2, BeginMoves DEF Backed, SawRecords, WorksInItsStage, AsksTheStageInFront,
       StandsOnProvenStages, RunsAfterItsNeeds, NoView, Result, Active, Subs
  <2> QED
    BY <1>2, <2>1, BeginMoves, NoPut
<1>3. ASSUME NEW r, NEW v, NEW S \in SUBSET Subs(1), Begin(p, v, "stage", r, 1, S, Todo(S))
      PROVE  RecordsBackProgress'
  <2>1. Backed(p)'
    <3>1. ProvenUpTo(stage[p], rev[p])'
      BY <1>1, <1>3, BeginMoves DEF ProvenUpTo
    <3> QED
      BY <1>3, <3>1, BeginMoves, TodoBacked
  <2> QED
    BY <1>3, <2>1, BeginMoves, NoPut
<1>4. ASSUME NEW r, NEW v, NEW k \in Stages, k # 1, NEW S \in SUBSET Subs(k),
             Begin(p, v, "ask", r, k, S,
                   [s \in Sub |-> IF s \in Subs(k - 1) THEN "ask" ELSE "none"])
      PROVE  RecordsBackProgress'
  <2>1. k > 1
    BY <1>4 DEF Stages
  <2>2. Backed(p)'
    BY <1>4, <2>1, BeginMoves DEF Backed, SawRecords, WorksInItsStage, AsksTheStageInFront,
       StandsOnProvenStages, RunsAfterItsNeeds, Result, Active, Subs
  <2> QED
    BY <1>4, <2>2, BeginMoves, NoPut
<1>5. CASE StartApply(p) \/ StartEvaluate(p)
  BY <1>2, <1>5 DEF StartApply, StartEvaluate
<1>6. CASE \E r \in Rev : StartStages(p, r)
  BY <1>3, <1>6 DEF StartStages
<1>7. CASE \E r \in Rev, k \in Stages, v \in {"stage", "substage"} :
             \E S \in SUBSET Subs(k) : StartStageJob(p, r, k, v, S)
  <2>1. PICK r \in Rev, k \in Stages, v \in {"stage", "substage"} :
          \E S \in SUBSET Subs(k) : StartStageJob(p, r, k, v, S)
    BY <1>7
  <2>2. PICK S \in SUBSET Subs(k) : StartStageJob(p, r, k, v, S)
    BY <2>1
  <2> QED
    BY <1>3, <1>4, <2>2 DEF StartStageJob
<1> QED
  BY <1>5, <1>6, <1>7

\* The evaluate phase and the asking: nothing is put, and a stage is entered
\* only over a stage in front that promotes.
LEMMA EnterKeeps ==
  ASSUME TypeOK, RecordsBackProgress, NEW p \in Proc,
         \/ RecordEvaluation(p) \/ Mint(p) \/ EnterStage(p)
         \/ \E s \in Sub : AskRecord(p, s)
  PROVE  RecordsBackProgress'
<1>0. Backed(p) /\ rev[p] \in Rev /\ stage[p] \in Stages
  BY DEF RecordsBackProgress, TypeOK
<1>1. CASE Leave(p) /\ UNCHANGED <<runs, everGreen, advanced>>
  BY <1>0, <1>1, LeaveBacked, NoPut
<1>2. CASE RecordEvaluation(p)
  <2>1. PICK at \in {"idle", "mint"} :
          /\ pc' = [pc EXCEPT ![p] = at]
          /\ pc[p] = "record"
          /\ UNCHANGED <<runs, everGreen, advanced, verb, rev, stage, asked, view>>
    BY <1>2 DEF RecordEvaluation
  <2>2. Backed(p)' /\ OthersStand(p)
    BY <1>0, <2>1 DEF TypeOK, OthersStand, Backed, SawRecords, WorksInItsStage,
       AsksTheStageInFront, StandsOnProvenStages, RunsAfterItsNeeds
  <2> QED
    BY <2>1, <2>2, NoPut
<1>3. ASSUME pc' = [pc EXCEPT ![p] = "stage"],
             view' = [view EXCEPT ![p] = Todo(asked[p])],
             UNCHANGED <<verb, rev, stage, asked, runs, everGreen, advanced>>,
             ProvenUpTo(stage[p], rev[p])
      PROVE  RecordsBackProgress'
  <2>1. ProvenUpTo(stage[p], rev[p])'
    BY <1>3 DEF ProvenUpTo
  <2>2. asked[p] \subseteq Subs(stage[p])
    BY <1>0 DEF Backed, WorksInItsStage
  <2>3. Backed(p)'
    BY <1>3, <2>1, <2>2, TodoBacked DEF TypeOK
  <2>4. OthersStand(p)
    BY <1>3 DEF TypeOK, OthersStand
  <2> QED
    BY <1>3, <2>3, <2>4, NoPut
<1>4. CASE Mint(p)
  <2>1. ProvenUpTo(stage[p], rev[p])
    BY <1>0, <1>4 DEF Mint, Backed, WorksInItsStage, ProvenUpTo, Stages
  <2> QED
    BY <1>1, <1>3, <1>4, <2>1 DEF Mint
<1>5. CASE EnterStage(p)
  <2>1. CASE Promotes(stage[p] - 1, Green(p))
    <3> DEFINE k == stage[p] - 1
    <3>1. k \in Stages
      BY <1>0, <1>5, PipelineAssumption
         DEF EnterStage, Backed, AsksTheStageInFront, Stages
    <3>2. PICK s \in Sub : StageOf[s] = k
      BY <3>1, PipelineAssumption DEF Subs
    <3>3. view[p][s] \in Result
      BY <1>0, <1>5, <3>2 DEF EnterStage, InView, Backed, AsksTheStageInFront, Subs
    <3>4. ProvenUpTo(k, rev[p])
      BY <1>0, <3>2, <3>3 DEF Backed, SawRecords, RecordsBackProgress, StageOrder
    <3>5. Green(p) \subseteq everGreen[rev[p]]
      BY <1>0 DEF Green, InView, Backed, SawRecords
    <3>6. Promotes(k, everGreen[rev[p]])
      BY <2>1, <3>1, <3>5, PromotesGrows
    <3>7. ProvenUpTo(stage[p], rev[p])
      BY <1>0, <3>4, <3>6 DEF ProvenUpTo, Stages
    <3> QED
      BY <1>3, <1>5, <2>1, <3>7 DEF EnterStage, store
  <2> QED
    BY <1>1, <1>5, <2>1 DEF EnterStage, store
<1>6. ASSUME NEW s \in Sub, AskRecord(p, s) PROVE RecordsBackProgress'
  <2>1. CASE runs[rev[p]][s] = "absent"
    BY <1>1, <1>6, <2>1 DEF AskRecord, store
  <2>2. CASE runs[rev[p]][s] # "absent"
    <3>1. /\ view' = [view EXCEPT ![p][s] = runs[rev[p]][s]]
          /\ UNCHANGED <<pc, verb, rev, stage, asked, runs, everGreen, advanced>>
      BY <1>6, <2>2 DEF AskRecord, SetView, store
    <3>2. OthersStand(p)
      BY <3>1 DEF TypeOK, OthersStand
    <3>3. /\ view'[p][s] = runs[rev[p]][s]
          /\ \A t \in Sub \ {s} : view'[p][t] = view[p][t]
          /\ runs[rev[p]][s] \in Result
      BY <1>0, <2>2, <3>1 DEF TypeOK, Record
    <3>4. SawRecords(p)'
      BY <1>0, <2>2, <3>1, <3>3 DEF Backed, SawRecords, RecordsBackProgress
    <3>5. WorksInItsStage(p)' /\ RunsAfterItsNeeds(p)'
      BY <1>0, <3>1, <3>3 DEF Backed, WorksInItsStage, RunsAfterItsNeeds, Active, Result
    <3>6. AsksTheStageInFront(p)' /\ StandsOnProvenStages(p)'
      BY <1>0, <3>1, <3>3 DEF Backed, AsksTheStageInFront, StandsOnProvenStages, ProvenUpTo, Subs
    <3> QED
      BY <3>1, <3>2, <3>4, <3>5, <3>6, NoPut DEF Backed
  <2> QED
    BY <2>1, <2>2
<1> QED
  BY <1>2, <1>4, <1>5, <1>6

\* A goroutine of p takes substage s from one view to the next, and puts
\* nothing.
LEMMA MoveBacked ==
  ASSUME TypeOK, RecordsBackProgress, NEW p \in Proc, NEW s \in Sub, view[p][s] \in Active,
         NEW v \in View, view' = [view EXCEPT ![p][s] = v],
         UNCHANGED <<pc, verb, rev, stage, asked, runs, everGreen, advanced>>,
         v \in Result => v = "green" /\ runs[rev[p]][s] = "green"
  PROVE  RecordsBackProgress'
<1>0. Backed(p) /\ rev[p] \in Rev /\ pc[p] = "stage" /\ StageOf[s] = stage[p]
  BY DEF RecordsBackProgress, Backed, WorksInItsStage, TypeOK
<1>1. /\ view'[p][s] = v
      /\ \A t \in Sub \ {s} : view'[p][t] = view[p][t]
      /\ OthersStand(p)
  BY DEF TypeOK, OthersStand
<1>2. SawRecords(p)'
  BY <1>0, <1>1 DEF RecordsBackProgress, Backed, SawRecords, Result
<1>3. WorksInItsStage(p)' /\ RunsAfterItsNeeds(p)'
  BY <1>0, <1>1 DEF Backed, WorksInItsStage, RunsAfterItsNeeds
<1>4. AsksTheStageInFront(p)' /\ StandsOnProvenStages(p)'
  BY <1>0 DEF Backed, AsksTheStageInFront, StandsOnProvenStages, ProvenUpTo
<1> QED
  BY <1>1, <1>2, <1>3, <1>4, NoPut DEF Backed

\* A step of a substage's goroutine keeps the invariant.
LEMMA GoroutineKeeps ==
  ASSUME TypeOK, RecordsBackProgress, NEW p \in Proc, NEW s \in Sub,
         LookUp(p, s) \/ Pass(p, s) \/ Fail(p, s) \/ Err(p, s)
  PROVE  RecordsBackProgress'
<1>1. CASE LookUp(p, s)
  <2> DEFINE v == IF Reusable(rev[p], s) THEN "green" ELSE "run"
  <2>1. /\ view[p][s] \in Active
        /\ v \in View
        /\ v \in Result => v = "green" /\ runs[rev[p]][s] = "green"
    BY <1>1 DEF LookUp, Reusable, Active, View, Result
  <2>2. /\ view' = [view EXCEPT ![p][s] = v]
        /\ UNCHANGED <<pc, verb, rev, stage, asked, runs, everGreen, advanced>>
    BY <1>1 DEF LookUp, SetView, store
  <2> HIDE DEF v
  <2> QED
    BY <2>1, <2>2, MoveBacked
<1>2. CASE Pass(p, s) \/ Fail(p, s) \/ Err(p, s)
  <2>1. PICK v \in {"passed", "failing", "error"} : view' = [view EXCEPT ![p][s] = v]
    BY <1>2 DEF Pass, Fail, Err, SetView
  <2>2. /\ view[p][s] \in Active
        /\ UNCHANGED <<pc, verb, rev, stage, asked, runs, everGreen, advanced>>
    BY <1>2 DEF Pass, Fail, Err, Active, store
  <2>3. v \in View /\ v \notin Result
    BY DEF View, Active, Result
  <2> QED
    BY <2>1, <2>2, <2>3, MoveBacked
<1> QED
  BY <1>1, <1>2

\* Starting a wave keeps the invariant: the needs it checks are the needs it is judged by.
LEMMA WaveKeeps ==
  ASSUME TypeOK, RecordsBackProgress, NEW p \in Proc, BeginWave(p)
  PROVE  RecordsBackProgress'
<1>0. Backed(p) /\ pc[p] = "stage"
  BY DEF RecordsBackProgress, BeginWave
<1>1. /\ UNCHANGED <<pc, verb, rev, stage, asked, runs, everGreen, advanced>>
      /\ OthersStand(p)
  BY DEF BeginWave, store, TypeOK, OthersStand
<1>2. \A s \in Sub : view'[p][s] =
        IF s \notin Wave(p) THEN view[p][s]
        ELSE IF Waits(p, s) \subseteq Green(p) THEN "get" ELSE "held"
  BY DEF BeginWave, TypeOK
<1>3. SawRecords(p)' /\ AsksTheStageInFront(p)' /\ StandsOnProvenStages(p)'
  BY <1>0, <1>1, <1>2 DEF Backed, SawRecords, AsksTheStageInFront, StandsOnProvenStages,
     ProvenUpTo, Result
<1>4. WorksInItsStage(p)'
  BY <1>0, <1>1, <1>2 DEF Backed, WorksInItsStage, Wave, InView, Active
<1>5. RunsAfterItsNeeds(p)'
  <2>1. Green(p) \subseteq everGreen[rev[p]]
    BY <1>0 DEF Green, InView, Backed, SawRecords
  <2> QED
    BY <1>0, <1>1, <1>2, <2>1 DEF Backed, RunsAfterItsNeeds, Waits, Active
<1> QED
  BY <1>1, <1>3, <1>4, <1>5, NoPut DEF Backed

\* The put of a run is where a record appears, and it is the record of a
\* substage whose stage the process may stand at.
LEMMA PutKeeps ==
  ASSUME TypeOK, RecordsBackProgress, NEW p \in Proc, NEW s \in Sub, PutRun(p, s)
  PROVE  RecordsBackProgress'
<1>0. /\ Backed(p) /\ rev[p] \in Rev
      /\ pc[p] = "stage" /\ StageOf[s] = stage[p]
  BY DEF RecordsBackProgress, Backed, WorksInItsStage, TypeOK, PutRun, Active
<1>1. PICK result \in Result :
        /\ runs' = [runs EXCEPT ![rev[p]][s] = result]
        /\ view' = [view EXCEPT ![p][s] = result]
        /\ everGreen' = IF result = "green" THEN [everGreen EXCEPT ![rev[p]] = @ \union {s}]
                                            ELSE everGreen
        /\ UNCHANGED <<pc, verb, rev, stage, asked, advanced>>
  BY DEF PutRun, SetView, Judged, Result
<1>2. /\ view'[p][s] = result /\ runs'[rev[p]][s] = result
      /\ \A t \in Sub \ {s} : view'[p][t] = view[p][t]
      /\ \A r \in Rev, t \in Sub : r # rev[p] \/ t # s => runs'[r][t] = runs[r][t]
      /\ OthersStand(p)
  BY <1>0, <1>1 DEF TypeOK, OthersStand
<1>3. /\ \A r \in Rev : everGreen[r] \subseteq everGreen'[r]
      /\ result = "green" => s \in everGreen'[rev[p]]
  BY <1>0, <1>1 DEF TypeOK
<1>4. Grows
  BY <1>2, <1>3 DEF Grows, Result
<1>5. \A r \in Rev, t \in Sub : runs'[r][t] = "green" => t \in everGreen'[r]
  BY <1>2, <1>3 DEF RecordsBackProgress
<1>6. ProvenUpTo(StageOf[s], rev[p])
  BY <1>0 DEF Backed, StandsOnProvenStages
<1>7. StageOrder'
  <2> SUFFICES ASSUME NEW r \in Rev, NEW t \in Sub, runs'[r][t] # "absent"
               PROVE  ProvenUpTo(StageOf[t], r)'
    BY DEF StageOrder, ProvenUpTo
  <2>1. ProvenUpTo(StageOf[t], r)
    BY <1>2, <1>6 DEF RecordsBackProgress, StageOrder
  <2> QED
    BY <1>4, <2>1, PromotesGrows DEF Grows, ProvenUpTo
<1>8. AdvancedIsProven'
  BY <1>1, <1>4, PromotesGrows
     DEF TypeOK, RecordsBackProgress, AdvancedIsProven, ProvenUpTo, Grows
<1>9. Backed(p)'
  <2>1. SawRecords(p)'
    BY <1>0, <1>1, <1>2, <1>3, <1>4 DEF Backed, SawRecords, Grows, Result
  <2>2. WorksInItsStage(p)' /\ AsksTheStageInFront(p)'
    BY <1>0, <1>1, <1>2 DEF Backed, WorksInItsStage, AsksTheStageInFront, Active, Result
  <2>3. StandsOnProvenStages(p)'
    BY <1>0, <1>1, <1>4, <1>6, PromotesGrows DEF StandsOnProvenStages, ProvenUpTo, Grows
  <2>4. RunsAfterItsNeeds(p)'
    BY <1>0, <1>1, <1>2, <1>3 DEF Backed, RunsAfterItsNeeds, Active, Result
  <2> QED
    BY <2>1, <2>2, <2>3, <2>4 DEF Backed
<1>10. \A q \in Proc : Backed(q)'
  BY <1>2, <1>4, <1>9, StillBacked DEF RecordsBackProgress, OthersStand
<1> QED
  BY <1>5, <1>7, <1>8, <1>10 DEF RecordsBackProgress

\* The end of a stage is where an apply moves on, over what it saw green.
LEMMA EndKeeps ==
  ASSUME TypeOK, RecordsBackProgress, NEW p \in Proc,
         EndStage(p) \/ Abort(p) \/ Crash(p)
  PROVE  RecordsBackProgress'
<1>0. Backed(p) /\ rev[p] \in Rev /\ stage[p] \in Stages
  BY DEF RecordsBackProgress, TypeOK
<1>1. ASSUME Leave(p), UNCHANGED <<runs, everGreen, advanced>> PROVE RecordsBackProgress'
  BY <1>0, <1>1, LeaveBacked, NoPut
<1>2. CASE Abort(p) \/ Crash(p)
  BY <1>1, <1>2 DEF Abort, Crash, store
<1>3. CASE EndStage(p)
  <2> DEFINE goes == verb[p] \in {"apply", "stages"} /\ Promotes(stage[p], Green(p))
  <2>0. pc[p] = "stage" /\ UNCHANGED <<runs, everGreen>>
    BY <1>3 DEF EndStage, store
  <2>1. goes => \A j \in Stages : j <= stage[p] => Promotes(j, everGreen[rev[p]])
    <3> SUFFICES ASSUME goes, NEW j \in Stages, j <= stage[p]
                 PROVE  Promotes(j, everGreen[rev[p]])
      OBVIOUS
    <3>1. Green(p) \subseteq everGreen[rev[p]]
      BY <1>0 DEF Green, InView, Backed, SawRecords
    <3>2. CASE j = stage[p]
      BY <1>0, <3>1, <3>2, PromotesGrows
    <3>3. CASE j < stage[p]
      BY <1>0, <2>0, <3>3 DEF Backed, StandsOnProvenStages, ProvenUpTo
    <3> QED
      BY <1>0, <3>2, <3>3 DEF Stages
  <2>2. stage[p] \in Nat /\ LastStage \in Nat /\ stage[p] <= LastStage
    BY <1>0, PipelineAssumption DEF Stages
  <2>3. CASE goes /\ stage[p] < LastStage
    <3>1. /\ stage' = [stage EXCEPT ![p] = @ + 1]
          /\ asked' = [asked EXCEPT ![p] = Subs(stage[p] + 1)]
          /\ view' = [view EXCEPT ![p] = Todo(Subs(stage[p] + 1))]
          /\ UNCHANGED <<pc, verb, rev>>
          /\ advanced' = advanced
      BY <1>3, <2>3, <2>2 DEF EndStage
    <3>2. /\ pc'[p] = "stage" /\ rev'[p] = rev[p] /\ stage'[p] = stage[p] + 1
          /\ asked'[p] = Subs(stage'[p]) /\ view'[p] = Todo(Subs(stage'[p]))
          /\ OthersStand(p)
      BY <2>0, <3>1 DEF TypeOK, OthersStand
    <3>3. ProvenUpTo(stage[p], rev[p])'
      BY <1>0, <2>0, <2>1, <2>3, <3>2 DEF ProvenUpTo, Stages
    <3>4. Backed(p)'
      BY <3>2, <3>3, TodoBacked
    <3> QED
      BY <2>0, <3>1, <3>2, <3>4, NoPut
  <2>4. CASE goes /\ stage[p] = LastStage
    <3>1. Leave(p) /\ advanced' = advanced \union {rev[p]}
      BY <1>3, <2>4, <2>2 DEF EndStage
    <3>2. ProvenUpTo(LastStage + 1, rev[p])
      BY <2>1, <2>4 DEF ProvenUpTo, Stages
    <3>3. AdvancedIsProven'
      BY <2>0, <3>1, <3>2 DEF RecordsBackProgress, AdvancedIsProven, ProvenUpTo
    <3>4. Grows
      BY <2>0 DEF Grows
    <3>5. \A q \in Proc : Backed(q)'
      BY <1>0, <3>1, <3>4, LeaveBacked, StillBacked DEF RecordsBackProgress, OthersStand
    <3>6. StageOrder'
      BY <2>0 DEF RecordsBackProgress, StageOrder, ProvenUpTo
    <3> QED
      BY <2>0, <3>3, <3>5, <3>6 DEF RecordsBackProgress
  <2>5. CASE ~ goes
    BY <1>1, <1>3, <2>0, <2>5 DEF EndStage
  <2> QED
    BY <2>3, <2>4, <2>5, <2>2
<1> QED
  BY <1>2, <1>3

-----------------------------------------------------------------------------
\* Whatever processes run, whichever die and whatever the timing, the records
\* back the progress of every one of them.
THEOREM ProgressIsBacked == Spec => []RecordsBackProgress
<1>1. Init => RecordsBackProgress
  BY DEF Init, RecordsBackProgress, StageOrder, AdvancedIsProven, Backed, SawRecords,
     WorksInItsStage, AsksTheStageInFront, StandsOnProvenStages, RunsAfterItsNeeds,
     NoView, Result, Active
<1>2. TypeOK /\ RecordsBackProgress /\ [Next]_vars => RecordsBackProgress'
  <2> SUFFICES ASSUME TypeOK, RecordsBackProgress, [Next]_vars PROVE RecordsBackProgress'
    OBVIOUS
  <2>1. ASSUME UNCHANGED <<runs, procs, everGreen, advanced>> PROVE RecordsBackProgress'
    <3>1. Grows
      BY <2>1 DEF Grows
    <3>2. \A q \in Proc : Backed(q)'
      BY <2>1, <3>1, StillBacked DEF RecordsBackProgress, procs
    <3> QED
      BY <2>1, <3>2 DEF RecordsBackProgress, StageOrder, AdvancedIsProven, ProvenUpTo
  <2>2. CASE Move \/ Lose \/ Approve \/ UNCHANGED vars
    BY <2>1, <2>2 DEF Move, Lose, Approve, vars, store
  <2> QED
    BY <2>2, Actions, StartKeeps, EnterKeeps, GoroutineKeeps, WaveKeeps, PutKeeps, EndKeeps
<1> QED
  BY <1>1, <1>2, TypeCorrect, PTL DEF Spec

\* A substage is recorded for a revision only once every stage in front of its
\* own advanced on green records of that revision: applyNamedStage and
\* promoteRecorded look one stage back only, and that is enough.
THEOREM StagesInOrder == Spec => []StageOrder
<1>1. RecordsBackProgress => StageOrder
  BY DEF RecordsBackProgress
<1> QED
  BY <1>1, ProgressIsBacked, PTL

\* The barrier between two waves of applyStage and heldBy keep a substage from
\* running before its needs have passed for the revision.
THEOREM NeedsComeFirst == Spec => []NeedsFirst
<1>1. RecordsBackProgress => NeedsFirst
  BY DEF RecordsBackProgress, Backed, NeedsFirst
<1> QED
  BY <1>1, ProgressIsBacked, PTL

\* What applyPhases reports advanced to the end has green records in every
\* stage, enough for each stage's promotion.
THEOREM AdvancedWasProven == Spec => []AdvancedIsProven
<1>1. RecordsBackProgress => AdvancedIsProven
  BY DEF RecordsBackProgress
<1> QED
  BY <1>1, ProgressIsBacked, PTL
-----------------------------------------------------------------------------
(* Whole and phased agree: where a stage with needs promotes on all of it, *)
(* a process past a stage left a record for every substage of it.          *)

\* Where p stands, it runs whole stages and left records behind it.
Complete(p) == RunsTheWholeStage(p) /\ LeavesRecords(p)

\* No step takes a record back.
LEMMA RecordsLast ==
  ASSUME TypeOK, [Next]_vars, NEW r \in Rev, NEW s \in Sub, runs[r][s] # "absent"
  PROVE  runs'[r][s] # "absent"
<1>1. \/ UNCHANGED runs
      \/ \E p \in Proc, t \in Sub : PutRun(p, t)
  BY Actions DEF StartApply, StartEvaluate, StartStages, StartStageJob, Begin, RecordEvaluation,
     Mint, EnterStage, BeginWave, Abort, Crash, EndStage, AskRecord, LookUp, Pass, Fail, Err,
     Move, Lose, Approve, vars, store
<1>2. ASSUME NEW p \in Proc, NEW t \in Sub, PutRun(p, t) PROVE runs'[r][s] # "absent"
  <2>1. PICK result \in Result : runs' = [runs EXCEPT ![rev[p]][t] = result]
    BY <1>2 DEF PutRun, Judged, Result
  <2> QED
    BY <2>1 DEF TypeOK, Result
<1> QED
  BY <1>1, <1>2

\* Of a step that leaves q where it is, q stays complete.
LEMMA StillComplete ==
  ASSUME TypeOK, [Next]_vars, NEW q \in Proc, Complete(q),
         pc'[q] = pc[q], verb'[q] = verb[q], rev'[q] = rev[q], stage'[q] = stage[q],
         asked'[q] = asked[q], view'[q] = view[q]
  PROVE  Complete(q)'
<1>1. RunsTheWholeStage(q)'
  BY DEF Complete, RunsTheWholeStage
<1>2. rev[q] \in Rev
  BY DEF TypeOK
<1>3. LeavesRecords(q)'
  BY <1>2, RecordsLast DEF Complete, LeavesRecords, Subs
<1> QED
  BY <1>1, <1>3 DEF Complete

\* A process that leaves has nothing to answer for.
LEMMA LeaveComplete ==
  ASSUME TypeOK, NEW p \in Proc, Leave(p)
  PROVE  Complete(p)' /\ OthersStand(p)
<1>1. pc'[p] = "idle" /\ view'[p] = NoView
  BY DEF Leave, TypeOK
<1>2. Complete(p)'
  BY <1>1 DEF Complete, RunsTheWholeStage, LeavesRecords, NoView
<1>3. OthersStand(p)
  BY DEF Leave, TypeOK, OthersStand
<1> QED
  BY <1>2, <1>3

\* A process that sets out to run S: the whole stage, unless it is a job.
LEMMA TodoComplete ==
  ASSUME NEW p \in Proc, NEW S, pc'[p] = "stage", view'[p] = Todo(S), asked'[p] = S,
         verb'[p] \in {"apply", "stages"} => S = Subs(stage'[p]),
         LeavesRecords(p)'
  PROVE  Complete(p)'
BY DEF Complete, RunsTheWholeStage, Todo, Subs

\* One substage moves on in p's view; nothing is held and none is forgotten.
LEMMA MoveComplete ==
  ASSUME TypeOK, [Next]_vars, NEW p \in Proc, NEW s \in Sub, Complete(p),
         NEW v \in {"error"} \union Active \union Result,
         view' = [view EXCEPT ![p][s] = v],
         UNCHANGED <<pc, verb, rev, stage, asked>>
  PROVE  Complete(p)' /\ OthersStand(p)
<1>1. /\ view'[p][s] = v
      /\ \A t \in Sub \ {s} : view'[p][t] = view[p][t]
      /\ OthersStand(p)
  BY DEF TypeOK, OthersStand
<1>2. v # "held"
  BY DEF Active, Result
<1>3. RunsTheWholeStage(p)'
  BY <1>1, <1>2 DEF Complete, RunsTheWholeStage, Subs
<1>4. rev[p] \in Rev
  BY DEF TypeOK
<1>5. LeavesRecords(p)'
  BY <1>4, RecordsLast DEF Complete, LeavesRecords, Subs
<1> QED
  BY <1>1, <1>3, <1>5 DEF Complete

\* A stage that promotes on all of it has every substage of it green.
LEMMA AllAreGreen ==
  ASSUME NEW k \in Stages, Threshold[k] = 100, NEW S, Promotes(k, S)
  PROVE  Subs(k) \subseteq S
<1> DEFINE A == S \intersect Subs(k)
<1>1. IsFiniteSet(Subs(k))
  BY PipelineAssumption, FS_Subset DEF Subs
<1>2. /\ IsFiniteSet(A) /\ A \subseteq Subs(k)
      /\ Cardinality(A) <= Cardinality(Subs(k))
      /\ Cardinality(A) = Cardinality(Subs(k)) => A = Subs(k)
  BY <1>1, FS_Subset
<1>3. Cardinality(A) \in Nat /\ Cardinality(Subs(k)) \in Nat
  BY <1>1, <1>2, FS_CardinalityType
<1>4. 100 * Cardinality(A) >= 100 * Cardinality(Subs(k))
  BY DEF Promotes
<1> HIDE DEF A
<1>5. A = Subs(k)
  BY <1>2, <1>3, <1>4
<1> QED
  BY <1>5 DEF A

\* An apply whose stage is over and promotes has a record of all of it.
LEMMA StageIsRecorded ==
  ASSUME WholeWhereNeeded, TypeOK, RecordsBackProgress, NEW p \in Proc, Complete(p),
         pc[p] = "stage", verb[p] \in {"apply", "stages"}, Settled(p),
         InView(p, {"todo", "error"}) = {}, Promotes(stage[p], Green(p)),
         NEW s \in Subs(stage[p])
  PROVE  runs[rev[p]][s] # "absent"
<1>1. stage[p] \in Stages /\ s \in Sub /\ SawRecords(p)
  BY DEF TypeOK, Subs, RecordsBackProgress, Backed
<1>2. view[p][s] \in {"held"} \union Result
  BY <1>1 DEF Complete, RunsTheWholeStage, Settled, InView
<1>3. CASE view[p][s] = "held"
  <2>1. Threshold[stage[p]] = 100
    BY <1>1, <1>3 DEF Complete, RunsTheWholeStage, WholeWhereNeeded
  <2> QED
    BY <1>1, <1>3, <2>1, AllAreGreen DEF Green, InView
<1>4. CASE view[p][s] \in Result
  BY <1>1, <1>4 DEF SawRecords
<1> QED
  BY <1>2, <1>3, <1>4

\* Who starts has nothing behind it yet, and asks before it stands anywhere.
LEMMA StartCompletes ==
  ASSUME TypeOK, NEW p \in Proc,
         \/ StartApply(p) \/ StartEvaluate(p)
         \/ \E r \in Rev : StartStages(p, r)
         \/ \E r \in Rev, k \in Stages, v \in {"stage", "substage"} :
              \E S \in SUBSET Subs(k) : StartStageJob(p, r, k, v, S)
  PROVE  Complete(p)' /\ OthersStand(p)
<1>1. ASSUME NEW at \in {"mint", "record"}, NEW v, NEW S, Begin(p, v, at, head, 1, S, NoView),
             v \in {"apply", "stages"} => S = Subs(1)
      PROVE  Complete(p)' /\ OthersStand(p)
  BY <1>1, BeginMoves DEF Complete, RunsTheWholeStage, LeavesRecords, NoView, Subs
<1>2. ASSUME NEW r, NEW v, NEW S, Begin(p, v, "stage", r, 1, S, Todo(S)),
             v \in {"apply", "stages"} => S = Subs(1)
      PROVE  Complete(p)' /\ OthersStand(p)
  BY <1>2, BeginMoves DEF Complete, RunsTheWholeStage, LeavesRecords, Todo, Subs
<1>3. ASSUME NEW r, NEW v \in {"stage", "substage"}, NEW k \in Stages, NEW S,
             Begin(p, v, "ask", r, k, S,
                   [s \in Sub |-> IF s \in Subs(k - 1) THEN "ask" ELSE "none"])
      PROVE  Complete(p)' /\ OthersStand(p)
  BY <1>3, BeginMoves DEF Complete, RunsTheWholeStage, LeavesRecords
<1>4. CASE StartApply(p) \/ StartEvaluate(p)
  BY <1>1, <1>4 DEF StartApply, StartEvaluate
<1>5. CASE \E r \in Rev : StartStages(p, r)
  BY <1>2, <1>5 DEF StartStages
<1>6. CASE \E r \in Rev, k \in Stages, v \in {"stage", "substage"} :
             \E S \in SUBSET Subs(k) : StartStageJob(p, r, k, v, S)
  <2>1. PICK r \in Rev, k \in Stages, v \in {"stage", "substage"} :
          \E S \in SUBSET Subs(k) : StartStageJob(p, r, k, v, S)
    BY <1>6
  <2>2. PICK S \in SUBSET Subs(k) : StartStageJob(p, r, k, v, S)
    BY <2>1
  <2>3. CASE k = 1
    BY <1>2, <2>2, <2>3 DEF StartStageJob
  <2>4. CASE k # 1
    BY <1>3, <2>2, <2>4 DEF StartStageJob
  <2> QED
    BY <2>3, <2>4
<1> QED
  BY <1>4, <1>5, <1>6

\* The evaluate phase and the asking: a job enters a stage only once it saw a
\* record of every substage of the stage in front.
LEMMA EnterCompletes ==
  ASSUME TypeOK, RecordsBackProgress, NEW p \in Proc, Complete(p), [Next]_vars,
         \/ RecordEvaluation(p) \/ Mint(p) \/ EnterStage(p)
         \/ \E s \in Sub : AskRecord(p, s)
  PROVE  Complete(p)' /\ OthersStand(p)
<1>0. Backed(p)
  BY DEF RecordsBackProgress
<1>1. CASE Leave(p)
  BY <1>1, LeaveComplete
<1>2. CASE RecordEvaluation(p)
  <2>1. PICK at \in {"idle", "mint"} :
          /\ pc' = [pc EXCEPT ![p] = at]
          /\ pc[p] = "record"
          /\ UNCHANGED <<verb, rev, stage, asked, view>>
    BY <1>2 DEF RecordEvaluation
  <2> QED
    BY <2>1 DEF TypeOK, OthersStand, Complete, RunsTheWholeStage, LeavesRecords
<1>3. ASSUME pc' = [pc EXCEPT ![p] = "stage"],
             view' = [view EXCEPT ![p] = Todo(asked[p])],
             UNCHANGED <<verb, rev, stage, asked, runs>>,
             pc[p] # "idle",
             stage[p] > 1 => \A s \in Subs(stage[p] - 1) : runs[rev[p]][s] # "absent"
      PROVE  Complete(p)' /\ OthersStand(p)
  <2>1. /\ pc'[p] = "stage" /\ view'[p] = Todo(asked[p])
        /\ OthersStand(p)
    BY <1>3 DEF TypeOK, OthersStand
  <2>2. LeavesRecords(p)'
    BY <1>3 DEF LeavesRecords
  <2>3. verb[p] \in {"apply", "stages"} => asked[p] = Subs(stage[p])
    BY <1>3 DEF Complete, RunsTheWholeStage
  <2> QED
    BY <1>3, <2>1, <2>2, <2>3, TodoComplete
<1>4. CASE Mint(p)
  <2>1. stage[p] = 1
    BY <1>0, <1>4 DEF Mint, Backed, WorksInItsStage
  <2> QED
    BY <1>1, <1>3, <1>4, <2>1 DEF Mint
<1>5. CASE EnterStage(p)
  <2>1. \A s \in Subs(stage[p] - 1) : runs[rev[p]][s] # "absent"
    BY <1>0, <1>5 DEF EnterStage, InView, Backed, AsksTheStageInFront, SawRecords, Subs
  <2> QED
    BY <1>1, <1>3, <1>5, <2>1 DEF EnterStage, store
<1>6. ASSUME NEW s \in Sub, AskRecord(p, s) PROVE Complete(p)' /\ OthersStand(p)
  <2>1. CASE runs[rev[p]][s] = "absent"
    BY <1>1, <1>6, <2>1 DEF AskRecord
  <2>2. CASE runs[rev[p]][s] # "absent"
    <3>1. /\ view' = [view EXCEPT ![p][s] = runs[rev[p]][s]]
          /\ UNCHANGED <<pc, verb, rev, stage, asked>>
      BY <1>6, <2>2 DEF AskRecord, SetView
    <3>2. runs[rev[p]][s] \in Result
      BY <2>2 DEF TypeOK, Record
    <3> QED
      BY <3>1, <3>2, MoveComplete
  <2> QED
    BY <2>1, <2>2
<1> QED
  BY <1>2, <1>4, <1>5, <1>6

\* A wave holds only what has needs, and starts the rest.
LEMMA WaveCompletes ==
  ASSUME TypeOK, NEW p \in Proc, Complete(p), BeginWave(p)
  PROVE  Complete(p)' /\ OthersStand(p)
<1>1. /\ UNCHANGED <<pc, verb, rev, stage, asked, runs>>
      /\ OthersStand(p)
  BY DEF BeginWave, store, TypeOK, OthersStand
<1>2. \A s \in Sub : view'[p][s] =
        IF s \notin Wave(p) THEN view[p][s]
        ELSE IF Waits(p, s) \subseteq Green(p) THEN "get" ELSE "held"
  BY DEF BeginWave, TypeOK
<1>3. \A s \in Sub : ~ (Waits(p, s) \subseteq Green(p)) => Needs[s] # {}
  BY DEF Waits
<1>4. RunsTheWholeStage(p)'
  BY <1>1, <1>2, <1>3 DEF Complete, RunsTheWholeStage, Active, Subs
<1>5. LeavesRecords(p)'
  BY <1>1 DEF Complete, LeavesRecords
<1> QED
  BY <1>1, <1>4, <1>5 DEF Complete

\* A step of a substage's goroutine, its put included.
LEMMA GoroutineCompletes ==
  ASSUME TypeOK, [Next]_vars, NEW p \in Proc, Complete(p), NEW s \in Sub,
         \/ LookUp(p, s) \/ Pass(p, s) \/ PutRun(p, s) \/ Fail(p, s) \/ Err(p, s)
  PROVE  Complete(p)' /\ OthersStand(p)
<1>1. UNCHANGED <<pc, verb, rev, stage, asked>>
  BY DEF LookUp, Pass, PutRun, Fail, Err
<1>2. \E v \in {"error"} \union Active \union Result : view' = [view EXCEPT ![p][s] = v]
  BY DEF LookUp, Pass, PutRun, Fail, Err, SetView, Judged, Active, Result
<1> QED
  BY <1>1, <1>2, MoveComplete

\* The end of a stage: an apply moves on over a stage that is recorded.
LEMMA EndCompletes ==
  ASSUME WholeWhereNeeded, TypeOK, RecordsBackProgress, NEW p \in Proc, Complete(p),
         EndStage(p) \/ Abort(p) \/ Crash(p)
  PROVE  Complete(p)' /\ OthersStand(p)
<1>1. CASE Leave(p)
  BY <1>1, LeaveComplete
<1>2. CASE ~ Leave(p)
  <2>1. /\ EndStage(p) /\ pc[p] = "stage"
        /\ verb[p] \in {"apply", "stages"} /\ Promotes(stage[p], Green(p))
        /\ stage' = [stage EXCEPT ![p] = @ + 1]
        /\ asked' = [asked EXCEPT ![p] = Subs(stage[p] + 1)]
        /\ view' = [view EXCEPT ![p] = Todo(Subs(stage[p] + 1))]
        /\ UNCHANGED <<pc, verb, rev, runs>>
    BY <1>2 DEF EndStage, Abort, Crash, store
  <2>2. \A s \in Subs(stage[p]) : runs[rev[p]][s] # "absent"
    BY <2>1, StageIsRecorded DEF EndStage
  <2>3. /\ stage'[p] = stage[p] + 1 /\ stage[p] \in Nat
        /\ asked'[p] = Subs(stage'[p]) /\ view'[p] = Todo(Subs(stage'[p]))
        /\ OthersStand(p)
    BY <2>1 DEF TypeOK, OthersStand, Stages
  <2>4. stage'[p] - 1 = stage[p]
    BY <2>3
  <2>5. LeavesRecords(p)'
    BY <2>1, <2>2, <2>4 DEF LeavesRecords, Subs
  <2> QED
    BY <2>1, <2>3, <2>5, TodoComplete
<1> QED
  BY <1>1, <1>2

\* Whoever runs the stages of a revision, whole or in phases: one that is past
\* a stage left a record of every substage there, and promoteRecorded does not
\* refuse the job that comes after it.
THEOREM PhasesDoAgree ==
  ASSUME WholeWhereNeeded
  PROVE  Spec => []PhasesAgree
<1>1. Init => NothingGoesUnrecorded
  BY DEF Init, NothingGoesUnrecorded, RunsTheWholeStage, LeavesRecords, NoView
<1>2. TypeOK /\ RecordsBackProgress /\ NothingGoesUnrecorded /\ [Next]_vars
        => NothingGoesUnrecorded'
  <2> SUFFICES ASSUME TypeOK, RecordsBackProgress, NothingGoesUnrecorded, [Next]_vars,
                      NEW q \in Proc
               PROVE  Complete(q)'
    BY DEF NothingGoesUnrecorded, Complete
  <2>1. \A p \in Proc : Complete(p)
    BY DEF NothingGoesUnrecorded, Complete
  <2>2. ASSUME NEW p \in Proc, Complete(p)' /\ OthersStand(p) PROVE Complete(q)'
    BY <2>1, <2>2, StillComplete DEF OthersStand
  <2>3. CASE Move \/ Lose \/ Approve \/ UNCHANGED vars
    BY <2>1, <2>3, StillComplete DEF Move, Lose, Approve, vars, procs
  <2> QED
    BY <2>1, <2>2, <2>3, Actions, StartCompletes, EnterCompletes, WaveCompletes,
       GoroutineCompletes, EndCompletes
<1>3. NothingGoesUnrecorded => PhasesAgree
  BY DEF NothingGoesUnrecorded, PhasesAgree
<1> QED
  BY <1>1, <1>2, <1>3, TypeCorrect, ProgressIsBacked, PTL DEF Spec

-----------------------------------------------------------------------------
(* A green record stays, as long as one process runs at a time.            *)

OneAtATime == \A p \in Proc, q \in Proc : p = q

\* What runs again is not reusable, and what is green has its approvals.
RerunsWhatItMust ==
  /\ \A p \in Proc, s \in Sub :
       view[p][s] \in {"run", "failing"} => ~ Reusable(rev[p], s)
  /\ \A r \in Rev, s \in Sub : runs[r][s] = "green" => s \notin Gated \ approved

\* A process that runs nothing takes nothing away; the rest of the state that
\* the invariant reads stands still, or loses artifacts, or gains approvals.
LEMMA RunsNothing ==
  ASSUME TypeOK, OneAtATime, RerunsWhatItMust, NEW p \in Proc, UNCHANGED <<runs, kept, approved>>,
         \A s \in Sub : view'[p][s] \in {"run", "failing"} =>
           /\ rev'[p] = rev[p]
           /\ view[p][s] \in {"run", "failing"} \/ ~ Reusable(rev[p], s)
  PROVE  RerunsWhatItMust'
BY DEF OneAtATime, RerunsWhatItMust, Reusable, AtHand

\* Every step keeps it.
LEMMA RerunsGoOn ==
  ASSUME OneAtATime, TypeOK, RerunsWhatItMust, [Next]_vars
  PROVE  RerunsWhatItMust'
<1>1. ASSUME NEW p \in Proc, NEW v, NEW at, NEW r, NEW k, NEW S, NEW seen,
             Begin(p, v, at, r, k, S, seen),
             \A s \in Sub : seen[s] \notin {"run", "failing"}
      PROVE  RerunsWhatItMust'
  <2>1. view'[p] = seen /\ UNCHANGED <<runs, kept, approved>>
    BY <1>1 DEF Begin, TypeOK, store, env
  <2> QED
    BY <1>1, <2>1, RunsNothing
<1>2. \A S : \A s \in Sub : /\ Todo(S)[s] \notin {"run", "failing"}
                            /\ NoView[s] \notin {"run", "failing"}
  BY DEF Todo, NoView
<1>3. ASSUME NEW p \in Proc,
             \/ StartApply(p) \/ StartEvaluate(p)
             \/ \E r \in Rev : StartStages(p, r)
      PROVE  RerunsWhatItMust'
  BY <1>1, <1>2, <1>3 DEF StartApply, StartEvaluate, StartStages
<1>4. ASSUME NEW p \in Proc, NEW r, NEW k, NEW v, NEW S, StartStageJob(p, r, k, v, S)
      PROVE  RerunsWhatItMust'
  BY <1>1, <1>2, <1>4 DEF StartStageJob
<1>5. ASSUME NEW p \in Proc, Leave(p), UNCHANGED <<runs, kept, approved>> PROVE RerunsWhatItMust'
  <2>1. view'[p] = NoView
    BY <1>5 DEF Leave, TypeOK
  <2> QED
    BY <1>2, <1>5, <2>1, RunsNothing
<1>6. ASSUME NEW p \in Proc, NEW S, view' = [view EXCEPT ![p] = Todo(S)],
             UNCHANGED <<runs, kept, approved>>
      PROVE  RerunsWhatItMust'
  <2>1. view'[p] = Todo(S)
    BY <1>6 DEF TypeOK
  <2> QED
    BY <1>2, <1>6, <2>1, RunsNothing
<1>7. ASSUME NEW p \in Proc, NEW s \in Sub, NEW v, view' = [view EXCEPT ![p][s] = v],
             UNCHANGED <<runs, kept, approved, rev>>,
             v \in {"run", "failing"} =>
               view[p][s] \in {"run", "failing"} \/ ~ Reusable(rev[p], s)
      PROVE  RerunsWhatItMust'
  <2>1. view'[p][s] = v /\ \A t \in Sub \ {s} : view'[p][t] = view[p][t]
    BY <1>7 DEF TypeOK
  <2> QED
    BY <1>7, <2>1, RunsNothing
<1>8. ASSUME NEW p \in Proc, RecordEvaluation(p) PROVE RerunsWhatItMust'
  BY <1>8 DEF RecordEvaluation, env, RerunsWhatItMust, Reusable, AtHand
<1>9. ASSUME NEW p \in Proc, Mint(p) \/ EnterStage(p) \/ EndStage(p) PROVE RerunsWhatItMust'
  <2>1. UNCHANGED <<runs, kept, approved>>
    BY <1>9 DEF Mint, EnterStage, EndStage, store, env
  <2>2. Leave(p) \/ \E S : view' = [view EXCEPT ![p] = Todo(S)]
    BY <1>9 DEF Mint, EnterStage, EndStage
  <2> QED
    BY <1>5, <1>6, <2>1, <2>2
<1>10. ASSUME NEW p \in Proc, Abort(p) \/ Crash(p) PROVE RerunsWhatItMust'
  BY <1>5, <1>10 DEF Abort, Crash, store, env
<1>11. ASSUME NEW p \in Proc, BeginWave(p) PROVE RerunsWhatItMust'
  <2>1. \A s \in Sub : view'[p][s] \in {view[p][s], "get", "held"}
    BY <1>11 DEF BeginWave, TypeOK
  <2>2. UNCHANGED <<runs, kept, approved, rev>>
    BY <1>11 DEF BeginWave, store, env
  <2> QED
    BY <2>1, <2>2, RunsNothing
<1>12. ASSUME NEW p \in Proc, NEW s \in Sub, AskRecord(p, s) PROVE RerunsWhatItMust'
  <2>1. CASE runs[rev[p]][s] = "absent"
    BY <1>5, <1>12, <2>1 DEF AskRecord, store, env
  <2>2. CASE runs[rev[p]][s] # "absent"
    <3>1. runs[rev[p]][s] \in Result
      BY <2>2 DEF TypeOK, Record
    <3> QED
      BY <1>7, <1>12, <2>2, <3>1 DEF AskRecord, SetView, store, env, Result
  <2> QED
    BY <2>1, <2>2
<1>13. ASSUME NEW p \in Proc, NEW s \in Sub, LookUp(p, s) \/ Fail(p, s) \/ Err(p, s)
       PROVE  RerunsWhatItMust'
  <2>1. UNCHANGED <<runs, kept, approved, rev>>
    BY <1>13 DEF LookUp, Fail, Err, store, env
  <2>2. CASE LookUp(p, s)
    BY <1>7, <2>1, <2>2 DEF LookUp, SetView
  <2>3. CASE Fail(p, s)
    BY <1>7, <2>1, <2>3 DEF Fail, SetView
  <2>4. CASE Err(p, s)
    BY <1>7, <2>1, <2>4 DEF Err, SetView
  <2> QED
    BY <1>13, <2>2, <2>3, <2>4
<1>14. ASSUME NEW p \in Proc, NEW s \in Sub, Pass(p, s) PROVE RerunsWhatItMust'
  <2>1. /\ view' = [view EXCEPT ![p][s] = "passed"]
        /\ UNCHANGED <<runs, approved, rev>>
        /\ kept' \subseteq kept \union {<<rev[p], s>>}
    BY <1>14 DEF Pass, SetView, env
  <2>2. view'[p][s] = "passed" /\ \A t \in Sub \ {s} : view'[p][t] = view[p][t]
    BY <2>1 DEF TypeOK
  <2> QED
    BY <2>1, <2>2 DEF OneAtATime, RerunsWhatItMust, Reusable, AtHand
<1>15. ASSUME NEW p \in Proc, NEW s \in Sub, PutRun(p, s) PROVE RerunsWhatItMust'
  <2>1. PICK result \in Result :
          /\ runs' = [runs EXCEPT ![rev[p]][s] = result]
          /\ view' = [view EXCEPT ![p][s] = result]
          /\ result = "green" => s \notin Gated \ approved
          /\ UNCHANGED <<kept, approved, rev>>
    BY <1>15 DEF PutRun, SetView, Judged, Result, env
  <2>2. /\ view'[p][s] = result /\ \A t \in Sub \ {s} : view'[p][t] = view[p][t]
        /\ \A t \in Sub \ {s} : runs'[rev[p]][t] = runs[rev[p]][t]
        /\ \A r \in Rev, t \in Sub : runs'[r][t] = runs[r][t] \/ (t = s /\ runs'[r][t] = result)
    BY <2>1 DEF TypeOK
  <2> QED
    BY <2>1, <2>2 DEF OneAtATime, RerunsWhatItMust, Reusable, AtHand, Result
<1>16. CASE Move \/ Lose \/ Approve \/ UNCHANGED vars
  <2>1. UNCHANGED <<runs, view, rev>> /\ kept' \subseteq kept /\ approved \subseteq approved'
    BY <1>16 DEF Move, Lose, Approve, vars, store, procs, env
  <2> QED
    BY <2>1 DEF RerunsWhatItMust, Reusable, AtHand
<1> QED
  BY <1>3, <1>4, <1>8, <1>9, <1>10, <1>11, <1>12, <1>13, <1>14, <1>15, <1>16, Actions

\* A green record that is at hand is not put over by a run that fails or waits
\* for a person: runOrReuse runs again only what it could not bring back, and
\* nobody takes an approval away.
THEOREM GreenIsKept ==
  ASSUME OneAtATime
  PROVE  Spec => GreenStays
<1>1. Init => RerunsWhatItMust
  BY DEF Init, RerunsWhatItMust, NoView
<1>2. TypeOK /\ RerunsWhatItMust /\ [Next]_vars => RerunsWhatItMust'
  BY RerunsGoOn
<1>3. TypeOK /\ RerunsWhatItMust /\ [Next]_vars =>
        [\A r \in Rev, s \in Sub : Reusable(r, s) => runs'[r][s] = "green"]_vars
  <2> SUFFICES ASSUME TypeOK, RerunsWhatItMust, [Next]_vars,
                      NEW r \in Rev, NEW s \in Sub, Reusable(r, s)
               PROVE  runs'[r][s] = "green"
    OBVIOUS
  <2>1. \/ UNCHANGED runs
        \/ \E p \in Proc, t \in Sub : PutRun(p, t)
    BY Actions DEF StartApply, StartEvaluate, StartStages, StartStageJob, Begin,
       RecordEvaluation, Mint, EnterStage, BeginWave, Abort, Crash, EndStage, AskRecord, LookUp,
       Pass, Fail, Err, Move, Lose, Approve, vars, store
  <2>2. ASSUME NEW p \in Proc, NEW t \in Sub, PutRun(p, t), rev[p] = r, t = s
        PROVE  runs'[r][s] = "green"
    <3>1. view[p][t] = "passed" /\ runs[r][s] = "green"
      BY <2>2 DEF PutRun, RerunsWhatItMust, Reusable
    <3>2. runs' = [runs EXCEPT ![r][s] = "green"]
      BY <2>2, <3>1 DEF PutRun, Judged, RerunsWhatItMust
    <3> QED
      BY <3>2 DEF TypeOK
  <2>3. ASSUME NEW p \in Proc, NEW t \in Sub, PutRun(p, t), rev[p] # r \/ t # s
        PROVE  runs'[r][s] = runs[r][s]
    BY <2>3 DEF PutRun, TypeOK
  <2> QED
    BY <2>1, <2>2, <2>3 DEF Reusable
<1> QED
  BY <1>1, <1>2, <1>3, TypeCorrect, PTL DEF Spec, GreenStays

-----------------------------------------------------------------------------
\* The set a stage advanced on is one of Enough.
LEMMA ProvenIsReached ==
  ASSUME TypeOK, NEW k \in Nat, NEW r \in Rev, ProvenUpTo(k, r)
  PROVE  Discipline!Reached(k, r)
BY DEF TypeOK, ProvenUpTo, Discipline!Reached, Enough, Stages

\* A step is, for who sees the records alone, a record that appears where it
\* may, a revision that is through, or nothing.
LEMMA StepsKeepDiscipline ==
  ASSUME TypeOK, RecordsBackProgress, [Next]_vars
  PROVE  [Discipline!Next]_(Discipline!promise)
<1> DEFINE recorded == [r \in Rev |-> {s \in Sub : runs[r][s] # "absent"}]
<1>1. ASSUME UNCHANGED <<runs, everGreen, advanced>> PROVE UNCHANGED Discipline!promise
  BY <1>1 DEF Discipline!promise
<1>2. ASSUME NEW p \in Proc, NEW s \in Sub, PutRun(p, s)
      PROVE  Discipline!RecordRun(rev[p], s) /\ rev[p] \in Rev
  <2>1. /\ Backed(p) /\ rev[p] \in Rev
        /\ pc[p] = "stage" /\ StageOf[s] = stage[p] /\ stage[p] \in Nat
    BY <1>2 DEF RecordsBackProgress, Backed, WorksInItsStage, TypeOK, PutRun, Active, Stages
  <2>2. Discipline!Reached(StageOf[s], rev[p])
    BY <2>1, ProvenIsReached DEF Backed, StandsOnProvenStages
  <2>3. PICK result \in Result :
          /\ runs' = [runs EXCEPT ![rev[p]][s] = result]
          /\ everGreen' = IF result = "green" THEN [everGreen EXCEPT ![rev[p]] = @ \union {s}]
                                              ELSE everGreen
          /\ advanced' = advanced
    BY <1>2 DEF PutRun, SetView, Judged, Result
  <2>4. recorded' = [recorded EXCEPT ![rev[p]] = @ \union {s}]
    <3>1. \A r \in Rev : {t \in Sub : runs'[r][t] # "absent"}
                         = IF r = rev[p] THEN recorded[r] \union {s} ELSE recorded[r]
      BY <2>1, <2>3 DEF TypeOK, Result
    <3> QED
      BY <2>1, <3>1
  <2> QED
    BY <2>1, <2>2, <2>3, <2>4 DEF Discipline!RecordRun
<1>3. ASSUME NEW p \in Proc, EndStage(p), advanced' # advanced
      PROVE  Discipline!Finish(rev[p]) /\ rev[p] \in Rev
  <2>1. /\ advanced' = advanced \union {rev[p]} /\ UNCHANGED <<runs, everGreen>>
        /\ rev[p] \in Rev
    BY <1>3 DEF EndStage, store, TypeOK
  <2>2. AdvancedIsProven'
    BY <1>3, EndKeeps DEF RecordsBackProgress
  <2>3. ProvenUpTo(LastStage + 1, rev[p])
    BY <2>1, <2>2 DEF AdvancedIsProven, ProvenUpTo
  <2>4. Discipline!Reached(LastStage + 1, rev[p])
    BY <2>1, <2>3, ProvenIsReached, PipelineAssumption
  <2> QED
    BY <2>1, <2>4 DEF Discipline!Finish
<1>4. ASSUME NEW p \in Proc, EndStage(p), advanced' = advanced
      PROVE  UNCHANGED <<runs, everGreen, advanced>>
  BY <1>4 DEF EndStage, store
<1>5. \/ UNCHANGED <<runs, everGreen, advanced>>
      \/ \E p \in Proc : EndStage(p) \/ \E s \in Sub : PutRun(p, s)
  BY Actions DEF StartApply, StartEvaluate, StartStages, StartStageJob, Begin, RecordEvaluation,
     Mint, EnterStage, BeginWave, Abort, Crash, AskRecord, LookUp, Pass, Fail, Err, Move, Lose,
     Approve, vars, store
<1>6. ASSUME NEW p \in Proc, NEW s \in Sub, PutRun(p, s) PROVE Discipline!Next
  BY <1>2, <1>6 DEF Discipline!Next, Discipline!RecordRun, Discipline!Reached
<1>7. ASSUME NEW p \in Proc, EndStage(p)
      PROVE  Discipline!Next \/ UNCHANGED <<runs, everGreen, advanced>>
  <2>1. CASE advanced' = advanced
    BY <1>4, <1>7, <2>1
  <2>2. CASE advanced' # advanced
    BY <1>3, <1>7, <2>2 DEF Discipline!Next, Discipline!Finish, Discipline!Reached
  <2> QED
    BY <2>1, <2>2
<1>8. ASSUME \E p \in Proc : EndStage(p) \/ \E s \in Sub : PutRun(p, s)
      PROVE  Discipline!Next \/ UNCHANGED <<runs, everGreen, advanced>>
  <2>1. PICK p \in Proc : EndStage(p) \/ \E s \in Sub : PutRun(p, s)
    BY <1>8
  <2> QED
    BY <1>6, <1>7, <2>1
<1> HIDE DEF recorded
<1>9. Discipline!Next \/ UNCHANGED <<runs, everGreen, advanced>>
  BY <1>5, <1>8
<1> QED
  BY <1>1, <1>9

\* The loop implements the discipline, for any pipeline, any number of
\* processes and any faults: applyPhases, applyNamedStage and promoteRecorded
\* together never let a record appear out of order, nor take one back.
THEOREM DisciplineIsKept == Spec => KeepsDiscipline
<1>1. Init => Discipline!Init
  BY DEF Init, Discipline!Init
<1>2. TypeOK /\ RecordsBackProgress /\ [Next]_vars => [Discipline!Next]_(Discipline!promise)
  BY StepsKeepDiscipline
<1> QED
  BY <1>1, <1>2, TypeCorrect, ProgressIsBacked, PTL DEF Spec, Discipline!Spec, KeepsDiscipline
=============================================================================
