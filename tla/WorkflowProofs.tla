---------------------------- MODULE WorkflowProofs ----------------------------
(***************************************************************************)
(* Proofs about Workflow, for every pipeline the configuration admits and  *)
(* every way to cut it.  A job knows nothing of the others but their       *)
(* success, their records and their files; that this is enough rests on    *)
(* the order the needs of the jobs give them (InOrder), on what a job that *)
(* worked has proven (JobInv), and on a file of an earlier stage being     *)
(* brought and restored to every job that may read it (Brought).           *)
(***************************************************************************)
EXTENDS Workflow, FiniteSetTheorems, TLAPS

-----------------------------------------------------------------------------
\* The inductive invariant.  Its types leave the two counters to Counters.
Typed ==
  /\ cut \in Cuts
  /\ step \in [AllJob -> {"waiting", "phase", "bring", "enter", "run", "pack",
                          "push", "list", "file", "success", "failure", "skipped"}]
  /\ clone \in [AllJob -> Commits]
  /\ wrote \in [AllJob -> SUBSET Writes]
  /\ at \in [AllJob -> DOMAIN Stages]
  /\ view \in [AllJob -> [Substage -> {"todo", "green", "failed", "held"}]]
  /\ here \in [AllJob -> SUBSET Builds] /\ made \in [AllJob -> SUBSET Builds]
  /\ place \in [AllJob -> SUBSET Builds] /\ kept \in [AllJob -> SUBSET Builds]
  /\ answer \in {"none", "superseded", "converged", "skip", "proceed"}
  /\ revision \in Commits \cup {NoCommit}
  /\ record \in [Substage -> [Commits -> {"none", "green", "failed"}]]
  /\ tip \in Nat /\ issues \in Nat /\ faults \in 0 .. MaxFaults
  /\ lacked \subseteq Substage \X Builds
  /\ refused \subseteq AllJob

Begun(j)  == step[j] \notin {"waiting", "skipped"}
Worked(j) == step[j] \in {"pack", "push", "success"}

\* A job is over with its part of stage l, and the part is enough.
Passed(j, l) ==
  /\ \A s \in j \cap Stages[l] : view[j][s] # "todo"
  /\ IF cut = "substage" THEN \A s \in j \cap Stages[l] : view[j][s] = "green"
     ELSE Promotes(l, {s \in j \cap Stages[l] : view[j][s] = "green"})

\* The counters count what happened once each: a push that moved the tip has
\* substages of its own, an issue a job of its own.
Pushed == UNION {wrote[j] : j \in {i \in Gated(cut) : step[i] = "success"}}
Filing == {j \in AllJob : step[j] = "file"}
Counters == /\ tip <= Cardinality(Pushed) + faults
            /\ issues + Cardinality(Filing) <= Cardinality(AllJob)

\* The revision is answered once, before any job that is told it starts.
Answered == step[Evaluate] = "success"
EvaluatedOnce ==
  /\ \A j \in {SelfReconcile, Evaluate} :
       step[j] \in {"waiting", "phase", "list", "file", "success", "failure", "skipped"}
  /\ Answered => revision \in Commits

\* What a job knows is its own and recorded.
OwnView(j) ==
  /\ wrote[j] \subseteq j
  /\ step[j] \in {"bring", "enter"} => \A s \in Substage : view[j][s] = "todo"
  /\ \A s \in Substage : view[j][s] # "todo" => s \in j /\ Answered
  /\ \A s \in Substage : /\ view[j][s] = "green" => record[s][revision] = "green"
                         /\ view[j][s] = "failed" => record[s][revision] # "none"

\* What it built is green, what it kept was recorded.
OwnFiles(j) ==
  /\ \A s \in made[j] : view[j][s] = "green"
  /\ \A s \in kept[j] : /\ s \in j /\ Answered /\ record[s][revision] # "none"
                        /\ cut = "stages" => record[s][revision] = "green"

\* It stands in its own stage, and the stages behind it are passed.
OwnStage(j) ==
  /\ Begun(j) => Answered /\ (cut # "stages" => at[j] = FirstStage(j))
  /\ Begun(j) /\ cut = "stages" => \A l \in 1 .. at[j] - 1 : Passed(j, l)
  /\ Worked(j) => Passed(j, at[j]) /\ (cut = "stages" => at[j] = Len(Stages))

\* The one job of a whole apply has what an earlier attempt kept.
WholeFiles(j) == cut = "stages" =>
  /\ step[j] \in {"enter", "run"} => kept[j] \subseteq here[j]
  /\ step[j] = "run" => \A s \in Substage :
       /\ view[j][s] = "failed" => s \notin kept[j]
       /\ view[j][s] = "green" => Built(s) \subseteq place[j]

JobInv(j) == OwnView(j) /\ OwnFiles(j) /\ OwnStage(j) /\ WholeFiles(j)

\* A job begins when every job of the stages in front of it is green.
InOrder == \A i, j \in Gated(cut) :
  Begun(j) /\ FirstStage(i) < FirstStage(j) => step[i] = "success"

\* What an earlier job kept is on the runner, and then where targets read it.
Brought == \A i, j \in Gated(cut) : FirstStage(i) < FirstStage(j) =>
  /\ step[j] = "enter" => kept[i] \cap UsesOf(j) \subseteq here[j]
  /\ step[j] = "run" => kept[i] \cap UsesOf(j) \subseteq place[j]

Refusals == \A j \in refused :
  /\ j \in Gated(cut) /\ HeldInFront(j)
  /\ \A i \in StageInFront(j) : step[i] = "success"

IInv == /\ Typed /\ Counters /\ EvaluatedOnce
        /\ \A j \in Gated(cut) : JobInv(j)
        /\ InOrder /\ Brought /\ Refusals /\ ReadsWhatStagesBuilt

-----------------------------------------------------------------------------
\* The stages and the jobs.
LEMMA StagesAre ==
  /\ Len(Stages) \in Nat /\ Len(Stages) >= 1 /\ DOMAIN Stages = 1 .. Len(Stages)
  /\ \A k \in DOMAIN Stages : /\ Stages[k] \subseteq Substage /\ Stages[k] # {}
                              /\ IsFiniteSet(Stages[k]) /\ Enough[k] \in 0 .. Cardinality(Stages[k])
  /\ \A s \in Substage : \E k \in DOMAIN Stages : s \in Stages[k]
<1> USE StagesAssumption
<1>1. Len(Stages) \in Nat /\ DOMAIN Stages = 1 .. Len(Stages)
  OBVIOUS
<1>2. Len(Stages) >= 1
  BY <1>1, SMT
<1>3. \A k \in DOMAIN Stages : Stages[k] \subseteq Substage
  BY DEF Substage
<1>4. \A s \in Substage : \E k \in DOMAIN Stages : s \in Stages[k]
  BY DEF Substage
<1> QED
  BY <1>1, <1>2, <1>3, <1>4

LEMMA FirstIs ==
  ASSUME NEW j, NEW k \in DOMAIN Stages, j \cap Stages[k] # {},
         \A l \in 1 .. k - 1 : j \cap Stages[l] = {}
  PROVE  FirstStage(j) = k
<1> DEFINE P(n) == j \cap Stages[n] # {} /\ \A l \in 1 .. n - 1 : j \cap Stages[l] = {}
<1>1. \A n \in DOMAIN Stages : P(n) => n = k
  BY StagesAre
<1>2. FirstStage(j) = CHOOSE n \in DOMAIN Stages : P(n)
  BY DEF FirstStage
<1>3. P(k)
  OBVIOUS
<1> HIDE DEF P
<1> QED
  BY <1>1, <1>2, <1>3

LEMMA OneStage ==
  ASSUME NEW k \in DOMAIN Stages, NEW s \in Stages[k]
  PROVE  StageOf(s) = k
<1>1. \A l \in DOMAIN Stages : s \in Stages[l] => l = k
  BY StagesAssumption
<1> QED
  BY <1>1 DEF StageOf

\* A set of substages of one stage stands in it.
LEMMA FirstOfOne ==
  ASSUME NEW k \in DOMAIN Stages, NEW j, j # {}, j \subseteq Stages[k]
  PROVE  FirstStage(j) = k
<1>1. \A l \in 1 .. k - 1 : l \in DOMAIN Stages /\ l # k
  BY StagesAre
<1>2. \A l \in 1 .. k - 1 : j \cap Stages[l] = {}
  BY <1>1, StagesAssumption
<1> QED
  BY <1>2, FirstIs

Cut == {"stages", "stage", "substage"}

LEMMA GatedAre ==
  ASSUME NEW c \in Cut, NEW j \in Gated(c)
  PROVE  /\ j \subseteq Substage /\ j # {} /\ j # SelfReconcile /\ j # Evaluate
         /\ FirstStage(j) \in DOMAIN Stages /\ j \cap Stages[FirstStage(j)] # {}
         /\ c = "stages" => FirstStage(j) = 1 /\ j = Substage
         /\ c # "stages" => j \subseteq Stages[FirstStage(j)]
         /\ c = "stage" => j = Stages[FirstStage(j)]
<1>1. CASE c = "stages"
  <2>1. j = Substage
    BY <1>1 DEF Gated
  <2>2. 1 \in DOMAIN Stages /\ j \cap Stages[1] # {}
    BY <2>1, StagesAre
  <2>3. FirstStage(j) = 1
    BY <2>2, FirstIs, \A l \in 1 .. 1 - 1 : FALSE
  <2> QED
    BY <1>1, <2>1, <2>2, <2>3, StagesAssumption DEF SelfReconcile, Evaluate
<1>2. CASE c = "stage"
  <2>1. PICK k \in DOMAIN Stages : j = Stages[k]
    BY <1>2 DEF Gated
  <2>2. FirstStage(j) = k /\ j # {} /\ j \subseteq Substage
    BY <2>1, FirstOfOne, StagesAre
  <2> QED
    BY <1>2, <2>1, <2>2, StagesAssumption DEF SelfReconcile, Evaluate
<1>3. CASE c = "substage"
  <2>1. PICK s \in Substage : j = {s}
    BY <1>3 DEF Gated
  <2>2. PICK k \in DOMAIN Stages : s \in Stages[k]
    BY StagesAre
  <2>3. FirstStage(j) = k
    BY <2>1, <2>2, FirstOfOne
  <2> QED
    BY <1>3, <2>1, <2>2, <2>3, StagesAssumption DEF SelfReconcile, Evaluate
<1> QED
  BY <1>1, <1>2, <1>3 DEF Cut

LEMMA GatedApart ==
  ASSUME NEW c \in Cut, NEW i \in Gated(c), NEW j \in Gated(c), i \cap j # {}
  PROVE  i = j
<1>1. CASE c = "stages"
  BY <1>1 DEF Gated
<1>2. CASE c = "stage"
  <2>1. PICK k \in DOMAIN Stages, l \in DOMAIN Stages : i = Stages[k] /\ j = Stages[l]
    BY <1>2 DEF Gated
  <2> QED
    BY <2>1, StagesAssumption
<1>3. CASE c = "substage"
  BY <1>3 DEF Gated
<1> QED
  BY <1>1, <1>2, <1>3 DEF Cut

LEMMA GatedCover ==
  ASSUME NEW c \in Cut, NEW k \in DOMAIN Stages, NEW s \in Stages[k]
  PROVE  \E j \in Gated(c) : /\ s \in j
                             /\ c # "stages" => FirstStage(j) = k
<1>1. CASE c = "stages"
  BY <1>1, StagesAre DEF Gated
<1>2. CASE c = "stage"
  <2>1. Stages[k] \in Gated(c)
    BY <1>2 DEF Gated
  <2> QED
    BY <2>1, FirstOfOne, StagesAre
<1>3. CASE c = "substage"
  <2>1. {s} \in Gated(c)
    BY <1>3, StagesAre DEF Gated
  <2>2. FirstStage({s}) = k
    BY FirstOfOne
  <2> QED
    BY <2>1, <2>2
<1> QED
  BY <1>1, <1>2, <1>3 DEF Cut

\* The image of a finite set is finite.
LEMMA FiniteImage ==
  ASSUME NEW S, IsFiniteSet(S), NEW f, DOMAIN f = S
  PROVE  IsFiniteSet({f[x] : x \in S})
<1> DEFINE T == {f[x] : x \in S}
<1>1. [x \in S |-> f[x]] \in Surjection(S, T)
  BY DEF Surjection
<1> QED
  BY <1>1, FS_Surjection

LEMMA FiniteJobs ==
  /\ IsFiniteSet(Substage) /\ IsFiniteSet(Writes) /\ IsFiniteSet(AllJob)
<1>1. IsFiniteSet(DOMAIN Stages)
  BY StagesAre, FS_Interval
<1>2. IsFiniteSet({Stages[k] : k \in DOMAIN Stages})
  BY <1>1, FiniteImage
<1>3. IsFiniteSet(Substage)
  BY <1>2, StagesAre, FS_UNION DEF Substage
<1>4. IsFiniteSet(Writes)
  BY <1>3, StagesAssumption, FS_Subset
<1>5. IsFiniteSet({{s} : s \in Substage})
  <2> DEFINE f == [s \in Substage |-> {s}]
  <2>1. IsFiniteSet({f[s] : s \in Substage})
    BY <1>3, FiniteImage
  <2> QED
    BY <2>1
<1>6. \A c \in Cut : IsFiniteSet(Gated(c))
  <2>1. IsFiniteSet({Substage})
    BY FS_Singleton
  <2> QED
    BY <1>2, <1>5, <2>1 DEF Gated, Cut
<1>7. Cuts \subseteq Cut /\ IsFiniteSet(Cut)
  <2>1. IsFiniteSet({"stages"}) /\ IsFiniteSet({"stages"} \cup {"stage"})
    BY FS_AddElement, FS_Singleton
  <2>2. IsFiniteSet(({"stages"} \cup {"stage"}) \cup {"substage"})
    BY <2>1, FS_AddElement
  <2>3. Cut = ({"stages"} \cup {"stage"}) \cup {"substage"}
    BY DEF Cut
  <2> QED
    BY <2>2, <2>3, StagesAssumption DEF Cut
<1>8. IsFiniteSet(Cuts)
  BY <1>7, FS_Subset
<1>9. IsFiniteSet(UNION {Gated(c) : c \in Cuts})
  <2> DEFINE f == [c \in Cuts |-> Gated(c)]
  <2>1. IsFiniteSet({f[c] : c \in Cuts})
    BY <1>8, FiniteImage
  <2> QED
    BY <1>6, <1>7, <2>1, FS_UNION
<1>10. IsFiniteSet({SelfReconcile, Evaluate})
  <2>1. {SelfReconcile, Evaluate} = {SelfReconcile} \cup {Evaluate}
    OBVIOUS
  <2>2. IsFiniteSet({SelfReconcile})
    BY FS_Singleton
  <2> QED
    BY <2>1, <2>2, FS_AddElement
<1> QED
  BY <1>3, <1>4, <1>9, <1>10, FS_Union DEF AllJob

\* More green substages are enough too, and all of them always are.
LEMMA MoreIsEnough ==
  ASSUME NEW k \in DOMAIN Stages, NEW S, NEW T, S \subseteq T, T \subseteq Stages[k],
         Promotes(k, S) \/ T = Stages[k]
  PROVE  Promotes(k, T)
<1>1. IsFiniteSet(T) /\ IsFiniteSet(S)
  BY StagesAre, FS_Subset
<1>2. Cardinality(S) <= Cardinality(T) /\ Cardinality(S) \in Nat /\ Cardinality(T) \in Nat
  BY <1>1, FS_Subset, FS_CardinalityType
<1>3. Enough[k] \in Int /\ Enough[k] <= Cardinality(Stages[k])
  <2>1. Cardinality(Stages[k]) \in Nat
    BY StagesAre, FS_CardinalityType
  <2> QED
    BY <2>1, StagesAre
<1> QED
  BY <1>2, <1>3 DEF Promotes

\* What a substage may read of earlier stages, its job uses, and the stage.
LEMMA ReadsAreUsed ==
  ASSUME NEW c \in Cut, c # "stages", NEW j \in Gated(c), NEW s \in j
  PROVE  /\ MayRead(s) \cap Earlier(StageOf(s)) \subseteq UsesOf(j)
         /\ UsesOf(j) \subseteq UsesOf(Stages[FirstStage(j)])
         /\ StageOf(s) = FirstStage(j)
<1> DEFINE k == FirstStage(j)
<1>1. k \in DOMAIN Stages /\ j \subseteq Stages[k] /\ s \in Stages[k]
  BY GatedAre
<1>2. StageOf(s) = k
  BY <1>1, OneStage
<1>3. FirstStage(Stages[k]) = k
  BY <1>1, FirstOfOne, StagesAre
<1>4. \A t \in Stages[k] : Uses[t] \subseteq Earlier(k)
  BY <1>1, StagesAssumption
<1>5. Needs[s] \cap Earlier(k) = {}
  <2>1. Needs[s] \subseteq Stages[k]
    BY <1>1, StagesAssumption
  <2>2. \A l \in 1 .. k - 1 : l \in DOMAIN Stages /\ l # k
    BY <1>1, StagesAre
  <2> QED
    BY <2>1, <2>2, <1>1, StagesAssumption DEF Earlier
<1> HIDE DEF k
<1>6. UsesOf(j) = IF \E t \in j : Uses[t] = {} THEN Earlier(k) ELSE UNION {Uses[t] : t \in j}
  BY DEF UsesOf, k
<1>7. UsesOf(Stages[k]) = IF \E t \in Stages[k] : Uses[t] = {} THEN Earlier(k)
                          ELSE UNION {Uses[t] : t \in Stages[k]}
  BY <1>3 DEF UsesOf
<1>8. MayRead(s) \cap Earlier(k) \subseteq UsesOf(j)
  BY <1>2, <1>4, <1>5, <1>6 DEF MayRead
<1>9. UsesOf(j) \subseteq UsesOf(Stages[k])
  BY <1>1, <1>4, <1>6, <1>7
<1> QED
  BY <1>2, <1>8, <1>9 DEF k

-----------------------------------------------------------------------------
\* The jobs of this workflow are jobs, and a fixed one is not gated.
LEMMA JobsAre ==
  ASSUME Typed
  PROVE  /\ cut \in Cut
         /\ Gated(cut) \subseteq Jobs /\ Jobs \subseteq AllJob
         /\ Jobs = Gated(cut) \cup {SelfReconcile, Evaluate}
         /\ SelfReconcile \in AllJob /\ Evaluate \in AllJob /\ SelfReconcile # Evaluate
<1>1. cut \in Cuts /\ Cuts \subseteq Cut
  BY StagesAssumption DEF Typed, Cut
<1>2. Gated(cut) \subseteq AllJob
  BY <1>1 DEF AllJob
<1>3. SelfReconcile # Evaluate
  BY DEF SelfReconcile, Evaluate
<1> QED
  BY <1>1, <1>2, <1>3 DEF Jobs, AllJob

LEMMA PushedAre ==
  ASSUME Typed
  PROVE  /\ Pushed \subseteq Writes /\ IsFiniteSet(Pushed) /\ Cardinality(Pushed) \in Nat
         /\ Cardinality(Pushed) <= Cardinality(Writes) /\ Cardinality(Writes) \in Nat
         /\ IsFiniteSet(Filing) /\ Cardinality(Filing) \in Nat
         /\ Cardinality(AllJob) \in Nat /\ Cardinality(Filing) <= Cardinality(AllJob)
<1>1. Pushed \subseteq Writes
  BY JobsAre DEF Pushed, Typed
<1>2. Filing \subseteq AllJob
  BY DEF Filing
<1> QED
  BY <1>1, <1>2, FiniteJobs, FS_Subset, FS_CardinalityType

LEMMA TipIsCommit ==
  ASSUME Typed, Counters
  PROVE  tip \in Commits /\ issues \in 0 .. Cardinality(AllJob)
  BY PushedAre, StagesAssumption DEF Typed, Counters, Commits

LEMMA TypesAreTyped ==
  ASSUME Typed, Counters
  PROVE  WorkflowTypeOK
<1>1. \A f \in {here, made, place, kept} : f \in [AllJob -> SUBSET Builds]
  BY DEF Typed
<1> QED
  BY <1>1, TipIsCommit DEF Typed, WorkflowTypeOK

\* What a job does by itself.
Moves(j) == \/ Start(j) \/ Bring(j) \/ Enter(j) \/ EndStage(j) \/ Pack(j) \/ Push(j)
            \/ ListIssues(j) \/ File(j) \/ Break(j) \/ Expire(j)
            \/ \E s \in j \cap Substage : Hold(j, s) \/ Reuse(j, s) \/ Pass(j, s) \/ FailRun(j, s)

\* A step is one of the evaluation's, of a job, or of somebody outside.
LEMMA StepsAre ==
  ASSUME [WorkflowNext]_workflowVars
  PROVE  \/ \E word \in {"superseded", "converged"} : AnswerReconcile(word)
         \/ \E word \in {"skip", "proceed"} : AnswerEvaluate(word)
         \/ \E j \in Jobs : Moves(j)
         \/ Rerun \/ PushElsewhere \/ UNCHANGED workflowVars
  BY DEF WorkflowNext, Work, Fault, Moves

\* A job that runs is gated, and its revision was answered.
LEMMA RunsGated ==
  ASSUME IInv, NEW j \in Jobs, step[j] \in {"bring", "enter", "run", "pack", "push"}
  PROVE  /\ j \in Gated(cut) /\ j \in AllJob /\ JobInv(j)
         /\ Answered /\ revision \in Commits
<1>1. j \in Gated(cut) /\ j \in AllJob
  BY JobsAre DEF IInv, EvaluatedOnce
<1>2. JobInv(j)
  BY <1>1 DEF IInv
<1> QED
  BY <1>1, <1>2 DEF JobInv, OwnStage, Begun, IInv, EvaluatedOnce, Answered

\* The types hold in the first state and through every step.
LEMMA TypesAtFirst ==
  ASSUME WorkflowInit
  PROVE  Typed
<1>1. 0 \in Commits
  BY FiniteJobs, FS_CardinalityType, StagesAssumption DEF Commits
<1>2. 1 \in DOMAIN Stages
  BY StagesAre
<1>3. record \in [Substage -> [Commits -> {"none", "green", "failed"}]]
  <2>1. PICK S \in {{}, Stages[1]} :
          record = [s \in Substage |-> [c \in Commits |-> IF c = 0 /\ s \in S THEN "green" ELSE "none"]]
    BY DEF WorkflowInit
  <2> QED
    BY <2>1
<1> QED
  BY <1>1, <1>2, <1>3, StagesAssumption DEF WorkflowInit, Typed

LEMMA TypesKept ==
  ASSUME IInv, [WorkflowNext]_workflowVars
  PROVE  Typed'
<1> USE DEF runner
<1>0. Typed /\ Counters
  BY DEF IInv
<1>1. tip \in Commits /\ Jobs \subseteq AllJob /\ cut \in Cut
  BY <1>0, TipIsCommit, JobsAre
<1>2. ASSUME NEW word \in {"superseded", "converged"}, AnswerReconcile(word)
      PROVE  Typed'
  BY <1>0, <1>2 DEF AnswerReconcile, Typed
<1>3. ASSUME NEW word \in {"skip", "proceed"}, AnswerEvaluate(word)
      PROVE  Typed'
  BY <1>0, <1>3, JobsAre DEF AnswerEvaluate, Typed
<1>4. ASSUME NEW j \in Jobs, Moves(j)
      PROVE  Typed'
  <2> j \in AllJob
    BY <1>1
  <2>1. CASE Start(j)
    <3>1. (IF j \in Gated(cut) THEN FirstStage(j) ELSE 1) \in DOMAIN Stages
      BY <1>1, GatedAre, StagesAre
    <3> QED
      <4> DEFINE starts == If(j) /\ \A i \in JobNeeds(j) : step[i] = "success"
      <4>1. CASE ~starts
        BY <1>0, <2>1, <4>1 DEF Start, Typed
      <4>2. CASE starts
        <5>1. PICK k \in DOMAIN Stages : at' = [at EXCEPT ![j] = k]
          BY <2>1, <3>1, <4>2 DEF Start
        <5>2. PICK t \in {"phase", "bring"} : step' = [step EXCEPT ![j] = t]
          BY <2>1, <4>2 DEF Start
        <5>3. /\ clone' = [clone EXCEPT ![j] = tip] /\ wrote' = [wrote EXCEPT ![j] = {}]
              /\ view' = [view EXCEPT ![j] = [s \in Substage |-> "todo"]]
              /\ here' = [here EXCEPT ![j] = {}] /\ made' = [made EXCEPT ![j] = {}]
              /\ place' = [place EXCEPT ![j] = {}]
              /\ UNCHANGED <<cut, kept, answer, revision, record, tip, lacked, refused, issues, faults>>
          BY <2>1, <4>2 DEF Start
        <5> HIDE DEF starts
        <5> QED
          BY <1>0, <1>1, <5>1, <5>2, <5>3 DEF Typed
      <4> QED
        BY <4>1, <4>2
  <2>2. CASE Bring(j)
    <3>1. (IF Downloads(j) THEN UNION {kept[i] : i \in UsedJobs(j)} ELSE {}) \in SUBSET Builds
      BY <1>0, JobsAre DEF Typed, UsedJobs
    <3> QED
      BY <1>0, <2>2, <3>1 DEF Bring, Typed
  <2>3. CASE Enter(j)
    <3>1. Carried(j, at[j]) \in SUBSET Builds
      BY <1>0 DEF Carried, Typed
    <3> QED
      <4>1. place' \in [AllJob -> SUBSET Builds]
        BY <1>0, <2>3, <3>1 DEF Enter, Typed
      <4>2. step' \in [AllJob -> {"waiting", "phase", "bring", "enter", "run", "pack",
                          "push", "list", "file", "success", "failure", "skipped"}]
        BY <1>0, <2>3 DEF Enter, Typed
      <4>3. refused' \subseteq AllJob
        BY <1>0, <2>3 DEF Enter, Typed
      <4> QED
        BY <1>0, <2>3, <4>1, <4>2, <4>3 DEF Enter, Typed
  <2>4. CASE EndStage(j)
    <3>1. at' \in [AllJob -> DOMAIN Stages]
      BY <1>0, <2>4, StagesAre DEF EndStage, Typed
    <3>2. step' \in [AllJob -> {"waiting", "phase", "bring", "enter", "run", "pack",
                          "push", "list", "file", "success", "failure", "skipped"}]
      BY <1>0, <2>4 DEF EndStage, Typed
    <3> QED
      BY <1>0, <2>4, <3>1, <3>2 DEF EndStage, Typed
  <2>5. CASE Pack(j)
    BY <1>0, <2>5 DEF Pack, Packed, Typed
  <2>6. CASE Push(j)
    BY <1>0, <2>6 DEF Push, Typed
  <2>7. CASE ListIssues(j) \/ File(j)
    BY <1>0, <2>7 DEF ListIssues, File, Typed
  <2>8. CASE Break(j)
    BY <1>0, <2>8, StagesAssumption DEF Break, Typed
  <2>9. CASE Expire(j)
    BY <1>0, <2>9, StagesAssumption DEF Expire, Typed
  <2>10. ASSUME NEW s \in j \cap Substage, Hold(j, s) \/ Reuse(j, s) \/ Pass(j, s) \/ FailRun(j, s)
         PROVE  Typed'
    <3>1. step[j] = "run" /\ revision \in Commits
      BY <2>10, RunsGated DEF Hold, Reuse, Pass, FailRun, Turn
    <3>2. \A v \in {"green", "failed", "held"} :
            See(j, s, v) => view' \in [AllJob -> [Substage -> {"todo", "green", "failed", "held"}]]
      BY <1>0 DEF See, Typed
    <3>3. \A v \in {"green", "failed"} :
            [record EXCEPT ![s][revision] = v] \in [Substage -> [Commits -> {"none", "green", "failed"}]]
      BY <1>0, <3>1 DEF Typed
    <3>4. CASE Hold(j, s)
      BY <1>0, <3>4, <3>2 DEF Hold, Typed
    <3>5. CASE Reuse(j, s)
      BY <1>0, <3>5, <3>2 DEF Reuse, Typed, Built
    <3>6. CASE Pass(j, s)
      <4>1. lacked' \subseteq Substage \X Builds
        <5>1. Kept \subseteq Builds
          BY <1>0, JobsAre DEF Kept, Typed
        <5> QED
          BY <1>0, <3>6, <5>1 DEF Pass, Typed
      <4>2. record' \in [Substage -> [Commits -> {"none", "green", "failed"}]]
        BY <3>6, <3>3 DEF Pass, Told
      <4> QED
        BY <1>0, <3>6, <3>2, <4>1, <4>2 DEF Pass, Typed, Built
    <3>7. CASE FailRun(j, s)
      <4>1. record' \in [Substage -> [Commits -> {"none", "green", "failed"}]]
        BY <3>7, <3>3 DEF FailRun, Told
      <4> QED
        BY <1>0, <3>7, <3>2, <4>1, StagesAssumption DEF FailRun, Typed
    <3> QED
      BY <2>10, <3>4, <3>5, <3>6, <3>7
  <2> QED
    BY <1>4, <2>1, <2>2, <2>3, <2>4, <2>5, <2>6, <2>7, <2>8, <2>9, <2>10 DEF Moves
<1>5. CASE Rerun
  BY <1>0, <1>5 DEF Rerun, Typed
<1>6. CASE PushElsewhere
  BY <1>0, <1>6, StagesAssumption DEF PushElsewhere, Typed
<1>7. CASE UNCHANGED workflowVars
  BY <1>0, <1>7 DEF workflowVars, Typed
<1> QED
  BY <1>2, <1>3, <1>4, <1>5, <1>6, <1>7, StepsAre

-----------------------------------------------------------------------------
\* A step of one job touches no other, and a job that is green stands.
Same(i) == /\ step'[i] = step[i] /\ wrote'[i] = wrote[i] /\ at'[i] = at[i] /\ view'[i] = view[i]
           /\ here'[i] = here[i] /\ made'[i] = made[i] /\ place'[i] = place[i]

LEMMA OthersStay ==
  ASSUME Typed, NEW j \in Jobs, Moves(j)
  PROVE  /\ cut' = cut /\ revision' = revision
         /\ \A i \in AllJob \ {j} : Same(i) /\ kept'[i] = kept[i]
         /\ \A s \in Substage \ j : record'[s] = record[s]
<1> DEFINE G == /\ cut' = cut /\ revision' = revision
                /\ \A i \in AllJob \ {j} : Same(i) /\ kept'[i] = kept[i]
                /\ \A s \in Substage \ j : record'[s] = record[s]
<1> USE DEF runner, Same, Typed
<1>1. j \in AllJob
  BY JobsAre
<1>2. CASE Start(j)
  <2>1. CASE If(j) /\ \A i \in JobNeeds(j) : step[i] = "success"
    BY <1>1, <1>2, <2>1 DEF Start
  <2>2. CASE ~(If(j) /\ \A i \in JobNeeds(j) : step[i] = "success")
    BY <1>1, <1>2, <2>2 DEF Start
  <2> QED
    BY <2>1, <2>2
<1>3. CASE Bring(j)
  BY <1>1, <1>3 DEF Bring
<1>4. CASE Enter(j)
  BY <1>1, <1>4 DEF Enter
<1>5. CASE EndStage(j)
  BY <1>1, <1>5 DEF EndStage
<1>6. CASE Pack(j)
  BY <1>1, <1>6 DEF Pack
<1>7. CASE Push(j)
  BY <1>1, <1>7 DEF Push
<1>8. CASE ListIssues(j) \/ File(j)
  BY <1>1, <1>8 DEF ListIssues, File
<1>9. CASE Break(j) \/ Expire(j)
  BY <1>1, <1>9 DEF Break, Expire
<1>10. ASSUME NEW s \in j \cap Substage, Hold(j, s) \/ Reuse(j, s) \/ Pass(j, s) \/ FailRun(j, s)
       PROVE  G
  <2>1. CASE Hold(j, s)
    BY <1>1, <1>10, <2>1 DEF Hold, See
  <2>2. CASE Reuse(j, s)
    BY <1>1, <1>10, <2>2 DEF Reuse, See
  <2>3. CASE Pass(j, s)
    BY <1>1, <1>10, <2>3 DEF Pass, See
  <2>4. CASE FailRun(j, s)
    BY <1>1, <1>10, <2>4 DEF FailRun, See
  <2> QED
    BY <1>10, <2>1, <2>2, <2>3, <2>4
<1> HIDE DEF runner, Same, Typed
<1> QED
  BY <1>2, <1>3, <1>4, <1>5, <1>6, <1>7, <1>8, <1>9, <1>10 DEF Moves

LEMMA GreenStands ==
  ASSUME IInv, [WorkflowNext]_workflowVars, NEW i \in AllJob, step[i] = "success"
  PROVE  Same(i) /\ kept'[i] \subseteq kept[i]
<1> USE DEF runner, Same, Typed
<1>0. Typed
  BY DEF IInv
<1>1. ASSUME NEW word, AnswerReconcile(word) \/ AnswerEvaluate(word)
      PROVE  Same(i) /\ kept'[i] \subseteq kept[i]
  BY <1>0, <1>1, JobsAre DEF AnswerReconcile, AnswerEvaluate
<1>2. ASSUME NEW j \in Jobs, Moves(j)
      PROVE  Same(i) /\ kept'[i] \subseteq kept[i]
  <2>1. CASE i # j
    <3>1. Same(i) /\ kept'[i] = kept[i]
      BY <1>0, <1>2, <2>1, OthersStay
    <3> QED
      BY <3>1
  <2>2. CASE i = j
    <3>1. Expire(j)
      BY <1>2, <2>2 DEF Moves, Start, Bring, Enter, EndStage, Pack, Push, ListIssues, File, Break,
                        Hold, Reuse, Pass, FailRun, Turn
    <3> QED
      BY <1>0, <2>2, <3>1 DEF Expire
  <2> QED
    BY <2>1, <2>2
<1>3. CASE Rerun \/ PushElsewhere \/ UNCHANGED workflowVars
  BY <1>0, <1>3 DEF Rerun, PushElsewhere, workflowVars
<1> QED
  BY <1>1, <1>2, <1>3, StepsAre

\* The cut is fixed, and so is the revision once it is answered.
LEMMA AnsweredOnce ==
  ASSUME IInv, [WorkflowNext]_workflowVars
  PROVE  /\ cut' = cut /\ EvaluatedOnce'
         /\ Answered => Answered' /\ revision' = revision
<1>0. Typed /\ EvaluatedOnce /\ Typed'
  BY TypesKept DEF IInv
<1>1. SelfReconcile \in AllJob /\ Evaluate \in AllJob /\ SelfReconcile # Evaluate
  BY <1>0, JobsAre
<1>2. Answered => Answered'
  BY <1>1, GreenStands DEF Answered, Same
<1>3. ASSUME NEW word, AnswerReconcile(word)
      PROVE  cut' = cut /\ EvaluatedOnce' /\ revision' = revision
  BY <1>0, <1>1, <1>3 DEF AnswerReconcile, EvaluatedOnce, Answered, Typed
<1>4. ASSUME NEW word, AnswerEvaluate(word)
      PROVE  cut' = cut /\ EvaluatedOnce' /\ ~Answered
  BY <1>0, <1>1, <1>4 DEF AnswerEvaluate, EvaluatedOnce, Answered, Typed
<1>5. ASSUME NEW j \in Jobs, Moves(j)
      PROVE  cut' = cut /\ EvaluatedOnce' /\ revision' = revision
  <2>1. cut' = cut /\ revision' = revision /\ \A i \in AllJob \ {j} : step'[i] = step[i]
    BY <1>0, <1>5, OthersStay DEF Same
  <2>2. CASE j \notin {SelfReconcile, Evaluate}
    BY <1>0, <1>1, <2>1, <2>2 DEF EvaluatedOnce, Answered
  <2>3. CASE j \in {SelfReconcile, Evaluate}
    <3>1. step[j] \in {"waiting", "phase", "list", "file", "success", "failure", "skipped"}
      BY <1>0, <2>3 DEF EvaluatedOnce
    <3>2. Start(j) \/ ListIssues(j) \/ File(j) \/ Break(j) \/ Expire(j)
      BY <1>5, <3>1 DEF Moves, Bring, Enter, EndStage, Pack, Push, Hold, Reuse, Pass, FailRun, Turn
    <3>3. /\ step'[j] \in {"waiting", "phase", "list", "file", "success", "failure", "skipped"}
          /\ step[j] # "success" => step'[j] # "success"
      BY <1>0, <1>1, <2>3, <3>1, <3>2 DEF Start, ListIssues, File, Break, Expire, Typed
    <3> QED
      BY <1>0, <1>1, <2>1, <2>3, <3>3 DEF EvaluatedOnce, Answered
  <2> QED
    BY <2>1, <2>2, <2>3
<1>6. CASE Rerun \/ PushElsewhere \/ UNCHANGED workflowVars
  BY <1>0, <1>1, <1>6 DEF Rerun, PushElsewhere, workflowVars, EvaluatedOnce, Answered, Typed
<1> QED
  BY <1>2, <1>3, <1>4, <1>5, <1>6, StepsAre

\* The counters.
LEMMA CountersKept ==
  ASSUME IInv, [WorkflowNext]_workflowVars
  PROVE  Counters'
<1>0. Typed /\ Counters /\ Typed'
  BY TypesKept DEF IInv
<1>1. Pushed \subseteq Pushed'
  <2> SUFFICES ASSUME NEW j \in Gated(cut), step[j] = "success"
               PROVE  wrote'[j] = wrote[j] /\ step'[j] = "success" /\ j \in Gated(cut)'
    BY DEF Pushed
  <2> QED
    BY <1>0, JobsAre, GreenStands, AnsweredOnce DEF Same, Gated
<1>2. IsFiniteSet(Pushed') /\ Cardinality(Pushed') \in Nat
  <2>1. Pushed' \subseteq Writes
    <3>1. cut' \in Cuts /\ wrote' \in [AllJob -> SUBSET Writes]
      BY <1>0 DEF Typed
    <3>2. Gated(cut') \subseteq AllJob
      BY <3>1 DEF AllJob
    <3> QED
      BY <3>1, <3>2 DEF Pushed
  <2> QED
    BY <2>1, FiniteJobs, FS_Subset, FS_CardinalityType
<1>3. /\ Cardinality(Pushed) \in Nat /\ Cardinality(Pushed) <= Cardinality(Pushed')
      /\ Pushed # Pushed' => Cardinality(Pushed) < Cardinality(Pushed')
  BY <1>0, <1>1, <1>2, PushedAre, FS_Subset
<1>4. tip' <= Cardinality(Pushed') + faults'
  <2>1. /\ tip \in Nat /\ faults \in Nat /\ tip' \in Nat /\ faults' \in Nat
        /\ tip <= Cardinality(Pushed) + faults
    BY <1>0, StagesAssumption DEF Typed, Counters
  <2>2. CASE tip' = tip /\ faults' \in {faults, faults + 1}
    BY <1>2, <1>3, <2>1, <2>2
  <2>3. CASE PushElsewhere
    BY <1>2, <1>3, <2>1, <2>3 DEF PushElsewhere
  <2>4. ASSUME NEW j \in Jobs, Push(j), tip' # tip
        PROVE  tip' <= Cardinality(Pushed') + faults'
    <3>1. /\ step[j] = "push" /\ wrote[j] # {} /\ tip' = tip + 1 /\ faults' = faults
          /\ step' = [step EXCEPT ![j] = "success"] /\ wrote' = wrote /\ cut' = cut
      BY <2>4 DEF Push, runner
    <3>2. j \in Gated(cut) /\ j \in AllJob
      BY <3>1, RunsGated
    <3>3. PICK s \in wrote[j] : TRUE
      BY <3>1
    <3>4. s \in Pushed'
      BY <1>0, <3>1, <3>2 DEF Pushed, Typed
    <3>5. s \notin Pushed
      <4> SUFFICES ASSUME NEW i \in Gated(cut), step[i] = "success", s \in wrote[i]
                   PROVE  FALSE
        BY DEF Pushed
      <4>1. wrote[i] \subseteq i /\ wrote[j] \subseteq j
        BY <3>2 DEF IInv, JobInv, OwnView
      <4>2. i = j
        BY <1>0, <3>2, <4>1, JobsAre, GatedApart
      <4> QED
        BY <3>1, <4>2
    <3>6. Cardinality(Pushed) < Cardinality(Pushed')
      BY <1>3, <3>4, <3>5
    <3> QED
      BY <1>2, <1>3, <2>1, <3>1, <3>6
  <2>5. \/ tip' = tip /\ faults' \in {faults, faults + 1}
        \/ PushElsewhere \/ \E j \in Jobs : Push(j)
    BY StepsAre DEF Moves, AnswerReconcile, AnswerEvaluate, Start, Bring, Enter, EndStage, Pack,
                    ListIssues, File, Break, Expire, Hold, Reuse, Pass, FailRun, Rerun, workflowVars
  <2>6. ASSUME NEW j \in Jobs, Push(j)
        PROVE  faults' = faults
    BY <2>6 DEF Push
  <2> QED
    BY <2>2, <2>3, <2>4, <2>5, <2>6
<1>5. issues' + Cardinality(Filing') <= Cardinality(AllJob)
  <2>1. /\ issues \in Nat /\ issues' \in Nat /\ Cardinality(Filing) \in Nat /\ IsFiniteSet(Filing)
        /\ Cardinality(AllJob) \in Nat /\ issues + Cardinality(Filing) <= Cardinality(AllJob)
    BY <1>0, PushedAre DEF Typed, Counters
  <2>2. /\ IsFiniteSet(Filing') /\ Cardinality(Filing') \in Nat
        /\ Cardinality(Filing') <= Cardinality(AllJob)
    <3>1. Filing' \subseteq AllJob
      BY DEF Filing
    <3> QED
      BY <3>1, FiniteJobs, FS_Subset, FS_CardinalityType
  <2>3. CASE issues' = issues /\ Filing' \subseteq Filing
    <3>1. Cardinality(Filing') <= Cardinality(Filing)
      BY <2>1, <2>3, FS_Subset
    <3> QED
      BY <2>1, <2>2, <2>3, <3>1
  <2>4. ASSUME NEW j \in Jobs, ListIssues(j)
        PROVE  issues' + Cardinality(Filing') <= Cardinality(AllJob)
    <3>1. CASE issues = 0
      BY <2>2, <2>4, <3>1 DEF ListIssues
    <3>2. CASE issues # 0
      <4>1. step' = [step EXCEPT ![j] = "failure"] /\ issues' = issues
        <5>1. issues > 0
          BY <2>1, <3>2
        <5> QED
          BY <2>4, <5>1 DEF ListIssues
      <4>2. Filing' \subseteq Filing
        BY <1>0, <4>1, JobsAre DEF Filing, Typed
      <4> QED
        BY <2>3, <4>1, <4>2
    <3> QED
      BY <3>1, <3>2
  <2>5. ASSUME NEW j \in Jobs, File(j)
        PROVE  issues' + Cardinality(Filing') <= Cardinality(AllJob)
    <3>1. Filing' = Filing \ {j} /\ j \in Filing
      BY <1>0, <2>5, JobsAre DEF File, Filing, Typed
    <3>2. Cardinality(Filing') = Cardinality(Filing) - 1
      BY <2>1, <3>1, FS_RemoveElement
    <3> QED
      BY <2>1, <2>2, <2>5, <3>2 DEF File
  <2>6. \/ issues' = issues /\ Filing' \subseteq Filing
        \/ \E j \in Jobs : ListIssues(j) \/ File(j)
    <3>1. ASSUME NEW word, AnswerReconcile(word) \/ AnswerEvaluate(word)
          PROVE  issues' = issues /\ Filing' \subseteq Filing
      BY <1>0, <3>1, JobsAre DEF AnswerReconcile, AnswerEvaluate, Filing, Typed
    <3>2. ASSUME NEW j \in Jobs, Moves(j), ~ListIssues(j), ~File(j)
          PROVE  issues' = issues /\ Filing' \subseteq Filing
      <4>1. issues' = issues
        BY <3>2 DEF Moves, Start, Bring, Enter, EndStage, Pack, Push, Break, Expire, Hold, Reuse, Pass, FailRun
      <4>2. \A i \in AllJob \ {j} : step'[i] = step[i]
        BY <1>0, <3>2, OthersStay DEF Same
      <4>3. step'[j] = "file" => step[j] = "file"
        <5> j \in AllJob
          BY <1>0, JobsAre
        <5>1. CASE Start(j) \/ Bring(j) \/ Enter(j) \/ EndStage(j) \/ Pack(j) \/ Push(j) \/ Break(j)
          BY <1>0, <5>1 DEF Start, Bring, Enter, EndStage, Pack, Push, Break, Typed
        <5>2. CASE step' = step
          BY <5>2
        <5> QED
          BY <3>2, <5>1, <5>2 DEF Moves, Expire, Hold, Reuse, Pass, FailRun
      <4> QED
        BY <4>1, <4>2, <4>3 DEF Filing
    <3>3. CASE Rerun \/ PushElsewhere \/ UNCHANGED workflowVars
      BY <1>0, <3>3 DEF Rerun, PushElsewhere, workflowVars, Filing, Typed
    <3> QED
      BY <3>1, <3>2, <3>3, StepsAre
  <2> QED
    BY <2>3, <2>4, <2>5, <2>6
<1> QED
  BY <1>4, <1>5 DEF Counters

-----------------------------------------------------------------------------
\* What holds of each job by itself.
LEMMA UntouchedKeeps ==
  ASSUME IInv, NEW i \in Gated(cut), cut' = cut, revision' = revision, Answered => Answered',
         Same(i), kept'[i] \subseteq kept[i], \A s \in i : record'[s] = record[s]
  PROVE  JobInv(i)'
<1>0. JobInv(i) /\ Typed /\ cut \in Cut
  BY JobsAre DEF IInv
<1>1. i \subseteq Substage
  BY <1>0, GatedAre
<1>2. OwnView(i)'
  BY <1>0, <1>1 DEF JobInv, OwnView, Same
<1>3. OwnFiles(i)'
  BY <1>0, <1>1 DEF JobInv, OwnFiles, Same
<1>4. OwnStage(i)'
  BY <1>0 DEF JobInv, OwnStage, Same, Begun, Worked, Passed
<1>5. WholeFiles(i)'
  BY <1>0 DEF JobInv, WholeFiles, Same
<1> QED
  BY <1>2, <1>3, <1>4, <1>5 DEF JobInv

\* Before the evaluation answers, no job has anything to keep.
LEMMA AnsweringKeeps ==
  ASSUME IInv, NEW word, AnswerEvaluate(word), NEW i \in Gated(cut)
  PROVE  JobInv(i)'
<1>0. JobInv(i) /\ Typed /\ Evaluate \in AllJob /\ i # Evaluate /\ i \in AllJob
  BY JobsAre, GatedAre DEF IInv
<1>1. ~Answered /\ Same(i) /\ kept' = kept /\ cut' = cut
  BY <1>0 DEF AnswerEvaluate, Answered, Same, runner, Typed
<1>2. ~Begun(i) /\ ~Worked(i) /\ made[i] = {} /\ kept[i] = {} /\ wrote[i] \subseteq i
  <2>1. ~Begun(i) /\ wrote[i] \subseteq i
    BY <1>0, <1>1 DEF JobInv, OwnStage, OwnView
  <2>2. made[i] \subseteq Substage
    BY <1>0, StagesAssumption DEF Typed
  <2>3. \A s \in Substage : view[i][s] = "todo"
    BY <1>0, <1>1 DEF JobInv, OwnView
  <2> QED
    BY <1>0, <1>1, <2>1, <2>2, <2>3 DEF JobInv, OwnFiles, Begun, Worked
<1>3. \A s \in Substage : view'[i][s] = "todo"
  BY <1>0, <1>1 DEF JobInv, OwnView, Same
<1>4. OwnView(i)'
  BY <1>1, <1>2, <1>3 DEF OwnView, Same
<1>5. OwnFiles(i)'
  BY <1>1, <1>2 DEF OwnFiles, Same
<1>6. OwnStage(i)' /\ WholeFiles(i)'
  BY <1>1, <1>2 DEF OwnStage, WholeFiles, Same, Begun, Worked
<1> QED
  BY <1>4, <1>5, <1>6 DEF JobInv

LEMMA StartKeeps ==
  ASSUME IInv, NEW j \in Gated(cut), Start(j), cut' = cut, revision' = revision, Answered => Answered'
  PROVE  JobInv(j)'
<1> DEFINE starts == If(j) /\ \A i \in JobNeeds(j) : step[i] = "success"
<1> USE DEF runner
<1>0. /\ JobInv(j) /\ Typed /\ j \in AllJob /\ cut \in Cut
      /\ j # SelfReconcile /\ j # Evaluate /\ kept' = kept /\ record' = record
  BY JobsAre, GatedAre DEF IInv, Start
<1>1. CASE ~starts
  <2>1. step' = [step EXCEPT ![j] = "skipped"] /\ UNCHANGED runner
    BY <1>1 DEF Start
  <2>2. OwnView(j)' /\ OwnFiles(j)'
    BY <1>0, <2>1 DEF JobInv, OwnView, OwnFiles, Typed
  <2>3. OwnStage(j)' /\ WholeFiles(j)'
    BY <1>0, <2>1 DEF JobInv, OwnStage, WholeFiles, Typed, Begun, Worked
  <2> QED
    BY <2>2, <2>3 DEF JobInv
<1>2. CASE starts
  <2>1. /\ step'[j] = "bring" /\ wrote'[j] = {} /\ made'[j] = {} /\ at'[j] = FirstStage(j)
        /\ \A s \in Substage : view'[j][s] = "todo"
    BY <1>0, <1>2 DEF Start, Typed
  <2>2. Answered'
    BY <1>0, <1>2 DEF JobNeeds, Answered
  <2>3. OwnView(j)'
    BY <2>1, <2>2 DEF OwnView
  <2>4. OwnFiles(j)'
    BY <1>0, <2>1, <2>2 DEF OwnFiles, JobInv
  <2>5. OwnStage(j)'
    <3>1. cut = "stages" => 1 .. at'[j] - 1 = {}
      BY <1>0, <2>1, GatedAre
    <3> QED
      BY <2>1, <2>2, <3>1 DEF OwnStage, Begun, Worked
  <2>6. WholeFiles(j)'
    BY <2>1 DEF WholeFiles
  <2> QED
    BY <2>3, <2>4, <2>5, <2>6 DEF JobInv
<1> QED
  BY <1>1, <1>2

\* The one job of a whole apply takes part in all it may read: the first
\* stage has nothing in front of it to name.
LEMMA WholeUsesAll ==
  ASSUME cut = "stages", NEW j \in Gated(cut)
  PROVE  j \in UsedJobs(j) /\ Downloads(j)
<1>1. PICK s \in Stages[1] : TRUE
  BY StagesAre
<1>2. 1 \in DOMAIN Stages /\ Earlier(1) = {}
  BY StagesAre DEF Earlier
<1>3. s \in j /\ Uses[s] = {}
  BY <1>1, <1>2, StagesAssumption, StagesAre DEF Gated
<1> QED
  BY <1>3 DEF UsedJobs, Downloads

LEMMA BringKeeps ==
  ASSUME IInv, NEW j \in Gated(cut), Bring(j), cut' = cut, revision' = revision, Answered'
  PROVE  JobInv(j)'
<1>0. JobInv(j) /\ Typed /\ j \in AllJob /\ step[j] = "bring"
  BY JobsAre DEF IInv, Bring
<1>1. /\ step'[j] = "enter" /\ UNCHANGED <<wrote, at, view, made, kept, record>>
      /\ here'[j] = IF Downloads(j) THEN UNION {kept[i] : i \in UsedJobs(j)} ELSE {}
  BY <1>0 DEF Bring, Typed
<1>2. OwnView(j)' /\ OwnFiles(j)'
  BY <1>0, <1>1 DEF JobInv, OwnView, OwnFiles
<1>3. OwnStage(j)'
  BY <1>0, <1>1 DEF JobInv, OwnStage, Begun, Worked, Passed
<1>4. WholeFiles(j)'
  BY <1>0, <1>1, WholeUsesAll DEF WholeFiles
<1> QED
  BY <1>2, <1>3, <1>4 DEF JobInv

LEMMA EnterKeeps ==
  ASSUME IInv, NEW j \in Gated(cut), Enter(j), cut' = cut, revision' = revision, Answered'
  PROVE  JobInv(j)'
<1>0. JobInv(j) /\ Typed /\ j \in AllJob /\ step[j] = "enter"
  BY JobsAre DEF IInv, Enter
<1>1. /\ UNCHANGED <<wrote, at, view, here, made, kept, record>>
      /\ step'[j] \in {"list", "run"}
  BY <1>0 DEF Enter, Typed
<1>2. OwnView(j)' /\ OwnFiles(j)'
  BY <1>0, <1>1 DEF JobInv, OwnView, OwnFiles
<1>3. OwnStage(j)'
  BY <1>0, <1>1 DEF JobInv, OwnStage, Begun, Worked, Passed
<1>4. WholeFiles(j)'
  <2>1. \A s \in Substage : view'[j][s] = "todo"
    BY <1>0, <1>1 DEF JobInv, OwnView
  <2> QED
    BY <1>0, <1>1, <2>1 DEF JobInv, WholeFiles
<1> QED
  BY <1>2, <1>3, <1>4 DEF JobInv

\* What a job sees of a substage says nothing of the stages behind it.
LEMMA SeeKeeps ==
  ASSUME IInv, NEW j \in Gated(cut), NEW s \in Stages[at[j]], NEW v,
         step[j] = "run", See(j, s, v), step' = step, at' = at, cut' = cut, Answered'
  PROVE  /\ OwnStage(j)'
         /\ \A t \in Substage : view'[j][t] = IF t = s THEN v ELSE view[j][t]
<1>0. /\ JobInv(j) /\ Typed /\ j \in AllJob /\ at[j] \in DOMAIN Stages
      /\ s \in Substage /\ j \subseteq Substage
  BY JobsAre, StagesAre, GatedAre DEF IInv, Typed
<1>1. \A t \in Substage : view'[j][t] = IF t = s THEN v ELSE view[j][t]
  BY <1>0 DEF See, Typed
<1>2. ASSUME NEW l \in 1 .. at[j] - 1
      PROVE  Passed(j, l) => Passed(j, l)'
  <2>1. l \in DOMAIN Stages /\ l # at[j]
    BY <1>0, StagesAre
  <2>2. s \notin Stages[l]
    BY <1>0, <2>1, StagesAssumption
  <2>3. \A t \in j \cap Stages[l] : view'[j][t] = view[j][t]
    BY <1>0, <1>1, <2>2
  <2> QED
    BY <2>3 DEF Passed
<1> QED
  BY <1>0, <1>1, <1>2 DEF JobInv, OwnStage, Begun, Worked

LEMMA SubstageKeeps ==
  ASSUME IInv, NEW j \in Gated(cut), NEW s \in j, cut' = cut, revision' = revision, Answered',
         Hold(j, s) \/ Reuse(j, s) \/ Pass(j, s) \/ FailRun(j, s)
  PROVE  JobInv(j)'
<1>0. /\ JobInv(j) /\ Typed /\ j \in AllJob /\ step[j] = "run" /\ s \in Stages[at[j]]
      /\ view[j][s] = "todo" /\ s \in Substage /\ j \subseteq Substage
      /\ step' = step /\ at' = at /\ kept' = kept /\ made[j] \subseteq Substage
  BY JobsAre, GatedAre, StagesAssumption DEF IInv, Hold, Reuse, Pass, FailRun, Turn, Typed
<1>1. revision \in Commits
  BY <1>0, RunsGated, JobsAre
<1>2. OwnView(j) /\ OwnFiles(j) /\ WholeFiles(j)
  BY <1>0 DEF JobInv
<1>3. CASE Hold(j, s)
  <2>1. See(j, s, "held") /\ UNCHANGED <<wrote, here, made, place, record>>
    BY <1>3 DEF Hold
  <2>2. OwnStage(j)' /\ \A t \in Substage : view'[j][t] = IF t = s THEN "held" ELSE view[j][t]
    BY <1>0, <2>1, SeeKeeps
  <2>3. OwnView(j)'
    BY <1>0, <1>2, <2>1, <2>2 DEF OwnView
  <2>4. OwnFiles(j)'
    BY <1>0, <1>2, <2>1, <2>2 DEF OwnFiles
  <2>5. WholeFiles(j)'
    BY <1>0, <1>2, <2>1, <2>2 DEF WholeFiles
  <2> QED
    BY <2>2, <2>3, <2>4, <2>5 DEF JobInv
<1>4. CASE Reuse(j, s)
  <2>1. /\ See(j, s, "green") /\ UNCHANGED <<wrote, here, made, record>>
        /\ place'[j] = place[j] \cup (Built(s) \cap here[j])
        /\ record[s][revision] = "green" /\ Built(s) \subseteq here[j]
    BY <1>0, <1>4 DEF Reuse, Reusable, Told, AtHand, Built, Typed
  <2>2. OwnStage(j)' /\ \A t \in Substage : view'[j][t] = IF t = s THEN "green" ELSE view[j][t]
    BY <1>0, <2>1, SeeKeeps
  <2>3. OwnView(j)'
    BY <1>0, <1>2, <2>1, <2>2 DEF OwnView
  <2>4. OwnFiles(j)'
    BY <1>0, <1>2, <2>1, <2>2 DEF OwnFiles
  <2>5. WholeFiles(j)'
    BY <1>0, <1>2, <2>1, <2>2 DEF WholeFiles
  <2> QED
    BY <2>2, <2>3, <2>4, <2>5 DEF JobInv
<1>5. CASE Pass(j, s)
  <2>1. /\ See(j, s, "green") /\ wrote'[j] = wrote[j] \cup ({s} \cap Writes)
        /\ place'[j] = place[j] \cup Built(s) /\ here'[j] = here[j] \cup Built(s)
        /\ made'[j] = made[j] \cup Built(s)
    BY <1>0, <1>5 DEF Pass, Typed
  <2>2. OwnStage(j)' /\ \A t \in Substage : view'[j][t] = IF t = s THEN "green" ELSE view[j][t]
    BY <1>0, <2>1, SeeKeeps
  <2>3. \A t \in Substage : record'[t][revision] = IF t = s THEN "green" ELSE record[t][revision]
    BY <1>0, <1>1, <1>5 DEF Pass, Told, Typed
  <2>4. OwnView(j)'
    BY <1>0, <1>2, <2>1, <2>2, <2>3 DEF OwnView
  <2>5. OwnFiles(j)'
    BY <1>0, <1>2, <2>1, <2>2, <2>3 DEF OwnFiles, Built
  <2>6. WholeFiles(j)'
    BY <1>0, <1>2, <2>1, <2>2 DEF WholeFiles
  <2> QED
    BY <2>2, <2>4, <2>5, <2>6 DEF JobInv
<1>6. CASE FailRun(j, s)
  <2>1. See(j, s, "failed") /\ UNCHANGED <<wrote, here, made, place>>
    BY <1>6 DEF FailRun
  <2>2. OwnStage(j)' /\ \A t \in Substage : view'[j][t] = IF t = s THEN "failed" ELSE view[j][t]
    BY <1>0, <2>1, SeeKeeps
  <2>3. \A t \in Substage : record'[t][revision] = IF t = s THEN "failed" ELSE record[t][revision]
    BY <1>0, <1>1, <1>6 DEF FailRun, Told, Typed
  \* What is kept and at hand would have been reused.
  <2>4. cut = "stages" => s \notin kept[j]
    BY <1>0, <1>2, <1>6 DEF FailRun, Reusable, Told, AtHand, OwnFiles, WholeFiles
  <2>5. OwnView(j)'
    BY <1>0, <1>2, <2>1, <2>2, <2>3 DEF OwnView
  <2>6. OwnFiles(j)'
    BY <1>0, <1>2, <2>1, <2>2, <2>3, <2>4 DEF OwnFiles
  <2>7. WholeFiles(j)'
    BY <1>0, <1>2, <2>1, <2>2, <2>4 DEF WholeFiles
  <2> QED
    BY <2>2, <2>5, <2>6, <2>7 DEF JobInv
<1> QED
  BY <1>3, <1>4, <1>5, <1>6

LEMMA EndKeeps ==
  ASSUME IInv, NEW j \in Gated(cut), EndStage(j), cut' = cut, revision' = revision, Answered'
  PROVE  JobInv(j)'
<1>0. /\ JobInv(j) /\ Typed /\ j \in AllJob /\ step[j] = "run" /\ at[j] \in DOMAIN Stages
      /\ UNCHANGED <<wrote, view, here, made, place, kept, record>>
  BY JobsAre DEF IInv, EndStage, Typed
<1>1. OwnView(j)' /\ OwnFiles(j)'
  <2>1. step'[j] \in {"list", "run", "pack"}
    BY <1>0 DEF EndStage, Typed
  <2> QED
    BY <1>0, <2>1 DEF JobInv, OwnView, OwnFiles
<1>2. StageGreen(j) => Passed(j, at[j])
  BY DEF EndStage, StageGreen, Passed
<1>3. \A l : Passed(j, l) => Passed(j, l)'
  BY <1>0 DEF Passed
<1>4. CASE ~StageGreen(j)
  <2>1. step'[j] = "list" /\ at' = at
    BY <1>0, <1>4 DEF EndStage, Typed
  <2> QED
    BY <1>0, <1>1, <1>3, <2>1 DEF JobInv, OwnStage, WholeFiles, Begun, Worked
<1>5. CASE StageGreen(j) /\ cut = "stages" /\ at[j] < Len(Stages)
  <2>1. step'[j] = "run" /\ at'[j] = at[j] + 1
    BY <1>0, <1>5 DEF EndStage, Typed
  <2>2. \A l \in 1 .. at'[j] - 1 : Passed(j, l)
    <3>1. \A l \in 1 .. at[j] - 1 : Passed(j, l)
      BY <1>0, <1>5 DEF JobInv, OwnStage, Begun
    <3>2. \A l \in 1 .. at'[j] - 1 : l \in 1 .. at[j] - 1 \/ l = at[j]
      BY <1>0, <2>1, StagesAre
    <3> QED
      BY <1>2, <1>5, <3>1, <3>2
  <2>3. OwnStage(j)'
    BY <1>3, <1>5, <2>1, <2>2 DEF OwnStage, Begun, Worked
  <2>4. WholeFiles(j)'
    BY <1>0, <2>1 DEF JobInv, WholeFiles
  <2> QED
    BY <1>1, <2>3, <2>4 DEF JobInv
<1>6. CASE StageGreen(j) /\ ~(cut = "stages" /\ at[j] < Len(Stages))
  <2>1. step'[j] = "pack" /\ at' = at
    BY <1>0, <1>6 DEF EndStage, Typed
  <2>2. cut = "stages" => at[j] = Len(Stages)
    BY <1>0, <1>6, StagesAre
  <2>3. OwnStage(j)'
    BY <1>0, <1>2, <1>3, <1>6, <2>1, <2>2 DEF JobInv, OwnStage, Begun, Worked
  <2>4. WholeFiles(j)'
    BY <2>1 DEF WholeFiles
  <2> QED
    BY <1>1, <2>3, <2>4 DEF JobInv
<1> QED
  BY <1>4, <1>5, <1>6

LEMMA PackKeeps ==
  ASSUME IInv, NEW j \in Gated(cut), Pack(j), cut' = cut, revision' = revision, Answered'
  PROVE  JobInv(j)'
<1>0. /\ JobInv(j) /\ Typed /\ j \in AllJob /\ step[j] = "pack" /\ step'[j] = "push"
      /\ UNCHANGED <<wrote, at, view, here, made, place, record>>
      /\ kept'[j] \in {kept[j], made[j]} /\ made[j] \subseteq Substage
  BY JobsAre, StagesAssumption DEF IInv, Pack, Packed, runner, Typed
<1>1. \A s \in made[j] : s \in j /\ record[s][revision] = "green"
  BY <1>0 DEF JobInv, OwnFiles, OwnView
<1>2. OwnView(j)'
  BY <1>0 DEF JobInv, OwnView
<1>3. OwnFiles(j)'
  BY <1>0, <1>1 DEF JobInv, OwnFiles
<1>4. OwnStage(j)' /\ WholeFiles(j)'
  BY <1>0 DEF JobInv, OwnStage, WholeFiles, Begun, Worked, Passed
<1> QED
  BY <1>2, <1>3, <1>4 DEF JobInv

\* The job goes on to its push, to green or to its failure.
LEMMA EndingKeeps ==
  ASSUME IInv, NEW j \in Gated(cut), cut' = cut, revision' = revision, Answered => Answered',
         Push(j) \/ ListIssues(j) \/ File(j) \/ Break(j)
  PROVE  JobInv(j)'
<1>0. /\ JobInv(j) /\ Typed /\ j \in AllJob
      /\ UNCHANGED <<wrote, at, view, here, made, place, kept, record>>
      /\ \/ step'[j] \in {"list", "failure", "file"}
         \/ step'[j] = "success" /\ Worked(j)
      /\ Begun(j)
  <2>0. JobInv(j) /\ Typed /\ j \in AllJob
    BY JobsAre DEF IInv
  <2>1. CASE Push(j)
    BY <2>0, <2>1 DEF Push, runner, Typed, Worked, Begun
  <2>2. CASE ListIssues(j) \/ File(j)
    BY <2>0, <2>2 DEF ListIssues, File, runner, Typed, Worked, Begun
  <2>3. CASE Break(j)
    BY <2>0, <2>3 DEF Break, runner, Typed, Worked, Begun
  <2> QED
    BY <2>0, <2>1, <2>2, <2>3
<1>1. OwnView(j)' /\ OwnFiles(j)'
  BY <1>0 DEF JobInv, OwnView, OwnFiles
<1>2. OwnStage(j)' /\ WholeFiles(j)'
  BY <1>0 DEF JobInv, OwnStage, WholeFiles, Begun, Worked, Passed
<1> QED
  BY <1>1, <1>2 DEF JobInv

LEMMA ExpireKeeps ==
  ASSUME IInv, NEW j \in Gated(cut), cut' = cut, revision' = revision, Answered => Answered', Expire(j)
  PROVE  JobInv(j)'
<1>1. Same(j) /\ kept'[j] \subseteq kept[j] /\ record' = record
  BY JobsAre DEF IInv, Expire, runner, Typed, Same
<1> QED
  BY <1>1, UntouchedKeeps

LEMMA RerunKeeps ==
  ASSUME IInv, NEW j \in Gated(cut), cut' = cut, revision' = revision, Answered => Answered', Rerun
  PROVE  JobInv(j)'
<1>0. /\ JobInv(j) /\ Typed /\ j \in AllJob
      /\ UNCHANGED <<wrote, at, view, here, made, place, kept, record>>
      /\ step'[j] = IF step[j] = "success" THEN "success" ELSE "waiting"
  BY JobsAre DEF IInv, Rerun, runner, Typed
<1>1. OwnView(j)' /\ OwnFiles(j)'
  BY <1>0 DEF JobInv, OwnView, OwnFiles
<1>2. OwnStage(j)' /\ WholeFiles(j)'
  BY <1>0 DEF JobInv, OwnStage, WholeFiles, Begun, Worked, Passed
<1> QED
  BY <1>1, <1>2 DEF JobInv

LEMMA JobsKept ==
  ASSUME IInv, [WorkflowNext]_workflowVars
  PROVE  \A i \in Gated(cut) : JobInv(i)'
<1> SUFFICES ASSUME NEW i \in Gated(cut) PROVE JobInv(i)'
  OBVIOUS
<1>0. /\ Typed /\ cut' = cut /\ (Answered => Answered' /\ revision' = revision)
      /\ cut \in Cut /\ i \in AllJob /\ i \subseteq Substage /\ i # SelfReconcile /\ i # Evaluate
  BY AnsweredOnce, JobsAre, GatedAre DEF IInv
<1>1. ASSUME NEW word, AnswerReconcile(word)
      PROVE  JobInv(i)'
  <2>1. Same(i) /\ kept' = kept /\ record' = record /\ revision' = revision
    BY <1>0, <1>1 DEF AnswerReconcile, Same, runner, Typed
  <2> QED
    BY <1>0, <2>1, UntouchedKeeps
<1>2. ASSUME NEW word, AnswerEvaluate(word)
      PROVE  JobInv(i)'
  BY <1>2, AnsweringKeeps
<1>3. ASSUME NEW j \in Jobs, Moves(j)
      PROVE  JobInv(i)'
  <2>1. /\ revision' = revision /\ \A s \in Substage \ j : record'[s] = record[s]
        /\ \A k \in AllJob \ {j} : Same(k) /\ kept'[k] = kept[k]
    BY <1>0, <1>3, OthersStay
  <2>2. CASE i # j
    <3>1. \A s \in i : record'[s] = record[s]
      <4>1. CASE j \in Gated(cut)
        BY <1>0, <2>1, <2>2, <4>1, GatedApart
      <4>2. CASE j \in {SelfReconcile, Evaluate}
        BY <1>0, <2>1, <4>2, StagesAssumption DEF SelfReconcile, Evaluate
      <4> QED
        BY <1>0, <4>1, <4>2, JobsAre
    <3>2. Same(i) /\ kept'[i] \subseteq kept[i]
      BY <1>0, <2>1, <2>2
    <3> QED
      BY <1>0, <2>1, <3>1, <3>2, UntouchedKeeps
  <2>3. CASE i = j
    <3>1. step[j] \in {"bring", "enter", "run", "pack", "push"} => Answered'
      BY <1>0, RunsGated
    <3>2. CASE Start(j)
      BY <1>0, <2>1, <2>3, <3>2, StartKeeps
    <3>3. CASE Bring(j)
      <4>1. Answered'
        BY <3>1, <3>3 DEF Bring
      <4> QED
        BY <1>0, <2>1, <2>3, <3>3, <4>1, BringKeeps
    <3>4. CASE Enter(j)
      <4>1. Answered'
        BY <3>1, <3>4 DEF Enter
      <4> QED
        BY <1>0, <2>1, <2>3, <3>4, <4>1, EnterKeeps
    <3>5. CASE EndStage(j)
      <4>1. Answered'
        BY <3>1, <3>5 DEF EndStage
      <4> QED
        BY <1>0, <2>1, <2>3, <3>5, <4>1, EndKeeps
    <3>6. CASE Pack(j)
      <4>1. Answered'
        BY <3>1, <3>6 DEF Pack
      <4> QED
        BY <1>0, <2>1, <2>3, <3>6, <4>1, PackKeeps
    <3>7. CASE Push(j) \/ ListIssues(j) \/ File(j) \/ Break(j)
      BY <1>0, <2>1, <2>3, <3>7, EndingKeeps
    <3>8. CASE Expire(j)
      BY <1>0, <2>1, <2>3, <3>8, ExpireKeeps
    <3>9. ASSUME NEW s \in j \cap Substage, Hold(j, s) \/ Reuse(j, s) \/ Pass(j, s) \/ FailRun(j, s)
          PROVE  JobInv(i)'
      <4>1. Answered'
        BY <3>1, <3>9 DEF Hold, Reuse, Pass, FailRun, Turn
      <4> QED
        BY <1>0, <2>1, <2>3, <3>9, <4>1, SubstageKeeps
    <3> QED
      BY <1>3, <3>2, <3>3, <3>4, <3>5, <3>6, <3>7, <3>8, <3>9 DEF Moves
  <2> QED
    BY <2>2, <2>3
<1>4. CASE Rerun
  BY <1>0, <1>4, RerunKeeps DEF Rerun
<1>5. CASE PushElsewhere \/ UNCHANGED workflowVars
  <2>1. Same(i) /\ kept' = kept /\ record' = record /\ revision' = revision
    BY <1>5 DEF PushElsewhere, workflowVars, Same, runner
  <2> QED
    BY <1>0, <2>1, UntouchedKeeps
<1> QED
  BY <1>1, <1>2, <1>3, <1>4, <1>5, StepsAre

-----------------------------------------------------------------------------
\* The order of the jobs.
LEMMA NeedsReachBack ==
  ASSUME IInv, NEW j \in Gated(cut), \A i \in StageInFront(j) : step[i] = "success",
         NEW i \in Gated(cut), FirstStage(i) < FirstStage(j)
  PROVE  step[i] = "success"
<1> DEFINE l == FirstStage(j) - 1
<1>0. /\ Typed /\ InOrder /\ cut \in Cut /\ FirstStage(i) \in DOMAIN Stages
      /\ FirstStage(j) \in DOMAIN Stages /\ i \cap Stages[FirstStage(i)] # {}
  BY JobsAre, GatedAre DEF IInv
<1>1. cut # "stages" /\ l \in DOMAIN Stages /\ FirstStage(j) # 1 /\ FirstStage(i) <= l
  <2>1. cut = "stages" => FirstStage(i) = 1 /\ FirstStage(j) = 1
    BY <1>0, GatedAre
  <2>2. FirstStage(i) \in 1 .. Len(Stages) /\ FirstStage(j) \in 1 .. Len(Stages)
    BY <1>0, StagesAre
  <2>3. cut # "stages"
    BY <2>1
  <2> QED
    BY <2>2, <2>3, StagesAre
<1>2. CASE FirstStage(i) = l
  BY <1>0, <1>1, <1>2 DEF StageInFront
<1>3. CASE FirstStage(i) < l
  <2>1. PICK s \in Stages[l] : TRUE
    BY <1>1, StagesAre
  <2>2. PICK h \in Gated(cut) : s \in h /\ FirstStage(h) = l
    BY <1>0, <1>1, GatedCover
  <2>3. step[h] = "success"
    BY <1>1, <2>1, <2>2 DEF StageInFront
  <2> QED
    BY <1>0, <1>3, <2>2, <2>3 DEF InOrder, Begun
<1> QED
  BY <1>0, <1>1, <1>2, <1>3, StagesAre

LEMMA OrderKept ==
  ASSUME IInv, [WorkflowNext]_workflowVars
  PROVE  InOrder'
<1> SUFFICES ASSUME NEW i \in Gated(cut'), NEW j \in Gated(cut'), Begun(j)', FirstStage(i) < FirstStage(j)
             PROVE  step'[i] = "success"
  BY DEF InOrder
<1>0. /\ Typed /\ cut' = cut /\ i \in Gated(cut) /\ j \in Gated(cut) /\ i \in AllJob /\ j \in AllJob
      /\ j # SelfReconcile /\ j # Evaluate /\ InOrder
  BY AnsweredOnce, JobsAre, GatedAre DEF IInv
<1>1. CASE Begun(j)
  BY <1>0, <1>1, GreenStands DEF InOrder, Same
<1>2. CASE ~Begun(j)
  <2>1. ~(\E word : AnswerReconcile(word) \/ AnswerEvaluate(word))
    BY <1>0, <1>2 DEF AnswerReconcile, AnswerEvaluate, Begun, Typed
  <2>2. ~(Rerun \/ PushElsewhere \/ UNCHANGED workflowVars)
    BY <1>0, <1>2 DEF Rerun, PushElsewhere, workflowVars, Begun, Typed
  <2>3. PICK k \in Jobs : Moves(k)
    BY <2>1, <2>2, StepsAre
  <2>4. k = j
    BY <1>0, <1>2, <2>3, OthersStay DEF Begun, Same
  <2>5. Start(j)
    BY <1>0, <1>2, <2>3, <2>4 DEF Moves, Begun, Bring, Enter, EndStage, Pack, Push, ListIssues, File,
                                 Break, Expire, Hold, Reuse, Pass, FailRun, Turn
  <2>6. \A h \in JobNeeds(j) : step[h] = "success"
    BY <1>0, <1>2, <2>5 DEF Start, Begun, Typed
  <2>7. \A h \in StageInFront(j) : step[h] = "success"
    BY <1>0, <2>6 DEF JobNeeds
  <2>8. step[i] = "success"
    BY <1>0, <2>7, NeedsReachBack
  <2> QED
    BY <1>0, <2>8, GreenStands DEF Same
<1> QED
  BY <1>1, <1>2

\* The files of the stages behind.
LEMMA BroughtKept ==
  ASSUME IInv, [WorkflowNext]_workflowVars
  PROVE  Brought'
<1> SUFFICES ASSUME NEW i \in Gated(cut'), NEW j \in Gated(cut'), FirstStage(i) < FirstStage(j)
             PROVE  /\ step'[j] = "enter" => kept'[i] \cap UsesOf(j) \subseteq here'[j]
                    /\ step'[j] = "run" => kept'[i] \cap UsesOf(j) \subseteq place'[j]
  BY DEF Brought
<1>0. /\ Typed /\ cut' = cut /\ i \in Gated(cut) /\ j \in Gated(cut) /\ i \in AllJob /\ j \in AllJob
      /\ j # SelfReconcile /\ j # Evaluate /\ cut \in Cut
      /\ JobInv(i) /\ JobInv(j) /\ Brought
  BY AnsweredOnce, JobsAre, GatedAre DEF IInv
<1>1. /\ cut # "stages" /\ FirstStage(j) > 1 /\ FirstStage(i) \in DOMAIN Stages
      /\ FirstStage(j) \in DOMAIN Stages
  BY <1>0, GatedAre, StagesAre
<1>2. Begun(j) => kept'[i] \subseteq kept[i]
  BY <1>0, GreenStands DEF IInv, InOrder
<1>3. CASE /\ step'[j] = step[j] /\ here[j] \subseteq here'[j] /\ place[j] \subseteq place'[j]
  BY <1>0, <1>2, <1>3 DEF Brought, Begun
<1>4. CASE step'[j] \notin {"enter", "run"}
  BY <1>4
<1>5. CASE Bring(j)
  <2>1. Downloads(j)
    BY <1>1 DEF Downloads
  <2>2. /\ here'[j] = UNION {kept[h] : h \in UsedJobs(j)} /\ kept' = kept /\ step'[j] = "enter"
    BY <1>0, <1>5, <2>1 DEF Bring, Typed
  <2>3. ASSUME NEW e \in kept[i] \cap UsesOf(j)
        PROVE  i \in UsedJobs(j)
    <3>1. e \in i
      BY <1>0 DEF JobInv, OwnFiles
    <3> QED
      BY <1>0, <3>1 DEF UsedJobs
  <2> QED
    BY <2>2, <2>3
<1>6. CASE Enter(j) /\ step'[j] = "run"
  <2>1. at[j] = FirstStage(j) /\ step[j] = "enter"
    BY <1>0, <1>1, <1>6 DEF Enter, JobInv, OwnStage, Begun
  <2>2. place'[j] = Carried(j, at[j]) /\ kept' = kept
    BY <1>0, <1>1, <1>6, <2>1 DEF Enter, Typed
  <2>3. UsesOf(j) \subseteq UsesOf(Stages[at[j]])
    <3>1. PICK s \in j : TRUE
      BY <1>0, GatedAre
    <3> QED
      BY <1>0, <1>1, <2>1, <3>1, ReadsAreUsed
  <2>4. \A e \in kept[i] : record[e][revision] # "none"
    BY <1>0 DEF JobInv, OwnFiles
  <2>5. kept[i] \cap UsesOf(j) \subseteq here[j]
    BY <1>0, <2>1 DEF Brought
  <2>6. kept[i] \cap UsesOf(j) \subseteq Carried(j, at[j])
    BY <2>3, <2>4, <2>5 DEF Carried, Told
  <2> QED
    BY <1>6, <2>2, <2>6
<1>7. CASE Moves(j)
  <2>1. CASE Start(j)
    BY <1>0, <1>4, <2>1 DEF Start, Typed
  <2>2. CASE Enter(j)
    <3>1. step'[j] \in {"list", "run"}
      BY <1>0, <2>2 DEF Enter, Typed
    <3> QED
      BY <1>4, <1>6, <2>2, <3>1
  <2>3. CASE EndStage(j)
    <3>1. /\ here' = here /\ place' = place /\ step'[j] \in {"list", "run", "pack"} /\ step[j] = "run"
      BY <1>0, <2>3 DEF EndStage, Typed
    <3> QED
      BY <1>3, <1>4, <3>1
  <2>4. CASE Pack(j) \/ Push(j) \/ ListIssues(j) \/ File(j) \/ Break(j)
    BY <1>0, <1>4, <2>4 DEF Pack, Push, ListIssues, File, Break, Typed
  <2>5. CASE Expire(j)
    BY <1>0, <1>3, <2>5 DEF Expire, runner
  <2>6. ASSUME NEW s \in j \cap Substage, Hold(j, s) \/ Reuse(j, s) \/ Pass(j, s) \/ FailRun(j, s)
        PROVE  /\ step'[j] = step[j] /\ here[j] \subseteq here'[j] /\ place[j] \subseteq place'[j]
    BY <1>0, <2>6 DEF Hold, Reuse, Pass, FailRun, Typed
  <2> QED
    BY <1>3, <1>5, <1>7, <2>1, <2>2, <2>3, <2>4, <2>5, <2>6 DEF Moves
<1>8. ASSUME NEW k \in Jobs, Moves(k), k # j
      PROVE  /\ step'[j] = step[j] /\ here[j] \subseteq here'[j] /\ place[j] \subseteq place'[j]
  BY <1>0, <1>8, OthersStay DEF Same
<1>9. ASSUME NEW word, AnswerReconcile(word) \/ AnswerEvaluate(word)
      PROVE  /\ step'[j] = step[j] /\ here[j] \subseteq here'[j] /\ place[j] \subseteq place'[j]
  BY <1>0, <1>9 DEF AnswerReconcile, AnswerEvaluate, runner, Typed
<1>10. CASE Rerun
  BY <1>0, <1>4, <1>10 DEF Rerun
<1>11. CASE PushElsewhere \/ UNCHANGED workflowVars
  BY <1>3, <1>11 DEF PushElsewhere, workflowVars, runner
<1> QED
  BY <1>3, <1>7, <1>8, <1>9, <1>10, <1>11, StepsAre

\* What the jobs of a stage have passed is what its promotion asks for.
LEMMA StagePromotes ==
  ASSUME IInv, NEW l \in DOMAIN Stages,
         \A i \in Gated(cut) : i \cap Stages[l] # {} => Passed(i, l)
  PROVE  /\ Promotes(l, {s \in Stages[l] : record[s][revision] = "green"})
         /\ \A s \in Stages[l] : \/ record[s][revision] # "none"
                                 \/ \E i \in Gated(cut) : i \cap Stages[l] # {} /\ s \in HeldIn(i)
<1> DEFINE G == {s \in Stages[l] : record[s][revision] = "green"}
<1>0. Typed /\ cut \in Cut /\ Stages[l] \subseteq Substage /\ Stages[l] # {}
  BY JobsAre, StagesAre DEF IInv
<1>1. ASSUME NEW i \in Gated(cut)
      PROVE  /\ {s \in i \cap Stages[l] : view[i][s] = "green"} \subseteq G
             /\ \A s \in i \cap Stages[l] : view[i][s] = "failed" => record[s][revision] # "none"
  BY <1>0 DEF IInv, JobInv, OwnView
<1>2. \A s \in Stages[l] : \E i \in Gated(cut) : s \in i
  BY <1>0, GatedCover
<1>3. CASE cut = "substage"
  <2>1. G = Stages[l]
    BY <1>1, <1>2, <1>3 DEF Passed
  <2> QED
    BY <2>1, MoreIsEnough
<1>4. CASE cut # "substage"
  <2>1. PICK i \in Gated(cut) : i \cap Stages[l] = Stages[l]
    <3>1. CASE cut = "stages"
      BY <1>0, <3>1 DEF Gated
    <3>2. CASE cut = "stage"
      BY <3>2 DEF Gated
    <3> QED
      BY <1>0, <1>4, <3>1, <3>2 DEF Cut
  <2>2. Passed(i, l) /\ Promotes(l, {s \in i \cap Stages[l] : view[i][s] = "green"})
    BY <1>0, <1>4, <2>1 DEF Passed
  <2>3. Promotes(l, G)
    BY <1>1, <2>2, MoreIsEnough
  <2>4. ASSUME NEW s \in Stages[l], record[s][revision] = "none"
        PROVE  s \in HeldIn(i)
    <3>1. i \in AllJob /\ s \in i /\ s \in Substage
      BY <1>0, <2>1, JobsAre
    <3>2. view[i][s] # "todo" /\ view[i][s] # "green" /\ view[i][s] # "failed"
      BY <1>1, <2>1, <2>2, <2>4, <3>1 DEF Passed
    <3>3. view[i][s] \in {"todo", "green", "failed", "held"}
      BY <1>0, <3>1 DEF Typed
    <3> QED
      BY <3>1, <3>2, <3>3 DEF HeldIn
  <2> QED
    BY <1>0, <2>1, <2>3, <2>4
<1> QED
  BY <1>3, <1>4

\* A job of a stage that is green has passed it.
LEMMA GreenHasPassed ==
  ASSUME IInv, NEW i \in Gated(cut), step[i] = "success", NEW l \in DOMAIN Stages, i \cap Stages[l] # {}
  PROVE  Passed(i, l)
<1>0. JobInv(i) /\ Typed /\ cut \in Cut /\ Begun(i) /\ Worked(i)
  BY JobsAre DEF IInv, Begun, Worked
<1>1. CASE cut = "stages"
  <2>1. at[i] = Len(Stages) /\ Passed(i, at[i]) /\ \A k \in 1 .. at[i] - 1 : Passed(i, k)
    BY <1>0, <1>1 DEF JobInv, OwnStage
  <2>2. l \in 1 .. at[i] - 1 \/ l = at[i]
    BY <2>1, StagesAre
  <2> QED
    BY <2>1, <2>2
<1>2. CASE cut # "stages"
  <2>1. at[i] = FirstStage(i) /\ Passed(i, at[i])
    BY <1>0, <1>2 DEF JobInv, OwnStage
  <2>2. l = FirstStage(i)
    BY <1>0, <1>2, GatedAre, StagesAssumption
  <2> QED
    BY <2>1, <2>2
<1> QED
  BY <1>1, <1>2

LEMMA RefusalsKept ==
  ASSUME IInv, [WorkflowNext]_workflowVars
  PROVE  Refusals'
<1>0. Typed /\ cut' = cut /\ cut \in Cut /\ Refusals /\ Gated(cut) \subseteq AllJob
  BY AnsweredOnce, JobsAre DEF IInv
<1> SUFFICES ASSUME NEW j \in refused'
             PROVE  /\ j \in Gated(cut)
                    /\ \E i \in StageInFront(j) : HeldIn(i)' # {}
                    /\ \A i \in StageInFront(j) : step'[i] = "success"
  BY <1>0 DEF Refusals, HeldInFront, StageInFront
<1>1. \A i \in StageInFront(j) : i \in AllJob /\ i \in Gated(cut)
  BY <1>0 DEF StageInFront
<1>2. SUFFICES /\ j \in Gated(cut) /\ HeldInFront(j)
               /\ \A i \in StageInFront(j) : step[i] = "success"
  BY <1>1, GreenStands DEF HeldInFront, HeldIn, Same
<1>3. CASE j \in refused
  BY <1>0, <1>3 DEF Refusals
<1>4. CASE j \notin refused
  <2>1. Enter(j) /\ j \in Jobs
    BY <1>4, StepsAre DEF AnswerReconcile, AnswerEvaluate, Moves, Start, Bring, Enter, EndStage, Pack, Push,
        ListIssues, File, Break, Expire, Hold, Reuse, Pass, FailRun, Rerun, PushElsewhere, workflowVars
  <2>2. step[j] = "enter" /\ j \in Gated(cut) /\ JobInv(j) /\ Begun(j)
    BY <2>1, RunsGated DEF Enter, Begun
  <2>3. cut # "stages" /\ at[j] > 1 /\ ~Advanced(at[j] - 1, revision)
    BY <1>4, <2>1 DEF Enter, Told
  <2>4. at[j] = FirstStage(j)
    BY <2>2, <2>3 DEF JobInv, OwnStage
  <2> DEFINE l == FirstStage(j) - 1
  <2>5. l \in DOMAIN Stages /\ FirstStage(j) # 1 /\ FirstStage(j) \in DOMAIN Stages
    BY <1>0, <2>2, <2>3, <2>4, GatedAre, StagesAre
  <2>6. StageInFront(j) = {i \in Gated(cut) : i \cap Stages[l] # {}}
    BY <2>5 DEF StageInFront
  <2>7. ASSUME NEW i \in StageInFront(j)
        PROVE  step[i] = "success"
    <3>1. i \in Gated(cut) /\ i \cap Stages[l] # {}
      BY <2>6
    <3>2. FirstStage(i) = l
      BY <1>0, <2>3, <2>5, <3>1, GatedAre, StagesAssumption
    <3>3. FirstStage(i) < FirstStage(j)
      BY <2>5, <3>2, StagesAre
    <3> QED
      BY <2>2, <3>1, <3>3 DEF IInv, InOrder
  <2>8. HeldInFront(j)
    <3> SUFFICES ASSUME ~HeldInFront(j) PROVE FALSE
      OBVIOUS
    <3>1. \A i \in Gated(cut) : i \cap Stages[l] # {} => Passed(i, l)
      BY <2>5, <2>6, <2>7, GreenHasPassed
    <3>2. Advanced(l, revision)
      BY <2>5, <2>6, <3>1, StagePromotes DEF Advanced, HeldInFront
    <3> QED
      BY <2>3, <2>4, <3>2
  <2> QED
    BY <2>2, <2>7, <2>8
<1> QED
  BY <1>3, <1>4

\* A substage that runs has in place what the stages behind it kept for it.
LEMMA ReadsAreInPlace ==
  ASSUME IInv, NEW j \in Gated(cut), NEW s, Turn(j, s),
         NEW e \in MayRead(s) \cap Kept, e \in Earlier(StageOf(s))
  PROVE  e \in place[j] \cup HeldIn(j)
<1>0. /\ Typed /\ cut \in Cut /\ j \in AllJob /\ JobInv(j) /\ step[j] = "run"
      /\ s \in j /\ s \in Stages[at[j]] /\ at[j] \in DOMAIN Stages
  BY JobsAre DEF IInv, Turn, Typed
<1>1. StageOf(s) = at[j]
  BY <1>0, OneStage
<1>2. PICK i \in Gated(cut) : e \in kept[i]
  BY DEF Kept
<1>3. JobInv(i) /\ i \in AllJob /\ e \in i /\ e \in Builds /\ e \in Substage
  <2>1. JobInv(i) /\ i \in AllJob
    BY <1>0, JobsAre DEF IInv
  <2>2. e \in i /\ e \in Builds
    BY <1>0, <1>2, <2>1 DEF JobInv, OwnFiles, Typed
  <2> QED
    BY <2>1, <2>2, StagesAssumption
<1>4. PICK l \in 1 .. at[j] - 1 : e \in Stages[l]
  BY <1>1 DEF Earlier
<1>5. l \in DOMAIN Stages /\ l < at[j]
  BY <1>0, StagesAre
<1>6. CASE cut = "stages"
  <2>1. i = j
    BY <1>6 DEF Gated
  <2>2. Passed(j, l)
    BY <1>0, <1>6 DEF JobInv, OwnStage, Begun
  <2>3. view[j][e] # "todo"
    BY <1>3, <1>4, <2>1, <2>2 DEF Passed
  <2>4. view[j][e] # "failed" /\ (view[j][e] = "green" => Built(e) \subseteq place[j])
    BY <1>0, <1>2, <1>3, <1>6, <2>1 DEF JobInv, WholeFiles
  <2>5. view[j][e] \in {"green", "held"}
    BY <1>0, <1>3, <2>3, <2>4 DEF Typed
  <2> QED
    BY <1>3, <2>4, <2>5 DEF Built, HeldIn
<1>7. CASE cut # "stages"
  <2>1. at[j] = FirstStage(j)
    BY <1>0, <1>7 DEF JobInv, OwnStage, Begun
  <2>2. FirstStage(i) = l
    BY <1>0, <1>3, <1>4, <1>5, <1>7, GatedAre, StagesAssumption
  <2>3. e \in UsesOf(j)
    BY <1>0, <1>7, ReadsAreUsed
  <2>4. FirstStage(i) < FirstStage(j)
    BY <1>5, <2>1, <2>2
  <2> QED
    BY <1>0, <1>2, <2>3, <2>4 DEF IInv, Brought
<1> QED
  BY <1>6, <1>7

LEMMA ReadsKept ==
  ASSUME IInv, [WorkflowNext]_workflowVars
  PROVE  ReadsWhatStagesBuilt'
<1>0. ReadsWhatStagesBuilt
  BY DEF IInv
<1>1. CASE lacked' = lacked
  BY <1>0, <1>1 DEF ReadsWhatStagesBuilt
<1>2. CASE \E j \in Jobs : \E s \in j \cap Substage : Pass(j, s)
  <2>1. PICK j \in Jobs : \E s \in j \cap Substage : Pass(j, s)
    BY <1>2
  <2>2. PICK s \in j \cap Substage : Pass(j, s)
    BY <2>1
  <2>3. Turn(j, s) /\ j \in Gated(cut)
    BY <2>2, RunsGated DEF Pass, Turn
  <2> DEFINE X == (MayRead(s) \cap Kept) \ (place[j] \cup HeldIn(j))
  <2>4. lacked' = lacked \cup ({s} \X X)
    BY <2>2 DEF Pass
  <2>5. \A e \in X : e \notin Earlier(StageOf(s))
    BY <2>3, ReadsAreInPlace
  <2> HIDE DEF X
  <2>6. \A p \in {s} \X X : p[1] = s /\ p[2] \in X
    OBVIOUS
  <2> QED
    BY <1>0, <2>4, <2>5, <2>6 DEF ReadsWhatStagesBuilt
<1> QED
  BY <1>1, <1>2, StepsAre DEF AnswerReconcile, AnswerEvaluate, Moves, Start, Bring, Enter, EndStage, Pack,
      Push, ListIssues, File, Break, Expire, Hold, Reuse, FailRun, Rerun, PushElsewhere, workflowVars

-----------------------------------------------------------------------------
LEMMA InvAtFirst ==
  ASSUME WorkflowInit
  PROVE  IInv
<1>1. Typed
  BY TypesAtFirst
<1>2. /\ SelfReconcile \in AllJob /\ Evaluate \in AllJob
      /\ cut \in Cut /\ Gated(cut) \subseteq AllJob
  BY <1>1, JobsAre
<1>3. \A j \in AllJob : step[j] = "waiting"
  BY DEF WorkflowInit
<1>4. Counters
  <2>1. Pushed = {} /\ Filing = {}
    BY <1>2, <1>3 DEF Pushed, Filing
  <2>2. Cardinality({}) = 0
    BY FS_EmptySet
  <2>3. Cardinality(AllJob) \in Nat
    BY FiniteJobs, FS_CardinalityType
  <2> QED
    BY <2>1, <2>2, <2>3 DEF Counters, WorkflowInit
<1>5. EvaluatedOnce /\ ~Answered
  BY <1>2, <1>3 DEF EvaluatedOnce, Answered
<1>6. ASSUME NEW j \in Gated(cut)
      PROVE  JobInv(j)
  <2>1. OwnView(j) /\ OwnFiles(j)
    BY <1>2, <1>3 DEF OwnView, OwnFiles, WorkflowInit
  <2>2. OwnStage(j) /\ WholeFiles(j)
    BY <1>2, <1>3 DEF OwnStage, WholeFiles, Begun, Worked
  <2> QED
    BY <2>1, <2>2 DEF JobInv
<1>7. InOrder /\ Brought
  BY <1>2, <1>3 DEF InOrder, Brought, Begun
<1>8. Refusals /\ ReadsWhatStagesBuilt
  BY DEF Refusals, ReadsWhatStagesBuilt, WorkflowInit
<1> QED
  BY <1>1, <1>4, <1>5, <1>6, <1>7, <1>8 DEF IInv

LEMMA InvKept == IInv /\ [WorkflowNext]_workflowVars => IInv'
<1> SUFFICES ASSUME IInv, [WorkflowNext]_workflowVars
             PROVE  IInv'
  OBVIOUS
<1>1. cut' = cut /\ EvaluatedOnce'
  BY AnsweredOnce
<1>2. \A j \in Gated(cut') : JobInv(j)'
  BY <1>1, JobsKept
<1>3. Typed' /\ Counters' /\ InOrder' /\ Brought'
  BY TypesKept, CountersKept, OrderKept, BroughtKept
<1>4. Refusals' /\ ReadsWhatStagesBuilt'
  BY RefusalsKept, ReadsKept
<1> QED
  BY <1>1, <1>2, <1>3, <1>4 DEF IInv

LEMMA Invariance == WorkflowSpec => []IInv
  BY InvAtFirst, InvKept, PTL DEF WorkflowSpec

\* The variables of a run keep their types, in every cut and under every
\* failure: the tip moves once for each push that had something and each fault.
THEOREM TypeCorrect == WorkflowSpec => []WorkflowTypeOK
<1>1. IInv => WorkflowTypeOK
  BY TypesAreTyped DEF IInv
<1> QED
  BY <1>1, Invariance, PTL

\* applyNamedStage turns a job away (stagephase.go:76) for a substage the stage
\* in front held, and for nothing else.
THEOREM OnlyTheHeld == WorkflowSpec => []OnlyHeldRefuses
<1>1. IInv => OnlyHeldRefuses
  BY DEF IInv, Refusals, OnlyHeldRefuses
<1> QED
  BY <1>1, Invariance, PTL

\* Whatever pipeline, cut and reruns: a substage that runs reads every file
\* that is still kept of the stages before it and that it may read
\* (usedJobs, carryForward).
THEOREM FilesArrive == WorkflowSpec => []ReadsWhatStagesBuilt
<1>1. IInv => ReadsWhatStagesBuilt
  BY DEF IInv
<1> QED
  BY <1>1, Invariance, PTL

\* A run of a workflow that is green throughout has every stage promoted by the
\* records of its revision, though no job records a stage.
THEOREM GreenRuns == WorkflowSpec => []GreenIsProven
<1>1. IInv => GreenIsProven
  <2> SUFFICES ASSUME IInv, Succeeded, NEW k \in DOMAIN Stages
               PROVE  /\ Promotes(k, {s \in Stages[k] : Green(s)})
                      /\ \A s \in Stages[k] : Recorded(s) \/ \E j \in Jobs : s \in HeldIn(j)
    BY DEF GreenIsProven
  <2>1. Gated(cut) \subseteq Jobs
    BY DEF Jobs
  <2>2. \A i \in Gated(cut) : i \cap Stages[k] # {} => Passed(i, k)
    BY <2>1, GreenHasPassed DEF Succeeded
  <2> QED
    BY <2>1, <2>2, StagePromotes DEF Green, Recorded
<1> QED
  BY <1>1, Invariance, PTL
=============================================================================
