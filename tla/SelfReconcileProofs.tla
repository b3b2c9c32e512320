------------------------- MODULE SelfReconcileProofs -------------------------
(***************************************************************************)
(* Theorems about SelfReconcile: types, and that a recorded owner stays,   *)
(* whoever reconciles which version of the pipeline meanwhile.             *)
(***************************************************************************)
EXTENDS SelfReconcile, TLAPS

\* The types of what a process knows of its own reconcile.
OwnType ==
  /\ pc \in [Proc -> Places]
  /\ manager \in [Proc -> Alias]
  /\ todo \in [Proc -> SUBSET Resource]
  /\ due \in [Proc -> SUBSET Repo]
  /\ changed \in [Proc -> SUBSET Resource]
  /\ failing \in [Proc -> BOOLEAN]
  /\ owned \in [Proc -> [Resource -> Alias \union {0}]]
  /\ moved \in [Proc -> BOOLEAN] /\ published \in [Proc -> BOOLEAN]

\* The types of what everybody shares, and of the checkouts.
SharedType ==
  /\ pipeline \in Pipeline
  /\ files \in [File -> Content]
  /\ enabled \in [File -> BOOLEAN]
  /\ owner \in [Resource -> Alias \union {0}]
  /\ pin \in Pin
  /\ news \subseteq Kinds /\ later \subseteq Kinds
  /\ queued \in BOOLEAN
  /\ checkout \in [Proc -> Checkout]
  /\ edits \in 0..MaxEdits
  /\ faults \in 0..MaxFaults

LEMMA TypesTogether == TypeOK <=> SharedType /\ OwnType
BY DEF TypeOK, SharedType, OwnType

\* A resource is declared by a manager or by nobody, of a file.
LEMMA DeclaresType ==
  ASSUME ReconcileAssumption, NEW k \in Resource
  PROVE  FileOf(k) \in File /\ \A v \in Pipeline : Declares(v, k) \in Alias \union {0}
<1>1. FileOf(k) \in File
  BY DEF ReconcileAssumption, Resource, FileOf, File
<1> QED BY <1>1 DEF ReconcileAssumption, Declares

\* A process that stops keeps the types.
LEMMA StopType ==
  ASSUME ReconcileAssumption, OwnType, NEW p \in Proc, Stop(p)
  PROVE  OwnType'
<1>1. "idle" \in Places /\ 1 \in Alias
  BY DEF Places, Alias, ReconcileAssumption
<1>2. [k \in Resource |-> 0] \in [Resource -> Alias \union {0}]
  OBVIOUS
<1> QED BY <1>1, <1>2 DEF OwnType, Stop

LEMMA GoType ==
  ASSUME OwnType, NEW p \in Proc, NEW next \in Places, GoTo(p, next)
  PROVE  pc' \in [Proc -> Places]
BY DEF OwnType, GoTo

LEMMA DidType ==
  ASSUME OwnType, NEW p \in Proc, NEW k \in Resource, NEW change \in BOOLEAN, Did(p, k, change)
  PROVE  todo' \in [Proc -> SUBSET Resource] /\ changed' \in [Proc -> SUBSET Resource]
BY DEF OwnType, Did

\* What a checkout is rendered to, and what it starts as.
LEMMA CheckoutType ==
  ASSUME ReconcileAssumption, SharedType
  PROVE  /\ Clone \in Checkout
         /\ \A p \in Proc : Want(p) \in Content
         /\ Absent \in Content
BY DEF SharedType, Clone, Checkout, Want, Content, Rendered, Absent, Pin

\* A push changes checkouts, what is unreleased and whether a run waits.
LEMMA PushedType ==
  ASSUME SharedType, NEW r \in Repo, NEW P, NEW kind \in Kinds, Pushed(r, P, kind)
  PROVE  checkout' \in [Proc -> Checkout] /\ later' \subseteq Kinds /\ queued' \in BOOLEAN
<1>1. ASSUME NEW q \in Proc
      PROVE  /\ [checkout[q] EXCEPT !.ahead = @ \ {r}] \in Checkout
             /\ [checkout[q] EXCEPT !.behind = @ \union {r}] \in Checkout
  BY <1>1 DEF SharedType, Checkout
<1>2. checkout' \in [Proc -> Checkout]
  BY <1>1 DEF Pushed
<1> QED BY <1>2 DEF Pushed, SharedType

LEMMA FaultType == ASSUME ReconcileAssumption, SharedType, Fault PROVE faults' \in 0..MaxFaults
BY DEF ReconcileAssumption, SharedType, Fault

LEMMA EditType == ASSUME ReconcileAssumption, SharedType, Edit PROVE edits' \in 0..MaxEdits
BY DEF ReconcileAssumption, SharedType, Edit

-----------------------------------------------------------------------------
(* Types.                                                                  *)

LEMMA InitType == ASSUME ReconcileAssumption, Init PROVE TypeOK
<1>1. 1 \in Pipeline /\ 1 \in Alias /\ 0 \in Pin /\ pipeline \in Pipeline
  BY DEF Init, ReconcileAssumption, Pipeline, Alias, Pin
<1>2. files \in [File -> Content]
  BY <1>1 DEF Init, Content, Rendered, Absent
<1>3. owner \in [Resource -> Alias \union {0}]
  BY <1>1, DeclaresType DEF Init
<1>4. Clone \in Checkout
  BY <1>1, <1>2 DEF Init, Clone, Checkout
<1>5. edits \in 0..MaxEdits /\ faults \in 0..MaxFaults
  BY DEF Init, ReconcileAssumption
<1>6. news \subseteq Kinds /\ later \subseteq Kinds
  BY DEF Init, Kinds
<1>7. OwnType
  <2>1. "idle" \in Places
    BY DEF Places
  <2> QED BY <1>1, <2>1 DEF Init, OwnType
<1>8. SharedType
  BY <1>1, <1>2, <1>3, <1>4, <1>5, <1>6 DEF Init, SharedType
<1> QED BY <1>7, <1>8, TypesTogether

\* A reconcile that starts.
LEMMA BeginType ==
  ASSUME ReconcileAssumption, TypeOK, NEW p \in Proc, NEW v \in Pipeline, Begin(p, v)
  PROVE  OwnType'
<1>1. "realize" \in Places /\ Of(v, 1) \subseteq Resource
  BY DEF Places, Of
<1>2. owner \in [Resource -> Alias \union {0}] /\ OwnType
  BY TypesTogether DEF SharedType
<1> QED BY <1>1, <1>2, GoType DEF Begin, OwnType

LEMMA StartType ==
  ASSUME ReconcileAssumption, TypeOK,
         StartRun \/ \E p \in Laptops : StartOnLaptop(p)
  PROVE  TypeOK'
<1> USE DEF remotes
<1>0. SharedType /\ CI \in Proc /\ Laptops \subseteq Proc
  BY TypesTogether DEF Proc
<1>1. CASE StartRun
  <2>1. Begin(CI, pipeline) /\ pipeline \in Pipeline
    BY <1>0, <1>1 DEF StartRun, SharedType
  <2>2. OwnType'
    BY <1>0, <2>1, BeginType
  <2>3. checkout' \in [Proc -> Checkout]
    BY <1>0, <1>1, CheckoutType DEF StartRun, SharedType
  <2>4. SharedType'
    BY <1>0, <1>1, <2>1, <2>3 DEF StartRun, Begin, SharedType
  <2> QED BY <2>2, <2>4, TypesTogether DEF TypeOK, SharedType, OwnType
<1>2. CASE \E p \in Laptops : StartOnLaptop(p)
  <2> PICK p \in Laptops : StartOnLaptop(p)
    BY <1>2
  <2>1. Begin(p, checkout[p].pipeline) /\ checkout[p].pipeline \in Pipeline /\ p \in Proc
    BY <1>0 DEF StartOnLaptop, SharedType, Checkout
  <2>2. OwnType'
    BY <2>1, BeginType
  <2>3. SharedType'
    BY <1>0, <2>1, EditType DEF StartOnLaptop, Begin, SharedType
  <2> QED BY <2>2, <2>3 DEF TypeOK, SharedType, OwnType
<1> QED BY <1>1, <1>2

\* A resource that is realized, or fails.
LEMMA RealizeType ==
  ASSUME ReconcileAssumption, TypeOK, NEW p \in Proc,
         WriteFile(p) \/ EnableWorkflow(p) \/ ResourceFails(p)
  PROVE  TypeOK'
<1> USE DEF remotes
<1>0. SharedType /\ OwnType
  BY TypesTogether
<1>1. CASE WriteFile(p)
  <2> PICK k \in Resource :
        /\ checkout' = [checkout EXCEPT ![p].disk[FileOf(k)] = Want(p)]
        /\ Did(p, k, TRUE)
        /\ UNCHANGED <<remotes, queued, pc, manager, due, failing, owned, moved, published, edits, faults>>
    BY <1>1 DEF WriteFile
  <2>1. OwnType'
    BY <1>0, DidType DEF OwnType
  <2>2. [checkout[p] EXCEPT !.disk[FileOf(k)] = Want(p)] \in Checkout
    BY <1>0, CheckoutType, DeclaresType DEF SharedType, Checkout
  <2>3. checkout' \in [Proc -> Checkout]
    BY <1>0, <2>2 DEF SharedType
  <2>4. SharedType'
    BY <1>0, <2>3 DEF SharedType
  <2> QED BY <2>1, <2>4 DEF TypeOK, SharedType, OwnType
<1>2. CASE EnableWorkflow(p)
  <2> PICK k \in Resource :
        /\ enabled' = [enabled EXCEPT ![FileOf(k)] = TRUE]
        /\ Did(p, k, TRUE)
        /\ UNCHANGED <<pipeline, files, owner, pin, news, later, queued, checkout, pc, manager, due,
                       failing, owned, moved, published, edits, faults>>
    BY <1>2 DEF EnableWorkflow
  <2>1. OwnType'
    BY <1>0, DidType DEF OwnType
  <2>2. SharedType'
    BY <1>0 DEF SharedType
  <2> QED BY <2>1, <2>2 DEF TypeOK, SharedType, OwnType
<1>3. CASE ResourceFails(p)
  <2> PICK k \in Resource :
        /\ Fault
        /\ Did(p, k, FALSE)
        /\ failing' = [failing EXCEPT ![p] = TRUE]
        /\ UNCHANGED <<remotes, queued, checkout, pc, manager, due, owned, moved, published, edits>>
    BY <1>3 DEF ResourceFails
  <2>1. OwnType'
    BY <1>0, DidType DEF OwnType
  <2>2. SharedType'
    BY <1>0, FaultType DEF SharedType
  <2> QED BY <2>1, <2>2 DEF TypeOK, SharedType, OwnType
<1> QED BY <1>1, <1>2, <1>3

\* A settle, up to its push.
LEMMA SettleType ==
  ASSUME ReconcileAssumption, TypeOK, NEW p \in Proc, StartSettle(p) \/ Commit(p)
  PROVE  TypeOK'
<1> USE DEF remotes
<1>0. SharedType /\ OwnType /\ "settle" \in Places /\ "push" \in Places
  BY TypesTogether DEF Places
<1>1. CASE StartSettle(p)
  <2>1. pc' \in [Proc -> Places]
    BY <1>0, <1>1, GoType DEF StartSettle
  <2>2. OwnType'
    BY <1>0, <1>1, <2>1 DEF StartSettle, OwnType
  <2>3. SharedType'
    BY <1>0, <1>1 DEF StartSettle, SharedType
  <2> QED BY <2>2, <2>3 DEF TypeOK, SharedType, OwnType
<1>2. CASE Commit(p)
  <2> DEFINE head(r) ==
        [f \in File |-> IF f \in Written(p, r) THEN checkout[p].disk[f] ELSE checkout[p].head[f]]
  <2> PICK r \in Repo :
        /\ IF head(r) = checkout[p].head
             THEN due' = [due EXCEPT ![p] = @ \ {r}] /\ UNCHANGED <<checkout, pc>>
             ELSE /\ checkout' = [checkout EXCEPT ![p].head = head(r), ![p].ahead = @ \union {r}]
                  /\ GoTo(p, "push")
                  /\ UNCHANGED due
        /\ UNCHANGED <<remotes, queued, manager, todo, changed, failing, owned, moved, published, edits, faults>>
    BY <1>2 DEF Commit
  <2>1. checkout[p] \in Checkout /\ head(r) \in [File -> Content]
    BY <1>0 DEF SharedType, Checkout
  <2> HIDE DEF head
  <2>2. [[checkout[p] EXCEPT !.head = head(r)] EXCEPT !.ahead = @ \union {r}] \in Checkout
    BY <2>1 DEF Checkout
  <2>3. checkout' \in [Proc -> Checkout]
    <3>1. CASE head(r) = checkout[p].head
      BY <1>0, <3>1 DEF SharedType
    <3>2. CASE head(r) # checkout[p].head
      <4>1. checkout' = [checkout EXCEPT ![p] = [[checkout[p] EXCEPT !.head = head(r)] EXCEPT !.ahead = @ \union {r}]]
        BY <1>0, <3>2, <2>1 DEF SharedType, Checkout
      <4> QED BY <1>0, <4>1, <2>2 DEF SharedType
    <3> QED BY <3>1, <3>2
  <2>4. pc' \in [Proc -> Places] /\ due' \in [Proc -> SUBSET Repo]
    <3>1. CASE head(r) = checkout[p].head
      BY <1>0, <3>1 DEF OwnType
    <3>2. CASE head(r) # checkout[p].head
      BY <1>0, <3>2, GoType DEF OwnType
    <3> QED BY <3>1, <3>2
  <2>5. OwnType'
    BY <1>0, <2>4 DEF OwnType
  <2>6. SharedType'
    BY <1>0, <2>3 DEF SharedType
  <2> QED BY <2>5, <2>6 DEF TypeOK, SharedType, OwnType
<1> QED BY <1>1, <1>2

LEMMA AfterPushType ==
  ASSUME OwnType, NEW p \in Proc, NEW r \in Repo, AfterPush(p, r)
  PROVE  /\ pc' \in [Proc -> Places] /\ due' \in [Proc -> SUBSET Repo]
         /\ UNCHANGED <<pipeline, enabled, owner, pin, news, manager, todo, changed, owned, moved, edits>>
<1>1. "settle" \in Places
  BY DEF Places
<1> QED BY <1>1, GoType DEF AfterPush, OwnType

LEMMA PushReachesType ==
  ASSUME SharedType, NEW p \in Proc, NEW r \in Repo, PushReaches(p, r)
  PROVE  /\ files' \in [File -> Content]
         /\ checkout' \in [Proc -> Checkout] /\ later' \subseteq Kinds /\ queued' \in BOOLEAN
<1>1. checkout[p].head \in [File -> Content]
  BY DEF SharedType, Checkout
<1>2. files' \in [File -> Content]
  BY <1>1 DEF PushReaches, SharedType
<1>3. Pushed(r, {p}, "self") /\ "self" \in Kinds
  BY DEF PushReaches, Kinds
<1> QED BY <1>2, <1>3, PushedType

\* The three ways a push ends.
LEMMA PushType ==
  ASSUME ReconcileAssumption, TypeOK, NEW p \in Proc, Push(p) \/ PushFails(p) \/ PushUnanswered(p)
  PROVE  TypeOK'
<1>0. SharedType /\ OwnType
  BY TypesTogether
<1>1. CASE Push(p)
  <2> PICK r \in Repo : /\ AfterPush(p, r)
                        /\ PushReaches(p, r)
                        /\ published' = [published EXCEPT ![p] = TRUE]
                        /\ UNCHANGED <<failing, faults>>
    BY <1>1 DEF Push
  <2>1. OwnType'
    BY <1>0, AfterPushType DEF OwnType
  <2>2. SharedType'
    BY <1>0, AfterPushType, PushReachesType DEF SharedType
  <2> QED BY <2>1, <2>2 DEF TypeOK, SharedType, OwnType
<1>2. CASE PushFails(p)
  <2> PICK r \in Repo : /\ AfterPush(p, r)
                        /\ IF r \in checkout[p].behind THEN UNCHANGED faults ELSE Fault
                        /\ failing' = [failing EXCEPT ![p] = TRUE]
                        /\ UNCHANGED <<files, later, queued, checkout, published>>
    BY <1>2 DEF PushFails
  <2>1. OwnType'
    BY <1>0, AfterPushType DEF OwnType
  <2>2. faults' \in 0..MaxFaults
    BY <1>0, FaultType DEF SharedType
  <2>3. SharedType'
    BY <1>0, <2>2, AfterPushType DEF SharedType
  <2> QED BY <2>1, <2>3 DEF TypeOK, SharedType, OwnType
<1>3. CASE PushUnanswered(p)
  <2> PICK r \in Repo : /\ AfterPush(p, r)
                        /\ PushReaches(p, r)
                        /\ Fault
                        /\ failing' = [failing EXCEPT ![p] = TRUE]
                        /\ UNCHANGED published
    BY <1>3 DEF PushUnanswered
  <2>1. OwnType'
    BY <1>0, AfterPushType DEF OwnType
  <2>2. SharedType'
    BY <1>0, AfterPushType, PushReachesType, FaultType DEF SharedType
  <2> QED BY <2>1, <2>2 DEF TypeOK, SharedType, OwnType
<1> QED BY <1>1, <1>2, <1>3

\* A process that ends or fails, and one that goes on to the next manager.
LEMMA ManagerType ==
  ASSUME ReconcileAssumption, TypeOK, NEW p \in Proc,
         RefuseForeign(p) \/ NextManager(p) \/ ManagerFailed(p) \/ Crash(p)
  PROVE  TypeOK'
<1> USE DEF remotes
<1>0. SharedType /\ OwnType
  BY TypesTogether
<1>1. CASE RefuseForeign(p) \/ ManagerFailed(p) \/ Crash(p)
  <2>1. /\ Stop(p) /\ queued' = (queued \/ p = CI)
        /\ UNCHANGED <<remotes, checkout, edits>>
        /\ Fault \/ UNCHANGED faults
    BY <1>1 DEF RefuseForeign, ManagerFailed, Crash, Fail
  <2>2. OwnType'
    BY <1>0, <2>1, StopType
  <2>3. SharedType'
    BY <1>0, <2>1, FaultType DEF SharedType
  <2> QED BY <2>2, <2>3 DEF TypeOK, SharedType, OwnType
<1>2. CASE NextManager(p)
  <2>1. "realize" \in Places /\ "own" \in Places
    BY DEF Places
  <2>2. pc' \in [Proc -> Places]
    BY <1>0, <1>2, <2>1, GoType DEF NextManager
  <2>3. manager' \in [Proc -> Alias]
    <3>1. manager[p] \in Alias
      BY <1>0 DEF OwnType
    <3>2. manager[p] < LastAlias => manager[p] + 1 \in Alias
      BY <3>1 DEF Alias, ReconcileAssumption
    <3>3. manager' = manager \/ (manager[p] < LastAlias /\ manager' = [manager EXCEPT ![p] = manager[p] + 1])
      BY <1>2 DEF NextManager
    <3> QED BY <1>0, <3>2, <3>3 DEF OwnType
  <2>4. todo' \in [Proc -> SUBSET Resource]
    <3> DEFINE next == Of(checkout[p].pipeline, manager[p] + 1)
    <3>1. next \in SUBSET Resource
      BY DEF Of
    <3>2. todo' = [todo EXCEPT ![p] = next] \/ todo' = [todo EXCEPT ![p] = {}]
      BY <1>2 DEF NextManager
    <3>3. todo \in [Proc -> SUBSET Resource]
      BY <1>0 DEF OwnType
    <3> HIDE DEF next
    <3> QED BY <3>1, <3>2, <3>3
  <2>5. OwnType'
    BY <1>0, <1>2, <2>2, <2>3, <2>4 DEF NextManager, OwnType
  <2>6. SharedType'
    BY <1>0, <1>2 DEF NextManager, SharedType
  <2> QED BY <2>5, <2>6 DEF TypeOK, SharedType, OwnType
<1> QED BY <1>1, <1>2

LEMMA MergedType ==
  ASSUME ReconcileAssumption, TypeOK, NEW p \in Proc
  PROVE  Merged(p) \in [Resource -> Alias \union {0}]
<1>1. checkout[p].pipeline \in Pipeline
  BY DEF TypeOK, Checkout
<1>2. owned[p] \in [Resource -> Alias \union {0}]
  BY DEF TypeOK
<1> QED BY <1>1, <1>2, DeclaresType DEF Merged

\* The record, the answer and the jobs after it.
LEMMA AnswerType ==
  ASSUME ReconcileAssumption, TypeOK, NEW p \in Proc,
         PutOwnership(p) \/ Answer(p) \/ Evaluate(p) \/ Release(p)
  PROVE  TypeOK'
<1> USE DEF remotes
<1>0. SharedType /\ OwnType /\ {"answer", "evaluate", "release"} \subseteq Places
  BY TypesTogether DEF Places
<1>1. CASE PutOwnership(p)
  <2>1. CASE Merged(p) = owned[p] \/ owner \in {owned[p], Merged(p)}
    <3>1. pc' \in [Proc -> Places]
      BY <1>0, <1>1, <2>1, GoType DEF PutOwnership
    <3>2. owner' \in [Resource -> Alias \union {0}]
      BY <1>0, <1>1, <2>1, MergedType DEF PutOwnership, SharedType
    <3>3. OwnType'
      BY <1>0, <1>1, <2>1, <3>1 DEF PutOwnership, OwnType
    <3>4. SharedType'
      BY <1>0, <1>1, <2>1, <3>2 DEF PutOwnership, SharedType
    <3> QED BY <3>3, <3>4 DEF TypeOK, SharedType, OwnType
  <2>2. CASE ~(Merged(p) = owned[p] \/ owner \in {owned[p], Merged(p)})
    <3>1. Fail(p) /\ UNCHANGED <<remotes, checkout, edits, faults>>
      BY <1>1, <2>2 DEF PutOwnership
    <3>2. OwnType'
      BY <1>0, <3>1, StopType DEF Fail
    <3>3. SharedType'
      BY <1>0, <3>1 DEF Fail, SharedType
    <3> QED BY <3>2, <3>3 DEF TypeOK, SharedType, OwnType
  <2> QED BY <2>1, <2>2
<1>2. CASE Answer(p)
  <2>1. OwnType' /\ UNCHANGED queued
    <3>1. CASE End(p)
      BY <1>0, <3>1, StopType DEF End
    <3>2. CASE GoTo(p, "evaluate")
      BY <1>0, <1>2, <3>1, <3>2, GoType DEF Answer, OwnType
    <3> QED BY <1>2, <3>1, <3>2 DEF Answer
  <2>2. SharedType'
    BY <1>0, <1>2, <2>1 DEF Answer, SharedType
  <2> QED BY <2>1, <2>2 DEF TypeOK, SharedType, OwnType
<1>3. CASE Evaluate(p)
  <2>1. OwnType' /\ UNCHANGED queued
    <3>1. CASE End(p)
      BY <1>0, <3>1, StopType DEF End
    <3>2. CASE GoTo(p, "release")
      BY <1>0, <1>3, <3>1, <3>2, GoType DEF Evaluate, OwnType
    <3> QED BY <1>3, <3>1, <3>2 DEF Evaluate
  <2>2. SharedType'
    BY <1>0, <1>3, <2>1 DEF Evaluate, SharedType
  <2> QED BY <2>1, <2>2 DEF TypeOK, SharedType, OwnType
<1>4. CASE Release(p)
  <2>1. OwnType'
    BY <1>0, <1>4, StopType DEF Release, End
  <2>2. pin' \in Pin
    BY <1>0, <1>4 DEF Release, SharedType, Pin
  <2>3. SharedType'
    BY <1>0, <1>4, <2>2 DEF Release, End, SharedType
  <2> QED BY <2>1, <2>3 DEF TypeOK, SharedType, OwnType
<1> QED BY <1>1, <1>2, <1>3, <1>4

\* What people, the timer and git do.
LEMMA OutsideType ==
  ASSUME ReconcileAssumption, TypeOK,
         \/ \E p \in Laptops : Pull(p)
         \/ \E p \in Laptops, f \in File : DeleteFile(p, f)
         \/ \E r \in Repo : PushWork(r)
         \/ PushPipeline \/ Tick
  PROVE  TypeOK'
<1> USE DEF remotes, own
<1>0. SharedType /\ OwnType /\ Laptops \subseteq Proc /\ Home \in Repo /\ "work" \in Kinds
  BY TypesTogether DEF Proc, Home, Repo, ReconcileAssumption, Kinds
<1>1. UNCHANGED own
  BY DEF Pull, DeleteFile, PushWork, PushPipeline, Tick
<1>2. OwnType'
  BY <1>0, <1>1 DEF OwnType
<1>3. SharedType'
  <2>1. ASSUME NEW p \in Laptops, Pull(p) PROVE SharedType'
    <3>1. checkout' \in [Proc -> Checkout]
      BY <1>0, <2>1, CheckoutType DEF Pull, SharedType
    <3> QED BY <1>0, <2>1, <3>1 DEF Pull, SharedType
  <2>2. ASSUME NEW p \in Laptops, NEW f \in File, DeleteFile(p, f) PROVE SharedType'
    <3>1. [checkout[p] EXCEPT !.disk[f] = Absent] \in Checkout
      BY <1>0, <2>2, CheckoutType DEF SharedType, Checkout
    <3>2. checkout' \in [Proc -> Checkout]
      BY <1>0, <2>2, <3>1 DEF DeleteFile, SharedType
    <3> QED BY <1>0, <2>2, <3>2, EditType DEF DeleteFile, SharedType
  <2>3. ASSUME NEW r \in Repo, PushWork(r) PROVE SharedType'
    BY <1>0, <2>3, PushedType, EditType DEF PushWork, SharedType
  <2>4. CASE PushPipeline
    <3>1. pipeline' \in Pipeline
      BY <1>0, <2>4 DEF PushPipeline, SharedType, Pipeline, ReconcileAssumption
    <3> QED BY <1>0, <2>4, <3>1, PushedType, EditType DEF PushPipeline, SharedType
  <2>5. CASE Tick
    BY <1>0, <2>5, EditType DEF Tick, SharedType
  <2> QED BY <2>1, <2>2, <2>3, <2>4, <2>5
<1> QED BY <1>2, <1>3 DEF TypeOK, SharedType, OwnType

LEMMA NextType == ASSUME ReconcileAssumption, TypeOK, [Next]_vars PROVE TypeOK'
<1>1. CASE UNCHANGED vars
  BY <1>1 DEF TypeOK, vars, remotes, own
<1>2. CASE Next
  BY <1>2, StartType, RealizeType, SettleType, PushType, ManagerType, AnswerType, OutsideType DEF Next, Step
<1> QED BY <1>1, <1>2

\* The variables keep their types, for any number of files, repos, managers,
\* versions of the pipeline, laptops and faults.
THEOREM TypeCorrect == Spec => []TypeOK
<1>1. Init => TypeOK
  BY InitType, ReconcileAssumption
<1>2. TypeOK /\ [Next]_vars => TypeOK'
  BY NextType, ReconcileAssumption
<1> QED BY <1>1, <1>2, PTL DEF Spec

-----------------------------------------------------------------------------
(* Owners.                                                                 *)

\* A process nobody touched stands where it stood.
LEMMA UntouchedAsks ==
  ASSUME NEW p \in Proc, AsksForItsOwn(p),
         pc'[p] = pc[p], manager'[p] = manager[p], todo'[p] = todo[p], owned'[p] = owned[p],
         checkout'[p].pipeline = checkout[p].pipeline
  PROVE  AsksForItsOwn(p)'
BY DEF AsksForItsOwn, Declares

\* An idle process asks for nothing, whatever its checkout holds.
LEMMA IdleAsks ==
  ASSUME NEW p \in Proc, pc'[p] = "idle", manager'[p] = 1
  PROVE  AsksForItsOwn(p)'
BY DEF AsksForItsOwn

\* One that goes on without a word about owners asks for no more than before.
LEMMA LaterAsks ==
  ASSUME NEW p \in Proc, AsksForItsOwn(p), pc[p] # "idle",
         pc'[p] \in {"answer", "evaluate", "release"},
         manager'[p] = manager[p], owned'[p] = owned[p],
         checkout'[p].pipeline = checkout[p].pipeline
  PROVE  AsksForItsOwn(p)'
BY DEF AsksForItsOwn, Declares

LEMMA StopAsks ==
  ASSUME TypeOK, NEW p \in Proc, Stop(p)
  PROVE  AsksForItsOwn(p)'
<1>1. pc'[p] = "idle" /\ manager'[p] = 1
  BY DEF Stop, TypeOK
<1> QED BY <1>1, IdleAsks

\* What a commit leaves alone.
LEMMA CommitStays ==
  ASSUME TypeOK, NEW p \in Proc, Commit(p), NEW q \in Proc
  PROVE  /\ checkout'[q].pipeline = checkout[q].pipeline
         /\ q # p => pc'[q] = pc[q]
         /\ pc[p] = "settle" /\ pc'[p] \in {"settle", "push"}
         /\ UNCHANGED <<owner, manager, todo, owned>>
<1> DEFINE head(r) ==
      [f \in File |-> IF f \in Written(p, r) THEN checkout[p].disk[f] ELSE checkout[p].head[f]]
<1> PICK r \in Repo :
      /\ pc[p] = "settle"
      /\ IF head(r) = checkout[p].head
           THEN due' = [due EXCEPT ![p] = @ \ {r}] /\ UNCHANGED <<checkout, pc>>
           ELSE /\ checkout' = [checkout EXCEPT ![p].head = head(r), ![p].ahead = @ \union {r}]
                /\ GoTo(p, "push")
                /\ UNCHANGED due
      /\ UNCHANGED <<remotes, queued, manager, todo, changed, failing, owned, moved, published, edits, faults>>
  BY DEF Commit
<1> HIDE DEF head
<1>1. CASE head(r) = checkout[p].head
  BY <1>1 DEF remotes
<1>2. CASE head(r) # checkout[p].head
  <2>0. checkout[p] \in Checkout
    BY DEF TypeOK
  <2>1. checkout' = [checkout EXCEPT ![p] = [[checkout[p] EXCEPT !.head = head(r)] EXCEPT !.ahead = @ \union {r}]]
    BY <1>2, <2>0 DEF TypeOK, Checkout
  <2>2. checkout'[q].pipeline = checkout[q].pipeline
    BY <2>1 DEF TypeOK, Checkout
  <2>3. (q # p => pc'[q] = pc[q]) /\ pc'[p] = "push"
    BY <1>2 DEF GoTo, TypeOK
  <2> QED BY <2>2, <2>3 DEF remotes
<1> QED BY <1>1, <1>2

\* A checkout keeps its version of the pipeline through every step of a
\* reconcile, its own or another's.
LEMMA CheckoutStays ==
  ASSUME ReconcileAssumption, TypeOK, NEW p \in Proc,
         \/ Step(p) \/ PushFails(p) \/ PushUnanswered(p) \/ ResourceFails(p) \/ Crash(p),
         NEW q \in Proc
  PROVE  checkout'[q].pipeline = checkout[q].pipeline
<1>1. ASSUME NEW r, NEW P, NEW kind, Pushed(r, P, kind)
      PROVE  checkout'[q].pipeline = checkout[q].pipeline
  BY <1>1 DEF Pushed, TypeOK, Checkout
<1>2. CASE WriteFile(p)
  BY <1>2 DEF WriteFile, TypeOK, Checkout
<1>3. CASE Commit(p)
  BY <1>3, CommitStays
<1>4. CASE Push(p) \/ PushUnanswered(p)
  BY <1>1, <1>4 DEF Push, PushUnanswered, PushReaches
<1>5. CASE ~(WriteFile(p) \/ Commit(p) \/ Push(p) \/ PushUnanswered(p))
  <2>1. UNCHANGED checkout
    BY <1>5 DEF Step, RefuseForeign, EnableWorkflow, ResourceFails, StartSettle, PushFails, NextManager,
                ManagerFailed, PutOwnership, Answer, Evaluate, Release, Crash
  <2> QED BY <2>1
<1> QED BY <1>2, <1>3, <1>4, <1>5

\* What a step of p leaves of the others.
LEMMA OthersStay ==
  ASSUME TypeOK, NEW p \in Proc,
         \/ Step(p) \/ PushFails(p) \/ PushUnanswered(p) \/ ResourceFails(p) \/ Crash(p),
         NEW q \in Proc, q # p
  PROVE  pc'[q] = pc[q] /\ manager'[q] = manager[q] /\ todo'[q] = todo[q] /\ owned'[q] = owned[q]
<1>1. ASSUME Stop(p)
      PROVE  pc'[q] = pc[q] /\ manager'[q] = manager[q] /\ todo'[q] = todo[q] /\ owned'[q] = owned[q]
  BY <1>1 DEF Stop, TypeOK
<1>2. CASE RefuseForeign(p) \/ ManagerFailed(p) \/ Release(p) \/ Crash(p)
  BY <1>1, <1>2 DEF RefuseForeign, ManagerFailed, Release, Crash, Fail, End
<1>3. CASE WriteFile(p) \/ EnableWorkflow(p) \/ ResourceFails(p)
  BY <1>3 DEF WriteFile, EnableWorkflow, ResourceFails, Did, TypeOK
<1>4. CASE StartSettle(p) \/ Commit(p) \/ NextManager(p)
  BY <1>4, CommitStays DEF StartSettle, NextManager, GoTo, TypeOK
<1>5. CASE Push(p) \/ PushFails(p) \/ PushUnanswered(p)
  BY <1>5 DEF Push, PushFails, PushUnanswered, AfterPush, GoTo, TypeOK
<1>6. CASE PutOwnership(p) \/ Answer(p) \/ Evaluate(p)
  BY <1>1, <1>6 DEF PutOwnership, Answer, Evaluate, Fail, End, GoTo, TypeOK
<1> QED BY <1>2, <1>3, <1>4, <1>5, <1>6 DEF Step

\* A manager that is asked refuses what is recorded under another, so that what
\* it leaves behind is its own or nobody's.
LEMMA RealizeAsks ==
  ASSUME ReconcileAssumption, TypeOK, NEW p \in Proc, AsksForItsOwn(p),
         WriteFile(p) \/ EnableWorkflow(p) \/ ResourceFails(p)
  PROVE  AsksForItsOwn(p)'
<1>1. PICK k \in Resource :
        /\ Reaches(p, k) /\ ~Foreign(p, k)
        /\ todo' = [todo EXCEPT ![p] = {j \in @ : j > k}]
        /\ UNCHANGED <<pc, manager, owned>>
  BY DEF WriteFile, EnableWorkflow, ResourceFails, Did
<1>2. checkout'[p].pipeline = checkout[p].pipeline
  BY CheckoutStays DEF Step
<1>3. ASSUME NEW j \in Resource, j \in todo[p], j \notin todo'[p]
      PROVE  owned[p][j] \in {0, manager[p]}
  <2>1. j = k \/ j < k
    BY <1>1, <1>3 DEF TypeOK, Resource, ReconcileAssumption
  <2>2. ~Foreign(p, j)
    BY <1>1, <1>3, <2>1 DEF Reaches, Kept
  <2> QED BY <2>2 DEF Foreign
<1>4. pc[p] = "realize"
  BY <1>1 DEF Reaches
<1> QED BY <1>1, <1>2, <1>3, <1>4 DEF AsksForItsOwn, Declares

LEMMA SettleAsks ==
  ASSUME ReconcileAssumption, TypeOK, NEW p \in Proc, AsksForItsOwn(p),
         StartSettle(p) \/ Commit(p) \/ Push(p) \/ PushFails(p) \/ PushUnanswered(p)
  PROVE  AsksForItsOwn(p)'
<1>1. checkout'[p].pipeline = checkout[p].pipeline
  BY CheckoutStays DEF Step
<1>2. CASE StartSettle(p)
  <2>1. /\ \A k \in todo[p] : owned[p][k] \in {0, manager[p]}
        /\ pc[p] = "realize" /\ pc'[p] = "settle"
        /\ UNCHANGED <<manager, owned>>
    BY <1>2 DEF StartSettle, Realized, Kept, Foreign, GoTo, TypeOK
  <2> QED BY <1>1, <2>1 DEF AsksForItsOwn, Declares
<1>3. CASE Commit(p)
  BY <1>1, <1>3, CommitStays DEF AsksForItsOwn, Declares
<1>4. CASE Push(p) \/ PushFails(p) \/ PushUnanswered(p)
  <2>1. pc[p] = "push" /\ pc'[p] = "settle" /\ UNCHANGED <<manager, todo, owned>>
    BY <1>4 DEF Push, PushFails, PushUnanswered, AfterPush, GoTo, TypeOK
  <2> QED BY <1>1, <2>1 DEF AsksForItsOwn, Declares
<1> QED BY <1>2, <1>3, <1>4

LEMMA NextManagerAsks ==
  ASSUME ReconcileAssumption, TypeOK, NEW p \in Proc, AsksForItsOwn(p), NextManager(p)
  PROVE  AsksForItsOwn(p)'
<1>1. checkout'[p].pipeline = checkout[p].pipeline /\ checkout[p].pipeline \in Pipeline
  BY CheckoutStays DEF Step, TypeOK, Checkout
<1>2. ASSUME NEW k \in Resource, Declares(checkout[p].pipeline, k) # 0,
             Declares(checkout[p].pipeline, k) <= manager[p]
      PROVE  owned[p][k] \in {0, Declares(checkout[p].pipeline, k)}
  <2>1. pc[p] \in {"settle", "realize"}
    BY DEF NextManager, Settled, Realized
  <2>2. CASE Declares(checkout[p].pipeline, k) < manager[p]
    BY <1>2, <2>1, <2>2 DEF AsksForItsOwn
  <2>3. CASE Declares(checkout[p].pipeline, k) = manager[p] /\ pc[p] = "settle"
    BY <1>2, <2>3 DEF AsksForItsOwn
  <2>4. CASE Declares(checkout[p].pipeline, k) = manager[p] /\ pc[p] = "realize"
    <3>1. k \in todo[p] => ~Foreign(p, k)
      BY <2>4 DEF NextManager, Settled, Realized, Kept
    <3> QED BY <1>2, <2>4, <3>1 DEF AsksForItsOwn, Foreign
  <2>5. Declares(checkout[p].pipeline, k) \in Nat /\ manager[p] \in Nat
    BY <1>1, DeclaresType DEF TypeOK, Alias
  <2>6. \/ Declares(checkout[p].pipeline, k) < manager[p]
        \/ Declares(checkout[p].pipeline, k) = manager[p]
    BY <1>2, <2>5
  <2> QED BY <2>1, <2>2, <2>3, <2>4, <2>6
<1>3. \A k \in Resource : Declares(checkout[p].pipeline, k) \in 0..LastAlias
  BY <1>1, DeclaresType DEF Alias, ReconcileAssumption
<1>4. manager[p] \in 1..LastAlias
  BY DEF TypeOK, Alias
<1>5. CASE manager[p] < LastAlias
  <2>1. /\ pc'[p] = "realize" /\ manager'[p] = manager[p] + 1 /\ UNCHANGED owned
        /\ todo'[p] = Of(checkout[p].pipeline, manager[p] + 1)
    BY <1>5 DEF NextManager, GoTo, TypeOK
  <2>2. ASSUME NEW k \in Resource, Declares(checkout[p].pipeline, k) = manager'[p]
        PROVE  k \in todo'[p]
    BY <2>1, <2>2 DEF Of
  <2>3. ASSUME NEW k \in Resource, Declares(checkout[p].pipeline, k) < manager'[p]
        PROVE  Declares(checkout[p].pipeline, k) <= manager[p]
    BY <1>3, <1>4, <2>1, <2>3 DEF ReconcileAssumption
  <2>4. ASSUME NEW k \in Resource PROVE Declares(checkout[p].pipeline, k)' = Declares(checkout[p].pipeline, k)
    BY <1>1 DEF Declares
  <2> QED BY <1>2, <2>1, <2>2, <2>3, <2>4 DEF AsksForItsOwn
<1>6. CASE manager[p] = LastAlias
  <2>1. pc'[p] = "own" /\ UNCHANGED <<manager, owned>>
    BY <1>6 DEF NextManager, GoTo, TypeOK
  <2>2. \A k \in Resource : Declares(checkout[p].pipeline, k) <= manager[p]
    BY <1>3, <1>6 DEF ReconcileAssumption
  <2>3. ASSUME NEW k \in Resource PROVE Declares(checkout[p].pipeline, k)' = Declares(checkout[p].pipeline, k)
    BY <1>1 DEF Declares
  <2> QED BY <1>2, <2>1, <2>2, <2>3 DEF AsksForItsOwn
<1> QED BY <1>4, <1>5, <1>6 DEF ReconcileAssumption

\* The record and everything after it.
LEMMA AnswerAsks ==
  ASSUME ReconcileAssumption, TypeOK, NEW p \in Proc, AsksForItsOwn(p),
         \/ RefuseForeign(p) \/ ManagerFailed(p) \/ Crash(p)
         \/ PutOwnership(p) \/ Answer(p) \/ Evaluate(p) \/ Release(p)
  PROVE  AsksForItsOwn(p)'
<1>1. CASE Stop(p)
  BY <1>1, StopAsks
<1>2. CASE /\ pc[p] # "idle" /\ UNCHANGED <<manager, owned, checkout>>
           /\ GoTo(p, "answer") \/ GoTo(p, "evaluate") \/ GoTo(p, "release")
  <2>1. pc'[p] \in {"answer", "evaluate", "release"}
    BY <1>2 DEF GoTo, TypeOK
  <2> QED BY <1>2, <2>1, LaterAsks
<1> QED BY <1>1, <1>2
  DEF RefuseForeign, ManagerFailed, Crash, PutOwnership, Answer, Evaluate, Release, Fail, End

\* A process asks for its own from the start.
LEMMA BeginAsks ==
  ASSUME ReconcileAssumption, TypeOK, NEW p \in Proc, NEW v \in Pipeline, AsksForItsOwn(p),
         Begin(p, v), checkout'[p].pipeline = v
  PROVE  AsksForItsOwn(p)'
<1>1. /\ pc'[p] = "realize" /\ manager'[p] = 1
      /\ todo'[p] = Of(v, 1)
  BY DEF Begin, GoTo, TypeOK, AsksForItsOwn
<1>2. ASSUME NEW k \in Resource PROVE Declares(v, k) \in Nat /\ Declares(checkout[p].pipeline, k)' = Declares(v, k)
  BY DeclaresType DEF Alias, Declares
<1> QED BY <1>1, <1>2 DEF AsksForItsOwn, Of

LEMMA NextAsks ==
  ASSUME ReconcileAssumption, TypeOK, RecordsItsOwn, [Next]_vars
  PROVE  RecordsItsOwn'
<1> SUFFICES ASSUME NEW q \in Proc
             PROVE  AsksForItsOwn(q)'
  BY DEF RecordsItsOwn
<1>0. AsksForItsOwn(q) /\ CI \in Proc /\ Laptops \subseteq Proc
  BY DEF RecordsItsOwn, Proc
<1>1. CASE UNCHANGED <<own, checkout>>
  BY <1>0, <1>1, UntouchedAsks DEF own
<1>2. CASE \E p \in Proc : Step(p) \/ PushFails(p) \/ PushUnanswered(p) \/ ResourceFails(p) \/ Crash(p)
  <2> PICK p \in Proc : Step(p) \/ PushFails(p) \/ PushUnanswered(p) \/ ResourceFails(p) \/ Crash(p)
    BY <1>2
  <2>1. CASE p = q
    BY <1>0, <2>1, RealizeAsks, SettleAsks, NextManagerAsks, AnswerAsks DEF Step
  <2>2. CASE p # q
    BY <1>0, <2>2, OthersStay, CheckoutStays, UntouchedAsks
  <2> QED BY <2>1, <2>2
<1>3. CASE StartRun
  <2>1. Begin(CI, pipeline) /\ pipeline \in Pipeline
    BY <1>3 DEF StartRun, TypeOK
  <2>2. CASE q = CI
    <3>1. checkout'[CI].pipeline = pipeline
      BY <1>0, <1>3 DEF StartRun, Clone, TypeOK
    <3> QED BY <1>0, <2>1, <2>2, <3>1, BeginAsks
  <2>3. CASE q # CI
    <3>1. /\ pc'[q] = pc[q] /\ manager'[q] = manager[q] /\ todo'[q] = todo[q] /\ owned'[q] = owned[q]
          /\ checkout'[q].pipeline = checkout[q].pipeline
      BY <1>0, <1>3, <2>1, <2>3 DEF StartRun, Begin, GoTo, TypeOK
    <3> QED BY <1>0, <3>1, UntouchedAsks
  <2> QED BY <2>2, <2>3
<1>4. CASE \E p \in Laptops : StartOnLaptop(p)
  <2> PICK p \in Laptops : StartOnLaptop(p)
    BY <1>4
  <2>1. Begin(p, checkout[p].pipeline) /\ UNCHANGED checkout /\ p \in Proc
    BY <1>0 DEF StartOnLaptop
  <2>2. checkout[p].pipeline \in Pipeline
    BY <2>1 DEF TypeOK, Checkout
  <2>3. CASE q = p
    BY <1>0, <2>1, <2>2, <2>3, BeginAsks
  <2>4. CASE q # p
    <3>1. pc'[q] = pc[q] /\ manager'[q] = manager[q] /\ todo'[q] = todo[q] /\ owned'[q] = owned[q]
      BY <1>0, <2>1, <2>4 DEF Begin, GoTo, TypeOK
    <3> QED BY <1>0, <2>1, <3>1, UntouchedAsks
  <2> QED BY <2>3, <2>4
<1>5. CASE \E p \in Laptops : Pull(p)
  <2> PICK p \in Laptops : Pull(p)
    BY <1>5
  <2>1. UNCHANGED <<pc, manager, todo, owned>>
    BY DEF Pull, own
  <2>2. CASE q = p
    <3>1. pc'[q] = "idle" /\ manager'[q] = 1
      BY <1>0, <2>1, <2>2 DEF Pull, AsksForItsOwn
    <3> QED BY <3>1, IdleAsks
  <2>3. CASE q # p
    <3>1. checkout'[q].pipeline = checkout[q].pipeline
      BY <1>0, <2>3 DEF Pull, TypeOK
    <3> QED BY <1>0, <2>1, <3>1, UntouchedAsks
  <2> QED BY <2>2, <2>3
<1>6. CASE \E p \in Laptops, f \in File : DeleteFile(p, f)
  <2> PICK p \in Laptops, f \in File : DeleteFile(p, f)
    BY <1>6
  <2>1. UNCHANGED <<pc, manager, todo, owned>> /\ checkout'[q].pipeline = checkout[q].pipeline
    BY <1>0 DEF DeleteFile, own, TypeOK, Checkout
  <2> QED BY <1>0, <2>1, UntouchedAsks
<1>7. CASE PushPipeline \/ \E r \in Repo : PushWork(r)
  <2>1. UNCHANGED <<pc, manager, todo, owned>> /\ checkout'[q].pipeline = checkout[q].pipeline
    BY <1>0, <1>7 DEF PushPipeline, PushWork, Pushed, own, TypeOK, Checkout
  <2> QED BY <1>0, <2>1, UntouchedAsks
<1>8. CASE Tick
  BY <1>1, <1>8 DEF Tick
<1>9. CASE UNCHANGED vars
  BY <1>1, <1>9 DEF vars
<1> QED BY <1>2, <1>3, <1>4, <1>5, <1>6, <1>7, <1>8, <1>9 DEF Next

\* The inductive invariant: whoever reconciles, on a laptop or in a run, was
\* refused before it came to a resource recorded under another manager.
THEOREM Refusal == Spec => []RecordsItsOwn
<1>1. Init => RecordsItsOwn
  BY ReconcileAssumption DEF Init, RecordsItsOwn, AsksForItsOwn
<1>2. TypeOK /\ RecordsItsOwn /\ [Next]_vars => RecordsItsOwn'
  BY NextAsks, ReconcileAssumption
<1> QED BY <1>1, <1>2, TypeCorrect, PTL DEF Spec

\* The record a process puts changes no recorded owner.
LEMMA PutKeepsOwners ==
  ASSUME ReconcileAssumption, TypeOK, RecordsItsOwn, NEW p \in Proc, PutOwnership(p),
         NEW k \in Resource, owner[k] # 0
  PROVE  owner'[k] = owner[k]
<1>1. owner' = owner \/ (owner = owned[p] /\ owner' = Merged(p))
  BY DEF PutOwnership
<1>2. CASE owner = owned[p] /\ owner' = Merged(p)
  <2>1. pc[p] = "own"
    BY DEF PutOwnership
  <2>2. Declares(checkout[p].pipeline, k) # 0 => owned[p][k] \in {0, Declares(checkout[p].pipeline, k)}
    BY <2>1 DEF RecordsItsOwn, AsksForItsOwn
  <2> QED BY <1>2, <2>2 DEF Merged
<1> QED BY <1>1, <1>2

\* A recorded owner stays, however many reconciles of different versions of the
\* pipeline put their records over one another.
THEOREM OwnersAreKept == Spec => OwnersStay
<1>1. TypeOK /\ RecordsItsOwn /\ [Next]_vars =>
        [\A k \in Resource : owner[k] # 0 => owner'[k] = owner[k]]_vars
  <2> SUFFICES ASSUME TypeOK, RecordsItsOwn, Next, NEW k \in Resource, owner[k] # 0
               PROVE  owner'[k] = owner[k]
    OBVIOUS
  <2>1. CASE \E p \in Proc : PutOwnership(p)
    BY <2>1, PutKeepsOwners, ReconcileAssumption
  <2>2. CASE ~ \E p \in Proc : PutOwnership(p)
    <3>1. ASSUME NEW p \in Proc, Commit(p) PROVE UNCHANGED owner
      BY <3>1, CommitStays
    <3>2. ASSUME NEW p \in Proc, Step(p) PROVE UNCHANGED owner
      BY <2>2, <3>1, <3>2
      DEF Step, RefuseForeign, WriteFile, EnableWorkflow, StartSettle, Push, AfterPush, NextManager,
          ManagerFailed, Answer, Evaluate, Release, remotes
    <3>3. ASSUME NEW p \in Proc, PushFails(p) \/ PushUnanswered(p) \/ ResourceFails(p) \/ Crash(p)
          PROVE  UNCHANGED owner
      BY <3>3 DEF PushFails, PushUnanswered, AfterPush, ResourceFails, Crash, remotes
    <3>4. UNCHANGED owner
      BY <3>2, <3>3
      DEF Next, StartRun, StartOnLaptop, Begin, Pull, DeleteFile, PushWork, PushPipeline, Tick, remotes
    <3> QED BY <3>4
  <2> QED BY <2>1, <2>2
<1> QED BY <1>1, TypeCorrect, Refusal, PTL DEF Spec, OwnersStay

-----------------------------------------------------------------------------
(* What a run stands on.                                                   *)

\* A file is one resource.
LEMMA FileResources ==
  ASSUME ReconcileAssumption
  PROVE  /\ \A f \in File : /\ FileResource(f) \in Resource /\ IsFile(FileResource(f))
                            /\ FileOf(FileResource(f)) = f
         /\ \A k \in Resource : IsFile(k) => FileResource(FileOf(k)) = k
<1>1. ASSUME NEW f \in File
      PROVE  /\ FileResource(f) \in Resource /\ IsFile(FileResource(f))
             /\ FileOf(FileResource(f)) = f
  BY DEF ReconcileAssumption, File, Resource, FileResource, FileOf, IsFile
<1>2. ASSUME NEW k \in Resource, IsFile(k)
      PROVE  FileResource(FileOf(k)) = k
  BY <1>2 DEF ReconcileAssumption, Resource, FileResource, FileOf, IsFile
<1> QED BY <1>1, <1>2

\* What a step leaves alone when it does not touch the run: its place, and its
\* checkout but for how far the remotes went on without it.
Untouched ==
  /\ pc'[CI] = pc[CI] /\ manager'[CI] = manager[CI] /\ todo'[CI] = todo[CI]
  /\ due'[CI] = due[CI] /\ changed'[CI] = changed[CI] /\ failing'[CI] = failing[CI]
  /\ checkout'[CI].pipeline = checkout[CI].pipeline /\ checkout'[CI].pin = checkout[CI].pin
  /\ checkout'[CI].disk = checkout[CI].disk /\ checkout'[CI].head = checkout[CI].head
  /\ checkout'[CI].ahead = checkout[CI].ahead

LEMMA UntouchedTracks == ASSUME TracksItsWork, Untouched PROVE TracksItsWork'
<1>1. Want(CI)' = Want(CI)
  BY DEF Untouched, Want
<1>2. ASSUME NEW r PROVE Settling(CI, r)' = Settling(CI, r)
  BY DEF Untouched, Settling
<1>3. ASSUME NEW f PROVE CameTo(f)' = CameTo(f)
  BY DEF Untouched, CameTo
<1>4. NotesItsWrites => NotesItsWrites'
  BY <1>2 DEF Untouched, NotesItsWrites
<1>5. AwaitsItsPush => AwaitsItsPush'
  BY <1>2 DEF Untouched, AwaitsItsPush
<1>6. HoldsWhatItCameTo => HoldsWhatItCameTo'
  BY <1>1, <1>3 DEF Untouched, HoldsWhatItCameTo
<1>7. EndsWithItsManagers => EndsWithItsManagers'
  BY DEF Untouched, EndsWithItsManagers
<1> QED BY <1>4, <1>5, <1>6, <1>7 DEF Untouched, TracksItsWork

\* What a push of another's does to the run: it is behind, no more.
LEMMA PushedAside ==
  ASSUME TypeOK, NEW r, NEW P, CI \notin P, NEW kind, Pushed(r, P, kind)
  PROVE  /\ checkout'[CI].pipeline = checkout[CI].pipeline /\ checkout'[CI].pin = checkout[CI].pin
         /\ checkout'[CI].disk = checkout[CI].disk /\ checkout'[CI].head = checkout[CI].head
         /\ checkout'[CI].ahead = checkout[CI].ahead
<1>1. checkout[CI] \in Checkout /\ CI \in Proc
  BY DEF TypeOK, Proc
<1>2. checkout'[CI] = [checkout[CI] EXCEPT !.behind = @ \union {r}]
  BY <1>1 DEF Pushed
<1> QED BY <1>1, <1>2 DEF Checkout

\* A reconcile on a laptop leaves the run alone.
LEMMA LaptopsAside ==
  ASSUME ReconcileAssumption, TypeOK, NEW p \in Proc, p # CI,
         \/ Step(p) \/ PushFails(p) \/ PushUnanswered(p) \/ ResourceFails(p) \/ Crash(p)
  PROVE  Untouched
<1>0. CI \in Proc
  BY DEF Proc
<1>1. CASE Stop(p) /\ UNCHANGED checkout
  BY <1>0, <1>1 DEF Stop, Untouched, TypeOK
<1>2. CASE RefuseForeign(p) \/ ManagerFailed(p) \/ Release(p) \/ Crash(p)
  BY <1>1, <1>2 DEF RefuseForeign, ManagerFailed, Release, Crash, Fail, End
<1>3. CASE WriteFile(p)
  BY <1>0, <1>3 DEF WriteFile, Did, Untouched, TypeOK
<1>4. CASE EnableWorkflow(p) \/ ResourceFails(p)
  BY <1>0, <1>4 DEF EnableWorkflow, ResourceFails, Did, Untouched, TypeOK
<1>5. CASE StartSettle(p) \/ NextManager(p)
  BY <1>0, <1>5 DEF StartSettle, NextManager, GoTo, Untouched, TypeOK
<1>6. CASE Commit(p)
  <2>1. PICK r \in Repo :
          /\ due' = [due EXCEPT ![p] = @ \ {r}] \/ UNCHANGED due
          /\ UNCHANGED <<manager, todo, changed, failing>>
    BY <1>6 DEF Commit
  <2>2. checkout'[CI] = checkout[CI]
    BY <1>0, <1>6 DEF Commit, TypeOK
  <2> QED BY <1>0, <1>6, <2>1, <2>2, CommitStays DEF Untouched, TypeOK
<1>7. CASE Push(p) \/ PushFails(p) \/ PushUnanswered(p)
  <2>1. PICK r \in Repo : AfterPush(p, r) /\ (PushReaches(p, r) \/ UNCHANGED checkout)
    BY <1>7 DEF Push, PushFails, PushUnanswered
  <2>2. failing'[CI] = failing[CI]
    BY <1>0, <1>7 DEF Push, PushFails, PushUnanswered, TypeOK
  <2>3. PushReaches(p, r) => Pushed(r, {p}, "self") /\ CI \notin {p}
    BY DEF PushReaches
  <2> QED BY <1>0, <2>1, <2>2, <2>3, PushedAside DEF AfterPush, GoTo, Untouched, TypeOK
<1>8. CASE PutOwnership(p) \/ Answer(p) \/ Evaluate(p)
  BY <1>0, <1>1, <1>8 DEF PutOwnership, Answer, Evaluate, Fail, End, GoTo, Untouched, TypeOK
<1> QED BY <1>2, <1>3, <1>4, <1>5, <1>6, <1>7, <1>8 DEF Step

\* So do people, the timer, and a laptop that starts or is pulled.
LEMMA PeopleAside ==
  ASSUME ReconcileAssumption, TypeOK,
         \/ \E p \in Laptops : StartOnLaptop(p) \/ Pull(p)
         \/ \E p \in Laptops, f \in File : DeleteFile(p, f)
         \/ \E r \in Repo : PushWork(r)
         \/ PushPipeline \/ Tick
  PROVE  Untouched
<1>0. CI \in Proc /\ Laptops \subseteq Proc /\ CI \notin Laptops
  BY DEF Proc, ReconcileAssumption
<1>1. ASSUME NEW p \in Laptops, StartOnLaptop(p) PROVE Untouched
  BY <1>0, <1>1 DEF StartOnLaptop, Begin, GoTo, Untouched, TypeOK
<1>2. ASSUME NEW p \in Laptops, Pull(p) PROVE Untouched
  BY <1>0, <1>2 DEF Pull, own, Untouched, TypeOK
<1>3. ASSUME NEW p \in Laptops, NEW f \in File, DeleteFile(p, f) PROVE Untouched
  BY <1>0, <1>3 DEF DeleteFile, own, Untouched, TypeOK
<1>4. ASSUME NEW r \in Repo, PushWork(r) PROVE Untouched
  BY <1>4, PushedAside DEF PushWork, own, Untouched
<1>5. CASE PushPipeline
  BY <1>5, PushedAside DEF PushPipeline, own, Untouched
<1>6. CASE Tick
  BY <1>6 DEF Tick, own, Untouched
<1> QED BY <1>1, <1>2, <1>3, <1>4, <1>5, <1>6

\* A run starts with everything before it.
LEMMA StartTracks ==
  ASSUME ReconcileAssumption, TypeOK, RecordsItsOwn, StartRun
  PROVE  TracksItsWork'
<1>0. CI \in Proc /\ pipeline \in Pipeline
  BY DEF Proc, TypeOK
<1>1. checkout'[CI] = Clone /\ Begin(CI, pipeline)
  BY <1>0 DEF StartRun, TypeOK
<1>2. pc'[CI] = "realize" /\ manager'[CI] = 1 /\ todo'[CI] = Of(pipeline, 1)
  BY <1>0, <1>1 DEF Begin, GoTo, TypeOK, RecordsItsOwn, AsksForItsOwn
<1>3. checkout'[CI].disk = checkout'[CI].head /\ checkout'[CI].ahead = {} /\ checkout'[CI].pipeline = pipeline
  BY <1>1 DEF Clone
<1>4. ASSUME NEW f \in File PROVE ~CameTo(f)'
  <2>1. FileResource(f) \in Resource /\ Declares(pipeline, FileResource(f)) = ManagerOf[pipeline][f]
    BY FileResources DEF Declares
  <2>2. ManagerOf[pipeline][f] \in Nat
    BY <1>0 DEF ReconcileAssumption, Alias
  <2> QED BY <1>2, <1>3, <2>1, <2>2 DEF CameTo, Of
<1> QED BY <1>2, <1>3, <1>4 DEF TracksItsWork, NotesItsWrites, AwaitsItsPush, HoldsWhatItCameTo, EndsWithItsManagers

\* A file a manager passes holds what is declared: it was written, or left.
LEMMA RealizeTracks ==
  ASSUME ReconcileAssumption, TypeOK, TracksItsWork,
         WriteFile(CI) \/ EnableWorkflow(CI) \/ ResourceFails(CI)
  PROVE  TracksItsWork'
<1> DEFINE c == checkout[CI]
<1>0. CI \in Proc /\ c \in Checkout
  BY DEF Proc, TypeOK
<1>1. PICK k \in Resource, change \in BOOLEAN :
        /\ Reaches(CI, k)
        /\ Did(CI, k, change)
        /\ UNCHANGED <<pc, manager, due>>
        /\ \/ /\ IsFile(k) /\ change /\ UNCHANGED failing
              /\ checkout' = [checkout EXCEPT ![CI].disk[FileOf(k)] = Want(CI)]
           \/ ~IsFile(k) /\ UNCHANGED <<checkout, failing>>
           \/ failing' = [failing EXCEPT ![CI] = TRUE] /\ UNCHANGED checkout
  BY DEF WriteFile, EnableWorkflow, ResourceFails
<1>2. pc[CI] = "realize" /\ TracksItsWork /\ NotesItsWrites /\ AwaitsItsPush /\ HoldsWhatItCameTo
  BY <1>1 DEF Reaches, TracksItsWork
<1>3. /\ checkout'[CI].pipeline = c.pipeline /\ checkout'[CI].pin = c.pin
      /\ checkout'[CI].head = c.head /\ checkout'[CI].ahead = c.ahead
      /\ Want(CI)' = Want(CI)
      /\ failing[CI] => failing'[CI]
      /\ changed[CI] \subseteq changed'[CI]
  <2>1. /\ checkout'[CI].pipeline = c.pipeline /\ checkout'[CI].pin = c.pin
        /\ checkout'[CI].head = c.head /\ checkout'[CI].ahead = c.ahead
    BY <1>0, <1>1 DEF TypeOK, Checkout
  <2>2. Want(CI)' = Want(CI)
    BY <2>1 DEF Want
  <2>3. failing[CI] => failing'[CI]
    BY <1>0, <1>1 DEF TypeOK
  <2>4. changed[CI] \subseteq changed'[CI]
    BY <1>0, <1>1 DEF Did, TypeOK
  <2> QED BY <2>1, <2>2, <2>3, <2>4
<1>4. NotesItsWrites'
  <2> SUFFICES ASSUME NEW f \in File, checkout'[CI].disk[f] # c.head[f]
               PROVE  FileResource(f) \in changed'[CI]
    BY <1>1, <1>2, <1>3 DEF NotesItsWrites
  <2>1. CASE checkout'[CI].disk[f] = c.disk[f]
    BY <1>2, <1>3, <2>1 DEF NotesItsWrites
  <2>2. CASE checkout'[CI].disk[f] # c.disk[f]
    <3>1. IsFile(k) /\ change /\ f = FileOf(k)
      BY <1>0, <1>1, <2>2 DEF TypeOK, Checkout
    <3> QED BY <1>0, <1>1, <3>1, FileResources DEF Did, TypeOK
  <2> QED BY <2>1, <2>2
<1>5. AwaitsItsPush'
  BY <1>1, <1>2, <1>3 DEF AwaitsItsPush
<1>6. HoldsWhatItCameTo'
  <2> SUFFICES ASSUME NEW f \in File, CameTo(f)', ~failing'[CI]
               PROVE  checkout'[CI].disk[f] = Want(CI)
    BY <1>3 DEF HoldsWhatItCameTo
  <2>1. ~failing[CI] /\ (\/ IsFile(k) /\ checkout' = [checkout EXCEPT ![CI].disk[FileOf(k)] = Want(CI)]
                         \/ ~IsFile(k) /\ UNCHANGED checkout)
    BY <1>0, <1>1, <1>3 DEF TypeOK
  <2>2. CASE CameTo(f)
    <3>1. c.disk[f] = Want(CI)
      BY <1>2, <2>1, <2>2 DEF HoldsWhatItCameTo
    <3> QED BY <1>0, <2>1, <3>1 DEF TypeOK, Checkout
  <2>3. CASE ~CameTo(f)
    <3> DEFINE j == FileResource(f)
    <3>1. j \in Resource /\ IsFile(j) /\ FileOf(j) = f
      BY FileResources
    <3>2. j \in todo[CI] /\ j \notin todo'[CI]
      BY <1>1, <1>2, <1>3, <2>3 DEF CameTo
    <3>3. j = k \/ j < k
      BY <1>0, <1>1, <3>1, <3>2 DEF Did, TypeOK, Resource, ReconcileAssumption
    <3>4. CASE j = k
      BY <1>0, <2>1, <3>1, <3>4 DEF TypeOK, Checkout
    <3>5. CASE j < k
      <4>1. Kept(CI, j)
        BY <1>1, <3>2, <3>5 DEF Reaches
      <4>2. c.disk[f] = Want(CI)
        BY <3>1, <4>1 DEF Kept
      <4> QED BY <1>0, <2>1, <4>2 DEF TypeOK, Checkout
    <3> QED BY <3>3, <3>4, <3>5
  <2> QED BY <2>2, <2>3
<1> QED BY <1>1, <1>2, <1>4, <1>5, <1>6 DEF TracksItsWork, EndsWithItsManagers

\* A settle has on its list the repo of every file that was noted.
LEMMA SettleTracks ==
  ASSUME ReconcileAssumption, TypeOK, TracksItsWork, StartSettle(CI)
  PROVE  TracksItsWork'
<1>0. CI \in Proc
  BY DEF Proc
<1>1. /\ pc[CI] = "realize" /\ pc'[CI] = "settle"
      /\ due'[CI] = {r \in Repo : Written(CI, r) # {}}
      /\ \A k \in todo[CI] : Kept(CI, k)
      /\ UNCHANGED <<checkout, manager, changed, failing>>
  BY <1>0 DEF StartSettle, Realized, GoTo, TypeOK
<1>2. NotesItsWrites /\ AwaitsItsPush /\ HoldsWhatItCameTo
  BY <1>1 DEF TracksItsWork
<1>3. Want(CI)' = Want(CI)
  BY <1>1 DEF Want
<1>4. NotesItsWrites'
  <2> SUFFICES ASSUME NEW f \in File, FileResource(f) \in changed[CI]
               PROVE  RepoOf[f] \in due'[CI]
    BY <1>1, <1>2 DEF NotesItsWrites
  <2>1. f \in Written(CI, RepoOf[f])
    BY FileResources DEF Written, FilesIn
  <2> QED BY <1>1, <2>1 DEF ReconcileAssumption
<1>5. AwaitsItsPush'
  BY <1>1, <1>2 DEF AwaitsItsPush
<1>6. HoldsWhatItCameTo'
  <2> SUFFICES ASSUME NEW f \in File, CameTo(f)', ~failing[CI]
               PROVE  checkout[CI].disk[f] = Want(CI)
    BY <1>1, <1>3 DEF HoldsWhatItCameTo
  <2>1. CASE CameTo(f)
    BY <1>2, <2>1 DEF HoldsWhatItCameTo
  <2>2. CASE ~CameTo(f)
    <3>1. FileResource(f) \in todo[CI]
      BY <1>1, <2>2 DEF CameTo
    <3> QED BY <1>1, <3>1, FileResources DEF Kept
  <2> QED BY <2>1, <2>2
<1> QED BY <1>1, <1>4, <1>5, <1>6 DEF TracksItsWork, EndsWithItsManagers

\* A commit takes the repo's files off the list, and waits for its push.
LEMMA CommitTracks ==
  ASSUME ReconcileAssumption, TypeOK, TracksItsWork, Commit(CI)
  PROVE  TracksItsWork'
<1> DEFINE c == checkout[CI]
           head(r) == [f \in File |-> IF f \in Written(CI, r) THEN c.disk[f] ELSE c.head[f]]
<1>0. CI \in Proc /\ c \in Checkout
  BY DEF Proc, TypeOK
<1>1. PICK r \in Repo :
        /\ pc[CI] = "settle" /\ Settling(CI, r)
        /\ IF head(r) = c.head
             THEN due' = [due EXCEPT ![CI] = @ \ {r}] /\ UNCHANGED <<checkout, pc>>
             ELSE /\ checkout' = [checkout EXCEPT ![CI].head = head(r), ![CI].ahead = @ \union {r}]
                  /\ GoTo(CI, "push")
                  /\ UNCHANGED due
        /\ UNCHANGED <<manager, todo, changed, failing>>
  BY DEF Commit
<1>2. NotesItsWrites /\ AwaitsItsPush /\ HoldsWhatItCameTo
  BY <1>1 DEF TracksItsWork
<1>3. ASSUME NEW f \in File, c.disk[f] # head(r)[f]
      PROVE  FileResource(f) \in changed[CI] /\ RepoOf[f] \in due[CI] /\ RepoOf[f] # r
  <2>1. c.disk[f] # c.head[f] /\ f \notin Written(CI, r)
    BY <1>3
  <2>2. FileResource(f) \in changed[CI] /\ RepoOf[f] \in due[CI]
    BY <1>1, <1>2, <2>1 DEF NotesItsWrites
  <2>3. RepoOf[f] = r => f \in Written(CI, r)
    BY <2>2, FileResources DEF Written, FilesIn
  <2> QED BY <2>1, <2>2, <2>3
<1>4. /\ checkout'[CI].pipeline = c.pipeline /\ checkout'[CI].pin = c.pin
      /\ checkout'[CI].disk = c.disk /\ checkout'[CI].head = head(r)
      /\ IF head(r) = c.head
           THEN /\ pc'[CI] = "settle" /\ due'[CI] = due[CI] \ {r} /\ checkout'[CI].ahead = c.ahead
           ELSE /\ pc'[CI] = "push" /\ due'[CI] = due[CI] /\ checkout'[CI].ahead = c.ahead \union {r}
  <2> HIDE DEF head
  <2>1. CASE head(r) = c.head
    BY <1>0, <1>1, <2>1 DEF TypeOK
  <2>2. CASE head(r) # c.head
    <3>1. checkout' = [checkout EXCEPT ![CI] = [[c EXCEPT !.head = head(r)] EXCEPT !.ahead = @ \union {r}]]
      BY <1>0, <1>1, <2>2 DEF TypeOK, Checkout
    <3>2. checkout'[CI] = [[c EXCEPT !.head = head(r)] EXCEPT !.ahead = @ \union {r}]
      BY <1>0, <3>1 DEF TypeOK
    <3>3. pc'[CI] = "push" /\ due'[CI] = due[CI]
      BY <1>0, <1>1, <2>2 DEF GoTo, TypeOK
    <3> QED BY <1>0, <2>2, <3>2, <3>3 DEF Checkout
  <2> QED BY <2>1, <2>2
<1> HIDE DEF head
<1>5. NotesItsWrites'
  <2> SUFFICES ASSUME NEW f \in File, c.disk[f] # head(r)[f]
               PROVE  /\ FileResource(f) \in changed'[CI]
                      /\ \/ pc'[CI] = "settle" /\ RepoOf[f] \in due'[CI]
                         \/ pc'[CI] = "push" /\ RepoOf[f] \in due'[CI] /\ ~Settling(CI, RepoOf[f])'
    BY <1>4 DEF NotesItsWrites
  <2>1. due'[CI] = due[CI] => ~Settling(CI, RepoOf[f])'
    BY <1>1, <1>3 DEF Settling
  <2> QED BY <1>1, <1>3, <1>4, <2>1
<1>6. AwaitsItsPush'
  <2>1. ASSUME NEW s \in c.ahead PROVE failing'[CI]
    BY <1>1, <1>2 DEF AwaitsItsPush
  <2>2. due'[CI] = due[CI] => Settling(CI, r)'
    BY <1>1 DEF Settling
  <2> QED BY <1>4, <2>1, <2>2 DEF AwaitsItsPush
<1>7. HoldsWhatItCameTo'
  <2>1. Want(CI)' = Want(CI)
    BY <1>4 DEF Want
  <2>2. ASSUME NEW f \in File, CameTo(f)' PROVE CameTo(f)
    BY <1>1, <1>4, <2>2 DEF CameTo
  <2> QED BY <1>1, <1>2, <1>4, <2>1, <2>2 DEF HoldsWhatItCameTo
<1> QED BY <1>4, <1>5, <1>6, <1>7 DEF TracksItsWork, EndsWithItsManagers

\* A push that arrives takes its commit off the list; one that is refused, or is
\* not answered, fails the run.
LEMMA PushTracks ==
  ASSUME ReconcileAssumption, TypeOK, TracksItsWork,
         Push(CI) \/ PushFails(CI) \/ PushUnanswered(CI)
  PROVE  TracksItsWork'
<1> DEFINE c == checkout[CI]
<1>0. CI \in Proc /\ c \in Checkout
  BY DEF Proc, TypeOK
<1>1. PICK r \in Repo :
        /\ AfterPush(CI, r)
        /\ \/ PushReaches(CI, r) /\ (UNCHANGED failing \/ failing' = [failing EXCEPT ![CI] = TRUE])
           \/ UNCHANGED checkout /\ failing' = [failing EXCEPT ![CI] = TRUE]
  BY DEF Push, PushFails, PushUnanswered
<1>2. /\ pc[CI] = "push" /\ pc'[CI] = "settle" /\ Settling(CI, r)
      /\ due'[CI] = due[CI] \ {r}
      /\ UNCHANGED <<manager, todo, changed>>
  BY <1>0, <1>1 DEF AfterPush, GoTo, TypeOK
<1>3. NotesItsWrites /\ AwaitsItsPush /\ HoldsWhatItCameTo
  BY <1>2 DEF TracksItsWork
<1>4. failing[CI] => failing'[CI]
  BY <1>0, <1>1 DEF TypeOK
<1>5. /\ checkout'[CI].pipeline = c.pipeline /\ checkout'[CI].pin = c.pin
      /\ checkout'[CI].disk = c.disk /\ checkout'[CI].head = c.head
      /\ \/ checkout'[CI].ahead = c.ahead \ {r}
         \/ checkout'[CI].ahead = c.ahead /\ failing'[CI]
  <2>1. CASE PushReaches(CI, r)
    <3>1. checkout'[CI] = [c EXCEPT !.ahead = @ \ {r}]
      BY <1>0, <2>1 DEF PushReaches, Pushed
    <3> QED BY <1>0, <3>1 DEF Checkout
  <2>2. CASE UNCHANGED checkout /\ failing' = [failing EXCEPT ![CI] = TRUE]
    BY <1>0, <2>2 DEF TypeOK
  <2> QED BY <1>1, <2>1, <2>2
<1>6. NotesItsWrites'
  <2>1. ASSUME NEW f \in File, c.disk[f] # c.head[f]
        PROVE  FileResource(f) \in changed[CI] /\ RepoOf[f] \in due'[CI]
    BY <1>2, <1>3, <2>1 DEF NotesItsWrites
  <2> QED BY <1>2, <1>5, <2>1 DEF NotesItsWrites
<1>7. AwaitsItsPush'
  <2>1. ASSUME NEW s \in c.ahead PROVE failing[CI] \/ s = r
    BY <1>2, <1>3 DEF AwaitsItsPush, Settling
  <2> QED BY <1>4, <1>5, <2>1 DEF AwaitsItsPush
<1>8. HoldsWhatItCameTo'
  <2>1. Want(CI)' = Want(CI)
    BY <1>5 DEF Want
  <2>2. ASSUME NEW f \in File, CameTo(f)' PROVE CameTo(f)
    BY <1>2, <1>5, <2>2 DEF CameTo
  <2> QED BY <1>3, <1>4, <1>5, <2>1, <2>2 DEF HoldsWhatItCameTo
<1> QED BY <1>2, <1>6, <1>7, <1>8 DEF TracksItsWork, EndsWithItsManagers

\* A manager that did not fail leaves nothing to the next one, or to the record.
LEMMA NextManagerTracks ==
  ASSUME ReconcileAssumption, TypeOK, TracksItsWork, NextManager(CI)
  PROVE  TracksItsWork'
<1> DEFINE c == checkout[CI]
<1>0. CI \in Proc /\ c \in Checkout /\ manager[CI] \in 1..LastAlias
  BY DEF Proc, TypeOK, Alias
<1>1. /\ Settled(CI) /\ ~failing[CI]
      /\ pc[CI] \in {"realize", "settle"}
      /\ UNCHANGED <<checkout, failing>>
  BY DEF NextManager, Settled, Realized
<1>2. NotesItsWrites /\ AwaitsItsPush /\ HoldsWhatItCameTo
  BY <1>1 DEF TracksItsWork
<1>3. \A f \in File : c.disk[f] = c.head[f]
  BY <1>1, <1>2 DEF NotesItsWrites, Settled
<1>4. c.ahead = {}
  BY <1>1, <1>2 DEF AwaitsItsPush
<1>5. \A f \in File : ManagerOf[c.pipeline][f] \in 0..LastAlias
  BY <1>0 DEF Checkout, ReconcileAssumption, Alias
<1>6. ASSUME NEW f \in File, ManagerOf[c.pipeline][f] # 0, ManagerOf[c.pipeline][f] <= manager[CI]
      PROVE  c.disk[f] = Want(CI)
  <2>1. CASE CameTo(f)
    BY <1>1, <1>2, <2>1 DEF HoldsWhatItCameTo
  <2>2. CASE ~CameTo(f)
    <3>1. pc[CI] = "realize" /\ FileResource(f) \in todo[CI]
      BY <1>0, <1>5, <1>6, <2>2 DEF CameTo, ReconcileAssumption
    <3> QED BY <1>1, <3>1, FileResources DEF Settled, Realized, Kept
  <2> QED BY <2>1, <2>2
<1>7. Want(CI)' = Want(CI)
  BY <1>1 DEF Want
<1>8. CASE manager[CI] < LastAlias
  <2>1. /\ pc'[CI] = "realize" /\ manager'[CI] = manager[CI] + 1
        /\ todo'[CI] = Of(c.pipeline, manager[CI] + 1)
    BY <1>0, <1>8 DEF NextManager, GoTo, TypeOK
  <2>2. ASSUME NEW f \in File, CameTo(f)'
        PROVE  ManagerOf[c.pipeline][f] # 0 /\ ManagerOf[c.pipeline][f] <= manager[CI]
    <3>1. FileResource(f) \in Resource /\ Declares(c.pipeline, FileResource(f)) = ManagerOf[c.pipeline][f]
      BY FileResources DEF Declares
    <3>2. ManagerOf[c.pipeline][f] # 0 /\ ManagerOf[c.pipeline][f] < manager[CI] + 1
      BY <1>1, <2>1, <2>2, <3>1 DEF CameTo, Of
    <3> QED BY <1>0, <1>5, <3>2 DEF ReconcileAssumption
  <2>3. HoldsWhatItCameTo'
    BY <1>1, <1>6, <1>7, <2>2 DEF HoldsWhatItCameTo
  <2> QED BY <1>1, <1>3, <1>4, <2>1, <2>3 DEF TracksItsWork, NotesItsWrites, AwaitsItsPush, EndsWithItsManagers
<1>9. CASE manager[CI] = LastAlias
  <2>1. pc'[CI] = "own" /\ manager'[CI] = manager[CI]
    BY <1>0, <1>9 DEF NextManager, GoTo, TypeOK
  <2>2. ASSUME NEW f \in File, CameTo(f)'
        PROVE  ManagerOf[c.pipeline][f] # 0 /\ ManagerOf[c.pipeline][f] <= manager[CI]
    <3>1. ManagerOf[c.pipeline][f] # 0
      BY <1>1, <2>2 DEF CameTo
    <3> QED BY <1>5, <1>9, <3>1 DEF ReconcileAssumption
  <2>3. HoldsWhatItCameTo'
    BY <1>1, <1>6, <1>7, <2>2 DEF HoldsWhatItCameTo
  <2> QED BY <1>1, <1>3, <1>4, <1>9, <2>1, <2>3 DEF TracksItsWork, NotesItsWrites, AwaitsItsPush, EndsWithItsManagers
<1>10. manager[CI] < LastAlias \/ manager[CI] = LastAlias
  <2>1. LastAlias \in Nat
    BY DEF ReconcileAssumption
  <2> HIDE DEF c
  <2>2. manager[CI] \in 1..LastAlias
    BY <1>0
  <2> QED BY <2>1, <2>2
<1> QED BY <1>8, <1>9, <1>10

\* The record and everything after it: the run stops, or goes on as it is.
LEMMA AnswerTracks ==
  ASSUME ReconcileAssumption, TypeOK, TracksItsWork,
         \/ RefuseForeign(CI) \/ ManagerFailed(CI) \/ Crash(CI)
         \/ PutOwnership(CI) \/ Answer(CI) \/ Evaluate(CI) \/ Release(CI)
  PROVE  TracksItsWork'
<1>0. CI \in Proc
  BY DEF Proc
<1>1. CASE Stop(CI)
  BY <1>0, <1>1 DEF Stop, TypeOK, TracksItsWork
<1>2. CASE /\ pc[CI] \in {"own", "answer", "evaluate"}
           /\ GoTo(CI, "answer") \/ GoTo(CI, "evaluate") \/ GoTo(CI, "release")
           /\ UNCHANGED <<checkout, manager, todo, due, changed, failing>>
  <2>1. pc'[CI] \in {"answer", "evaluate", "release"}
    BY <1>0, <1>2 DEF GoTo, TypeOK
  <2>2. NotesItsWrites /\ AwaitsItsPush /\ HoldsWhatItCameTo /\ EndsWithItsManagers
    BY <1>2 DEF TracksItsWork
  <2>3. NotesItsWrites' /\ AwaitsItsPush' /\ EndsWithItsManagers'
    BY <1>2, <2>1, <2>2 DEF NotesItsWrites, AwaitsItsPush, EndsWithItsManagers
  <2>4. HoldsWhatItCameTo'
    <3>1. Want(CI)' = Want(CI)
      BY <1>2 DEF Want
    <3>2. ASSUME NEW f \in File, CameTo(f)' PROVE CameTo(f)
      BY <1>2, <3>2 DEF CameTo
    <3> QED BY <1>2, <2>2, <3>1, <3>2 DEF HoldsWhatItCameTo
  <2> QED BY <2>3, <2>4 DEF TracksItsWork
<1> QED BY <1>1, <1>2
  DEF RefuseForeign, ManagerFailed, Crash, PutOwnership, Answer, Evaluate, Release, Fail, End

LEMMA NextTracks ==
  ASSUME ReconcileAssumption, TypeOK, RecordsItsOwn, TracksItsWork, [Next]_vars
  PROVE  TracksItsWork'
<1>1. CASE UNCHANGED vars
  BY <1>1, UntouchedTracks DEF vars, own, Untouched
<1>2. CASE \E p \in Proc : Step(p) \/ PushFails(p) \/ PushUnanswered(p) \/ ResourceFails(p) \/ Crash(p)
  <2> PICK p \in Proc : Step(p) \/ PushFails(p) \/ PushUnanswered(p) \/ ResourceFails(p) \/ Crash(p)
    BY <1>2
  <2>1. CASE p = CI
    BY <2>1, RealizeTracks, SettleTracks, CommitTracks, PushTracks, NextManagerTracks, AnswerTracks DEF Step
  <2>2. CASE p # CI
    BY <2>2, LaptopsAside, UntouchedTracks
  <2> QED BY <2>1, <2>2
<1>3. CASE StartRun
  BY <1>3, StartTracks
<1>4. CASE \/ \E p \in Laptops : StartOnLaptop(p) \/ Pull(p)
           \/ \E p \in Laptops, f \in File : DeleteFile(p, f)
           \/ \E r \in Repo : PushWork(r)
           \/ PushPipeline \/ Tick
  BY <1>4, PeopleAside, UntouchedTracks
<1> QED BY <1>1, <1>2, <1>3, <1>4 DEF Next

\* Nothing a run wrote, committed or was told to do is lost between the steps of
\* its apply, whichever of them fails and whoever pushes meanwhile.
THEOREM WorkIsTracked == Spec => []TracksItsWork
<1>1. Init => TracksItsWork
  BY DEF Init, TracksItsWork, Proc
<1>2. TypeOK /\ RecordsItsOwn /\ TracksItsWork /\ [Next]_vars => TracksItsWork'
  BY NextTracks, ReconcileAssumption
<1> QED BY <1>1, <1>2, TypeCorrect, Refusal, PTL DEF Spec

\* What is evaluated and released stands on files that are as the pipeline of
\* that run renders them, committed and pushed.
THEOREM SettledBeforeRelease == Spec => []StandsOnSettled
<1>1. TypeOK /\ TracksItsWork => StandsOnSettled
  <2> SUFFICES ASSUME TypeOK, TracksItsWork, pc[CI] \in {"evaluate", "release"},
                      NEW f \in File, ManagerOf[checkout[CI].pipeline][f] # 0
               PROVE  /\ checkout[CI].disk[f] = Want(CI) /\ checkout[CI].head[f] = Want(CI)
                      /\ RepoOf[f] \notin checkout[CI].ahead
    BY DEF StandsOnSettled
  <2>0. NotesItsWrites /\ AwaitsItsPush /\ HoldsWhatItCameTo /\ EndsWithItsManagers
    BY DEF TracksItsWork
  <2>1. ~failing[CI] /\ manager[CI] = LastAlias
    BY <2>0 DEF EndsWithItsManagers
  <2>2. CameTo(f)
    <3>1. ManagerOf[checkout[CI].pipeline][f] \in 1..LastAlias
      BY ReconcileAssumption DEF TypeOK, Checkout, Proc, ReconcileAssumption, Alias
    <3> QED BY <2>1, <3>1, ReconcileAssumption DEF CameTo, ReconcileAssumption
  <2>3. checkout[CI].disk[f] = Want(CI)
    BY <2>0, <2>1, <2>2 DEF HoldsWhatItCameTo
  <2>4. checkout[CI].disk[f] = checkout[CI].head[f]
    BY <2>0 DEF NotesItsWrites
  <2>5. checkout[CI].ahead = {}
    BY <2>0, <2>1 DEF AwaitsItsPush
  <2> QED BY <2>3, <2>4, <2>5
<1> QED BY <1>1, TypeCorrect, WorkIsTracked, PTL
=============================================================================
