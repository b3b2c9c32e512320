---------------------------- MODULE ReleaseProofs ----------------------------
(* Type correctness of Release, that a release appears with every tag at   *)
(* the commits it was built from, and that a release record has a visible  *)
(* release to show for it: for any release set, any history of its repos,  *)
(* any processes, decisions, crashes and failing calls.                    *)
EXTENDS Release, WellFoundedInduction, TLAPS

-----------------------------------------------------------------------------
(* The ends of a set of numbers: the repo tagged next, the last version.   *)

\* A set of naturals has a least element.
LEMMA Least ==
  ASSUME NEW T, T \subseteq Nat, T # {}
  PROVE  \E x \in T : \A y \in T : x <= y
<1> DEFINE R == OpToRel(<, Nat)
<1>1. PICK x \in T : \A y \in T : ~ (<<y, x>> \in R)
  <2>1. IsWellFoundedOn(R, Nat)
    BY NatLessThanWellFounded
  <2> HIDE DEF R
  <2> QED
    BY <2>1, WFMin
<1>2. \A y \in T : ~ (y < x)
  BY <1>1 DEF OpToRel
<1> QED
  BY <1>2

\* A bounded set of naturals has a greatest one.
LEMMA Greatest ==
  ASSUME NEW n \in Nat, NEW T, T \subseteq 0..n, T # {}
  PROVE  \E x \in T : \A y \in T : y <= x
<1> DEFINE M == {n - x : x \in T}
<1>1. M \subseteq Nat /\ M # {}
  <2>1. PICK x \in T : TRUE
    OBVIOUS
  <2>2. n - x \in M
    BY <2>1
  <2>3. \A y \in T : n - y \in Nat
    OBVIOUS
  <2> QED
    BY <2>2, <2>3
<1>2. PICK k \in M : \A j \in M : k <= j
  <2> HIDE DEF M
  <2> QED
    BY <1>1, Least
<1>3. PICK x \in T : k = n - x
  OBVIOUS
<1>4. ASSUME NEW y \in T PROVE y <= x
  <2>1. n - y \in M
    OBVIOUS
  <2> QED
    BY <2>1, <1>2, <1>3
<1> QED
  BY <1>4

\* There is a turn while a repo is pending.
LEMMA TurnIsPending ==
  ASSUME TypeOK, NEW p \in Proc, pending[p] # {}
  PROVE  Turn(p) \in pending[p] /\ Turn(p) \in Repo
<1>1. pending[p] \subseteq Repo /\ Repo \subseteq Nat
  BY DEF TypeOK, Repo
<1>2. \E m \in pending[p] : \A n \in pending[p] : m <= n
  BY <1>1, Least
<1> QED
  BY <1>1, <1>2 DEF Turn, First

\* There is a first repo while one is unread.
LEMMA FirstIsUnread ==
  ASSUME TypeOK, NEW p \in Proc, unread[p] # {}
  PROVE  First(unread[p]) \in unread[p] /\ First(unread[p]) \in Repo
<1>1. unread[p] \subseteq Repo /\ Repo \subseteq Nat
  BY DEF TypeOK, Repo
<1>2. \E m \in unread[p] : \A n \in unread[p] : m <= n
  BY <1>1, Least
<1> QED
  BY <1>1, <1>2 DEF First

\* The last version of a checkout is a version or none.
LEMMA LatestType == ASSUME NEW p \in Proc PROVE Latest(p) \in Version \union {0}
<1> DEFINE cut == {v \in Version : local[p][Home][v] # 0}
<1>1. CASE cut = {}
  BY <1>1 DEF Latest
<1>2. CASE cut # {}
  <2>1. cut \subseteq 0..LastVersion /\ LastVersion \in Nat
    BY ReleaseAssumption DEF Version
  <2>2. \E v \in cut : \A w \in cut : w <= v
    <3> HIDE DEF cut
    <3> QED
      BY <1>2, <2>1, Greatest
  <2>3. Latest(p) = CHOOSE v \in cut : \A w \in cut : w <= v
    BY <1>2 DEF Latest
  <2> HIDE DEF cut
  <2>4. Latest(p) \in cut
    BY <2>2, <2>3
  <2> QED
    BY <2>4 DEF cut
<1> QED
  BY <1>1, <1>2

-----------------------------------------------------------------------------
(* Types.                                                                  *)

\* What TypeOK says of the variables of the processes.
ProcTypes ==
  /\ pc \in [Proc -> {"idle", "decide", "publish", "preflight", "tag", "push",
                      "byrev", "bytag", "answer"}]
  /\ verb \in [Proc -> {"apply", "evaluate", "stages"}]
  /\ rev \in [Proc -> Rev]
  /\ local \in [Proc -> Tags]
  /\ decision \in [Proc -> Decision \union {None}]
  /\ unread \in [Proc -> SUBSET Repo]
  /\ pending \in [Proc -> SUBSET Repo]
  /\ found \in [Proc -> BOOLEAN]
  /\ index \in [Proc -> Index]

\* ... and of what they share.
SharedTypes ==
  /\ head \in Rev
  /\ tags \in Tags
  /\ published \in [Version -> Rev \union {0}]
  /\ byRev \in [Rev -> Record \union {None}]
  /\ byTag \in [Version -> Record \union {None}]
  /\ evaluated \in [Rev -> Decision \union {None}]
  /\ ran \subseteq Rev
  /\ faults \in 0..MaxFaults

\* They are what there is to it, before a step and after.
LEMMA TwoHalves == /\ TypeOK <=> ProcTypes /\ SharedTypes
                   /\ TypeOK' <=> ProcTypes' /\ SharedTypes'
  BY DEF TypeOK, ProcTypes, SharedTypes

\* Every process that goes by a decision has one.
Held == \A p \in Proc : GoesByADecision(p)

\* A step is one of the actions, or changes nothing.
LEMMA Actions ==
  ASSUME [Next]_vars
  PROVE  \/ \E p \in Proc :
              \/ StartApply(p) \/ \E r \in Rev : StartStages(p, r)
              \/ DecideReleased(p) \/ DecideSkip(p) \/ DecideBump(p)
              \/ Reuse(p) \/ Converge(p) \/ CallEngine(p) \/ ReadTag(p) \/ ReadRelease(p)
              \/ TagHere(p) \/ PushTag(p) \/ Publish(p)
              \/ RecordByRev(p) \/ RecordByTag(p) \/ Answer(p) \/ Crash(p)
         \/ Move
         \/ UNCHANGED vars
  BY DEF Next, Proceed

\* The values a process starts and leaves with.
LEMMA Blank == /\ NoTags \in Tags
               /\ 1 \in Rev
               /\ NoFile \in Index
               /\ \A r \in Rev : Ships[r] \in Index /\ Pin[r] \in [Repo -> Nat \ {0}]
  BY ReleaseAssumption DEF NoTags, Tags, Rev, Index

\* Leaving keeps the types, and a process that left goes by nothing.
LEMMA LeaveType ==
  ASSUME ProcTypes, Held, NEW p \in Proc, Leave(p)
  PROVE  ProcTypes' /\ Held'
<1>1. local' \in [Proc -> Tags]
  BY Blank DEF ProcTypes, Leave
<1>2. \A q \in Proc : q # p => pc'[q] = pc[q] /\ decision'[q] = decision[q]
  BY DEF ProcTypes, Leave
<1>3. pc'[p] = "idle"
  BY DEF ProcTypes, Leave
<1> QED
  BY <1>1, <1>2, <1>3, Blank DEF ProcTypes, Leave, Held, GoesByADecision

\* So does starting with a revision, and with a decision where one is needed.
LEMMA BeginType ==
  ASSUME TypeOK, Held, NEW p \in Proc, NEW v \in {"apply", "evaluate", "stages"},
         NEW next \in {"decide", "publish"}, NEW r \in Rev,
         NEW d \in Decision \union {None}, next # "decide" => d \in Decision,
         Begin(p, v, next, r, d)
  PROVE  TypeOK' /\ Held'
<1>1. local' \in [Proc -> Tags]
  <2>1. tags \in Tags /\ local[p] \in Tags
    BY DEF TypeOK
  <2>2. [m \in Repo |-> [w \in Version |->
            IF local[p][m][w] # 0 THEN local[p][m][w] ELSE tags[m][w]]] \in Tags
    BY <2>1 DEF Tags
  <2> QED
    BY <2>1, <2>2 DEF TypeOK, Begin, CheckOut
<1>2. \A q \in Proc : q # p => pc'[q] = pc[q] /\ decision'[q] = decision[q]
  BY DEF TypeOK, Begin, GoTo
<1>3. pc'[p] = next /\ decision'[p] = d
  BY DEF TypeOK, Begin, GoTo
<1>4. Held'
  BY <1>2, <1>3 DEF Held, GoesByADecision
<1> QED
  BY <1>1, <1>4 DEF TypeOK, Begin, GoTo, remotes, records

\* However a decision is left, the types are.
LEMMA DecidedType ==
  ASSUME TypeOK, Held, NEW p \in Proc, NEW d \in Decision, Decided(p, d),
         UNCHANGED <<head, remotes, byRev, byTag, ran, faults>>
  PROVE  TypeOK' /\ Held'
<1>1. evaluated' \in [Rev -> Decision \union {None}]
  BY DEF TypeOK, Decided
<1>2. SharedTypes'
  BY <1>1 DEF TypeOK, SharedTypes, remotes
<1>3. CASE Leave(p)
  BY <1>2, <1>3, LeaveType, TwoHalves
<1>4. CASE ~ Leave(p)
  <2>1. /\ pc' = [pc EXCEPT ![p] = "publish"]
        /\ decision' = [decision EXCEPT ![p] = d]
        /\ UNCHANGED <<verb, rev, local, unread, pending, found, index>>
    BY <1>4 DEF Decided, GoTo
  <2>2. ProcTypes'
    BY <2>1 DEF TypeOK, ProcTypes
  <2>3. Held'
    BY <2>1 DEF TypeOK, Held, GoesByADecision
  <2> QED
    BY <1>2, <2>2, <2>3, TwoHalves
<1> QED
  BY <1>3, <1>4

\* A step of a process that goes on with its decision, or leaves.
LEMMA GoesOn ==
  ASSUME TypeOK, Held, NEW p \in Proc, NEW next, GoTo(p, next),
         pc[p] \notin {"idle", "decide"},
         next \in {"preflight", "tag", "push", "byrev", "bytag", "answer"},
         UNCHANGED decision
  PROVE  /\ pc' \in [Proc -> {"idle", "decide", "publish", "preflight", "tag", "push",
                              "byrev", "bytag", "answer"}]
         /\ Held'
  BY DEF TypeOK, GoTo, Held, GoesByADecision

\* The types are inductive together with: a process past its decision has one.
LEMMA TypesAndDecisions == Spec => [](TypeOK /\ Held)
<1> USE ReleaseAssumption, Blank
<1>1. Init => TypeOK /\ Held
  BY DEF Init, TypeOK, Held, GoesByADecision
<1>2. TypeOK /\ Held /\ [Next]_vars => TypeOK' /\ Held'
  <2> SUFFICES ASSUME TypeOK, Held, [Next]_vars PROVE TypeOK' /\ Held'
    OBVIOUS
  <2>1. ASSUME NEW p \in Proc, StartApply(p) PROVE TypeOK' /\ Held'
    <3>1. head \in Rev
      BY DEF TypeOK
    <3> QED
      BY <2>1, <3>1, BeginType DEF StartApply
  <2>2. ASSUME NEW p \in Proc, NEW r \in Rev, StartStages(p, r) PROVE TypeOK' /\ Held'
    <3>1. evaluated[r] \in Decision
      BY <2>2 DEF TypeOK, StartStages
    <3> QED
      BY <2>2, <3>1, BeginType DEF StartStages
  <2>3. ASSUME NEW p \in Proc, DecideReleased(p) PROVE TypeOK' /\ Held'
    <3>1. byRev[rev[p]] \in Record
      BY <2>3 DEF TypeOK, DecideReleased
    <3>2. [version |-> byRev[rev[p]].version, previous |-> 0, skip |-> FALSE,
           set |-> byRev[rev[p]].set] \in Decision
      BY <3>1 DEF Record, Decision
    <3> QED
      BY <2>3, <3>2, DecidedType DEF DecideReleased
  <2>4. ASSUME NEW p \in Proc, DecideSkip(p) PROVE TypeOK' /\ Held'
    <3>1. rev[p] \in Rev /\ Latest(p) \in Version
      BY <2>4, LatestType DEF TypeOK, DecideSkip
    <3>2. [version |-> Latest(p), previous |-> Latest(p), skip |-> TRUE, set |-> rev[p]] \in Decision
      BY <3>1 DEF Decision
    <3> QED
      BY <2>4, <3>2, DecidedType DEF DecideSkip
  <2>5. ASSUME NEW p \in Proc, DecideBump(p) PROVE TypeOK' /\ Held'
    <3>1. rev[p] \in Rev /\ Latest(p) \in Version \union {0}
      BY LatestType DEF TypeOK
    <3>2. Latest(p) + 1 \in Version
      BY <2>5, <3>1 DEF DecideBump, Version
    <3>3. [version |-> Latest(p) + 1, previous |-> Latest(p), skip |-> FALSE, set |-> rev[p]] \in Decision
      BY <3>1, <3>2 DEF Decision
    <3> QED
      BY <2>5, <3>3, DecidedType DEF DecideBump
  <2>6. ASSUME NEW p \in Proc, Reuse(p) PROVE TypeOK' /\ Held'
    <3>1. SharedTypes'
      BY <2>6 DEF TypeOK, SharedTypes, Reuse, remotes, records
    <3> QED
      BY <2>6, <3>1, LeaveType, TwoHalves DEF Reuse
  <2>7. ASSUME NEW p \in Proc, Converge(p) PROVE TypeOK' /\ Held'
    <3>1. rev[p] \in Rev /\ decision[p] \in Decision
      BY <2>7 DEF TypeOK, Held, GoesByADecision, Converge
    <3>2. byTag[decision[p].previous] \in Record
      BY <2>7, <3>1 DEF TypeOK, Converge, SameBytes, Decision
    <3>3. [byTag[decision[p].previous] EXCEPT !.rev = rev[p]] \in Record
      BY <3>1, <3>2 DEF Record
    <3>4. byRev' \in [Rev -> Record \union {None}]
      BY <2>7, <3>1, <3>3 DEF TypeOK, Converge
    <3> QED
      BY <2>7, <3>4, GoesOn DEF TypeOK, Converge, own, remotes
  <2>8. ASSUME NEW p \in Proc, CallEngine(p) PROVE TypeOK' /\ Held'
    BY <2>8, GoesOn DEF TypeOK, CallEngine, remotes, records
  <2>9. ASSUME NEW p \in Proc, ReadTag(p) PROVE TypeOK' /\ Held'
    <3>1. SharedTypes'
      BY <2>9 DEF TypeOK, SharedTypes, ReadTag, remotes, records
    <3>2. CASE Leave(p)
      BY <3>1, <3>2, LeaveType, TwoHalves
    <3>3. CASE ~ Leave(p)
      <4> DEFINE m == First(unread[p])
      <4>1. /\ unread' = [unread EXCEPT ![p] = @ \ {m}]
            /\ pending' = [pending EXCEPT ![p] = @ \union {m}] \/ pending' = [pending EXCEPT ![p] = @]
            /\ UNCHANGED <<pc, verb, rev, local, decision, found, index>>
        BY <2>9, <3>3 DEF ReadTag
      <4>2. m \in Repo
        BY <2>9, FirstIsUnread DEF ReadTag
      <4> HIDE DEF m
      <4>5. unread' \in [Proc -> SUBSET Repo]
        BY <4>1 DEF TypeOK
      <4>6. pending' \in [Proc -> SUBSET Repo]
        <5>1. CASE pending' = [pending EXCEPT ![p] = @ \union {m}]
          BY <5>1, <4>2 DEF TypeOK
        <5>2. CASE pending' = [pending EXCEPT ![p] = @]
          BY <5>2 DEF TypeOK
        <5> QED
          BY <4>1, <5>1, <5>2
      <4>3. ProcTypes'
        BY <4>1, <4>5, <4>6 DEF TypeOK, ProcTypes
      <4>4. Held'
        BY <4>1 DEF Held, GoesByADecision
      <4> QED
        BY <3>1, <4>3, <4>4, TwoHalves
    <3> QED
      BY <3>2, <3>3
  <2>18. ASSUME NEW p \in Proc, ReadRelease(p) PROVE TypeOK' /\ Held'
    <3>1. SharedTypes'
      BY <2>18 DEF TypeOK, SharedTypes, ReadRelease, remotes, records
    <3>2. rev[p] \in Rev
      BY DEF TypeOK
    <3>3. PICK done \in BOOLEAN :
            /\ found' = [found EXCEPT ![p] = (published[Number(p)] # 0)]
            /\ index' = [index EXCEPT ![p] = IF done THEN NoFile ELSE Ships[rev[p]]]
            /\ GoTo(p, IF done THEN "byrev" ELSE "tag")
            /\ UNCHANGED <<verb, rev, local, decision, unread, pending>>
      BY <2>18 DEF ReadRelease
    <3>4. Held' /\ pc' \in [Proc -> {"idle", "decide", "publish", "preflight", "tag", "push",
                                     "byrev", "bytag", "answer"}]
      BY <2>18, <3>3, GoesOn DEF ReadRelease
    <3>5. ProcTypes'
      BY <3>2, <3>3, <3>4 DEF TypeOK, ProcTypes
    <3> QED
      BY <3>1, <3>4, <3>5, TwoHalves
  <2>10. ASSUME NEW p \in Proc, TagHere(p) PROVE TypeOK' /\ Held'
    <3>1. SharedTypes'
      BY <2>10 DEF TypeOK, SharedTypes, TagHere, remotes, records
    <3>2. CASE Leave(p)
      BY <3>1, <3>2, LeaveType, TwoHalves
    <3>3. CASE /\ pending' = [pending EXCEPT ![p] = @ \ {Turn(p)}]
               /\ UNCHANGED <<pc, verb, rev, decision, unread, found, index, local>>
      <4>1. ProcTypes'
        BY <3>3, TwoHalves DEF ProcTypes
      <4>2. Held'
        BY <3>3 DEF Held, GoesByADecision
      <4> QED
        BY <3>1, <4>1, <4>2, TwoHalves
    <3>4. CASE /\ local' = [local EXCEPT ![p][Turn(p)][Number(p)] = Pin[rev[p]][Turn(p)]]
               /\ GoTo(p, "push")
               /\ UNCHANGED <<verb, rev, decision, unread, pending, found, index>>
      <4> DEFINE held == [local[p] EXCEPT ![Turn(p)][Number(p)] = Pin[rev[p]][Turn(p)]]
      <4>1. rev[p] \in Rev /\ local[p] \in Tags /\ Turn(p) \in Repo
        BY <2>10, TurnIsPending DEF TypeOK, TagHere
      <4>2. local' \in [Proc -> Tags]
        <5>1. held \in Tags
          BY <4>1 DEF Tags
        <5>2. local' = [local EXCEPT ![p] = held]
          BY <3>4
        <5> HIDE DEF held
        <5> QED
          BY <5>1, <5>2 DEF TypeOK
      <4>3. Held' /\ pc' \in [Proc -> {"idle", "decide", "publish", "preflight", "tag", "push",
                                       "byrev", "bytag", "answer"}]
        BY <2>10, <3>4, GoesOn DEF TagHere
      <4>4. ProcTypes'
        BY <3>4, <4>2, <4>3 DEF TypeOK, ProcTypes
      <4> QED
        BY <3>1, <4>3, <4>4, TwoHalves
    <3> QED
      BY <2>10, <3>2, <3>3, <3>4 DEF TagHere
  <2>11. ASSUME NEW p \in Proc, PushTag(p) PROVE TypeOK' /\ Held'
    <3>1. CASE Leave(p) /\ UNCHANGED tags
      <4>1. SharedTypes'
        BY <2>11, <3>1 DEF TypeOK, SharedTypes, PushTag, records
      <4> QED
        BY <3>1, <4>1, LeaveType, TwoHalves
    <3>2. CASE /\ tags' = [tags EXCEPT ![Turn(p)][Number(p)] = local[p][Turn(p)][Number(p)]]
               /\ pending' = [pending EXCEPT ![p] = @ \ {Turn(p)}]
               /\ GoTo(p, "tag")
               /\ UNCHANGED <<verb, rev, local, decision, unread, found, index>>
      <4>1. decision[p] \in Decision /\ local[p] \in Tags
        BY <2>11 DEF TypeOK, PushTag, Held, GoesByADecision
      <4>2. Number(p) \in Version
        BY <4>1 DEF Number, Decision
      <4>3. ASSUME NEW m \in Repo PROVE tags'[m] \in [Version -> Nat]
        BY <3>2, <4>1, <4>2 DEF TypeOK, Tags
      <4>4. tags' \in Tags
        BY <3>2, <4>3 DEF TypeOK, Tags
      <4>5. Held' /\ pc' \in [Proc -> {"idle", "decide", "publish", "preflight", "tag", "push",
                                       "byrev", "bytag", "answer"}]
        BY <2>11, <3>2, GoesOn DEF PushTag
      <4>6. ProcTypes'
        BY <3>2, <4>5 DEF TypeOK, ProcTypes
      <4>7. SharedTypes'
        BY <2>11, <4>4 DEF TypeOK, SharedTypes, PushTag, records
      <4> QED
        BY <4>5, <4>6, <4>7, TwoHalves
    <3> QED
      BY <2>11, <3>1, <3>2 DEF PushTag
  <2>12. ASSUME NEW p \in Proc, Publish(p) PROVE TypeOK' /\ Held'
    <3>1. rev[p] \in Rev
      BY DEF TypeOK
    <3>2. SharedTypes'
      BY <2>12, <3>1 DEF TypeOK, SharedTypes, Publish, records
    <3>3. CASE Leave(p)
      BY <3>2, <3>3, LeaveType, TwoHalves
    <3>4. CASE GoTo(p, "byrev") /\ UNCHANGED own
      BY <2>12, <3>2, <3>4, GoesOn, TwoHalves DEF TypeOK, ProcTypes, Publish, own
    <3> QED
      BY <2>12, <3>3, <3>4 DEF Publish
  <2>13. ASSUME NEW p \in Proc, RecordByRev(p) \/ RecordByTag(p) PROVE TypeOK' /\ Held'
    <3>1. decision[p] \in Decision
      BY <2>13 DEF TypeOK, RecordByRev, RecordByTag, Held, GoesByADecision
    <3>2. Released(p) \in Record
      BY <3>1 DEF TypeOK, Released, Number, Record, Decision
    <3>3. RecordByRev(p) => SharedTypes'
      <4> SUFFICES ASSUME RecordByRev(p) PROVE SharedTypes'
        OBVIOUS
      <4>1. byRev' \in [Rev -> Record \union {None}]
        BY <3>2 DEF TypeOK, RecordByRev
      <4> QED
        BY <4>1 DEF TypeOK, SharedTypes, RecordByRev, remotes
    <3>4. RecordByTag(p) => SharedTypes'
      <4> SUFFICES ASSUME RecordByTag(p) PROVE SharedTypes'
        OBVIOUS
      <4>1. byTag' \in [Version -> Record \union {None}]
        BY <3>2 DEF TypeOK, RecordByTag
      <4> QED
        BY <4>1 DEF TypeOK, SharedTypes, RecordByTag, remotes
    <3>5. SharedTypes'
      BY <2>13, <3>3, <3>4
    <3> QED
      BY <2>13, <3>5, GoesOn, TwoHalves DEF TypeOK, ProcTypes, RecordByRev, RecordByTag, own
  <2>14. ASSUME NEW p \in Proc, Answer(p) PROVE TypeOK' /\ Held'
    <3>1. SharedTypes'
      BY <2>14 DEF TypeOK, SharedTypes, Answer, remotes
    <3> QED
      BY <2>14, <3>1, LeaveType, TwoHalves DEF Answer
  <2>15. ASSUME NEW p \in Proc, Crash(p) PROVE TypeOK' /\ Held'
    <3>1. SharedTypes'
      BY <2>15 DEF TypeOK, SharedTypes, Crash, Fault, remotes, records
    <3> QED
      BY <2>15, <3>1, LeaveType, TwoHalves DEF Crash
  <2>16. CASE Move
    BY <2>16 DEF Move, TypeOK, Rev, Held, GoesByADecision, remotes, records, own
  <2>17. CASE UNCHANGED vars
    BY <2>17 DEF vars, TypeOK, Held, GoesByADecision, remotes, records, own
  <2> QED
    BY <2>1, <2>2, <2>3, <2>4, <2>5, <2>6, <2>7, <2>8, <2>9, <2>10, <2>11, <2>12, <2>13,
       <2>14, <2>15, <2>16, <2>17, <2>18, Actions
<1> QED
  BY <1>1, <1>2, PTL DEF Spec

-----------------------------------------------------------------------------
(* Releases appear whole, and records tell the truth.                      *)

\* What is set at a remote is set for good.
Grows ==
  /\ \A m \in Repo, v \in Version : tags[m][v] # 0 => tags'[m][v] = tags[m][v]
  /\ \A v \in Version : published[v] # 0 => published'[v] = published[v]

\* A step of p leaves every other process as it is.
Elsewhere(p) ==
  \A q \in Proc \ {p} :
    /\ pc'[q] = pc[q] /\ rev'[q] = rev[q] /\ local'[q] = local[q]
    /\ decision'[q] = decision[q] /\ unread'[q] = unread[q] /\ pending'[q] = pending[q]
    /\ found'[q] = found[q] /\ index'[q] = index[q]

\* What ReleasesAreBacked says of one process.
StandsWell(p) ==
  /\ TagsItsOwn(p)
  /\ pc[p] \in {"byrev", "bytag"} => pending[p] = {} /\ IndexTells(index[p], Number(p))

\* A process outside the engine stands well whatever happened.
LEMMA Bystander ==
  ASSUME NEW p \in Proc, pc'[p] \in {"idle", "decide", "publish", "answer"}
  PROVE  StandsWell(p)'
  BY DEF StandsWell, TagsItsOwn, Tagging

\* A process stands as well as it did while it does not move.
LEMMA StandsStill ==
  ASSUME TypeOK, Held, NEW q \in Proc, StandsWell(q), Grows,
         pc'[q] = pc[q], rev'[q] = rev[q], local'[q] = local[q], decision'[q] = decision[q],
         unread'[q] = unread[q], pending'[q] = pending[q], found'[q] = found[q],
         index'[q] = index[q]
  PROVE  StandsWell(q)'
<1>1. CASE pc[q] \in {"idle", "decide", "publish", "answer"}
  BY <1>1, Bystander
<1>2. CASE pc[q] \notin {"idle", "decide", "publish", "answer"}
  <2>1. Number(q) \in Version /\ Number(q)' = Number(q) /\ Turn(q)' = Turn(q)
    BY <1>2 DEF TypeOK, Held, GoesByADecision, Number, Decision, Turn
  <2>2. Tagging(q)' => Tagging(q)
    BY DEF Tagging
  <2>3. \A m \in Repo : Pin[rev[q]][m] \in Nat \ {0}
    BY ReleaseAssumption DEF TypeOK
  <2>4. TagsItsOwn(q)'
    BY <2>1, <2>2, <2>3 DEF StandsWell, TagsItsOwn, Grows
  <2>5. \A i : IndexTells(i, Number(q)) => IndexTells(i, Number(q))'
    BY <2>1 DEF IndexTells, Grows
  <2> QED
    BY <2>4, <2>5 DEF StandsWell
<1>3. pc[q] \in {"idle", "decide", "publish", "preflight", "tag", "push", "byrev", "bytag", "answer"}
  BY DEF TypeOK
<1> QED
  BY <1>1, <1>2

\* The records go on telling the truth while they and the releases stand.
LEMMA RecordsStand ==
  ASSUME TypeOK, ReleasesAreBacked, Grows, UNCHANGED <<byRev, byTag>>
  PROVE  /\ RecordsTellTheTruth'
         /\ \A v \in Version : byTag'[v] # None => IndexTells(byTag[v].index, byTag[v].version)'
<1>1. \A r \in Rev : byRev[r] # None => byRev[r].version \in Version
  BY DEF TypeOK, Record
<1>2. \A v \in Version : byTag[v] # None => byTag[v].version \in Version
  BY DEF TypeOK, Record
<1>3. RecordsTellTheTruth'
  BY <1>1 DEF ReleasesAreBacked, RecordsTellTheTruth, Grows
<1>4. \A v \in Version : byTag[v] # None => IndexTells(byTag[v].index, byTag[v].version)'
  BY <1>2 DEF ReleasesAreBacked, RecordsWhatIsVisible, IndexTells, Grows
<1> QED
  BY <1>3, <1>4

\* Tags that only appear leave the releases whole.
LEMMA StaysWhole ==
  ASSUME TypeOK, WholeReleases, Grows, UNCHANGED published
  PROVE  WholeReleases'
<1>1. \A r \in Rev, m \in Repo : Pin[r][m] # 0
  BY ReleaseAssumption
<1>2. \A v \in Version : published[v] # 0 => published[v] \in Rev
  BY DEF TypeOK
<1> QED
  BY <1>1, <1>2 DEF WholeReleases, Grows

\* Leaving is a step of its own process, and so is starting.
LEMMA LeavesAlone ==
  ASSUME TypeOK, NEW p \in Proc, Leave(p)
  PROVE  Elsewhere(p) /\ pc'[p] = "idle"
  BY DEF TypeOK, Leave, Elsewhere

\* The same of a process that starts.
LEMMA BeginsAlone ==
  ASSUME TypeOK, NEW p \in Proc, NEW v, NEW next, NEW r, NEW d, Begin(p, v, next, r, d)
  PROVE  Elsewhere(p) /\ pc'[p] = next /\ UNCHANGED <<remotes, records>>
  BY DEF TypeOK, Begin, GoTo, CheckOut, Elsewhere

\* The same of a process that decides.
LEMMA DecidesAlone ==
  ASSUME TypeOK, NEW p \in Proc, NEW d, Decided(p, d)
  PROVE  Elsewhere(p) /\ pc'[p] \in {"idle", "publish"}
<1>1. CASE Leave(p)
  BY <1>1, LeavesAlone
<1>2. CASE ~ Leave(p)
  BY <1>2 DEF TypeOK, Decided, GoTo, Elsewhere
<1> QED
  BY <1>1, <1>2

\* The steps after which a process does not tag, and which write no more than
\* a record of the evaluation or of the run.
LEMMA QuietStep ==
  ASSUME TypeOK, Held, ReleasesAreBacked, NEW p \in Proc, Elsewhere(p),
         pc'[p] \in {"idle", "decide", "publish", "answer"},
         UNCHANGED <<tags, published, byRev, byTag>>, Held'
  PROVE  ReleasesAreBacked'
<1>1. Grows
  BY DEF Grows
<1>2. \A q \in Proc : StandsWell(q)
  BY DEF ReleasesAreBacked, RecordsWhatIsVisible, StandsWell
<1>3. \A q \in Proc : StandsWell(q)'
  BY <1>1, <1>2, Bystander, StandsStill DEF Elsewhere
<1>4. WholeReleases'
  BY <1>1, StaysWhole DEF ReleasesAreBacked
<1> QED
  BY <1>1, <1>3, <1>4, RecordsStand
     DEF ReleasesAreBacked, RecordsWhatIsVisible, StandsWell, Held

\* The records by tag tell what the release of their version shipped.
TagsTell == \A v \in Version : byTag[v] # None => IndexTells(byTag[v].index, byTag[v].version)

\* What is left to show of a step of p that only adds to the remotes.
LEMMA StepOf ==
  ASSUME TypeOK, Held, ReleasesAreBacked, NEW p \in Proc, Held', Elsewhere(p), Grows,
         StandsWell(p)', WholeReleases', RecordsTellTheTruth', TagsTell'
  PROVE  ReleasesAreBacked'
<1>1. ASSUME NEW q \in Proc, q # p PROVE StandsWell(q)'
  <2>1. StandsWell(q)
    BY DEF ReleasesAreBacked, RecordsWhatIsVisible, StandsWell
  <2> QED
    BY <1>1, <2>1, StandsStill DEF Elsewhere
<1> QED
  BY <1>1 DEF ReleasesAreBacked, RecordsWhatIsVisible, StandsWell, Held, TagsTell

-----------------------------------------------------------------------------
\* The steps that go from one of the tagging states to another, one by one.

\* The engine starts: it has looked at no repo.
LEMMA CallEngineStands ==
  ASSUME TypeOK, Held, ReleasesAreBacked, Held', NEW p \in Proc, CallEngine(p)
  PROVE  ReleasesAreBacked'
<1>1. /\ unread' = [unread EXCEPT ![p] = Repo]
      /\ pc' = [pc EXCEPT ![p] = "preflight"]
      /\ UNCHANGED <<verb, rev, local, decision, pending, found, index>>
      /\ UNCHANGED <<tags, published, byRev, byTag>>
  BY DEF CallEngine, GoTo, remotes, records
<1>2. Elsewhere(p) /\ Grows /\ pc'[p] = "preflight" /\ unread'[p] = Repo
  BY <1>1 DEF TypeOK, Elsewhere, Grows
<1>3. StandsWell(p)'
  BY <1>2 DEF StandsWell, TagsItsOwn, Tagging
<1> QED
  BY <1>1, <1>2, <1>3, StaysWhole, RecordsStand, StepOf DEF TagsTell, ReleasesAreBacked

\* One tag is looked for: it is at the commit of the revision, or is not there,
\* or the release is refused.
LEMMA ReadTagStands ==
  ASSUME TypeOK, Held, ReleasesAreBacked, Held', NEW p \in Proc, ReadTag(p)
  PROVE  ReleasesAreBacked'
<1> DEFINE m == First(unread[p])
           v == Number(p)
<1>0. pc[p] = "preflight" /\ UNCHANGED <<tags, published, byRev, byTag>>
  BY DEF ReadTag, remotes, records
<1>1. CASE Leave(p)
  BY <1>0, <1>1, LeavesAlone, QuietStep
<1>2. CASE ~ Leave(p)
  <2>1. /\ tags[m][v] \in {0, Pin[rev[p]][m]}
        /\ unread' = [unread EXCEPT ![p] = @ \ {m}]
        /\ pending' = [pending EXCEPT ![p] = IF tags[m][v] = 0 THEN @ \union {m} ELSE @]
        /\ UNCHANGED <<pc, verb, rev, local, decision, found, index>>
    BY <1>2 DEF ReadTag
  <2>2. \A n \in Repo \ (unread[p] \union pending[p]) : tags[n][v] = Pin[rev[p]][n]
    BY <1>0 DEF ReleasesAreBacked, TagsItsOwn
  <2>3. /\ Elsewhere(p) /\ Grows /\ pc'[p] = "preflight" /\ rev'[p] = rev[p] /\ Number(p)' = v
        /\ unread'[p] = unread[p] \ {m}
        /\ pending'[p] = IF tags[m][v] = 0 THEN pending[p] \union {m} ELSE pending[p]
    BY <1>0, <2>1 DEF TypeOK, Elsewhere, Grows, Number
  <2>4. ASSUME NEW n \in Repo \ (unread'[p] \union pending'[p]) PROVE tags'[n][v] = Pin[rev[p]][n]
    <3> HIDE DEF m, v
    <3>1. CASE n = m
      BY <1>0, <2>1, <2>3, <2>4, <3>1
    <3>2. CASE n # m
      BY <1>0, <2>2, <2>3, <2>4, <3>2
    <3> QED
      BY <3>1, <3>2
  <2> HIDE DEF m, v
  <2>5. StandsWell(p)'
    BY <2>3, <2>4 DEF StandsWell, TagsItsOwn, Tagging
  <2> QED
    BY <1>0, <2>3, <2>5, StaysWhole, RecordsStand, StepOf DEF TagsTell, ReleasesAreBacked
<1> QED
  BY <1>1, <1>2

\* The release is looked for: with every tag there and a release visible there
\* is no index to tell; else the index is of what the revision ships.
LEMMA ReadReleaseStands ==
  ASSUME TypeOK, Held, ReleasesAreBacked, Held', NEW p \in Proc, ReadRelease(p)
  PROVE  ReleasesAreBacked'
<1> DEFINE visible == published[Number(p)] # 0
           done    == pending[p] = {} /\ visible
<1>1. /\ pc[p] = "preflight" /\ unread[p] = {}
      /\ found' = [found EXCEPT ![p] = visible]
      /\ index' = [index EXCEPT ![p] = IF done THEN NoFile ELSE Ships[rev[p]]]
      /\ pc' = [pc EXCEPT ![p] = IF done THEN "byrev" ELSE "tag"]
      /\ UNCHANGED <<verb, rev, local, decision, unread, pending, tags, published, byRev, byTag>>
  BY DEF ReadRelease, GoTo, remotes, records
<1>2. \A m \in Repo \ pending[p] : tags[m][Number(p)] = Pin[rev[p]][m]
  BY <1>1 DEF ReleasesAreBacked, TagsItsOwn
<1>3. /\ Elsewhere(p) /\ Grows /\ Number(p)' = Number(p) /\ rev'[p] = rev[p]
      /\ pc'[p] = IF done THEN "byrev" ELSE "tag"
      /\ found'[p] = visible
      /\ index'[p] = IF done THEN NoFile ELSE Ships[rev[p]]
  BY <1>1 DEF TypeOK, Elsewhere, Grows, Number
<1>4. TagsItsOwn(p)'
  <2>1. /\ pc'[p] # "push" /\ unread'[p] = {} /\ pending'[p] = pending[p]
        /\ tags' = tags /\ published' = published
    BY <1>1, <1>3
  <2>2. pc'[p] \in {"tag", "push"} => index'[p] = Ships[rev[p]]
    BY <1>3
  <2>3. found'[p] => published[Number(p)] # 0
    BY <1>3
  <2> QED
    BY <1>2, <1>3, <2>1, <2>2, <2>3 DEF TagsItsOwn
<1>5. pc'[p] \in {"byrev", "bytag"} => pending'[p] = {} /\ IndexTells(index[p], Number(p))'
  BY <1>1, <1>3 DEF IndexTells
<1>6. StandsWell(p)'
  BY <1>4, <1>5 DEF StandsWell
<1> QED
  BY <1>1, <1>3, <1>6, StaysWhole, RecordsStand, StepOf DEF TagsTell, ReleasesAreBacked

\* One tag: it is there at the commit, or it is refused, or the checkout has it.
LEMMA TagHereStands ==
  ASSUME TypeOK, Held, ReleasesAreBacked, Held', NEW p \in Proc, TagHere(p)
  PROVE  ReleasesAreBacked'
<1> DEFINE m == Turn(p)
           v == Number(p)
           sha == Pin[rev[p]][m]
<1>0. /\ pc[p] = "tag" /\ pending[p] # {}
      /\ UNCHANGED <<tags, published, byRev, byTag>>
  BY DEF TagHere, remotes, records
<1>1. m \in pending[p] /\ m \in Repo /\ v \in Version
  BY <1>0, TurnIsPending DEF TypeOK, Held, GoesByADecision, Number, Decision
<1>2. Grows
  BY <1>0 DEF Grows
<1>3. /\ \A n \in Repo \ pending[p] : tags[n][v] = Pin[rev[p]][n]
      /\ unread[p] = {}
      /\ (found[p] => published[v] # 0) /\ index[p] = Ships[rev[p]]
  BY <1>0 DEF ReleasesAreBacked, TagsItsOwn, Tagging
<1>4. CASE Leave(p)
  BY <1>0, <1>4, LeavesAlone, QuietStep
<1>5. CASE /\ tags[m][v] = sha
           /\ pending' = [pending EXCEPT ![p] = @ \ {m}]
           /\ UNCHANGED <<pc, verb, rev, decision, unread, found, index, local>>
  <2>1. Elsewhere(p) /\ pending'[p] = pending[p] \ {m}
    BY <1>5 DEF TypeOK, Elsewhere
  <2>2. Number(p)' = v
    BY <1>5 DEF Number
  <2>3. StandsWell(p)'
    BY <1>0, <1>1, <1>3, <1>5, <2>1, <2>2 DEF StandsWell, TagsItsOwn, Tagging
  <2> QED
    BY <1>0, <1>2, <2>1, <2>3, StaysWhole, RecordsStand, StepOf DEF TagsTell, ReleasesAreBacked
<1>6. CASE /\ local' = [local EXCEPT ![p][m][v] = sha]
           /\ GoTo(p, "push")
           /\ UNCHANGED <<verb, rev, decision, unread, pending, found, index>>
  <2>1. Elsewhere(p) /\ pc'[p] = "push"
    BY <1>6 DEF TypeOK, Elsewhere, GoTo
  <2>2. Number(p)' = v /\ Turn(p)' = m
    BY <1>6 DEF Number, Turn
  <2>3. local'[p][m][v] = sha
    <3>1. local[p] \in [Repo -> [Version -> Nat]]
      BY DEF TypeOK, Tags
    <3>2. local'[p] = [local[p] EXCEPT ![m][v] = sha]
      BY <1>6 DEF TypeOK
    <3> HIDE DEF m, v, sha
    <3> QED
      BY <1>1, <3>1, <3>2
  <2>4. StandsWell(p)'
    BY <1>0, <1>3, <1>6, <2>1, <2>2, <2>3 DEF StandsWell, TagsItsOwn, Tagging
  <2> QED
    BY <1>0, <1>2, <2>1, <2>4, StaysWhole, RecordsStand, StepOf DEF TagsTell, ReleasesAreBacked
<1> QED
  BY <1>4, <1>5, <1>6 DEF TagHere

\* One push: the remote takes the tag at the commit of the revision, or has one.
LEMMA PushTagStands ==
  ASSUME TypeOK, Held, ReleasesAreBacked, Held', NEW p \in Proc, PushTag(p)
  PROVE  ReleasesAreBacked'
<1> DEFINE m == Turn(p)
           v == Number(p)
           sha == Pin[rev[p]][m]
<1>0. /\ pc[p] = "push"
      /\ UNCHANGED <<published, byRev, byTag>>
  BY DEF PushTag, records
<1>1. CASE Leave(p) /\ UNCHANGED tags
  BY <1>0, <1>1, LeavesAlone, QuietStep
<1>2. CASE /\ tags[m][v] = 0
           /\ tags' = [tags EXCEPT ![m][v] = local[p][m][v]]
           /\ pending' = [pending EXCEPT ![p] = @ \ {m}]
           /\ GoTo(p, "tag")
           /\ UNCHANGED <<verb, rev, local, decision, unread, found, index>>
  <2>1. /\ pending[p] # {} /\ local[p][m][v] = sha
        /\ \A n \in Repo \ pending[p] : tags[n][v] = Pin[rev[p]][n]
        /\ unread[p] = {}
        /\ (found[p] => published[v] # 0) /\ index[p] = Ships[rev[p]]
    BY <1>0 DEF ReleasesAreBacked, TagsItsOwn, Tagging
  <2>2. m \in pending[p] /\ m \in Repo /\ v \in Version
    BY <1>0, <2>1, TurnIsPending DEF TypeOK, Held, GoesByADecision, Number, Decision
  <2>3. \A n \in Repo, w \in Version :
          tags'[n][w] = IF n = m /\ w = v THEN sha ELSE tags[n][w]
    <3>1. tags \in [Repo -> [Version -> Nat]]
      BY DEF TypeOK, Tags
    <3>2. tags' = [tags EXCEPT ![m][v] = sha]
      BY <1>2, <2>1
    <3> HIDE DEF m, v, sha
    <3> QED
      BY <2>2, <3>1, <3>2
  <2>4. Grows
    <3> HIDE DEF m, v, sha
    <3> QED
      BY <1>0, <1>2, <2>3 DEF Grows
  <2>5. Elsewhere(p) /\ pc'[p] = "tag" /\ pending'[p] = pending[p] \ {m}
    BY <1>2 DEF TypeOK, Elsewhere, GoTo
  <2>6. /\ Number(p)' = v /\ rev'[p] = rev[p] /\ unread'[p] = unread[p]
        /\ found'[p] = found[p] /\ index'[p] = index[p]
    BY <1>2 DEF Number
  <2>7. StandsWell(p)'
    <3>1. \A n \in Repo \ pending'[p] : tags'[n][v] = Pin[rev[p]][n]
      <4> HIDE DEF v
      <4> QED
        BY <2>1, <2>2, <2>3, <2>5
    <3>2. published' = published
      BY <1>0
    <3> HIDE DEF v, m, sha
    <3>3. TagsItsOwn(p)'
      BY <2>1, <2>5, <2>6, <3>1, <3>2 DEF TagsItsOwn
    <3> QED
      BY <2>5, <3>3 DEF StandsWell
  <2> QED
    BY <1>0, <2>4, <2>5, <2>7, StaysWhole, RecordsStand, StepOf DEF TagsTell, ReleasesAreBacked
<1> QED
  BY <1>1, <1>2 DEF PushTag

\* Two revisions that hold the tags of one version hold the same commits.
LEMMA SamePins ==
  ASSUME NEW q \in Rev, NEW r \in Rev, \A m \in Repo : Pin[q][m] = Pin[r][m]
  PROVE  Pin[q] = Pin[r]
<1>1. Pin[q] \in [Repo -> Nat \ {0}] /\ Pin[r] \in [Repo -> Nat \ {0}]
  BY ReleaseAssumption
<1> QED
  BY <1>1

\* A visible release under the tags of a revision is of its commits.
LEMMA VisibleIsOfThose ==
  ASSUME TypeOK, WholeReleases, NEW v \in Version, NEW r \in Rev, published[v] # 0,
         \A n \in Repo : tags[n][v] = Pin[r][n]
  PROVE  published[v] \in Rev /\ Pin[published[v]] = Pin[r]
<1>1. published[v] \in Rev
  BY DEF TypeOK
<1>2. \A n \in Repo : Pin[published[v]][n] = Pin[r][n]
  BY DEF WholeReleases
<1> QED
  BY <1>1, <1>2, SamePins

\* The publish: with every tag at the commits of the revision, the release
\* that appears under them is whole.
LEMMA PublishStands ==
  ASSUME TypeOK, Held, ReleasesAreBacked, Held', NEW p \in Proc, Publish(p)
  PROVE  ReleasesAreBacked'
<1> DEFINE v == Number(p)
<1>0. /\ pc[p] = "tag" /\ pending[p] = {}
      /\ UNCHANGED <<tags, byRev, byTag>>
  BY DEF Publish, records
<1>1. CASE Leave(p) /\ UNCHANGED published
  BY <1>0, <1>1, LeavesAlone, QuietStep
<1>2. CASE /\ published[v] = 0
           /\ published' = [published EXCEPT ![v] = rev[p]]
           /\ GoTo(p, "byrev")
           /\ UNCHANGED own
  <2>1. /\ \A n \in Repo : tags[n][v] = Pin[rev[p]][n]
        /\ unread[p] = {} /\ index[p] = Ships[rev[p]]
    BY <1>0 DEF ReleasesAreBacked, TagsItsOwn, Tagging
  <2>2. v \in Version /\ rev[p] \in Rev /\ rev[p] # 0
    <3>1. v \in Version
      BY <1>0 DEF Held, GoesByADecision, Number, Decision
    <3>2. rev[p] \in Rev
      BY DEF TypeOK
    <3>3. rev[p] # 0
      BY <3>2, ReleaseAssumption DEF Rev
    <3> QED
      BY <3>1, <3>2, <3>3
  <2>3. \A w \in Version : published'[w] = IF w = v THEN rev[p] ELSE published[w]
    BY <1>2, <2>2 DEF TypeOK
  <2>4. Grows
    BY <1>0, <1>2, <2>3 DEF Grows
  <2>5. Elsewhere(p) /\ pc'[p] = "byrev" /\ Number(p)' = v
    BY <1>2 DEF TypeOK, Elsewhere, GoTo, own, Number
  <2>6. StandsWell(p)'
    BY <1>0, <1>2, <2>1, <2>2, <2>3, <2>5 DEF StandsWell, TagsItsOwn, Tagging, IndexTells, own
  <2>7. WholeReleases'
    <3> HIDE DEF v
    <3> QED
      BY <1>0, <2>1, <2>3 DEF ReleasesAreBacked, WholeReleases
  <2> QED
    BY <1>0, <2>4, <2>5, <2>6, <2>7, RecordsStand, StepOf DEF TagsTell
<1>3. CASE found[p] /\ GoTo(p, "byrev") /\ UNCHANGED <<own, published>>
  <2>1. /\ \A n \in Repo : tags[n][v] = Pin[rev[p]][n]
        /\ unread[p] = {} /\ index[p] = Ships[rev[p]] /\ published[v] # 0
    BY <1>0, <1>3 DEF ReleasesAreBacked, TagsItsOwn, Tagging
  <2>2. v \in Version /\ rev[p] \in Rev
    BY <1>0 DEF TypeOK, Held, GoesByADecision, Number, Decision
  <2>3. Pin[published[v]] = Pin[rev[p]]
    BY <2>1, <2>2, VisibleIsOfThose DEF ReleasesAreBacked
  <2>4. Elsewhere(p) /\ Grows /\ pc'[p] = "byrev" /\ Number(p)' = v
    BY <1>0, <1>3 DEF TypeOK, Elsewhere, Grows, GoTo, own, Number
  <2>5. IndexTells(index[p], v)
    BY <2>1, <2>2, <2>3 DEF IndexTells
  <2>6. StandsWell(p)'
    BY <1>0, <1>3, <2>1, <2>4, <2>5 DEF StandsWell, TagsItsOwn, Tagging, IndexTells, own
  <2> QED
    BY <1>0, <1>3, <2>4, <2>6, StaysWhole, RecordsStand, StepOf DEF TagsTell, ReleasesAreBacked
<1> QED
  BY <1>1, <1>2, <1>3 DEF Publish

\* The two puts: what they record is visible, at the commits of the revision.
LEMMA RecordsStandWell ==
  ASSUME TypeOK, Held, ReleasesAreBacked, Held', NEW p \in Proc,
         RecordByRev(p) \/ RecordByTag(p)
  PROVE  ReleasesAreBacked'
<1> DEFINE v == Number(p)
<1>0. /\ pc[p] \in {"byrev", "bytag"}
      /\ UNCHANGED <<tags, published, own>>
      /\ GoTo(p, "bytag") \/ GoTo(p, "answer")
  BY DEF RecordByRev, RecordByTag, remotes
<1>1. Grows /\ WholeReleases'
  BY <1>0, StaysWhole DEF Grows, ReleasesAreBacked
<1>2. v \in Version /\ rev[p] \in Rev
  BY <1>0 DEF TypeOK, Held, GoesByADecision, Number, Decision
<1>3. /\ pending[p] = {} /\ unread[p] = {} /\ IndexTells(index[p], v)
      /\ \A n \in Repo : tags[n][v] = Pin[rev[p]][n]
  BY <1>0 DEF ReleasesAreBacked, RecordsWhatIsVisible, TagsItsOwn, Tagging
<1>4. published[v] \in Rev /\ Pin[published[v]] = Pin[rev[p]]
  BY <1>2, <1>3, VisibleIsOfThose DEF ReleasesAreBacked, IndexTells
<1>5. Elsewhere(p) /\ pc'[p] \in {"bytag", "answer"} /\ Number(p)' = v
  BY <1>0 DEF TypeOK, Elsewhere, GoTo, own, Number
<1>6. StandsWell(p)'
  BY <1>0, <1>3, <1>5 DEF StandsWell, TagsItsOwn, Tagging, IndexTells, own
<1>7. Released(p).version = v /\ Released(p).index = index[p]
  BY DEF Released
<1>8. CASE RecordByRev(p)
  <2>1. /\ UNCHANGED byTag
        /\ \A r \in Rev : byRev'[r] = IF r = rev[p] THEN Released(p) ELSE byRev[r]
    BY <1>8 DEF TypeOK, RecordByRev
  <2>2. TagsTell'
    BY <1>0, <2>1 DEF ReleasesAreBacked, RecordsWhatIsVisible, TagsTell, IndexTells
  <2>3. RecordsTellTheTruth'
    <3>1. published[v] # 0
      BY <1>3 DEF IndexTells
    <3> HIDE DEF v
    <3> QED
      BY <1>0, <1>4, <1>7, <2>1, <3>1 DEF ReleasesAreBacked, RecordsTellTheTruth
  <2> QED
    BY <1>1, <1>5, <1>6, <2>2, <2>3, StepOf
<1>9. CASE RecordByTag(p)
  <2>1. /\ UNCHANGED byRev
        /\ \A w \in Version : byTag'[w] = IF w = v THEN Released(p) ELSE byTag[w]
    BY <1>2, <1>9 DEF TypeOK, RecordByTag
  <2>2. TagsTell'
    <3> HIDE DEF v
    <3> QED
      BY <1>0, <1>3, <1>7, <2>1 DEF ReleasesAreBacked, RecordsWhatIsVisible, TagsTell, IndexTells
  <2>3. RecordsTellTheTruth'
    BY <1>0, <2>1 DEF ReleasesAreBacked, RecordsTellTheTruth
  <2> QED
    BY <1>1, <1>5, <1>6, <2>2, <2>3, StepOf
<1> QED
  BY <1>8, <1>9

\* The record taken over is of a version whose release shipped these bytes.
LEMMA ConvergeStands ==
  ASSUME TypeOK, Held, ReleasesAreBacked, Held', NEW p \in Proc, Converge(p)
  PROVE  ReleasesAreBacked'
<1> DEFINE rec == byTag[decision[p].previous]
<1>0. /\ GoTo(p, "answer")
      /\ UNCHANGED <<tags, published, byTag, own>>
      /\ byRev' = [byRev EXCEPT ![rev[p]] = [rec EXCEPT !.rev = rev[p]]]
  BY DEF Converge, remotes
<1>1. Grows /\ WholeReleases'
  BY <1>0, StaysWhole DEF Grows, ReleasesAreBacked
<1>2. Elsewhere(p) /\ StandsWell(p)'
  BY <1>0, Bystander DEF TypeOK, Elsewhere, GoTo, own
<1>3. decision[p].previous \in Version /\ rec # None /\ rec.index = Ships[rev[p]] /\ rec.index # NoFile
  BY DEF TypeOK, Held, GoesByADecision, Converge, SameBytes, Decision
<1>4. /\ rec \in Record /\ published[rec.version] # 0
      /\ \E q \in Rev : Pin[q] = Pin[published[rec.version]] /\ Ships[q] = Ships[rev[p]]
  BY <1>3 DEF TypeOK, ReleasesAreBacked, RecordsWhatIsVisible, IndexTells
<1>5. TagsTell'
  BY <1>0 DEF ReleasesAreBacked, RecordsWhatIsVisible, TagsTell, IndexTells
<1>6. RecordsTellTheTruth'
  <2>1. [rec EXCEPT !.rev = rev[p]].version = rec.version
    BY <1>4 DEF Record
  <2> HIDE DEF rec
  <2>2. \A r \in Rev : byRev'[r] = IF r = rev[p] THEN [rec EXCEPT !.rev = rev[p]] ELSE byRev[r]
    BY <1>0 DEF TypeOK
  <2> QED
    BY <1>0, <1>4, <2>1, <2>2 DEF ReleasesAreBacked, RecordsTellTheTruth
<1> QED
  BY <1>1, <1>2, <1>5, <1>6, StepOf

-----------------------------------------------------------------------------
\* Type correctness: every version a process decides on, tags or records is
\* on the version line, and every record is one.
THEOREM TypeCorrect == Spec => []TypeOK
  BY TypesAndDecisions, PTL

\* The inductive invariant: however decisions, tags, publishes, records and
\* crashes of several processes interleave, what is visible is whole and what
\* is recorded is visible.
THEOREM Backing == Spec => []ReleasesAreBacked
<1>1. Init => ReleasesAreBacked
  BY DEF Init, ReleasesAreBacked, WholeReleases, RecordsTellTheTruth, RecordsWhatIsVisible,
         GoesByADecision, TagsItsOwn, Tagging
<1>2. TypeOK /\ Held /\ Held' /\ ReleasesAreBacked /\ [Next]_vars => ReleasesAreBacked'
  <2> SUFFICES ASSUME TypeOK, Held, Held', ReleasesAreBacked, [Next]_vars
               PROVE  ReleasesAreBacked'
    OBVIOUS
  <2>1. ASSUME NEW p \in Proc, NEW v, NEW next \in {"decide", "publish"}, NEW r, NEW d,
               Begin(p, v, next, r, d)
        PROVE  ReleasesAreBacked'
    BY <2>1, BeginsAlone, QuietStep DEF remotes, records
  <2>2. ASSUME NEW p \in Proc, DecideReleased(p) \/ DecideSkip(p) \/ DecideBump(p)
        PROVE  ReleasesAreBacked'
    <3>1. PICK d : Decided(p, d)
      BY <2>2 DEF DecideReleased, DecideSkip, DecideBump
    <3>2. UNCHANGED <<tags, published, byRev, byTag>>
      BY <2>2 DEF DecideReleased, DecideSkip, DecideBump, remotes
    <3> QED
      BY <3>1, <3>2, DecidesAlone, QuietStep
  <2>3. ASSUME NEW p \in Proc, Reuse(p) \/ Answer(p) \/ Crash(p)
        PROVE  ReleasesAreBacked'
    BY <2>3, LeavesAlone, QuietStep DEF Reuse, Answer, Crash, remotes, records
  <2>5. CASE Move \/ UNCHANGED vars
    <3>1. UNCHANGED <<tags, published, byRev, byTag, pc, own>>
      BY <2>5 DEF Move, vars, remotes, records
    <3> QED
      BY <3>1 DEF own, ReleasesAreBacked, WholeReleases, RecordsTellTheTruth, RecordsWhatIsVisible,
                  IndexTells, GoesByADecision, TagsItsOwn, Tagging, Number, Turn
  <2> QED
    BY <2>1, <2>2, <2>3, <2>5, Actions, ConvergeStands, CallEngineStands, ReadTagStands,
       ReadReleaseStands, TagHereStands,
       PushTagStands, PublishStands, RecordsStandWell DEF StartApply, StartStages
<1> QED
  BY <1>1, <1>2, TypesAndDecisions, PTL DEF Spec

\* A release consumers can see has every tag of its release set, at the
\* commits it was built from.
THEOREM ReleasesAppearWhole == Spec => []WholeReleases
  BY Backing, PTL DEF ReleasesAreBacked

\* A revision recorded as released has a visible release of its commits or of
\* its bytes to show for it.
THEOREM RecordsAreTrue == Spec => []RecordsTellTheTruth
  BY Backing, PTL DEF ReleasesAreBacked

-----------------------------------------------------------------------------
(* One number for a revision: where the home repo is tagged last, in fresh *)
(* clones and reading subjects, a version whose home tag is cut is cut as  *)
(* a whole, and the cut versions are a line on which the commits go up.    *)

HomeIsLast == Home = LastRepo /\ Fresh /\ Semantic

Cut(v) == tags[Home][v] # 0

\* What is tagged under w is behind the revision r.
Behind(w, r) == /\ \A m \in Repo : tags[m][w] <= Pin[r][m]
                /\ \E m \in Repo : tags[m][w] < Pin[r][m]

\* Version d is cut already, or it is the next one and r is ahead of all the others.
Follows(r, d) == ~ Cut(d) => \A w \in Version : IF w < d THEN Cut(w) /\ Behind(w, r)
                                                         ELSE ~ Cut(w)

\* The cut versions: whole, in order, and of commits that have been pushed.
Ordered ==
  \A v \in Version : Cut(v) =>
    /\ \A m \in Repo : tags[m][v] # 0 /\ tags[m][v] <= Pin[head][m]
    /\ \A w \in Version : w < v =>
         /\ Cut(w)
         /\ \A m \in Repo : tags[m][w] <= tags[m][v]
         /\ \E m \in Repo : tags[m][w] < tags[m][v]

\* A process that decides sees cut versions as they are, behind its revision or
\* at it; one that decided goes by a version that is cut or follows.
Placed(p) ==
  /\ rev[p] <= head
  /\ pc[p] \notin {"idle", "decide"} => Follows(rev[p], Number(p))
  /\ pc[p] = "decide" =>
       \A w \in Version : local[p][Home][w] # 0 =>
         \A m \in Repo : local[p][m][w] = tags[m][w] /\ tags[m][w] <= Pin[rev[p]][m]

Evaluations == \A r \in Rev : evaluated[r] # None => r <= head /\ Follows(r, evaluated[r].version)

OnOneLine == Ordered /\ Evaluations /\ \A p \in Proc : Placed(p)

\* A process that does not move keeps its place while no tag is cut.
LEMMA KeepsItsPlace ==
  ASSUME TypeOK, NEW p \in Proc, Placed(p), NEW q \in Proc, Elsewhere(q), p # q,
         UNCHANGED tags, head' \in Rev, head <= head'
  PROVE  Placed(p)'
<1>1. /\ pc'[p] = pc[p] /\ rev'[p] = rev[p] /\ local'[p] = local[p]
      /\ Number(p)' = Number(p)
  BY DEF Elsewhere, Number
<1>2. rev'[p] <= head'
  BY <1>1 DEF Placed, TypeOK, Rev
<1> QED
  BY <1>1, <1>2 DEF Placed, Follows, Cut, Behind

\* Of a step that cuts no tag and records no decision, the place of who takes
\* it has to be shown.
LEMMA Standstill ==
  ASSUME TypeOK, OnOneLine, NEW p \in Proc, Elsewhere(p), Placed(p)',
         UNCHANGED <<tags, evaluated, head>>
  PROVE  OnOneLine'
<1>1. \A q \in Proc : Placed(q)'
  BY KeepsItsPlace DEF OnOneLine, TypeOK, Rev
<1>2. Ordered' /\ Evaluations'
  BY DEF OnOneLine, Ordered, Evaluations, Follows, Cut, Behind
<1> QED
  BY <1>1, <1>2 DEF OnOneLine

\* Who leaves, and who goes on with the version it has, keeps the line.
LEMMA LeavesTheLine ==
  ASSUME TypeOK, OnOneLine, NEW p \in Proc, Leave(p), UNCHANGED <<tags, evaluated, head>>
  PROVE  OnOneLine'
<1>1. Placed(p)'
  BY DEF Leave, TypeOK, Placed, Rev
<1> QED
  BY <1>1, LeavesAlone, Standstill

LEMMA GoesOnTheLine ==
  ASSUME TypeOK, OnOneLine, NEW p \in Proc, Elsewhere(p), pc[p] \notin {"idle", "decide"},
         pc'[p] # "decide", rev'[p] = rev[p], decision'[p] = decision[p],
         UNCHANGED <<tags, evaluated, head>>
  PROVE  OnOneLine'
<1>1. Placed(p)'
  BY DEF OnOneLine, Placed, Number, Follows, Cut, Behind
<1> QED
  BY <1>1, Standstill

\* A start: a clone holds the tags as they are.
LEMMA StartsOnTheLine ==
  ASSUME HomeIsLast, TypeOK, OnOneLine, NEW p \in Proc,
         StartApply(p) \/ \E r \in Rev : StartStages(p, r)
  PROVE  OnOneLine'
<1>1. CASE StartApply(p)
  <2>1. PICK v : Begin(p, v, "decide", head, None)
    BY <1>1 DEF StartApply
  <2>2. /\ pc'[p] = "decide" /\ rev'[p] = head /\ local'[p] = tags
        /\ Elsewhere(p) /\ UNCHANGED <<tags, evaluated, head>>
    BY <2>1, BeginsAlone DEF HomeIsLast, TypeOK, Begin, GoTo, CheckOut, remotes, records
  <2>3. Placed(p)'
    BY <2>2 DEF Placed, OnOneLine, Ordered, Cut, TypeOK, Rev
  <2> QED
    BY <2>2, <2>3, Standstill
<1>2. ASSUME NEW r \in Rev, StartStages(p, r) PROVE OnOneLine'
  <2>1. /\ pc'[p] = "publish" /\ rev'[p] = r /\ decision'[p] = evaluated[r]
        /\ evaluated[r] # None
        /\ Elsewhere(p) /\ UNCHANGED <<tags, evaluated, head>>
    BY <1>2, BeginsAlone DEF TypeOK, StartStages, Begin, GoTo, remotes, records
  <2>2. Placed(p)'
    BY <2>1 DEF Placed, OnOneLine, Evaluations, Number, Follows, Cut, Behind
  <2> QED
    BY <2>1, <2>2, Standstill
<1> QED
  BY <1>1, <1>2

\* A decision for a version that is cut or follows keeps the line.
LEMMA DecidesOnTheLine ==
  ASSUME TypeOK, OnOneLine, NEW p \in Proc, NEW d \in Decision, Follows(rev[p], d.version),
         Decided(p, d), UNCHANGED <<tags, head>>
  PROVE  OnOneLine'
<1>1. rev[p] \in Rev /\ rev[p] <= head
  BY DEF TypeOK, OnOneLine, Placed
<1>2. CASE UNCHANGED evaluated /\ Leave(p)
  BY <1>2, LeavesTheLine
<1>3. CASE UNCHANGED evaluated /\ ~ Leave(p)
  <2>1. pc'[p] = "publish" /\ decision'[p] = d /\ rev'[p] = rev[p]
    BY <1>3 DEF Decided, GoTo, TypeOK
  <2>2. Placed(p)'
    BY <1>1, <2>1 DEF Placed, Number, Follows, Cut, Behind
  <2> QED
    BY <1>3, <2>2, DecidesAlone, Standstill
<1>4. CASE Leave(p) /\ evaluated' = [evaluated EXCEPT ![rev[p]] = d]
  <2>1. Placed(p)'
    BY <1>4 DEF Leave, TypeOK, Placed, Rev
  <2>2. \A q \in Proc : Placed(q)'
    BY <1>4, <2>1, LeavesAlone, KeepsItsPlace DEF OnOneLine, TypeOK, Rev
  <2>3. Ordered'
    BY DEF OnOneLine, Ordered, Cut
  <2>4. Evaluations'
    <3> SUFFICES ASSUME NEW r \in Rev, evaluated'[r] # None
                 PROVE  r <= head /\ Follows(r, evaluated'[r].version)
      BY DEF Evaluations, Follows, Cut, Behind
    <3>1. CASE r = rev[p]
      BY <1>1, <1>4, <3>1 DEF TypeOK
    <3>2. CASE r # rev[p]
      BY <1>4, <3>2 DEF TypeOK, OnOneLine, Evaluations
    <3> QED
      BY <3>1, <3>2
  <2> QED
    BY <2>2, <2>3, <2>4 DEF OnOneLine
<1> QED
  BY <1>2, <1>3, <1>4 DEF Decided

\* The last version a checkout knows is the greatest one tagged in it.
LEMMA LatestIsTagged ==
  ASSUME NEW p \in Proc, Latest(p) # 0
  PROVE  Latest(p) \in Version /\ local[p][Home][Latest(p)] # 0
<1> DEFINE cut == {v \in Version : local[p][Home][v] # 0}
<1>1. cut # {}
  BY DEF Latest
<1>2. cut \subseteq 0..LastVersion /\ LastVersion \in Nat
  BY ReleaseAssumption DEF Version
<1>3. \E v \in cut : \A w \in cut : w <= v
  <2> HIDE DEF cut
  <2> QED
    BY <1>1, <1>2, Greatest
<1>4. Latest(p) = CHOOSE v \in cut : \A w \in cut : w <= v
  BY <1>1 DEF Latest
<1> HIDE DEF cut
<1>5. Latest(p) \in cut
  BY <1>3, <1>4
<1> QED
  BY <1>5 DEF cut

\* decideRelease answers a version that is cut, or the one after the last cut
\* one for commits that are ahead of it.
LEMMA DecisionFollows ==
  ASSUME HomeIsLast, TypeOK, ReleasesAreBacked, OnOneLine, NEW p \in Proc,
         DecideReleased(p) \/ DecideSkip(p) \/ DecideBump(p)
  PROVE  OnOneLine'
<1> DEFINE r == rev[p]
           L == Latest(p)
<1>0. /\ pc[p] = "decide" /\ r \in Rev /\ UNCHANGED <<tags, head>>
      /\ Home \in Repo /\ Placed(p)
  BY ReleaseAssumption DEF DecideReleased, DecideSkip, DecideBump, TypeOK, OnOneLine, remotes
<1>1. L # 0 => /\ L \in Version
               /\ \A m \in Repo : local[p][m][L] = tags[m][L] /\ tags[m][L] <= Pin[r][m]
               /\ Cut(L)
  BY <1>0, LatestIsTagged DEF Placed, Cut
<1>2. CASE DecideReleased(p)
  <2> DEFINE rec == byRev[r]
             d   == [version |-> rec.version, previous |-> 0, skip |-> FALSE, set |-> rec.set]
  <2>1. rec # None /\ rec \in Record /\ Decided(p, d)
    BY <1>0, <1>2 DEF DecideReleased, TypeOK
  <2>2. d \in Decision
    BY <2>1 DEF Record, Decision
  <2>3. published[rec.version] \in Rev
    BY <1>0, <2>1 DEF ReleasesAreBacked, RecordsTellTheTruth, TypeOK, Record
  <2>4. Cut(rec.version)
    <3>1. Pin[published[rec.version]][Home] # 0
      BY <1>0, <2>3, ReleaseAssumption
    <3>2. published[rec.version] # 0 /\ rec.version \in Version
      BY <2>1, <2>3 DEF Rev, Record
    <3> QED
      BY <1>0, <3>1, <3>2 DEF ReleasesAreBacked, WholeReleases, Cut
  <2>5. Follows(r, d.version)
    BY <2>4 DEF Follows
  <2> HIDE DEF d, rec
  <2> QED
    BY <1>0, <2>1, <2>2, <2>5, DecidesOnTheLine
<1>3. CASE DecideSkip(p)
  <2> DEFINE d == [version |-> L, previous |-> L, skip |-> TRUE, set |-> r]
  <2>1. L # 0 /\ Decided(p, d)
    BY <1>3 DEF DecideSkip
  <2>2. d \in Decision
    BY <1>0, <1>1, <2>1 DEF Decision
  <2>3. Follows(r, d.version)
    BY <1>1, <2>1 DEF Follows
  <2> HIDE DEF d, L
  <2> QED
    BY <1>0, <2>1, <2>2, <2>3, DecidesOnTheLine
<1>4. CASE DecideBump(p)
  <2> DEFINE d == [version |-> L + 1, previous |-> L, skip |-> FALSE, set |-> r]
  <2>1. /\ L < LastVersion /\ Decided(p, d)
        /\ L # 0 => Scores(p, L)
    BY <1>4 DEF DecideBump
  <2>2. L \in 0..LastVersion /\ LastVersion \in Nat
    BY LatestType, ReleaseAssumption DEF Version
  <2>3. d \in Decision
    BY <1>0, <2>1, <2>2 DEF Decision, Version
  <2>4. L # 0 => Behind(L, r)
    <3> SUFFICES ASSUME L # 0 PROVE Behind(L, r)
      OBVIOUS
    <3>1. PICK m \in Repo : \E k \in local[p][m][L] + 1..Pin[r][m] : TRUE
      BY <2>1 DEF Scores, HomeIsLast
    <3>2. local[p][m][L] = tags[m][L] /\ tags[m][L] \in Nat /\ Pin[r][m] \in Nat
      BY <1>0, <1>1, <3>1, ReleaseAssumption DEF TypeOK, Tags
    <3>3. tags[m][L] < Pin[r][m]
      BY <3>1, <3>2
    <3> HIDE DEF L, r
    <3> QED
      BY <1>1, <3>3 DEF Behind
  <2>5. Follows(r, L + 1)
    <3> SUFFICES ASSUME ~ Cut(L + 1), NEW w \in Version
                 PROVE  IF w < L + 1 THEN Cut(w) /\ Behind(w, r) ELSE ~ Cut(w)
      BY DEF Follows
    <3>0. L + 1 \in Version /\ w \in Nat /\ w > 0
      BY <2>1, <2>2 DEF Version
    <3>1. CASE w > L + 1
      <4>1. ~ Cut(w)
        BY <3>0, <3>1 DEF OnOneLine, Ordered
      <4> HIDE DEF L
      <4> QED
        BY <2>2, <3>0, <3>1, <4>1
    <3>2. CASE w = L
      <4>1. L # 0
        BY <3>0, <3>2
      <4> HIDE DEF L
      <4> QED
        BY <1>1, <2>2, <2>4, <3>2, <4>1
    <3>3. CASE w < L
      <4>1. L # 0 /\ L \in Version
        BY <1>1, <2>2, <3>0, <3>3
      <4>2. /\ Cut(w)
            /\ \A m \in Repo : tags[m][w] <= tags[m][L]
        BY <1>1, <3>3, <4>1 DEF OnOneLine, Ordered
      <4>3. \A m \in Repo : tags[m][w] \in Nat /\ tags[m][L] \in Nat /\ Pin[r][m] \in Nat
        BY <1>0, <4>1, ReleaseAssumption DEF TypeOK, Tags
      <4>4. Behind(L, r)
        BY <2>4, <4>1
      <4>5. Behind(w, r)
        <5> HIDE DEF L, r
        <5>1. ASSUME NEW m \in Repo PROVE tags[m][w] <= Pin[r][m]
          BY <4>2, <4>3, <4>4 DEF Behind
        <5>2. PICK m \in Repo : tags[m][L] < Pin[r][m]
          BY <4>4 DEF Behind
        <5>3. tags[m][w] < Pin[r][m]
          BY <4>2, <4>3, <5>2
        <5> QED
          BY <5>1, <5>3 DEF Behind
      <4> HIDE DEF L
      <4> QED
        BY <2>2, <3>0, <3>3, <4>2, <4>5
    <3>4. CASE w = L + 1
      BY <3>4
    <3> HIDE DEF L
    <3> QED
      BY <2>2, <3>0, <3>1, <3>2, <3>3, <3>4
  <2>6. Follows(r, d.version)
    BY <2>5
  <2> HIDE DEF d, L
  <2> QED
    BY <1>0, <2>1, <2>3, <2>6, DecidesOnTheLine
<1> QED
  BY <1>2, <1>3, <1>4

\* A push: the home tag is the last of its version, and makes it the head of
\* the line; any other tag is of a version that is not cut.
LEMMA PushesOnTheLine ==
  ASSUME HomeIsLast, TypeOK, Held, ReleasesAreBacked, OnOneLine, NEW p \in Proc, PushTag(p)
  PROVE  OnOneLine'
<1> DEFINE m == Turn(p)
           v == Number(p)
           r == rev[p]
<1>0. pc[p] = "push" /\ UNCHANGED <<evaluated, head>> /\ Home \in Repo /\ Home = LastRepo
  BY ReleaseAssumption DEF PushTag, records, HomeIsLast
<1>1. CASE Leave(p) /\ UNCHANGED tags
  BY <1>0, <1>1, LeavesTheLine
<1>2. CASE /\ tags[m][v] = 0
           /\ tags' = [tags EXCEPT ![m][v] = local[p][m][v]]
           /\ pending' = [pending EXCEPT ![p] = @ \ {m}]
           /\ GoTo(p, "tag")
           /\ UNCHANGED <<verb, rev, local, decision, unread, found, index>>
  <2>1. /\ pending[p] # {} /\ local[p][m][v] = Pin[r][m]
        /\ \A n \in Repo \ pending[p] : tags[n][v] = Pin[r][n]
    BY <1>0 DEF ReleasesAreBacked, TagsItsOwn, Tagging
  <2>2. m \in pending[p] /\ m \in Repo /\ v \in Version /\ r \in Rev /\ r <= head
    BY <1>0, <2>1, TurnIsPending
       DEF TypeOK, Held, GoesByADecision, Number, Decision, OnOneLine, Placed
  <2>3. \A n \in Repo, w \in Version :
          tags'[n][w] = IF n = m /\ w = v THEN Pin[r][m] ELSE tags[n][w]
    <3>1. tags \in [Repo -> [Version -> Nat]]
      BY DEF TypeOK, Tags
    <3>2. tags' = [tags EXCEPT ![m][v] = Pin[r][m]]
      BY <1>2, <2>1
    <3> HIDE DEF m, v, r
    <3> QED
      BY <2>2, <3>1, <3>2
  <2>4. Elsewhere(p) /\ pc'[p] = "tag" /\ rev'[p] = r /\ Number(p)' = v
    BY <1>2 DEF TypeOK, Elsewhere, GoTo, Number
  <2>5. Follows(r, v)
    BY <1>0 DEF OnOneLine, Placed
  <2>6. \A n \in Repo : Pin[r][n] \in Nat \ {0} /\ Pin[r][n] <= Pin[head][n]
    BY <2>2, ReleaseAssumption DEF TypeOK
  <2>7. ~ Cut(v)
    BY <1>2, <2>2 DEF OnOneLine, Ordered
  <2>8. m = Home => \A n \in Repo \ {Home} : tags[n][v] = Pin[r][n]
    <3> SUFFICES ASSUME m = Home, NEW n \in Repo \ {Home} PROVE n \notin pending[p]
      BY <2>1
    <3>1. \E x \in pending[p] : \A y \in pending[p] : x <= y
      <4>1. pending[p] \subseteq Nat
        BY DEF TypeOK, Repo
      <4> QED
        BY <2>1, <4>1, Least
    <3>2. \A y \in pending[p] : m <= y
      BY <3>1 DEF Turn, First
    <3> QED
      BY <1>0, <3>2, ReleaseAssumption DEF Repo
  <2> HIDE DEF m, v, r
  <2>9. CASE m # Home
    <3>1. \A w \in Version : /\ Cut(w)' <=> Cut(w)
                             /\ Cut(w) => \A n \in Repo : tags'[n][w] = tags[n][w]
      BY <1>0, <2>2, <2>3, <2>7, <2>9 DEF Cut
    <3>2. ASSUME NEW q \in Rev, NEW d \in Version, Follows(q, d) PROVE Follows(q, d)'
      BY <3>1, <3>2 DEF Follows, Behind
    <3>3. Ordered'
      BY <1>0, <3>1 DEF OnOneLine, Ordered
    <3>4. Evaluations'
      BY <1>0, <3>2 DEF OnOneLine, Evaluations, TypeOK, Decision
    <3>5. ASSUME NEW q \in Proc PROVE Placed(q)'
      <4>0. Placed(q) /\ rev[q] \in Rev
        BY DEF OnOneLine, TypeOK
      <4>1. CASE q = p
        BY <1>0, <2>2, <2>4, <2>5, <3>2, <4>1 DEF Placed, r
      <4>2. CASE q # p
        <5>1. /\ pc'[q] = pc[q] /\ rev'[q] = rev[q] /\ local'[q] = local[q]
              /\ Number(q)' = Number(q)
          BY <2>4, <4>2 DEF Elsewhere, Number
        <5>2. pc[q] \notin {"idle", "decide"} => Number(q) \in Version
          BY DEF Held, GoesByADecision, Number, Decision
        <5>3. pc[q] \notin {"idle", "decide"} => Follows(rev[q], Number(q))'
          BY <3>2, <4>0, <5>1, <5>2 DEF Placed
        <5>4. pc[q] = "decide" => \A w \in Version : local[q][Home][w] # 0 => Cut(w)
          BY <1>0, <4>0 DEF Placed, Cut
        <5> QED
          BY <1>0, <3>1, <4>0, <5>1, <5>3, <5>4 DEF Placed
      <4> QED
        BY <4>1, <4>2
    <3> QED
      BY <3>3, <3>4, <3>5 DEF OnOneLine
  <2>10. CASE m = Home
    <3>1. /\ tags'[Home][v] # 0 /\ \A n \in Repo : tags'[n][v] = Pin[r][n]
          /\ \A w \in Version \ {v} : /\ Cut(w)' <=> Cut(w)
                                      /\ \A n \in Repo : tags'[n][w] = tags[n][w]
      <4>1. \A n \in Repo : tags'[n][v] = Pin[r][n]
        BY <2>2, <2>3, <2>8, <2>10
      <4>2. \A w \in Version \ {v}, n \in Repo : tags'[n][w] = tags[n][w]
        BY <2>3
      <4> QED
        <5>1. tags'[Home][v] # 0
          BY <1>0, <2>6, <4>1
        <5>2. \A w \in Version \ {v} : Cut(w)' <=> Cut(w)
          BY <1>0, <4>2 DEF Cut
        <5> QED
          BY <4>1, <4>2, <5>1, <5>2
    <3>2. \A w \in Version : IF w < v THEN Cut(w) /\ Behind(w, r) ELSE ~ Cut(w)
      BY <2>5, <2>7 DEF Follows
    <3>3. ASSUME NEW q \in Rev, NEW d \in Version, Follows(q, d) PROVE Follows(q, d)'
      <4>1. CASE Cut(d)
        <5>1. Cut(d)'
          <6>1. CASE d = v
            BY <3>1, <6>1 DEF Cut
          <6>2. CASE d # v
            BY <3>1, <4>1, <6>2
          <6> QED
            BY <6>1, <6>2
        <5> QED
          BY <5>1 DEF Follows
      <4>2. CASE ~ Cut(d)
        <5>1. d = v
          BY <2>2, <2>7, <3>2, <3>3, <4>2 DEF Follows, Version
        <5> QED
          <6>1. Cut(d)'
            BY <3>1, <5>1 DEF Cut
          <6> QED
            BY <6>1 DEF Follows
      <4> QED
        BY <4>1, <4>2
    <3>4. Ordered'
      <4> SUFFICES ASSUME NEW u \in Version, Cut(u)'
                   PROVE  /\ \A n \in Repo : tags'[n][u] # 0 /\ tags'[n][u] <= Pin[head][n]
                          /\ \A w \in Version : w < u =>
                               /\ Cut(w)'
                               /\ \A n \in Repo : tags'[n][w] <= tags'[n][u]
                               /\ \E n \in Repo : tags'[n][w] < tags'[n][u]
        BY <1>0 DEF Ordered
      <4>1. CASE u = v
        <5>1. \A n \in Repo : tags'[n][u] # 0 /\ tags'[n][u] <= Pin[head][n]
          BY <2>6, <3>1, <4>1
        <5>2. ASSUME NEW w \in Version, w < u
              PROVE  /\ Cut(w)'
                     /\ \A n \in Repo : tags'[n][w] <= tags'[n][u]
                     /\ \E n \in Repo : tags'[n][w] < tags'[n][u]
          <6>1. w # v /\ Cut(w) /\ Behind(w, r)
            BY <3>2, <4>1, <5>2 DEF Version
          <6> QED
            BY <3>1, <4>1, <6>1 DEF Behind
        <5> QED
          BY <5>1, <5>2
      <4>2. CASE u # v
        <5>1. Cut(u) /\ u < v
          BY <3>1, <3>2, <4>2
        <5>2. \A w \in Version : w < u => w # v
          BY <2>2, <5>1 DEF Version
        <5> QED
          BY <3>1, <4>2, <5>1, <5>2 DEF OnOneLine, Ordered
      <4> QED
        BY <4>1, <4>2
    <3>5. Evaluations'
      BY <1>0, <3>3 DEF OnOneLine, Evaluations, TypeOK, Decision
    <3>6. ASSUME NEW q \in Proc PROVE Placed(q)'
      <4>0. Placed(q) /\ rev[q] \in Rev
        BY DEF OnOneLine, TypeOK
      <4>1. CASE q = p
        BY <1>0, <2>2, <2>4, <2>5, <3>3, <4>1 DEF Placed, r
      <4>2. CASE q # p
        <5>1. /\ pc'[q] = pc[q] /\ rev'[q] = rev[q] /\ local'[q] = local[q]
              /\ Number(q)' = Number(q)
          BY <2>4, <4>2 DEF Elsewhere, Number
        <5>2. pc[q] \notin {"idle", "decide"} => Number(q) \in Version
          BY DEF Held, GoesByADecision, Number, Decision
        <5>3. pc[q] \notin {"idle", "decide"} => Follows(rev[q], Number(q))'
          BY <3>3, <4>0, <5>1, <5>2 DEF Placed
        <5>4. pc[q] = "decide" => \A w \in Version : local[q][Home][w] # 0 => Cut(w)
          BY <1>0, <4>0 DEF Placed, Cut
        <5>5. \A w \in Version : Cut(w) => \A n \in Repo : tags'[n][w] = tags[n][w]
          BY <2>7, <3>1
        <5> QED
          BY <1>0, <4>0, <5>1, <5>3, <5>4, <5>5 DEF Placed
      <4> QED
        BY <4>1, <4>2
    <3> QED
      BY <3>4, <3>5, <3>6 DEF OnOneLine
  <2> QED
    BY <2>9, <2>10
<1> QED
  BY <1>1, <1>2 DEF PushTag

\* The steps that neither decide nor push a tag.
LEMMA OtherSteps ==
  ASSUME TypeOK, OnOneLine, NEW p \in Proc,
         \/ Reuse(p) \/ Converge(p) \/ CallEngine(p) \/ ReadTag(p) \/ ReadRelease(p) \/ TagHere(p)
         \/ Publish(p) \/ RecordByRev(p) \/ RecordByTag(p) \/ Answer(p) \/ Crash(p)
  PROVE  OnOneLine'
<1>1. UNCHANGED <<tags, evaluated, head>>
  BY DEF Reuse, Converge, CallEngine, ReadTag, ReadRelease, TagHere, Publish, RecordByRev, RecordByTag,
     Answer, Crash, remotes, records
<1>2. CASE Leave(p)
  BY <1>1, <1>2, LeavesTheLine
<1>3. CASE ~ Leave(p)
  <2>1. /\ pc[p] \notin {"idle", "decide"}
        /\ UNCHANGED <<rev, decision>>
        /\ pc' = pc \/ \E next \in {"preflight", "tag", "push", "byrev", "bytag", "answer"} :
                         pc' = [pc EXCEPT ![p] = next]
    BY <1>3 DEF Reuse, Converge, CallEngine, ReadTag, ReadRelease, TagHere, Publish, RecordByRev,
       RecordByTag, Answer, Crash, GoTo, own
  <2>2. /\ pc'[p] # "decide" /\ rev'[p] = rev[p] /\ decision'[p] = decision[p]
        /\ \A q \in Proc \ {p} : pc'[q] = pc[q]
    BY <2>1 DEF TypeOK
  <2>3. Elsewhere(p)
    <3>1. \A q \in Proc \ {p} : /\ local'[q] = local[q] /\ unread'[q] = unread[q]
                                /\ pending'[q] = pending[q] /\ found'[q] = found[q] /\ index'[q] = index[q]
      BY <1>3 DEF TypeOK, Reuse, Converge, CallEngine, ReadTag, ReadRelease, TagHere, Publish, RecordByRev,
         RecordByTag, Answer, Crash, own
    <3> QED
      BY <2>1, <2>2, <3>1 DEF Elsewhere
  <2> QED
    BY <1>1, <2>1, <2>2, <2>3, GoesOnTheLine
<1> QED
  BY <1>2, <1>3

\* Where ci-artifact-release tags the home repo last, from fresh clones and by
\* subjects: a revision gets one number from however many applies and jobs, and
\* wherever they die.  The tag decideRelease takes for the last version is then
\* of a version that is cut in every repo.
THEOREM OneNumber ==
  ASSUME HomeIsLast
  PROVE  Spec => []OneNumberPerRevision
<1>1. Init => OnOneLine
  <2> SUFFICES ASSUME Init PROVE OnOneLine
    OBVIOUS
  <2>1. \A v \in Version : ~ Cut(v)
    BY ReleaseAssumption DEF Init, NoTags, Cut
  <2> QED
    BY <2>1 DEF Init, OnOneLine, Ordered, Evaluations, Placed
<1>2. TypeOK /\ Held /\ ReleasesAreBacked /\ OnOneLine /\ [Next]_vars => OnOneLine'
  <2> SUFFICES ASSUME TypeOK, Held, ReleasesAreBacked, OnOneLine, [Next]_vars PROVE OnOneLine'
    OBVIOUS
  <2>1. ASSUME UNCHANGED <<tags, evaluated, pc, own>>, head' \in Rev, head <= head'
        PROVE  OnOneLine'
    <3>1. ASSUME NEW m \in Repo, NEW x \in Nat, x <= Pin[head][m] PROVE x <= Pin[head'][m]
      BY <2>1, <3>1, ReleaseAssumption DEF TypeOK
    <3>2. Ordered'
      <4>1. \A v \in Version, m \in Repo : tags[m][v] \in Nat
        BY DEF TypeOK, Tags
      <4> QED
        BY <2>1, <3>1, <4>1 DEF OnOneLine, Ordered, Cut
    <3>3. \A p \in Proc : rev[p] <= head' /\ rev'[p] = rev[p]
      BY <2>1 DEF OnOneLine, Placed, TypeOK, Rev, own
    <3>4. \A p \in Proc : Placed(p)'
      BY <2>1, <3>3 DEF OnOneLine, Placed, own, Number, Follows, Cut, Behind
    <3>5. Evaluations'
      <4> SUFFICES ASSUME NEW r \in Rev, evaluated[r] # None
                   PROVE  r <= head' /\ Follows(r, evaluated[r].version)'
        BY <2>1 DEF Evaluations, Follows, Cut, Behind
      <4>1. r <= head /\ Follows(r, evaluated[r].version)
        BY DEF OnOneLine, Evaluations
      <4>2. r <= head'
        BY <2>1, <4>1 DEF TypeOK, Rev
      <4> QED
        BY <2>1, <4>1, <4>2 DEF Follows, Cut, Behind
    <3> QED
      BY <3>2, <3>4, <3>5 DEF OnOneLine
  <2>2. CASE Move
    <3>1. head' \in Rev /\ head <= head'
      BY <2>2, ReleaseAssumption DEF Move, TypeOK, Rev
    <3> QED
      BY <2>1, <2>2, <3>1 DEF Move, remotes, records
  <2>3. CASE UNCHANGED vars
    BY <2>1, <2>3 DEF vars, remotes, records, TypeOK, Rev
  <2> QED
    BY <2>2, <2>3, Actions, StartsOnTheLine, DecisionFollows, PushesOnTheLine, OtherSteps
<1>3. TypeOK /\ ReleasesAreBacked /\ OnOneLine => OneNumberPerRevision
  <2> SUFFICES ASSUME TypeOK, ReleasesAreBacked, OnOneLine, NEW v \in Version, NEW w \in Version,
                      published[v] # 0, published[v] = published[w], w < v
               PROVE  FALSE
    BY DEF OneNumberPerRevision, Version
  <2>1. \A m \in Repo : /\ tags[m][v] = Pin[published[v]][m] /\ tags[m][w] = tags[m][v]
                        /\ tags[m][v] \in Nat \ {0}
    BY ReleaseAssumption DEF ReleasesAreBacked, WholeReleases, TypeOK
  <2>2. Cut(v)
    BY <2>1, ReleaseAssumption DEF Cut
  <2> QED
    BY <2>1, <2>2 DEF OnOneLine, Ordered
<1> QED
  BY <1>1, <1>2, <1>3, TypesAndDecisions, Backing, PTL DEF Spec

-----------------------------------------------------------------------------
(* What a record says was released is what is tagged under its version, and *)
(* what a decision says of an earlier release is, too.                      *)

\* Under version v, every repo is tagged at the commit revision s holds.
Shows(v, s) == \A m \in Repo : tags[m][v] = Pin[s][m]

\* A process that goes by a decision.
Goes(p) == pc[p] \notin {"idle", "decide"}

\* A decision for r that is of another set was of a release there was.
Knows(d, r) == d.set # r => Shows(d.version, d.set)

SetsAreShown ==
  /\ \A r \in Rev : byRev[r] # None => Shows(byRev[r].version, byRev[r].set)
  /\ \A v \in Version : byTag[v] # None => Shows(byTag[v].version, byTag[v].set)
  /\ \A r \in Rev : evaluated[r] # None => Knows(evaluated[r], r)
  /\ \A p \in Proc : Goes(p) => Knows(decision[p], rev[p])

\* A tag that is cut is never moved.
LEMMA TagsStay ==
  ASSUME TypeOK, Held, ReleasesAreBacked, [Next]_vars,
         NEW m \in Repo, NEW v \in Version, tags[m][v] # 0
  PROVE  tags'[m][v] = tags[m][v]
<1>1. ASSUME NEW p \in Proc, PushTag(p) PROVE tags'[m][v] = tags[m][v]
  <2>1. CASE UNCHANGED tags
    BY <2>1
  <2>2. CASE /\ tags[Turn(p)][Number(p)] = 0
             /\ tags' = [tags EXCEPT ![Turn(p)][Number(p)] = local[p][Turn(p)][Number(p)]]
    <3>1. m # Turn(p) \/ v # Number(p)
      BY <2>2
    <3> QED
      BY <2>2, <3>1 DEF TypeOK, Tags
  <2> QED
    BY <1>1, <2>1, <2>2 DEF PushTag
<1>2. ASSUME NEW p \in Proc, NEW u, NEW next, NEW r, NEW d, Begin(p, u, next, r, d)
      PROVE  UNCHANGED tags
  BY <1>2 DEF Begin, remotes
<1> QED
  BY <1>1, <1>2, Actions
     DEF StartApply, StartStages, DecideReleased, DecideSkip, DecideBump, Reuse, Converge,
         CallEngine, ReadTag, ReadRelease, TagHere, Publish, RecordByRev, RecordByTag, Answer, Crash, Move,
         vars, remotes

\* What is shown goes on being shown.
LEMMA ShownStays ==
  ASSUME TypeOK, Held, ReleasesAreBacked, [Next]_vars, NEW v \in Version, NEW s \in Rev, Shows(v, s)
  PROVE  Shows(v, s)'
<1>1. \A m \in Repo : Pin[s][m] # 0
  BY ReleaseAssumption
<1> QED
  BY <1>1, TagsStay DEF Shows

\* A step that puts no new record and takes no new decision.
LEMMA SetsStandStill ==
  ASSUME TypeOK, Held, ReleasesAreBacked, [Next]_vars, SetsAreShown, Held',
         UNCHANGED <<byRev, byTag, evaluated>>,
         \A q \in Proc : Goes(q)' => \/ Goes(q) /\ decision'[q] = decision[q] /\ rev'[q] = rev[q]
                                     \/ rev'[q] \in Rev /\ decision'[q] = evaluated[rev'[q]]
  PROVE  SetsAreShown'
<1>1. \A r \in Rev : byRev[r] # None => byRev[r].version \in Version /\ byRev[r].set \in Rev
  BY DEF TypeOK, Record
<1>2. \A v \in Version : byTag[v] # None => byTag[v].version \in Version /\ byTag[v].set \in Rev
  BY DEF TypeOK, Record
<1>3. \A r \in Rev : evaluated[r] # None => evaluated[r].version \in Version /\ evaluated[r].set \in Rev
  BY DEF TypeOK, Decision
<1>4. \A q \in Proc : Goes(q) => decision[q].version \in Version /\ decision[q].set \in Rev
  BY DEF Held, GoesByADecision, Goes, Decision
<1>5. \A r \in Rev : evaluated[r] # None => Knows(evaluated[r], r)'
  BY <1>3, ShownStays DEF SetsAreShown, Knows
<1>6. ASSUME NEW q \in Proc, Goes(q)' PROVE Knows(decision[q], rev[q])'
  <2>1. CASE Goes(q) /\ decision'[q] = decision[q] /\ rev'[q] = rev[q]
    BY <1>4, <2>1, ShownStays DEF SetsAreShown, Knows
  <2>2. CASE rev'[q] \in Rev /\ decision'[q] = evaluated[rev'[q]]
    <3>1. evaluated[rev'[q]] # None
      BY <1>6, <2>2 DEF Held, GoesByADecision, Goes, Decision, None
    <3> QED
      BY <1>5, <2>2, <3>1 DEF Knows
  <2> QED
    BY <1>6, <2>1, <2>2
<1> QED
  BY <1>1, <1>2, <1>5, <1>6, ShownStays DEF SetsAreShown

\* Who goes by a decision after a step that takes none went by it before.
LEMMA GoesAsItWent ==
  ASSUME TypeOK, NEW p \in Proc,
         \/ Reuse(p) \/ Converge(p) \/ CallEngine(p) \/ ReadTag(p) \/ ReadRelease(p) \/ TagHere(p) \/ PushTag(p)
         \/ Publish(p) \/ RecordByRev(p) \/ RecordByTag(p) \/ Answer(p) \/ Crash(p)
  PROVE  /\ \A q \in Proc : Goes(q)' => /\ Goes(q) /\ decision'[q] = decision[q]
                                        /\ rev'[q] = rev[q] /\ verb'[q] = verb[q]
         /\ \A q \in Proc : pc'[q] = "decide" => pc[q] = "decide" /\ verb'[q] = verb[q]
         /\ \A q \in Proc : pc'[q] # "idle" => pc[q] # "idle" /\ verb'[q] = verb[q]
         /\ UNCHANGED evaluated
<1>1. CASE Leave(p)
  <2>1. UNCHANGED evaluated
    BY DEF Reuse, Converge, CallEngine, ReadTag, ReadRelease, TagHere, PushTag, Publish, RecordByRev,
       RecordByTag, Answer, Crash, records
  <2> QED
    BY <1>1, <2>1 DEF Leave, TypeOK, Goes
<1>2. CASE ~ Leave(p)
  <2>1. /\ pc[p] \notin {"idle", "decide"}
        /\ UNCHANGED <<rev, decision, verb, evaluated>>
        /\ pc' = pc \/ \E next \in {"preflight", "tag", "push", "byrev", "bytag", "answer"} :
                         pc' = [pc EXCEPT ![p] = next]
    BY <1>2 DEF Reuse, Converge, CallEngine, ReadTag, ReadRelease, TagHere, PushTag, Publish, RecordByRev,
       RecordByTag, Answer, Crash, GoTo, own, records
  <2> QED
    BY <2>1 DEF TypeOK, Goes
<1> QED
  BY <1>1, <1>2

\* A start: who goes afterwards went before, or goes by what was evaluated.
LEMMA GoesAsItBegan ==
  ASSUME TypeOK, NEW p \in Proc, NEW v, NEW next, NEW r, NEW d, Begin(p, v, next, r, d)
  PROVE  /\ \A q \in Proc \ {p} : /\ pc'[q] = pc[q] /\ decision'[q] = decision[q]
                                  /\ rev'[q] = rev[q] /\ verb'[q] = verb[q]
         /\ pc[p] = "idle" /\ pc'[p] = next /\ decision'[p] = d /\ rev'[p] = r /\ verb'[p] = v
         /\ v \in Verbs
         /\ UNCHANGED <<byRev, byTag, evaluated>>
  BY DEF Begin, GoTo, TypeOK, records

\* The decisions: an earlier release's number and set, or the own set.
LEMMA DecisionKnows ==
  ASSUME TypeOK, Held, SetsAreShown, NEW p \in Proc,
         DecideReleased(p) \/ DecideSkip(p) \/ DecideBump(p)
  PROVE  \E d \in Decision : Decided(p, d) /\ Knows(d, rev[p]) /\ d.version \in Version /\ d.set \in Rev
<1>0. rev[p] \in Rev
  BY DEF TypeOK
<1>1. CASE DecideReleased(p)
  <2> DEFINE rec == byRev[rev[p]]
             d   == [version |-> rec.version, previous |-> 0, skip |-> FALSE, set |-> rec.set]
  <2>1. rec # None /\ rec \in Record /\ Decided(p, d)
    BY <1>0, <1>1 DEF DecideReleased, TypeOK
  <2>2. d \in Decision /\ d.version \in Version /\ d.set \in Rev
    BY <2>1 DEF Record, Decision
  <2>3. Knows(d, rev[p])
    BY <1>0, <2>1 DEF SetsAreShown, Knows
  <2> QED
    BY <2>1, <2>2, <2>3
<1>2. CASE DecideSkip(p)
  <2> DEFINE d == [version |-> Latest(p), previous |-> Latest(p), skip |-> TRUE, set |-> rev[p]]
  <2>1. Decided(p, d) /\ Latest(p) \in Version
    BY <1>2, LatestType DEF DecideSkip
  <2>2. d \in Decision
    BY <1>0, <2>1 DEF Decision
  <2> QED
    BY <1>0, <2>1, <2>2 DEF Knows
<1>3. CASE DecideBump(p)
  <2> DEFINE d == [version |-> Latest(p) + 1, previous |-> Latest(p), skip |-> FALSE, set |-> rev[p]]
  <2>1. Decided(p, d) /\ Latest(p) \in Version \union {0} /\ Latest(p) + 1 \in Version
    BY <1>3, LatestType, ReleaseAssumption DEF DecideBump, Version
  <2>2. d \in Decision
    BY <1>0, <2>1 DEF Decision
  <2> QED
    BY <1>0, <2>1, <2>2 DEF Knows
<1> QED
  BY <1>1, <1>2, <1>3

\* A decision that knows, left where it is left.
LEMMA DecidesKnowing ==
  ASSUME TypeOK, Held, ReleasesAreBacked, [Next]_vars, SetsAreShown, Held', NEW p \in Proc,
         NEW d \in Decision, Decided(p, d), Knows(d, rev[p]), UNCHANGED <<tags, byRev, byTag>>
  PROVE  SetsAreShown'
<1>0. rev[p] \in Rev /\ Elsewhere(p) /\ pc'[p] \in {"idle", "publish"}
  BY DecidesAlone DEF TypeOK
<1>1. \A v, s : Shows(v, s)' <=> Shows(v, s)
  BY DEF Shows
<1>2. \A r \in Rev : evaluated'[r] # None => Knows(evaluated'[r], r)
  <2>1. \A r \in Rev : evaluated'[r] = evaluated[r] \/ (r = rev[p] /\ evaluated'[r] = d)
    BY <1>0 DEF Decided, TypeOK
  <2> QED
    BY <2>1 DEF SetsAreShown
<1>3. ASSUME NEW q \in Proc, Goes(q)' PROVE Knows(decision'[q], rev'[q])
  <2>1. CASE q # p
    BY <1>0, <1>3, <2>1 DEF Elsewhere, SetsAreShown, Goes
  <2>2. CASE q = p
    <3>1. decision'[p] = d /\ rev'[p] = rev[p]
      BY <1>3, <2>2 DEF Decided, Goes, Leave, TypeOK
    <3> QED
      BY <2>2, <3>1
  <2> QED
    BY <2>1, <2>2
<1>4. \A r \in Rev : byRev'[r] # None => Shows(byRev'[r].version, byRev'[r].set)
  BY DEF SetsAreShown
<1>5. \A v \in Version : byTag'[v] # None => Shows(byTag'[v].version, byTag'[v].set)
  BY DEF SetsAreShown
<1> QED
  BY <1>1, <1>2, <1>3, <1>4, <1>5 DEF SetsAreShown, Knows

\* A record that is put: it is of the tags it was made under, or a copy.
LEMMA PutsWhatIsShown ==
  ASSUME TypeOK, Held, ReleasesAreBacked, [Next]_vars, SetsAreShown, Held', NEW p \in Proc,
         Converge(p) \/ RecordByRev(p) \/ RecordByTag(p)
  PROVE  SetsAreShown'
<1> DEFINE of(x) == Shows(x.version, x.set)
<1>0. /\ Goes(p) /\ decision[p] \in Decision /\ rev[p] \in Rev
      /\ UNCHANGED <<tags, evaluated, own>>
  BY DEF Converge, RecordByRev, RecordByTag, Held, GoesByADecision, Goes, TypeOK, remotes
<1>1. \A v, s : Shows(v, s)' <=> Shows(v, s)
  BY <1>0 DEF Shows
<1>2. \E x \in Record :
        /\ of(x)
        /\ \A r \in Rev : byRev'[r] = byRev[r] \/ byRev'[r] = x
        /\ \A v \in Version : byTag'[v] = byTag[v] \/ byTag'[v] = x
  <2>1. CASE Converge(p)
    <3> DEFINE rec == byTag[decision[p].previous]
               x   == [rec EXCEPT !.rev = rev[p]]
    <3>1. decision[p].previous \in Version /\ rec # None
      BY <1>0, <2>1 DEF Converge, SameBytes, Decision
    <3>2. rec \in Record /\ of(rec)
      BY <3>1 DEF TypeOK, SetsAreShown
    <3>3. x \in Record /\ x.version = rec.version /\ x.set = rec.set
      BY <1>0, <3>2 DEF Record
    <3>4. /\ UNCHANGED byTag
          /\ \A r \in Rev : byRev'[r] = byRev[r] \/ byRev'[r] = x
      BY <2>1 DEF Converge, TypeOK
    <3> HIDE DEF x, rec
    <3> QED
      BY <3>2, <3>3, <3>4
  <2>2. CASE RecordByRev(p) \/ RecordByTag(p)
    <3> DEFINE x == Released(p)
    <3>1. x \in Record /\ x.version = Number(p) /\ x.set = decision[p].set
      BY <1>0 DEF Released, Number, Record, Decision, TypeOK
    <3>2. \A m \in Repo : tags[m][Number(p)] = Pin[rev[p]][m]
      BY <2>2 DEF RecordByRev, RecordByTag, ReleasesAreBacked, RecordsWhatIsVisible, TagsItsOwn, Tagging
    <3>3. of(x)
      <4>1. CASE decision[p].set = rev[p]
        BY <3>1, <3>2, <4>1 DEF Shows
      <4>2. CASE decision[p].set # rev[p]
        BY <1>0, <3>1, <4>2 DEF SetsAreShown, Knows, Number
      <4> QED
        BY <4>1, <4>2
    <3>4. /\ \A r \in Rev : byRev'[r] = byRev[r] \/ byRev'[r] = x
          /\ \A v \in Version : byTag'[v] = byTag[v] \/ byTag'[v] = x
      BY <2>2 DEF RecordByRev, RecordByTag, TypeOK
    <3> HIDE DEF x
    <3> QED
      BY <3>1, <3>3, <3>4
  <2> QED
    BY <2>1, <2>2
<1>3. PICK x \in Record :
        /\ of(x)
        /\ \A r \in Rev : byRev'[r] = byRev[r] \/ byRev'[r] = x
        /\ \A v \in Version : byTag'[v] = byTag[v] \/ byTag'[v] = x
  BY <1>2
<1>4. \A r \in Rev : byRev'[r] # None => of(byRev'[r])
  BY <1>3 DEF SetsAreShown
<1>5. \A v \in Version : byTag'[v] # None => of(byTag'[v])
  BY <1>3 DEF SetsAreShown
<1>6. \A r \in Rev : evaluated'[r] # None => Knows(evaluated'[r], r)
  BY <1>0 DEF SetsAreShown
<1>7. ASSUME NEW q \in Proc, Goes(q)' PROVE Knows(decision'[q], rev'[q])
  <2>1. Goes(q) /\ decision'[q] = decision[q] /\ rev'[q] = rev[q]
    BY <1>7, GoesAsItWent
  <2> QED
    BY <2>1 DEF SetsAreShown
<1> QED
  BY <1>1, <1>4, <1>5, <1>6, <1>7 DEF SetsAreShown, Knows

\* A record tells the commits its version is tagged at, whoever recorded it, and
\* however many processes decide, tag, record and die at once.
THEOREM SetsAreTagged == Spec => []SetsAreShown
<1>1. Init => SetsAreShown
  BY DEF Init, SetsAreShown, Goes
<1>2. TypeOK /\ Held /\ Held' /\ ReleasesAreBacked /\ SetsAreShown /\ [Next]_vars => SetsAreShown'
  <2> SUFFICES ASSUME TypeOK, Held, Held', ReleasesAreBacked, SetsAreShown, [Next]_vars
               PROVE  SetsAreShown'
    OBVIOUS
  <2>1. ASSUME NEW p \in Proc, NEW v, Begin(p, v, "decide", head, None) PROVE SetsAreShown'
    BY <2>1, GoesAsItBegan, SetsStandStill DEF Goes
  <2>2. ASSUME NEW p \in Proc, NEW r \in Rev, StartStages(p, r) PROVE SetsAreShown'
    <3>1. Begin(p, "stages", "publish", r, evaluated[r])
      BY <2>2 DEF StartStages
    <3> QED
      BY <3>1, GoesAsItBegan, SetsStandStill DEF Goes
  <2>3. ASSUME NEW p \in Proc, DecideReleased(p) \/ DecideSkip(p) \/ DecideBump(p)
        PROVE  SetsAreShown'
    <3>1. UNCHANGED <<tags, byRev, byTag>>
      BY <2>3 DEF DecideReleased, DecideSkip, DecideBump, remotes
    <3> QED
      BY <2>3, <3>1, DecisionKnows, DecidesKnowing
  <2>4. ASSUME NEW p \in Proc,
               \/ Reuse(p) \/ CallEngine(p) \/ ReadTag(p) \/ ReadRelease(p) \/ TagHere(p) \/ PushTag(p)
               \/ Publish(p) \/ Answer(p) \/ Crash(p)
        PROVE  SetsAreShown'
    <3>1. UNCHANGED <<byRev, byTag, evaluated>>
      BY <2>4 DEF Reuse, CallEngine, ReadTag, ReadRelease, TagHere, PushTag, Publish, Answer, Crash, records
    <3> QED
      BY <2>4, <3>1, GoesAsItWent, SetsStandStill
  <2>5. CASE Move \/ UNCHANGED vars
    <3>1. UNCHANGED <<byRev, byTag, evaluated, pc, decision, rev>>
      BY <2>5 DEF Move, vars, records, own
    <3> QED
      BY <3>1, SetsStandStill DEF Goes
  <2> QED
    BY <2>1, <2>2, <2>3, <2>4, <2>5, Actions, PutsWhatIsShown DEF StartApply
<1> QED
  BY <1>1, <1>2, TypesAndDecisions, Backing, PTL DEF Spec

-----------------------------------------------------------------------------
(* One process at a time, of a repository that is released one way.  The    *)
(* records of a set then go by one number, and the decisions in force, too. *)

\* One process, and the whole apply or the jobs of a phased one, not both.
OneWay ==
  /\ \A p, q \in Proc : p = q
  /\ "apply" \in Verbs => Verbs \subseteq {"apply"}

\* A record somebody put, under its revision or under its version.
Recorded(x) ==
  /\ x # None
  /\ (\E r \in Rev : x = byRev[r]) \/ (\E v \in Version : x = byTag[v])

\* A decision for r to release: the evaluated one, or that of a process.
InForce(d, r) ==
  \/ d = evaluated[r] /\ ~ d.skip
  \/ \E p \in Proc : Goes(p) /\ rev[p] = r /\ decision[p] = d

\* It has the number of the records of its set; that of another set was read
\* from the revision's record.
Fits(d, r) ==
  /\ \A x \in Record : Recorded(x) /\ x.set = d.set => x.version = d.version
  /\ d.set # r => d.previous = 0 /\ byRev[r] # None /\ byRev[r].set = d.set

\* How a process came by its decision.
GoesBy(p) ==
  /\ pc[p] # "idle" => verb[p] \in Verbs
  /\ pc[p] = "decide" => verb[p] # "stages"
  /\ Goes(p) => /\ ~ decision[p].skip
                /\ verb[p] # "evaluate"
                /\ verb[p] = "stages" => decision[p] = evaluated[rev[p]]

\* Nothing is evaluated where the whole is applied.
NothingEvaluated == "apply" \in Verbs => \A r \in Rev : evaluated[r] = None

OneVoice ==
  /\ NothingEvaluated
  /\ \A p \in Proc : GoesBy(p) /\ (pc[p] = "bytag" => byRev[rev[p]] # None)
  /\ \A x \in Record : Recorded(x) => byRev[x.set] # None
  /\ \A x, y \in Record : Recorded(x) /\ Recorded(y) /\ x.set = y.set => x.version = y.version
  /\ \A r \in Rev, d \in Decision : InForce(d, r) => Fits(d, r)

\* The decision a process goes by is the only one in force for its revision.
LEMMA TheOnlyOne ==
  ASSUME OneWay, TypeOK, Held, OneVoice, NEW p \in Proc, Goes(p), NEW d \in Decision, InForce(d, rev[p])
  PROVE  d = decision[p]
<1>1. rev[p] \in Rev /\ verb[p] \in {"apply", "evaluate", "stages"} /\ verb[p] \in Verbs /\ GoesBy(p)
  BY DEF TypeOK, OneVoice, GoesBy, Goes
<1>2. d # None
  BY DEF Decision, None
<1>3. CASE d = evaluated[rev[p]]
  BY <1>1, <1>2, <1>3 DEF OneVoice, NothingEvaluated, GoesBy
<1>4. CASE \E q \in Proc : Goes(q) /\ rev[q] = rev[p] /\ decision[q] = d
  BY <1>4 DEF OneWay
<1> QED
  BY <1>3, <1>4 DEF InForce

\* A step that puts no record: a decision it brings into force fits.
LEMMA VoiceStands ==
  ASSUME OneVoice, UNCHANGED <<byRev, byTag>>, NothingEvaluated',
         \A q \in Proc : /\ GoesBy(q)'
                         /\ pc'[q] = "bytag" => byRev[rev'[q]] # None,
         \A r \in Rev, d \in Decision : InForce(d, r)' => InForce(d, r) \/ Fits(d, r)
  PROVE  OneVoice'
<1>1. \A x : Recorded(x)' <=> Recorded(x)
  BY DEF Recorded
<1>2. \A d, r : Fits(d, r)' <=> Fits(d, r)
  BY <1>1 DEF Fits
<1> QED
  BY <1>1, <1>2 DEF OneVoice

\* A step that puts one: x has the number of all that is of its set.
LEMMA VoiceCarries ==
  ASSUME OneVoice, NEW x \in Record,
         \A r \in Rev : byRev'[r] = byRev[r] \/ byRev'[r] = x,
         \A v \in Version : byTag'[v] = byTag[v] \/ byTag'[v] = x,
         byRev'[x.set] # None,
         \A y \in Record : Recorded(y) /\ y.set = x.set => y.version = x.version,
         \A r \in Rev, d \in Decision :
           InForce(d, r)' => /\ InForce(d, r)
                             /\ d.set = x.set => d.version = x.version
                             /\ d.set # r => byRev'[r] = byRev[r] \/ x.set = d.set,
         NothingEvaluated',
         \A q \in Proc : GoesBy(q)' /\ (pc'[q] = "bytag" => byRev'[rev'[q]] # None)
  PROVE  OneVoice'
<1>1. x # None
  BY DEF Record, None
<1>2. \A y : Recorded(y)' => Recorded(y) \/ y = x
  BY DEF Recorded
<1>3. \A r \in Rev : byRev[r] # None => byRev'[r] # None
  BY <1>1
<1>4. \A y \in Record : y.set \in Rev
  BY DEF Record
<1>5. \A y \in Record : Recorded(y)' => byRev'[y.set] # None
  BY <1>2, <1>3, <1>4 DEF OneVoice
<1>6. \A y, z \in Record : Recorded(y)' /\ Recorded(z)' /\ y.set = z.set => y.version = z.version
  BY <1>2 DEF OneVoice
<1>7. ASSUME NEW r \in Rev, NEW d \in Decision, InForce(d, r)' PROVE Fits(d, r)'
  <2>1. Fits(d, r) /\ (d.set = x.set => d.version = x.version)
    BY <1>7 DEF OneVoice
  <2>2. \A y \in Record : Recorded(y)' /\ y.set = d.set => y.version = d.version
    BY <1>2, <2>1 DEF Fits
  <2>3. d.set # r => d.previous = 0 /\ byRev'[r] # None /\ byRev'[r].set = d.set
    BY <1>3, <1>7, <2>1 DEF Fits
  <2> QED
    BY <2>2, <2>3 DEF Fits
<1> QED
  BY <1>5, <1>6, <1>7 DEF OneVoice

\* A decision, left where it is left, is in force for its revision.
LEMMA DecidesWithOneVoice ==
  ASSUME OneWay, TypeOK, OneVoice, NEW p \in Proc, pc[p] = "decide", NEW d \in Decision, Decided(p, d),
         UNCHANGED <<byRev, byTag>>,
         ~ d.skip => Fits(d, rev[p])
  PROVE  OneVoice'
<1>0. /\ rev[p] \in Rev /\ verb[p] \in Verbs /\ verb[p] \in {"apply", "evaluate"}
      /\ \A q \in Proc : q = p
  BY DEF TypeOK, OneVoice, GoesBy, OneWay
<1>1. CASE verb[p] = "evaluate"
  <2>1. Leave(p) /\ evaluated' = [evaluated EXCEPT ![rev[p]] = d]
    BY <1>1 DEF Decided
  <2>2. pc'[p] = "idle"
    BY <2>1 DEF Leave, TypeOK
  <2>3. NothingEvaluated'
    BY <1>0, <1>1 DEF NothingEvaluated, OneWay
  <2>4. \A r \in Rev, e \in Decision : InForce(e, r)' => InForce(e, r) \/ Fits(e, r)
    BY <1>0, <2>1, <2>2 DEF InForce, Goes, TypeOK
  <2>5. \A q \in Proc : GoesBy(q)' /\ (pc'[q] = "bytag" => byRev[rev'[q]] # None)
    BY <1>0, <2>2 DEF GoesBy, Goes
  <2> QED
    BY <2>3, <2>4, <2>5, VoiceStands
<1>2. CASE verb[p] # "evaluate" /\ d.skip
  <2>1. Leave(p) /\ UNCHANGED evaluated
    BY <1>2 DEF Decided
  <2>2. pc'[p] = "idle"
    BY <2>1 DEF Leave, TypeOK
  <2>3. \A r \in Rev, e \in Decision : InForce(e, r)' => InForce(e, r)
    BY <1>0, <2>1, <2>2 DEF InForce, Goes
  <2>4. NothingEvaluated'
    BY <2>1 DEF OneVoice, NothingEvaluated
  <2>5. \A q \in Proc : GoesBy(q)' /\ (pc'[q] = "bytag" => byRev[rev'[q]] # None)
    BY <1>0, <2>2 DEF GoesBy, Goes
  <2> QED
    BY <2>3, <2>4, <2>5, VoiceStands
<1>3. CASE verb[p] # "evaluate" /\ ~ d.skip
  <2>1. pc'[p] = "publish" /\ decision'[p] = d /\ UNCHANGED <<verb, rev, evaluated>>
    BY <1>3 DEF Decided, GoTo, TypeOK
  <2>2. verb[p] = "apply"
    BY <1>0, <1>3
  <2>3. \A r \in Rev, e \in Decision : InForce(e, r)' => InForce(e, r) \/ Fits(e, r)
    BY <1>0, <1>3, <2>1 DEF InForce, Goes
  <2>4. NothingEvaluated'
    BY <2>1 DEF OneVoice, NothingEvaluated
  <2>5. \A q \in Proc : GoesBy(q)' /\ (pc'[q] = "bytag" => byRev[rev'[q]] # None)
    BY <1>0, <1>3, <2>1, <2>2 DEF GoesBy, Goes
  <2> QED
    BY <2>3, <2>4, <2>5, VoiceStands
<1> QED
  BY <1>2, <1>1, <1>3

\* The decisions that are made fit: a released revision keeps its number, one
\* that was not has no record of its set.
LEMMA DecisionFits ==
  ASSUME OneWay, TypeOK, OneVoice, NEW p \in Proc, DecideReleased(p) \/ DecideSkip(p) \/ DecideBump(p)
  PROVE  \E d \in Decision : Decided(p, d) /\ (~ d.skip => Fits(d, rev[p]))
<1>0. rev[p] \in Rev
  BY DEF TypeOK
<1>1. CASE DecideReleased(p)
  <2> DEFINE rec == byRev[rev[p]]
             d   == [version |-> rec.version, previous |-> 0, skip |-> FALSE, set |-> rec.set]
  <2>1. rec # None /\ rec \in Record /\ Recorded(rec) /\ Decided(p, d)
    BY <1>0, <1>1 DEF DecideReleased, TypeOK, Recorded
  <2>2. d \in Decision
    BY <2>1 DEF Record, Decision
  <2>3. Fits(d, rev[p])
    BY <2>1 DEF OneVoice, Fits
  <2> QED
    BY <2>1, <2>2, <2>3
<1>2. CASE DecideSkip(p)
  <2> DEFINE d == [version |-> Latest(p), previous |-> Latest(p), skip |-> TRUE, set |-> rev[p]]
  <2>1. Decided(p, d) /\ Latest(p) \in Version
    BY <1>2, LatestType DEF DecideSkip
  <2>2. d \in Decision
    BY <1>0, <2>1 DEF Decision
  <2> QED
    BY <2>1, <2>2
<1>3. CASE DecideBump(p)
  <2> DEFINE d == [version |-> Latest(p) + 1, previous |-> Latest(p), skip |-> FALSE, set |-> rev[p]]
  <2>1. /\ Decided(p, d) /\ byRev[rev[p]] = None
        /\ Latest(p) \in Version \union {0} /\ Latest(p) + 1 \in Version
    BY <1>3, LatestType, ReleaseAssumption DEF DecideBump, Version
  <2>2. d \in Decision
    BY <1>0, <2>1 DEF Decision
  <2>3. Fits(d, rev[p])
    BY <2>1 DEF OneVoice, Fits
  <2> QED
    BY <2>1, <2>2, <2>3
<1> QED
  BY <1>1, <1>2, <1>3

\* A step that neither puts a record nor takes a decision.
LEMMA VoiceOfTheQuiet ==
  ASSUME OneWay, TypeOK, OneVoice, UNCHANGED <<byRev, byTag, evaluated>>,
         \A q \in Proc : Goes(q)' => Goes(q) /\ decision'[q] = decision[q] /\ rev'[q] = rev[q] /\ verb'[q] = verb[q],
         \A q \in Proc : pc'[q] = "decide" => pc[q] = "decide" /\ verb'[q] = verb[q],
         \A q \in Proc : pc'[q] # "idle" => pc[q] # "idle" /\ verb'[q] = verb[q],
         \A q \in Proc : pc'[q] = "bytag" => pc[q] = "bytag"
  PROVE  OneVoice'
<1>1. \A r \in Rev, e \in Decision : InForce(e, r)' => InForce(e, r)
  BY DEF InForce
<1>2. NothingEvaluated'
  BY DEF OneVoice, NothingEvaluated
<1>3. \A q \in Proc : GoesBy(q)'
  BY DEF OneVoice, GoesBy
<1>4. \A q \in Proc : pc'[q] = "bytag" => byRev[rev'[q]] # None
  BY DEF OneVoice, Goes
<1> QED
  BY <1>1, <1>2, <1>3, <1>4, VoiceStands

\* The stages go by what was evaluated; an apply starts with nothing.
LEMMA VoiceOfAStart ==
  ASSUME OneWay, TypeOK, Held', OneVoice, NEW p \in Proc,
         StartApply(p) \/ \E r \in Rev : StartStages(p, r)
  PROVE  OneVoice'
<1>1. PICK v \in Verbs, next \in {"decide", "publish"}, r \in Rev, d \in Decision \union {None} :
        /\ Begin(p, v, next, r, d)
        /\ next = "decide" => v # "stages"
        /\ next = "publish" => v = "stages" /\ d = evaluated[r] /\ ~ d.skip
  <2>1. CASE StartApply(p)
    <3>1. head \in Rev
      BY DEF TypeOK
    <3>2. PICK v \in {"apply", "evaluate"} : Begin(p, v, "decide", head, None)
      BY <2>1 DEF StartApply
    <3>3. v \in Verbs
      BY <3>2 DEF Begin
    <3> QED
      BY <3>1, <3>2, <3>3
  <2>2. CASE \E r \in Rev : StartStages(p, r)
    <3>1. PICK r \in Rev : ~ evaluated[r].skip /\ Begin(p, "stages", "publish", r, evaluated[r])
      BY <2>2 DEF StartStages
    <3>2. "stages" \in Verbs /\ evaluated[r] \in Decision \union {None}
      BY <3>1 DEF Begin, TypeOK
    <3> QED
      BY <3>1, <3>2
  <2> QED
    BY <2>1, <2>2
<1>2. /\ \A q \in Proc : q = p
      /\ pc'[p] = next /\ decision'[p] = d /\ rev'[p] = r /\ verb'[p] = v
      /\ UNCHANGED <<byRev, byTag, evaluated>>
  BY <1>1, GoesAsItBegan DEF OneWay
<1>3. NothingEvaluated'
  BY <1>2 DEF OneVoice, NothingEvaluated
<1>4. \A q \in Proc : GoesBy(q)' /\ (pc'[q] = "bytag" => byRev[rev'[q]] # None)
  BY <1>1, <1>2 DEF GoesBy, Goes
<1>5. \A s \in Rev, e \in Decision : InForce(e, s)' => InForce(e, s)
  BY <1>1, <1>2 DEF InForce, Goes
<1> QED
  BY <1>2, <1>3, <1>4, <1>5, VoiceStands

\* A record that is put says what the decision says, or copies a record.
LEMMA PutsInOneVoice ==
  ASSUME OneWay, TypeOK, Held, OneVoice, NEW p \in Proc,
         Converge(p) \/ RecordByRev(p) \/ RecordByTag(p)
  PROVE  OneVoice'
<1> DEFINE d == decision[p]
           r == rev[p]
<1>0. /\ Goes(p) /\ d \in Decision /\ r \in Rev /\ InForce(d, r) /\ Fits(d, r)
      /\ UNCHANGED <<evaluated, own>>
      /\ \A q \in Proc : q = p
  BY DEF Converge, RecordByRev, RecordByTag, Held, GoesByADecision, Goes, TypeOK, OneVoice, InForce, OneWay
<1>1. \A q \in Rev, e \in Decision : InForce(e, q)' => InForce(e, q) /\ Fits(e, q) /\ (q = r => e = d)
  <2>1. ASSUME NEW q \in Rev, NEW e \in Decision, InForce(e, q)' PROVE InForce(e, q)
    BY <1>0, <2>1, GoesAsItWent DEF InForce
  <2> QED
    BY <1>0, <2>1, TheOnlyOne DEF OneVoice
<1>2. NothingEvaluated'
  BY <1>0 DEF OneVoice, NothingEvaluated
<1>3. \A q \in Proc : GoesBy(q)'
  BY <1>0, GoesAsItWent DEF OneVoice, GoesBy, Goes, own
<1>4. CASE Converge(p)
  <2> DEFINE rec == byTag[d.previous]
             x   == [rec EXCEPT !.rev = r]
  <2>1. d.previous \in Version /\ rec # None
    BY <1>0, <1>4 DEF Converge, SameBytes, Decision
  <2>2. rec \in Record /\ Recorded(rec)
    BY <2>1 DEF TypeOK, Recorded
  <2>3. x \in Record /\ x.version = rec.version /\ x.set = rec.set
    BY <1>0, <2>2 DEF Record
  <2>4. /\ UNCHANGED byTag
        /\ byRev'[r] = x
        /\ \A q \in Rev \ {r} : byRev'[q] = byRev[q]
        /\ pc'[p] = "answer"
    BY <1>0, <1>4 DEF Converge, GoTo, TypeOK
  <2>5. d.set = r
    BY <1>0, <2>1, ReleaseAssumption DEF Fits, Version
  <2>6. x # None /\ rec.set \in Rev /\ byRev[rec.set] # None
    BY <2>2, <2>3 DEF Record, None, OneVoice
  <2>7. byRev'[x.set] # None
    BY <2>3, <2>4, <2>6
  <2>8. \A y \in Record : Recorded(y) /\ y.set = x.set => y.version = x.version
    BY <2>2, <2>3 DEF OneVoice
  <2>9. \A q \in Rev, e \in Decision :
          InForce(e, q)' => /\ e.set = x.set => e.version = x.version
                            /\ e.set # q => byRev'[q] = byRev[q]
    <3> HIDE DEF x, rec
    <3>1. ASSUME NEW q \in Rev, NEW e \in Decision, InForce(e, q)'
          PROVE  e.set = x.set => e.version = x.version
      BY <1>1, <2>2, <2>3, <3>1 DEF Fits
    <3> QED
      BY <1>1, <2>4, <2>5, <3>1
  <2> HIDE DEF x, rec
  <2> QED
    BY <1>0, <1>1, <1>2, <1>3, <2>3, <2>4, <2>7, <2>8, <2>9, VoiceCarries
<1>5. CASE RecordByRev(p) \/ RecordByTag(p)
  <2> DEFINE x == Released(p)
  <2>1. x \in Record /\ x.version = d.version /\ x.set = d.set
    BY <1>0 DEF Released, Number, Record, Decision, TypeOK
  <2>2. /\ \A q \in Rev : byRev'[q] = byRev[q] \/ byRev'[q] = x
        /\ \A v \in Version : byTag'[v] = byTag[v] \/ byTag'[v] = x
        /\ \A q \in Rev \ {r} : byRev'[q] = byRev[q]
    BY <1>5 DEF RecordByRev, RecordByTag, TypeOK
  <2>3. x # None
    BY <2>1 DEF Record, None
  <2>4. byRev'[r] # None
    <3>1. CASE RecordByRev(p)
      BY <1>0, <2>3, <3>1 DEF RecordByRev, TypeOK
    <3>2. CASE RecordByTag(p)
      BY <1>0, <3>2 DEF RecordByTag, OneVoice
    <3> QED
      BY <1>5, <3>1, <3>2
  <2>5. byRev'[x.set] # None
    <3>1. CASE d.set = r
      BY <2>1, <2>4, <3>1
    <3>2. CASE d.set # r
      <4>1. byRev[r] # None /\ byRev[r].set = d.set
        BY <1>0, <3>2 DEF Fits
      <4>2. byRev[r] \in Record /\ Recorded(byRev[r]) /\ d.set \in Rev
        BY <1>0, <4>1 DEF TypeOK, Recorded, Decision
      <4> QED
        BY <2>1, <2>2, <2>3, <4>1, <4>2 DEF OneVoice
    <3> QED
      BY <3>1, <3>2
  <2>6. \A y \in Record : Recorded(y) /\ y.set = x.set => y.version = x.version
    BY <1>0, <2>1 DEF Fits
  <2>7. ASSUME NEW q \in Rev, NEW e \in Decision, InForce(e, q)', e.set = d.set
        PROVE  e.version = d.version
    <3>1. CASE e.set = q /\ d.set = r
      BY <1>1, <2>7, <3>1
    <3>2. CASE e.set # q
      <4>1. byRev[q] # None /\ byRev[q].set = e.set
        BY <1>1, <2>7, <3>2 DEF Fits
      <4>2. byRev[q] \in Record /\ Recorded(byRev[q])
        BY <4>1 DEF TypeOK, Recorded
      <4> QED
        BY <1>0, <1>1, <2>7, <4>1, <4>2 DEF Fits
    <3>3. CASE d.set # r
      <4>1. byRev[r] # None /\ byRev[r].set = d.set
        BY <1>0, <3>3 DEF Fits
      <4>2. byRev[r] \in Record /\ Recorded(byRev[r])
        BY <1>0, <4>1 DEF TypeOK, Recorded
      <4> QED
        BY <1>0, <1>1, <2>7, <4>1, <4>2 DEF Fits
    <3> QED
      BY <3>1, <3>2, <3>3
  <2>8. \A q \in Rev, e \in Decision :
          InForce(e, q)' /\ e.set # q => byRev'[q] = byRev[q] \/ x.set = e.set
    BY <1>1, <2>1, <2>2
  <2>9. \A q \in Proc : pc'[q] = "bytag" => byRev'[rev'[q]] # None
    BY <1>0, <2>4 DEF own
  <2> HIDE DEF x
  <2> QED
    BY <1>1, <1>2, <1>3, <2>1, <2>2, <2>5, <2>6, <2>7, <2>8, <2>9, VoiceCarries
<1> QED
  BY <1>4, <1>5

\* With one process at a time, of a repository released one way, a revision
\* whose record is of its own release is not refused when that is run again:
\* whatever was decided for it since has the number of its record.
THEOREM OwnReleases == ASSUME OneWay PROVE Spec => []OwnReleaseConverges
<1>1. Init => OneVoice
  <2> SUFFICES ASSUME Init PROVE OneVoice
    OBVIOUS
  <2>1. \A x : ~ Recorded(x)
    BY DEF Init, Recorded
  <2>2. \A d \in Decision : d # None
    BY DEF Decision, None
  <2>3. \A r \in Rev, d \in Decision : ~ InForce(d, r)
    BY <2>2 DEF Init, InForce, Goes
  <2> QED
    BY <2>1, <2>3 DEF Init, OneVoice, NothingEvaluated, GoesBy, Goes
<1>2. TypeOK /\ Held /\ Held' /\ OneVoice /\ [Next]_vars => OneVoice'
  <2> SUFFICES ASSUME TypeOK, Held, Held', OneVoice, [Next]_vars PROVE OneVoice'
    OBVIOUS
  <2>1. ASSUME NEW p \in Proc, DecideReleased(p) \/ DecideSkip(p) \/ DecideBump(p)
        PROVE  OneVoice'
    <3>1. pc[p] = "decide" /\ UNCHANGED <<byRev, byTag>>
      BY <2>1 DEF DecideReleased, DecideSkip, DecideBump
    <3> QED
      BY <2>1, <3>1, DecisionFits, DecidesWithOneVoice
  <2>2. ASSUME NEW p \in Proc,
               \/ Reuse(p) \/ CallEngine(p) \/ ReadTag(p) \/ ReadRelease(p) \/ TagHere(p) \/ PushTag(p)
               \/ Publish(p) \/ Answer(p) \/ Crash(p)
        PROVE  OneVoice'
    <3>1. UNCHANGED <<byRev, byTag, evaluated>>
      BY <2>2 DEF Reuse, CallEngine, ReadTag, ReadRelease, TagHere, PushTag, Publish, Answer, Crash, records
    <3>2. \A q \in Proc : pc'[q] # "bytag"
      BY <2>2 DEF Reuse, CallEngine, ReadTag, ReadRelease, TagHere, PushTag, Publish, Answer, Crash, GoTo, Leave,
         TypeOK, OneWay
    <3> QED
      BY <2>2, <3>1, <3>2, GoesAsItWent, VoiceOfTheQuiet
  <2>3. CASE Move \/ UNCHANGED vars
    <3>1. UNCHANGED <<byRev, byTag, evaluated, pc, decision, rev, verb>>
      BY <2>3 DEF Move, vars, records, own
    <3> QED
      BY <3>1, VoiceOfTheQuiet DEF Goes
  <2> QED
    BY <2>1, <2>2, <2>3, Actions, VoiceOfAStart, PutsInOneVoice
<1>3. TypeOK /\ Held /\ OneVoice /\ SetsAreShown => OwnReleaseConverges
  <2> SUFFICES ASSUME TypeOK, Held, OneVoice, SetsAreShown, NEW p \in Proc,
                      pc[p] = "preflight", byRev[rev[p]] # None, byRev[rev[p]].set = rev[p]
               PROVE  ~ Refused(p)
    BY DEF OwnReleaseConverges
  <2>1. rev[p] \in Rev /\ decision[p] \in Decision /\ Goes(p)
    BY DEF TypeOK, Held, GoesByADecision, Goes
  <2>2. Fits(decision[p], rev[p])
    BY <2>1 DEF OneVoice, InForce
  <2>3. byRev[rev[p]] \in Record /\ Recorded(byRev[rev[p]])
    BY <2>1 DEF TypeOK, Recorded
  <2>4. byRev[rev[p]].version = Number(p)
    BY <2>2, <2>3 DEF Fits, Number
  <2>5. Shows(Number(p), rev[p])
    BY <2>1, <2>4 DEF SetsAreShown
  <2> QED
    BY <2>5 DEF Shows, Refused
<1> QED
  BY <1>1, <1>2, <1>3, TypesAndDecisions, SetsAreTagged, PTL DEF Spec
=============================================================================
