-------------------------- MODULE StageDiscipline --------------------------
(***************************************************************************)
(* What the reconcile loop promises of a pipeline, with no process in it   *)
(* (docs/architecture.md: stages in order, a stage advances on its runs):  *)
(* records of a revision appear one by one and are not taken back, a       *)
(* substage is recorded only when the stages in front of its own advanced, *)
(* and a revision is through only when all of them did.                    *)
(***************************************************************************)
EXTENDS Naturals

CONSTANTS
  Rev,        \* revisions
  Sub,        \* the substages of every stage
  LastStage,  \* stages are 1..LastStage
  StageOf,    \* the stage of a substage
  Enough      \* the sets of green substages on which a stage advances

VARIABLES
  recorded,   \* the substages of a revision that have a run record
  proven,     \* those that once had a green one
  done        \* the revisions that are through

promise == <<recorded, proven, done>>

Init ==
  /\ recorded = [r \in Rev |-> {}]
  /\ proven = [r \in Rev |-> {}]
  /\ done = {}

\* Every stage in front of stage k advanced for revision r.
Reached(k, r) == \A j \in 1..LastStage : j < k => proven[r] \in Enough[j]

\* A run of s is recorded: green, or not.
RecordRun(r, s) ==
  /\ Reached(StageOf[s], r)
  /\ recorded' = [recorded EXCEPT ![r] = @ \union {s}]
  /\ \/ proven' = [proven EXCEPT ![r] = @ \union {s}]
     \/ proven' = proven
  /\ done' = done

\* Every stage advanced.
Finish(r) ==
  /\ Reached(LastStage + 1, r)
  /\ done' = done \union {r}
  /\ UNCHANGED <<recorded, proven>>

Next == \E r \in Rev : Finish(r) \/ \E s \in Sub : RecordRun(r, s)

Spec == Init /\ [][Next]_promise
=============================================================================
