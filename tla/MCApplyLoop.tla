---------------------------- MODULE MCApplyLoop ----------------------------
(* Small pipelines for ApplyLoop: the constants of its TLC runs.           *)
EXTENDS ApplyLoop, TLC

CONSTANTS build, test, lint, pack, ship

\* Two stages.  In the first, test waits for build and for a person; the
\* second publishes.
TwoStageSub   == {build, test, ship}
TwoStageOf    == build :> 1 @@ test :> 1 @@ ship :> 2
TwoStageNeeds == build :> {} @@ test :> {build} @@ ship :> {}

\* Three stages.  In the first, build and lint run side by side and one of
\* them has to pass; in the second, pack waits for test and test for a person;
\* the third publishes.
ChainSub   == {build, lint, test, pack, ship}
ChainOf    == build :> 1 @@ lint :> 1 @@ test :> 2 @@ pack :> 2 @@ ship :> 3
ChainNeeds == [s \in ChainSub |-> IF s = pack THEN {test} ELSE {}]

TwoPass == 1 :> 100 @@ 2 :> 100
OnePass == 1 :> 50 @@ 2 :> 100 @@ 3 :> 100

\* PhasesAgree is asked of pipelines like these.
ASSUME BothAreWhole == WholeWhereNeeded

Procs == Permutations(Proc)

\* Next of one revision: there is no other to move to.
StayNext ==
  \/ \E p \in Proc :
       \/ Start(p)
       \/ Proceed(p)
       \/ Crash(p)
       \/ \E s \in Sub : Fail(p, s) \/ Err(p, s)
  \/ Lose
  \/ Approve

StaySpec == Init /\ [][StayNext]_vars
=============================================================================
