----------------------------- MODULE TargetRun ------------------------------
(***************************************************************************)
(* What a compute engine promises of the runs it is asked for: a command   *)
(* starts only when everything it rests on has passed, "passed" is answered*)
(* only when everything has, and a run that broke is never called passed.  *)
(* How the commands are spread over goroutines or machines is not said.    *)
(***************************************************************************)
EXTENDS Schedule

CONSTANT Call   \* the substages whose runs are asked for

VARIABLES
  started,  \* the jobs a run has started
  passed,   \* those that ended well
  broken,   \* those that did not
  answer    \* what the engine has answered

TypeOK ==
  /\ \A c \in Call : started[c] \union passed[c] \union broken[c] \subseteq Job[c]
  /\ answer \in [Call -> {"none", "passed", "failed", "error"}]

Init ==
  /\ started = [c \in Call |-> {}]
  /\ passed = [c \in Call |-> {}]
  /\ broken = [c \in Call |-> {}]
  /\ answer = [c \in Call |-> "none"]

\* Several jobs at once: none of them may rest on another.  A run the engine
\* gave up on may still be going.
Start(c, js) ==
  /\ answer[c] \in {"none", "error"}
  /\ js \cap started[c] = {} /\ \A j \in js : Before[c][j] \subseteq passed[c]
  /\ started' = [started EXCEPT ![c] = @ \union js]
  /\ UNCHANGED <<passed, broken, answer>>

End(c, j) ==
  /\ j \in started[c] \ (passed[c] \union broken[c])
  /\ \/ passed' = [passed EXCEPT ![c] = @ \union {j}] /\ UNCHANGED broken
     \/ broken' = [broken EXCEPT ![c] = @ \union {j}] /\ UNCHANGED passed
  /\ UNCHANGED <<started, answer>>

Pass(c) ==
  /\ answer[c] = "none" /\ passed[c] = Job[c]
  /\ answer' = [answer EXCEPT ![c] = "passed"]
  /\ UNCHANGED <<started, passed, broken>>

\* Failed: something broke, and nothing is running any more.
Fail(c) ==
  /\ answer[c] = "none" /\ broken[c] # {}
  /\ started[c] = passed[c] \union broken[c]
  /\ answer' = [answer EXCEPT ![c] = "failed"]
  /\ UNCHANGED <<started, passed, broken>>

Err(c) ==
  /\ answer[c] = "none"
  /\ answer' = [answer EXCEPT ![c] = "error"]
  /\ UNCHANGED <<started, passed, broken>>

Next == \E c \in Call :
  \/ \E js \in SUBSET Job[c] : Start(c, js)
  \/ \E j \in Job[c] : End(c, j)
  \/ Pass(c) \/ Fail(c) \/ Err(c)

Spec == Init /\ [][Next]_<<started, passed, broken, answer>>
=============================================================================
