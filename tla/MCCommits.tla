----------------------------- MODULE MCCommits ------------------------------
(* What follows a commit: the version that is made of it, the polls that   *)
(* ask whether anything moved, and the workflow run it starts.  A behaviour *)
(* is one of ReleaseLine, of Trigger or of Workflow, as its first state    *)
(* says.                                                                   *)
EXTENDS ReleaseLine, MCWorkflow

CONSTANTS a, b, own, other, p1, p2

VARIABLES part, scene, head, edits, generated, moves, recorded, pc, asking,
          previous, parts, changed, heard, written, told, losses

\* A vocabulary with a token inside another one, and lines with and without
\* a cap, next to the cap and to the two figures of a minor.
Tokens   == {"feat", "feat!", "docs", "fix"}
Words    == <<{"docs"}, {"fix"}, {"feat"}, {"feat!"}>>
Lists    == [l \in 0 .. 3 |-> Words[l + 1]]
Widths   == "feat" :> 4 @@ "feat!" :> 5 @@ "docs" :> 6 @@ "fix" :> 3
Subjects == {"breaks", "adds", "documents", "other", "forge-ci: settle"}
Has      == "breaks" :> {"feat", "feat!"} @@ "adds" :> {"feat", "fix"}
              @@ "documents" :> {"docs", "fix"} @@ "other" :> {} @@ "forge-ci: settle" :> {}
Own      == [s \in Subjects |-> s = "forge-ci: settle"]

NoCap   == [major |-> -1, minor |-> -1]
AtMajor == [major |-> 0, minor |-> -1]
AtMinor == [major |-> 0, minor |-> 10]
Policy  == [strategy : {"semantic"}, unmatched : {"", "error", "ignore"}, cap : {NoCap, AtMajor, AtMinor}]
             \cup [strategy : {"bump-minor-version", "bump-patch-version"}, unmatched : {""}, cap : {NoCap, AtMinor}]
FirstVersion == V(0, 9, 0)
Finals  == {V(0, 10, 0)}

\* Two triggers; one repo with generated files.
Trig == INSTANCE Trigger WITH
  Triggers <- <<own, other>>, Watch <- own :> <<a>> @@ other :> <<b>>,
  Repo <- {a, b}, Generates <- {b},
  Scenes <- {[pollers |-> {p1}, again |-> {b}, moves |-> 2, faults |-> 1],
             [pollers |-> {p1, p2}, again |-> {}, moves |-> 1, faults |-> 0]},
  at <- asking, answer <- heard, faults <- losses

pollVars == <<scene, head, edits, generated, moves, recorded, pc, asking, previous,
              parts, changed, heard, written, told, losses>>
allVars  == <<part, vars, pollVars, workflowVars>>

\* What a behaviour is not about stands where it starts.
OneLine == history = <<"other">> /\ policy.strategy = "bump-minor-version"
             /\ policy.cap = NoCap /\ tags = [v \in {} |-> 0]
MCInit == /\ Init /\ Trig!Init /\ WorkflowInit
          /\ part \in {"line", "poll", "run"}
          /\ part # "line" => OneLine
          /\ part # "poll" => scene.moves = 1
          /\ part # "run" => cut = "stages" /\ \A s \in Substage : record[s][0] = "none"

Polls(A) == part = "poll" /\ A /\ UNCHANGED <<part, vars, workflowVars>>
Runs(A)  == part = "run" /\ A /\ UNCHANGED <<part, vars, pollVars>>

MCNext == \/ part = "line" /\ Next /\ UNCHANGED <<part, pollVars, workflowVars>>
          \/ Polls(Trig!Next)
          \/ Runs(WorkflowNext)

\* The fairness of Trigger and of Workflow.
FairSpec == /\ MCInit /\ [][MCNext]_allVars
            /\ \A p \in {p1, p2} : WF_allVars(Polls(p \in scene.pollers /\ Trig!Step(p)))
            /\ WF_allVars(Runs(Work))

TypesHold       == TypeOK /\ Trig!TypeOK /\ WorkflowTypeOK
WhatMovedIsTold == part = "poll" => Trig!WhatMovedIsTold
PollsComeToRest == part = "poll" => Trig!PollsComeToRest
RunsComeToAnEnd == part = "run" => RunsEnd
=============================================================================
