----------------------------- MODULE MCWorkflow -----------------------------
(* A small pipeline for Workflow.                                          *)
EXTENDS Workflow, TLC

\* A build, what needs it and a check, of which one is enough; an image, which
\* may read anything; and a publish, which reads what it names.
ThreeStages == <<{"compile", "docs", "lint"}, {"image"}, {"publish"}>>
SomeNeeds   == [s \in UNION {ThreeStages[k] : k \in 1 .. 3} |-> IF s = "docs" THEN {"compile"} ELSE {}]
SomeUses    == [s \in DOMAIN SomeNeeds |-> IF s = "publish" THEN {"compile", "image"} ELSE {}]
SomeEnough  == <<1, 1, 1>>
=============================================================================
