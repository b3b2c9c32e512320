----------------------------- MODULE MCCompute ------------------------------
(* A pipeline file and an apply of it, and the two compute engines over one *)
(* plan: a behaviour is one of the file, one of the local engine or one of *)
(* the remote engine, as its first state says.                             *)
EXTENDS ComputeEngines, Pipeline, TLC

CONSTANTS a, b, e

VARIABLE engine

\* Two checkouts, and one that needs both.  The first substage converges
\* nothing, tests in all of them and ends at the root; the second tests in one;
\* the third converges the workspace and runs at the root.
Tested == a :> {} @@ b :> {} @@ e :> {a, b}
Steps  == "s1" :> <<(<<a, e, b>>), <<>> >> @@ "s2" :> <<(<<a>>)>> @@ "s3" :> <<(<<>>)>>
\* What ComputeProofs shows of every plan holds of these.
ASSUME AreLayered == Layered

\* Two repos and two stages: one that builds, and one that publishes what one
\* of its substages built.
Engine(n, port) == [name |-> n, port |-> port, manager |-> "m", ignored |-> {}]
Example ==
  [repos    |-> <<[name |-> "x", needs |-> {}], [name |-> "y", needs |-> {"x"}]>>,
   managers |-> <<[name |-> "m"]>>,
   engines  |-> <<Engine("c", "compute"), Engine("r", "artifact"), Engine("g", "gate"),
                  Engine("p", "promotion"), Engine("k", "state"), Engine("t", "trigger")>>,
   state    |-> "k", triggers |-> {"t"},
   targets  |-> <<[name |-> "make", in |-> <<"y", "x">>], [name |-> "lint", in |-> <<>>]>>,
   stages   |->
     <<[name |-> "build", promotion |-> "", subs |->
         <<[name |-> "docs", engine |-> "c", targets |-> <<"make", "lint">>, gates |-> {},
            needs |-> {"code"}, uses |-> {}, sync |-> FALSE],
           [name |-> "code", engine |-> "c", targets |-> <<"make">>, gates |-> {"g"},
            needs |-> {}, uses |-> {}, sync |-> TRUE]>>],
       [name |-> "ship", promotion |-> "p", subs |->
         <<[name |-> "code", engine |-> "r", targets |-> <<>>, gates |-> {},
            needs |-> {}, uses |-> {<<"build", "code">>}, sync |-> FALSE]>>]>>]

\* One remote call with the whole plan; two attempts at a substage; two substages.
Asks == {{<<"s1", 1>>}, {"s2"} \X {1, 2}, {"s2", "s3"} \X {1}}

allVars  == <<engine, enginesVars, fileVars>>

MCInit == /\ EnginesInit /\ FileInit
          /\ engine \in {"file", "local", "remote"}
          /\ engine # "remote" => asked = {<<"s1", 1>>}

MCNext ==
  /\ \/ engine = "file" /\ FileNext /\ UNCHANGED enginesVars
     \/ engine = "local" /\ Next /\ UNCHANGED <<remoteVars, fileVars>>
     \/ engine = "remote" /\ Remote!Next /\ UNCHANGED <<vars, fileVars>>
  /\ UNCHANGED engine

MCSpec == MCInit /\ [][MCNext]_allVars

\* A caller goes on by itself while its requests return.
Calls(c) == /\ engine = "remote"
            /\ Remote!Caller(c) /\ UNCHANGED <<engine, vars, asked, fileVars>>
FairSpec == MCSpec /\ \A c \in Remote!Attempt : WF_allVars(Calls(c))

\* The file and both engines keep their types.
TypesHold == EnginesTypeOK /\ FileTypeOK
=============================================================================
