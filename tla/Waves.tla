------------------------------- MODULE Waves --------------------------------
(***************************************************************************)
(* Ordering by needs (pkg/citypes/waves.go): a list of names and a needs   *)
(* graph become waves.  The same walk orders the directories of a target,  *)
(* the repos a configuration declares and the substages of a stage.        *)
(*                                                                         *)
(* A wave is a sequence in declared order.  Names may repeat in the list:  *)
(* a configuration may name a directory twice (config.go checks a target's *)
(* directories against the repos and nothing else).                        *)
(***************************************************************************)
LOCAL INSTANCE Integers
LOCAL INSTANCE Sequences

Names(in) == {in[i] : i \in DOMAIN in}

\* Does the graph constrain anything among these names?
AnyEdge(in, needs) ==
  \E a \in Names(in) : \E b \in needs[a] : b # a /\ b \in Names(in)

\* Everything a name needs has left the pending set; needs outside count as met.
Ready(a, needs, pending) == \A b \in needs[a] : b = a \/ b \notin pending

\* The names of a list that are in S, in the order of the list.
Those(in, S) ==
  LET upto[i \in 0..Len(in)] ==
        IF i = 0 THEN <<>>
                 ELSE IF in[i] \in S THEN Append(upto[i - 1], in[i]) ELSE upto[i - 1]
  IN  upto[Len(in)]

NextWave(in, needs, pending) == Those(in, {a \in pending : Ready(a, needs, pending)})

\* What is still pending after k turns of the loop.
Pending(in, needs, k) ==
  LET after[j \in 0..k] ==
        IF j = 0 THEN Names(in)
                 ELSE after[j - 1] \ Names(NextWave(in, needs, after[j - 1]))
  IN  after[k]

\* Nothing is ready and something is left: everything left waits in a circle.
Stuck(in, needs) == Pending(in, needs, Len(in)) # {}

\* How many turns empty the pending set.
Turns(in, needs) ==
  CHOOSE k \in 0..Len(in) :
    Pending(in, needs, k) = {} /\ \A j \in 0..(k - 1) : Pending(in, needs, j) # {}

\* The waves of a list that is not stuck.  With no edge every name is a wave
\* of its own, in the order given.
WavesOf(in, needs) ==
  IF AnyEdge(in, needs)
    THEN [k \in 1..Turns(in, needs) |-> NextWave(in, needs, Pending(in, needs, k - 1))]
    ELSE [k \in 1..Len(in) |-> <<in[k]>>]
=============================================================================
