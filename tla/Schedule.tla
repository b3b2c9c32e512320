------------------------------ MODULE Schedule ------------------------------
(***************************************************************************)
(* What one run of a substage has to do (citypes.RunInput): converge the   *)
(* workspace when asked to, then every target in order, each of them in    *)
(* the directories it names, wave by wave.  Both compute engines read the  *)
(* same graph off the same field, so both share this module.               *)
(***************************************************************************)
EXTENDS Integers, Sequences, Waves

CONSTANTS
  Dir,       \* the checkouts of the workspace
  Root,      \* the directory that holds them
  Needs,     \* what must be built before a checkout, per checkout
  Substage,  \* the substages that are run
  Targets,   \* per substage and target, the directories it names
  Sync       \* the substages that converge the workspace first

ASSUME ScheduleAssumption ==
  /\ Root \notin Dir
  /\ Needs \in [Dir -> SUBSET Dir]
  /\ Targets \in [Substage -> Seq(Seq(Dir)) \ {<<>>}]
  /\ Sync \subseteq Substage
  /\ \A s \in Substage : \A t \in DOMAIN Targets[s] :
       ~Stuck(Targets[s][t], Needs)   \* config.Validate

\* The waves of one target; one that names no directory runs at the root.
WavesFor(in) == IF in = <<>> THEN <<(<<Root>>)>> ELSE WavesOf(in, Needs)

\* forge-factory sync and lock, one after the other, at the root.
Converging(s) == IF s \in Sync THEN <<(<<Root>>), (<<Root>>)>> ELSE <<>>

\* Every wave of a run with the number of its target; 0 converges.
Plan == [s \in Substage |->
  LET of(t, waves) == [k \in DOMAIN waves |-> [target |-> t, dirs |-> waves[k]]]
      upto[t \in 0..Len(Targets[s])] ==
        IF t = 0 THEN of(0, Converging(s)) ELSE upto[t - 1] \o of(t, WavesFor(Targets[s][t]))
  IN  upto[Len(Targets[s])]]

\* A job is one command in one directory: the place of the wave in the plan,
\* and of the directory in the wave.
Job == [s \in Substage |->
  UNION {{<<k, i>> : i \in DOMAIN Plan[s][k].dirs} : k \in DOMAIN Plan[s]}]
AnyJob       == UNION {Job[s] : s \in Substage}
Wave(s, k)   == {j \in Job[s] : j[1] = k}
Target(s, j) == Plan[s][j[1]].target
DirOf(s, j)  == Plan[s][j[1]].dirs[j[2]]

\* What a job rests on, read off the configuration and not off the waves:
\* whatever converges the workspace, the targets in front, and the same target
\* in the directories its own directory needs.
RestsOn(s, i, j) ==
  \/ Target(s, i) < Target(s, j)
  \/ Target(s, i) = 0 /\ Target(s, j) = 0 /\ i[1] < j[1]
  \/ /\ Target(s, i) = Target(s, j)
     /\ DirOf(s, j) \in Dir /\ DirOf(s, i) \in Needs[DirOf(s, j)] \ {DirOf(s, j)}

Before == [s \in Substage |-> [j \in Job[s] |-> {i \in Job[s] : RestsOn(s, i, j)}]]

\* What the layering is for: a plan has waves, and no command rests on one of
\* its own wave or of a later one.
Layered == \A s \in Substage :
  /\ Plan[s] \in Seq([target : Nat, dirs : Seq(Dir \union {Root})]) \ {<<>>}
  /\ \A i, j \in Job[s] : RestsOn(s, i, j) => i[1] < j[1]
=============================================================================
