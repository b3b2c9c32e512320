---------------------------- MODULE LocalCompute ----------------------------
(***************************************************************************)
(* The local compute engine (internal/controller/computecontroller, with   *)
(* the harvester of internal/adapter/forgeadapter).  Every directory of a  *)
(* wave runs in a goroutine of its own; a mutex orders what they do with   *)
(* the results; the wave ends when all of them have.  Substages of one wave*)
(* of a stage are runs of their own over the same directories.             *)
(*                                                                         *)
(* The commands are external: they end well, badly, or cannot be run, and  *)
(* what they leave in forge's artifact store is one report per command and *)
(* one artifact per directory.  Logs and their limit are left out.         *)
(***************************************************************************)
EXTENDS Schedule, FiniteSets

CONSTANT Call   \* the runs asked for: one per substage
ASSUME CallAssumption == Call \subseteq Substage

VARIABLES
  at,       \* the wave a run is at; 0 before its first
  exit,     \* per job: not started, running, ended but not harvested, or how
            \* it ended
  earlier,  \* the commands that had started when a run began
  store,    \* reports in the artifact stores: the run, and its job
  result,   \* the reports a run has harvested
  answer

vars == <<at, exit, earlier, store, result, answer>>

Report == {r \in Call \X AnyJob : r[2] \in Job[r[1]]}

TypeOK ==
  /\ at \in [Call -> Nat] /\ \A c \in Call : at[c] <= Len(Plan[c])
  /\ exit \in [Call -> [AnyJob -> {"none", "running", "zero", "nonzero", "passed", "failed", "error"}]]
  /\ earlier \in [Call -> SUBSET Report]
  /\ store \in SUBSET Report
  /\ result \in [Call -> SUBSET Report]
  /\ answer \in [Call -> {"none", "passed", "failed", "error"}]

Init ==
  /\ at = [c \in Call |-> 0]
  /\ exit = [c \in Call |-> [j \in AnyJob |-> "none"]]
  /\ earlier = [c \in Call |-> {}]
  /\ store = {}
  /\ result = [c \in Call |-> {}]
  /\ answer = [c \in Call |-> "none"]

\* The jobs of run c whose exit is one of these.
Jobs(c, kinds) == {j \in Job[c] : exit[c][j] \in kinds}
Started == {r \in Report : exit[r[1]][r[2]] # "none"}

\* The clock is read before anything runs: a report that started earlier than
\* that is somebody else's.
Begin(c) ==
  /\ at[c] = 0
  /\ at' = [at EXCEPT ![c] = 1]
  /\ earlier' = [earlier EXCEPT ![c] = Started]
  /\ exit' = [exit EXCEPT ![c] = [j \in AnyJob |-> IF j \in Wave(c, 1) THEN "running" ELSE @[j]]]
  /\ UNCHANGED <<store, result, answer>>

\* The command runs to its end, or cannot be run: its binary is not there, or
\* the clone lacks an .envrc and git could carry the one it would be given.
RunIn(c, j) ==
  /\ exit[c][j] = "running"
  /\ \/ /\ store' = store \union {<<c, j>>}
        /\ \E how \in {"zero", "nonzero"} : exit' = [exit EXCEPT ![c][j] = how]
     \/ /\ exit' = [exit EXCEPT ![c][j] = "error"]
        /\ UNCHANGED store
  /\ UNCHANGED <<at, earlier, result, answer>>

\* The reports of a directory's store that started since the run began.
Harvested(c, d) == {r \in store : DirOf(r[1], r[2]) = d} \ earlier[c]

\* Under the mutex: the status is lowered, the store is read and merged.
\* sync and lock leave nothing to harvest.
Merge(c, j) ==
  /\ exit[c][j] \in {"zero", "nonzero"}
  /\ \/ /\ exit' = [exit EXCEPT ![c][j] = IF @ = "zero" THEN "passed" ELSE "failed"]
        /\ result' = IF Target(c, j) = 0 THEN result
                     ELSE [result EXCEPT ![c] = @ \union Harvested(c, DirOf(c, j))]
     \/ /\ Target(c, j) # 0
        /\ exit' = [exit EXCEPT ![c][j] = "error"]   \* the store cannot be read
        /\ UNCHANGED result
  /\ UNCHANGED <<at, earlier, store, answer>>

\* Mutant: the wave is over when one of its directories is.
SomeDone(c) == Jobs(c, {"passed", "failed", "error"}) \cap Wave(c, at[c]) # {}

\* wg.Wait: every goroutine of the wave is done.
WaveDone(c) == Jobs(c, {"passed", "failed", "error"}) \cap Wave(c, at[c]) = Wave(c, at[c])

Last(c) == at[c] = Len(Plan[c])

\* After a wave: an error is the answer, a failure stops the targets after it,
\* and the last wave makes it a pass.
Verdict(c) ==
  IF Jobs(c, {"error"}) # {} THEN "error"
  ELSE IF Jobs(c, {"failed"}) # {} THEN "failed"
  ELSE IF Last(c) THEN "passed" ELSE "none"

EndWave(c) ==
  /\ at[c] > 0 /\ answer[c] = "none"
  /\ WaveDone(c)
  /\ answer' = [answer EXCEPT ![c] = Verdict(c)]
  /\ IF Verdict(c) = "none"
       THEN /\ at' = [at EXCEPT ![c] = @ + 1]
            /\ exit' = [exit EXCEPT ![c] =
                 [j \in AnyJob |-> IF j \in Wave(c, at[c] + 1) THEN "running" ELSE @[j]]]
       ELSE UNCHANGED <<at, exit>>
  /\ UNCHANGED <<earlier, store, result>>

Next == \E c \in Call :
  \/ Begin(c)
  \/ \E j \in Job[c] : RunIn(c, j) \/ Merge(c, j)
  \/ EndWave(c)

Spec == Init /\ [][Next]_vars

\* Commands are given no deadline; that they end is assumed.
Fairness == \A c \in Call :
  /\ WF_vars(Begin(c)) /\ WF_vars(EndWave(c))
  /\ \A j \in Job[c] : WF_vars(RunIn(c, j) \/ Merge(c, j))

-----------------------------------------------------------------------------
(* A run implements what TargetRun promises.  A job has passed when its exit*)
(* and its harvest are in.                                                 *)
Promise == INSTANCE TargetRun WITH
  started <- [c \in Call |-> Job[c] \ Jobs(c, {"none"})],
  passed  <- [c \in Call |-> Jobs(c, {"passed"})],
  broken  <- [c \in Call |-> Jobs(c, {"failed", "error"})]

(* However the goroutines of two runs interleave, no command starts before *)
(* everything it rests on has passed, and a run is answered passed only    *)
(* when every command in every directory was (Run, computecontroller.go).  *)
KeepsPromise == Promise!Spec

(* A run that passed carries the report of every command it ran, and no    *)
(* report of a command that had started before it did, whoever else writes *)
(* to the same stores meanwhile (Harvest and merge).                       *)
EvidenceIsItsOwn == \A c \in Call :
  /\ result[c] \cap earlier[c] = {}
  /\ answer[c] = "passed" =>
       {<<c, j>> : j \in {i \in Job[c] : Target(c, i) # 0}} \subseteq result[c]
=============================================================================
