---------------------------- MODULE RemoteCompute ---------------------------
(***************************************************************************)
(* The remote compute engine (internal/controller/workflowcontroller: Run, *)
(* await and scriptFor, over internal/adapter/githubadapter).  A call      *)
(* dispatches the runner workflow with a marker nobody else has, looks for *)
(* the run that carries it, and asks for it until it is completed or the   *)
(* time is up.  The run executes a shell script the call rendered.         *)
(*                                                                         *)
(* GitHub is external: a dispatch may be refused, or taken without an      *)
(* answer; a run shows up late, and only on the first page of a listing;   *)
(* somebody may cancel it; and a request may never return.  A substage     *)
(* whose call erred is tried again by the next apply, while the old run    *)
(* may still be going.                                                     *)
(***************************************************************************)
EXTENDS Schedule

CONSTANTS
  Attempts,  \* bound on the calls per substage
  Askings,   \* the calls that applies make: one of these sets
  Polls,     \* polls until the time is surely up
  Page,      \* runs in one answer of a listing
  Reaped     \* a shell may forget a background job that has ended

\* A call is one attempt at a substage; the marker's nonce makes it the name.
Attempt == Substage \X (1..Attempts)

VARIABLES
  asked,    \* the calls applies make
  pc,       \* where a call stands
  turn,     \* the turns of its wait
  found,    \* the run it takes for its own, if any
  answer,
  created,  \* the runs GitHub has, oldest first, each under its marker
  status,   \* of a run
  at,       \* the wave of the script a run is at; 0 before the script
  exit,     \* per job of a run
  listed    \* the jobs of the wave the shell is waiting for, once it has
            \* asked which there are

caller == <<pc, turn, found, answer>>
runner == <<status, at, exit, listed>>
vars   == <<asked, caller, created, runner>>

Nothing == {}

TypeOK ==
  /\ asked \in Askings
  /\ pc \in [Attempt -> {"idle", "wait", "hung", "done"}]
  /\ turn \in [Attempt -> 0..Polls]
  /\ found \in [Attempt -> SUBSET Attempt] /\ \A c \in Attempt : \A r, s \in found[c] : r = s
  /\ answer \in [Attempt -> {"none", "passed", "failed", "error"}]
  /\ created \in Seq(Attempt)
  /\ status \in [Attempt -> {"none", "queued", "running", "success", "failure", "cancelled"}]
  /\ at \in [Attempt -> Nat] /\ \A c \in Attempt : at[c] <= Len(Plan[c[1]])
  /\ exit \in [Attempt -> [AnyJob -> {"none", "running", "zero", "nonzero"}]]
  /\ listed \in [Attempt -> {Nothing} \union {{js} : js \in SUBSET AnyJob}]

Init ==
  /\ asked \in Askings
  /\ pc = [c \in Attempt |-> "idle"]
  /\ turn = [c \in Attempt |-> 0]
  /\ found = [c \in Attempt |-> {}]
  /\ answer = [c \in Attempt |-> "none"]
  /\ created = <<>>
  /\ status = [c \in Attempt |-> "none"]
  /\ at = [c \in Attempt |-> 0]
  /\ exit = [c \in Attempt |-> [j \in AnyJob |-> "none"]]
  /\ listed = [c \in Attempt |-> Nothing]

\* The call returns; what it had found is forgotten with it.
Answer(c, a) ==
  /\ answer' = [answer EXCEPT ![c] = a]
  /\ pc' = [pc EXCEPT ![c] = "done"]
  /\ turn' = [turn EXCEPT ![c] = 0]
  /\ found' = [found EXCEPT ![c] = {}]

-----------------------------------------------------------------------------
(* The caller.                                                             *)

\* The next attempt is the next apply's: the one before it has answered error.
Due(c) ==
  /\ c \in asked
  /\ IF c[2] = 1 THEN TRUE ELSE answer[<<c[1], c[2] - 1>>] = "error"

\* The dispatch is taken; its answer may be lost, which is an error.
Dispatch(c) ==
  /\ pc[c] = "idle" /\ Due(c)
  /\ created' = Append(created, c)
  /\ status' = [status EXCEPT ![c] = "queued"]
  /\ \/ pc' = [pc EXCEPT ![c] = "wait"] /\ UNCHANGED <<turn, found, answer>>
     \/ Answer(c, "error")
  /\ UNCHANGED <<at, exit, listed>>

DispatchRefused(c) ==
  /\ pc[c] = "idle" /\ Due(c)
  /\ Answer(c, "error")
  /\ UNCHANGED <<created, runner>>

\* The newest runs a listing answers.
FirstPage == {created[i] : i \in {k \in DOMAIN created : k > Len(created) - Page}}

\* Mutant: the newest run is taken for the one just dispatched.
MineNewest(c) == {created[i] : i \in {k \in DOMAIN created : k = Len(created)}}

\* The run whose title holds the marker.
Mine(c) == {r \in FirstPage : r = c}

Ended == {"success", "failure", "cancelled"}

\* One turn of the wait: the run is looked for unless it is found already, and
\* asked for once it is.  A run may not be listed yet.
Poll(c) ==
  /\ pc[c] = "wait" /\ turn[c] < Polls
  /\ \E seen \in IF found[c] = {} THEN {{}, Mine(c)} ELSE {found[c]} :
       \/ /\ \E r \in seen : status[r] \in Ended
          /\ Answer(c, IF \E r \in seen : status[r] = "success" THEN "passed" ELSE "failed")
       \/ /\ ~\E r \in seen : status[r] \in Ended
          /\ found' = [found EXCEPT ![c] = seen]
          /\ turn' = [turn EXCEPT ![c] = @ + 1]
          /\ UNCHANGED <<pc, answer>>
  /\ UNCHANGED <<created, runner>>

\* Mutant: no deadline.
TimeUpNever(c) == FALSE

\* After Polls turns the deadline has passed; on a slow network, earlier.
TimeUp(c) == pc[c] = "wait"

\* The deadline has passed, or a listing or a get fails.
GiveUp(c) ==
  /\ TimeUp(c)
  /\ Answer(c, "error")
  /\ UNCHANGED <<created, runner>>

\* A request never returns: the client is Go's default one, which has no
\* deadline, and the wait looks at its own between two requests only.  The call
\* stands there for ever.  If the request was the dispatch, GitHub may have
\* taken it.
Hang(c) ==
  /\ \/ pc[c] = "wait" /\ UNCHANGED <<created, status>>
     \/ pc[c] = "idle" /\ Due(c) /\ UNCHANGED <<created, status>>
     \/ /\ pc[c] = "idle" /\ Due(c)
        /\ created' = Append(created, c)
        /\ status' = [status EXCEPT ![c] = "queued"]
  /\ pc' = [pc EXCEPT ![c] = "hung"]
  /\ UNCHANGED <<turn, found, answer, at, exit, listed>>

-----------------------------------------------------------------------------
(* The runner: the job's prelude, the pins of the script, then its waves.  *)

Jobs(c, kinds) == {j \in Job[c[1]] : exit[c][j] \in kinds}

Launch(c, k) ==
  /\ at' = [at EXCEPT ![c] = k]
  /\ exit' = [exit EXCEPT ![c] = [j \in AnyJob |-> IF j \in Wave(c[1], k) THEN "running" ELSE @[j]]]
  /\ listed' = [listed EXCEPT ![c] = Nothing]

Conclude(c, how) == status' = [status EXCEPT ![c] = how] /\ UNCHANGED <<at, exit, listed>>

\* The workspace stands, the members are at the revision's commits, or not.
Prepare(r) ==
  /\ status[r] = "queued"
  /\ \/ status' = [status EXCEPT ![r] = "running"] /\ Launch(r, 1)
     \/ Conclude(r, "failure")
  /\ UNCHANGED <<caller, created>>

Exit(r, j) ==
  /\ status[r] = "running" /\ exit[r][j] = "running"
  /\ \E how \in {"zero", "nonzero"} : exit' = [exit EXCEPT ![r][j] = how]
  /\ UNCHANGED <<caller, created, status, at, listed>>

\* The wave a run is at has one command only.
Alone(r) == \E j \in Wave(r[1], at[r]) : Wave(r[1], at[r]) = {j}

\* A wave of one runs in the foreground.  The jobs of a larger one are in the
\* background, and $(jobs -p) names those that are running and, of those that
\* have ended, whichever the shell has not reaped.
ListJobs(r) ==
  /\ status[r] = "running" /\ ~Alone(r) /\ listed[r] = Nothing
  /\ \E ended \in SUBSET (Wave(r[1], at[r]) \ Jobs(r, {"running"})) :
       /\ ~Reaped => ended = Wave(r[1], at[r]) \ Jobs(r, {"running"})
       /\ listed' = [listed EXCEPT ![r] = {(Wave(r[1], at[r]) \cap Jobs(r, {"running"})) \union ended}]
  /\ UNCHANGED <<caller, created, status, at, exit>>

\* Mutant: only the last of the background jobs is waited for.
WaitedLast(r) == {j \in Wave(r[1], at[r]) : \A i \in Wave(r[1], at[r]) : i[2] <= j[2]}

\* The jobs whose exit the script looks at, once it may.
Waited(r) == IF Alone(r) THEN Wave(r[1], at[r]) ELSE UNION listed[r]

EndWave(r) ==
  /\ status[r] = "running"
  /\ ~Alone(r) => listed[r] # Nothing
  /\ Waited(r) \cap Jobs(r, {"running"}) = {}
  /\ IF Waited(r) \cap Jobs(r, {"nonzero"}) # {} THEN Conclude(r, "failure")
     ELSE IF at[r] = Len(Plan[r[1]]) THEN Conclude(r, "success")
     ELSE Launch(r, at[r] + 1) /\ UNCHANGED status
  /\ UNCHANGED <<caller, created>>

\* A person cancels the run; its commands are killed.
Cancel(r) ==
  /\ status[r] \in {"queued", "running"}
  /\ status' = [status EXCEPT ![r] = "cancelled"]
  /\ UNCHANGED <<caller, created, at, exit, listed>>

-----------------------------------------------------------------------------
Caller(c) == Dispatch(c) \/ DispatchRefused(c) \/ Poll(c) \/ GiveUp(c)

Runner(r) ==
  \/ Prepare(r) \/ (\E j \in Job[r[1]] : Exit(r, j)) \/ ListJobs(r) \/ EndWave(r) \/ Cancel(r)

Next == (\E c \in Attempt : Caller(c) \/ Hang(c) \/ Runner(c)) /\ UNCHANGED asked

Spec == Init /\ [][Next]_vars

\* A caller goes on by itself as long as its requests return, with whatever
\* answer or error.  That they do is not assumed, nor anything of the runs.
Fairness == \A c \in Attempt : WF_vars(Caller(c) /\ UNCHANGED asked)

(* However late a run shows up, however long it takes, and if it never     *)
(* does either, a call that dispatched answers, since the deadline ends the *)
(* wait (await); unless one of its requests never returns.                 *)
EveryCallAnswers == \A c \in Attempt :
  pc[c] # "idle" ~> answer[c] # "none" \/ pc[c] = "hung"

(* An answer is the conclusion of the run this very call dispatched, never *)
(* of the run an earlier attempt left behind or another substage started   *)
(* (markerFor, await).                                                     *)
AnswersAreItsOwn == \A c \in Attempt :
  /\ answer[c] = "passed" => status[c] = "success"
  /\ answer[c] = "failed" => status[c] \in {"failure", "cancelled"}

(* No command of a script starts before everything it rests on has ended   *)
(* (scriptFor): the waves of a remote run do not overlap.                  *)
WavesDoNotOverlap == \A c \in Attempt : \A j \in Job[c[1]] :
  exit[c][j] # "none" => Before[c[1]][j] \cap Jobs(c, {"none", "running"}) = {}

(* A wave collects every exit status, and one that is not zero fails the   *)
(* run (script_test.go:61-64).                                             *)
FailureIsSeen == \A c \in Attempt :
  answer[c] = "passed" => Jobs(c, {"zero"}) = Job[c[1]]
=============================================================================
