----------------------------- MODULE StateStore -----------------------------
(***************************************************************************)
(* The git state engine of forge-ci (internal/controller/statecontroller   *)
(* over internal/adapter/gitadapter): processes put records into checkouts *)
(* of one repository and push them to the remote the checkouts share.      *)
(*                                                                         *)
(* A put is a chain of git commands and another process, a person or a     *)
(* crash may come between any two.  Git itself is external: a commit is the*)
(* paths it changes, a checkout is its index, its files and the commits it *)
(* has on top of the prefix of the remote it was last rebased on.  A rebase*)
(* that git could settle line by line, or by finding the very patch        *)
(* upstream, is taken to stop: a record is one line.                       *)
(***************************************************************************)
EXTENDS Integers, Sequences, FiniteSets

CONSTANTS
  Process,     \* forge-ci processes
  Clone,       \* checkouts of the state repository
  Home,        \* the checkout a process works in
  Path,        \* files of the repository
  Value,       \* what a file may hold
  Plan,        \* the records a process puts, in order; each is retried until
               \* its put is acknowledged
  Foreign,     \* files a person edits in a checkout; no record is put there
  HasRemote,   \* the checkouts have an origin
  Disposable,  \* checkouts that are cloned afresh after a run that erred (CI)
  Together,    \* the sets of processes that run at once
  MaxFaults    \* bound on the failing commands, crashes and edits in a checkout

\* A file that is not there, and one a stopped rebase left in conflict.
Absent  == "absent"
Markers == "markers"

Blob == Value \union {Absent, Markers}

\* A record to put; checked when the caller first reads what is there and
\* puts nothing if it says the same (mint, recordEvaluation).
Item == [path : Path \ Foreign, value : Value, checked : BOOLEAN]

ASSUME StoreAssumption ==
  /\ Home \in [Process -> Clone]
  /\ Foreign \subseteq Path
  /\ Absent \notin Value /\ Markers \notin Value
  /\ Plan \in [Process -> Seq(Item)]
  /\ HasRemote \in BOOLEAN
  /\ Disposable \subseteq Clone
  /\ Together \subseteq SUBSET Process
  /\ MaxFaults \in [Clone -> Nat]

VARIABLES
  remote,    \* the commits of the remote's branch
  base,      \* how many of them a checkout sits on
  ahead,     \* the commits a checkout has on top of those
  index,     \* what a checkout has staged
  work,      \* the files of a checkout
  rebasing,  \* checkouts a rebase stopped in: HEAD is detached
  spoilt,    \* disposable checkouts a run erred in
  pc,        \* where a put stands
  at,        \* the record of its plan a process is at; 0: it is not run
  faults     \* faults so far, by checkout

repo == <<base, ahead, index, work, rebasing>>
vars == <<remote, repo, spoilt, pc, at, faults>>

\* A commit: the files it changes, and to what.
Commits == UNION {[S -> Blob] : S \in (SUBSET Path) \ {{}}}

TypeOK ==
  /\ remote \in Seq(Commits)
  /\ base \in [Clone -> 0..Len(remote)]
  /\ ahead \in [Clone -> Seq(Commits)]
  /\ index \in [Clone -> [Path -> Blob]]
  /\ work \in [Clone -> [Path -> Blob]]
  /\ rebasing \subseteq Clone
  /\ spoilt \subseteq Clone
  /\ pc \in [Process -> {"idle", "write", "add", "staged", "commit", "push", "rebase", "again"}]
  /\ at \in [Process -> Nat] /\ \A p \in Process : at[p] <= Len(Plan[p]) + 1
  /\ faults \in [Clone -> Nat] /\ \A c \in Clone : faults[c] <= MaxFaults[c]

-----------------------------------------------------------------------------
\* The files after a sequence of commits.
FilesOf(log) ==
  [f \in Path |->
     LET touched == {i \in DOMAIN log : f \in DOMAIN log[i]}
     IN  IF touched = {} THEN Absent
         ELSE log[CHOOSE i \in touched : \A j \in touched : j <= i][f]]

Based(c) == SubSeq(remote, 1, base[c])
Tip(c)   == FilesOf(Based(c) \o ahead[c])

Busy(p)   == at[p] \in DOMAIN Plan[p]
Record(p) == Plan[p][at[p]]

Fault(c) == faults[c] < MaxFaults[c] /\ faults' = [faults EXCEPT ![c] = @ + 1]

\* The put answers: the record is recorded.
Acknowledge(p) ==
  /\ pc' = [pc EXCEPT ![p] = "idle"]
  /\ at' = [at EXCEPT ![p] = @ + 1]
  /\ UNCHANGED spoilt

\* The put errs and so does the run around it; the next run puts it again.
GiveUp(p) ==
  /\ pc' = [pc EXCEPT ![p] = "idle"]
  /\ spoilt' = spoilt \union ({Home[p]} \cap Disposable)
  /\ UNCHANGED at

GoTo(p, next) == pc' = [pc EXCEPT ![p] = next] /\ UNCHANGED <<at, spoilt>>

Init ==
  /\ remote = <<>>
  /\ base = [c \in Clone |-> 0]
  /\ ahead = [c \in Clone |-> <<>>]
  /\ index = [c \in Clone |-> FilesOf(<<>>)]
  /\ work = [c \in Clone |-> FilesOf(<<>>)]
  /\ rebasing = {}
  /\ spoilt = {}
  /\ pc = [p \in Process |-> "idle"]
  /\ \E T \in Together : at = [p \in Process |-> IF p \in T THEN 1 ELSE 0]
  /\ faults = [c \in Clone |-> 0]

-----------------------------------------------------------------------------
(* One put, command by command.                                            *)

\* The caller reads the record first if it is of the kind that is not put
\* twice.  A get reads the checkout's file, whatever the remote holds.
Look(p) ==
  /\ pc[p] = "idle" /\ Busy(p) /\ Home[p] \notin spoilt
  /\ IF Record(p).checked /\ work[Home[p]][Record(p).path] = Record(p).value
       THEN Acknowledge(p)
       ELSE GoTo(p, "write")
  /\ UNCHANGED <<remote, repo, faults>>

Write(p) ==
  /\ pc[p] = "write"
  /\ work' = [work EXCEPT ![Home[p]][Record(p).path] = Record(p).value]
  /\ GoTo(p, "add")
  /\ UNCHANGED <<remote, base, ahead, index, rebasing, faults>>

Add(p) ==
  /\ pc[p] = "add"
  /\ LET c == Home[p]
         f == Record(p).path
     IN  index' = [index EXCEPT ![c][f] = work[c][f]]
  /\ GoTo(p, "staged")
  /\ UNCHANGED <<remote, base, ahead, work, rebasing, faults>>

\* Mutant: the commit goes ahead whatever is staged.
StagedAlways(p) ==
  /\ pc[p] = "staged"
  /\ GoTo(p, "commit")
  /\ UNCHANGED <<remote, repo, faults>>

\* Nothing staged at this path: the record is taken to be recorded.
Staged(p) ==
  /\ pc[p] = "staged"
  /\ LET c == Home[p]
         f == Record(p).path
     IN  IF index[c][f] = Tip(c)[f] THEN Acknowledge(p) ELSE GoTo(p, "commit")
  /\ UNCHANGED <<remote, repo, faults>>

\* What a commit of the record's path takes from the file and the index.
Scoped(c, f) == [g \in {f} |-> work[c][f]]

\* Mutant: the commit names no path and takes everything staged.
CommitEverythingStaged(p) ==
  LET c       == Home[p]
      changed == {f \in Path : index[c][f] # Tip(c)[f]}
  IN  /\ pc[p] = "commit"
      /\ changed # {} /\ c \notin rebasing
      /\ ahead' = [ahead EXCEPT ![c] = Append(@, [f \in changed |-> index[c][f]])]
      /\ IF HasRemote THEN GoTo(p, "push") ELSE Acknowledge(p)
      /\ UNCHANGED <<remote, base, index, work, rebasing, faults>>

\* git commit -- path: it takes the file as it is now, and errs when that
\* changes nothing or when a rebase is stopped here.
Commit(p) ==
  LET c == Home[p]
      f == Record(p).path
  IN  /\ pc[p] = "commit"
      /\ IF c \in rebasing \/ work[c][f] = Tip(c)[f]
           THEN GiveUp(p) /\ UNCHANGED <<ahead, index>>
           ELSE /\ ahead' = [ahead EXCEPT ![c] = Append(@, Scoped(c, f))]
                /\ index' = [index EXCEPT ![c][f] = work[c][f]]
                /\ IF HasRemote THEN GoTo(p, "push") ELSE Acknowledge(p)
      /\ UNCHANGED <<remote, base, work, rebasing, faults>>

\* The remote takes the checkout's commits.
Accept(c) ==
  /\ remote' = remote \o ahead[c]
  /\ base' = [base EXCEPT ![c] = Len(remote) + Len(ahead[c])]
  /\ ahead' = [ahead EXCEPT ![c] = <<>>]

\* A checkout with no branch to push is left alone; a branch the remote has
\* moved under is rebased.
Push(p) ==
  LET c == Home[p]
  IN  /\ pc[p] = "push"
      /\ \/ /\ c \in rebasing
            /\ Acknowledge(p)
            /\ UNCHANGED <<remote, base, ahead>>
         \/ /\ c \notin rebasing
            /\ base[c] = Len(remote)
            /\ Accept(c)
            /\ Acknowledge(p)
         \/ /\ c \notin rebasing
            /\ base[c] < Len(remote)
            /\ GoTo(p, "rebase")
            /\ UNCHANGED <<remote, base, ahead>>
      /\ UNCHANGED <<index, work, rebasing, faults>>

-----------------------------------------------------------------------------
(* The rebase of a rejected push.                                          *)

\* The files both the checkout's commit i and the remote changed, apart.
Clashes(c, i) ==
  {f \in DOMAIN ahead[c][i] :
     /\ \A j \in 1..i - 1 : f \notin DOMAIN ahead[c][j]
     /\ FilesOf(remote)[f] \notin {FilesOf(Based(c))[f], ahead[c][i][f]}}

\* A commit that changes nothing any more is dropped.
Replayed(c, n) ==
  LET said(i) == \E f \in DOMAIN ahead[c][i] :
                   ahead[c][i][f] # FilesOf(remote \o SubSeq(ahead[c], 1, i - 1))[f]
      left    == {i \in 1..n : said(i)}
  IN  [k \in 1..Cardinality(left) |->
         ahead[c][CHOOSE i \in left : Cardinality({j \in left : j <= i}) = k]]

Stops(c) == {i \in DOMAIN ahead[c] : Clashes(c, i) # {}}

\* Git starts no rebase over staged or modified files, over a file it would
\* have to overwrite, or inside another rebase.
Refused(c) ==
  \/ c \in rebasing
  \/ \E f \in Path :
       \/ index[c][f] # Tip(c)[f]
       \/ work[c][f] # index[c][f] /\ (index[c][f] # Absent \/ FilesOf(remote)[f] # Absent)

\* The checkout sits on the whole remote, with the commits new on top.
Move(c, new, files) ==
  /\ base' = [base EXCEPT ![c] = Len(remote)]
  /\ ahead' = [ahead EXCEPT ![c] = new]
  /\ index' = [index EXCEPT ![c] = FilesOf(remote \o new)]
  /\ work' = [work EXCEPT ![c] = files]

\* Mutant: the commits of this run are left behind.
RebaseDropping(p) ==
  /\ pc[p] = "rebase"
  /\ Move(Home[p], <<>>, FilesOf(remote))
  /\ GoTo(p, "again")
  /\ UNCHANGED <<remote, rebasing, faults>>

Rebase(p) ==
  LET c      == Home[p]
      all    == Replayed(c, Len(ahead[c]))
      first  == CHOOSE i \in Stops(c) : \A j \in Stops(c) : i <= j
      before == Replayed(c, first - 1)
  IN  /\ pc[p] = "rebase"
      /\ \/ /\ Refused(c)
            /\ GiveUp(p)
            /\ UNCHANGED repo
         \/ /\ ~ Refused(c) /\ Stops(c) = {}
            /\ Move(c, all, [f \in Path |-> IF work[c][f] = index[c][f]
                                             THEN FilesOf(remote \o all)[f] ELSE work[c][f]])
            /\ GoTo(p, "again")
            /\ UNCHANGED rebasing
         \/ /\ ~ Refused(c) /\ Stops(c) # {}
            /\ Move(c, before, [f \in Path |-> IF f \in Clashes(c, first) THEN Markers
                                                ELSE FilesOf(remote \o before)[f]])
            /\ rebasing' = rebasing \union {c}
            /\ GiveUp(p)
      /\ UNCHANGED <<remote, faults>>

\* The second push, which is the last.
PushAgain(p) ==
  LET c == Home[p]
  IN  /\ pc[p] = "again"
      /\ \/ base[c] = Len(remote) /\ Accept(c) /\ Acknowledge(p)
         \/ base[c] < Len(remote) /\ GiveUp(p) /\ UNCHANGED <<remote, base, ahead>>
      /\ UNCHANGED <<index, work, rebasing, faults>>

-----------------------------------------------------------------------------
\* A command fails or the process dies: what was done so far stays done.
Fail(p) ==
  /\ pc[p] # "idle"
  /\ Fault(Home[p])
  /\ GiveUp(p)
  /\ UNCHANGED <<remote, repo>>

\* The remote takes the push and the answer is lost.
PushUnanswered(p) ==
  LET c == Home[p]
  IN  /\ pc[p] \in {"push", "again"}
      /\ c \notin rebasing
      /\ base[c] = Len(remote)
      /\ Fault(c)
      /\ Accept(c)
      /\ GiveUp(p)
      /\ UNCHANGED <<index, work, rebasing>>

\* A person edits a file of a kept checkout processes run in, and stages it or
\* does not.
Edit(c) ==
  /\ c \notin Disposable /\ \E p \in Process : Home[p] = c /\ at[p] # 0
  /\ Fault(c)
  /\ \E f \in Foreign, v \in Value :
       /\ work' = [work EXCEPT ![c][f] = v]
       /\ index' \in {index, [index EXCEPT ![c][f] = v]}
  /\ UNCHANGED <<remote, base, ahead, rebasing, spoilt, pc, at>>

\* A run that erred is over and its container is gone: the next one clones.
Reclone(c) ==
  /\ c \in spoilt
  /\ \A p \in Process : Home[p] = c => pc[p] = "idle"
  /\ Move(c, <<>>, FilesOf(remote))
  /\ rebasing' = rebasing \ {c}
  /\ spoilt' = spoilt \ {c}
  /\ UNCHANGED <<remote, pc, at, faults>>

Step(p) ==
  \/ Look(p) \/ Write(p) \/ Add(p) \/ Staged(p) \/ Commit(p)
  \/ Push(p) \/ Rebase(p) \/ PushAgain(p)

Done == /\ \A p \in Process : ~ Busy(p)
        /\ UNCHANGED vars

Next ==
  \/ \E p \in Process : Step(p) \/ Fail(p) \/ PushUnanswered(p)
  \/ \E c \in Clone : Reclone(c) \/ Edit(c)
  \/ Done

Spec == Init /\ [][Next]_vars

\* A process that can take a step takes one, and a run that erred is run
\* again in a fresh clone.
Fairness ==
  /\ \A p \in Process : WF_vars(Step(p))
  /\ \A c \in Clone : WF_vars(Reclone(c))

FairSpec == Spec /\ Fairness

-----------------------------------------------------------------------------
(* Properties.                                                             *)

\* Of the processes that run, only p puts records at f.
Puts(p, f) == at[p] # 0 /\ \E i \in DOMAIN Plan[p] : Plan[p][i].path = f
Owns(p, f) == Puts(p, f) /\ \A q \in Process \ {p} : ~ Puts(q, f)

\* Which of p's records a sequence of commits leaves at f; 0 for none.
Age(p, f, log) ==
  LET at_f == {i \in DOMAIN Plan[p] : Plan[p][i].path = f /\ Plan[p][i].value = FilesOf(log)[f]}
  IN  IF at_f = {} THEN 0 ELSE CHOOSE i \in at_f : \A j \in at_f : j <= i

\* A process that is run again in a fresh clone.
IsCI(p) == Home[p] \in Disposable

\* What the engine leaves to its caller: of the processes that run at once, one
\* in CI has its clone for itself, and its records too.
RunsApart == \A T \in Together : \A p, q \in T : IsCI(p) /\ q # p =>
  /\ Home[q] # Home[p]
  /\ \A i \in DOMAIN Plan[p], j \in DOMAIN Plan[q] : Plan[p][i].path # Plan[q][j].path

\* A record whose put answered a CI run outlives that run: the remote holds it,
\* or a later one of the same process.  (In a checkout that is kept it does
\* not: a put whose push failed answers when it is put again, unpushed.)
AcknowledgedIsOnRemote ==
  HasRemote =>
    \A p \in {q \in Process : IsCI(q)} : \A i \in 1..at[p] - 1 :
      LET f == Plan[p][i].path IN Owns(p, f) => Age(p, f, remote) >= i

\* No CI run's rebase stops: one run's records never clash with another's.
NobodyPicksAWinner == rebasing \cap Disposable = {}

\* A person's files never leave their checkout under the engine's name.
ForeignStaysHere ==
  \A i \in DOMAIN remote : DOMAIN remote[i] \intersect Foreign = {}

\* Every record of a CI run is put in the end, whoever raced whom to the remote.
EveryPlanEnds == <>[](\A p \in Process : IsCI(p) => ~ Busy(p))
=============================================================================
