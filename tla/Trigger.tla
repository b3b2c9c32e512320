------------------------------ MODULE Trigger -------------------------------
(***************************************************************************)
(* forge-ci poll: did anything move?  Poll asks each trigger of the        *)
(* pipeline with the fingerprint it recorded, records what the trigger     *)
(* answers and combines the answers (reconcilecontroller/verbs.go); the    *)
(* watch trigger measures the repos of its list, one git command after     *)
(* another (internal/controller/triggercontroller).                        *)
(*                                                                         *)
(* People commit and edit, the factory writes its generated files again,   *)
(* and another poll may run, between any two of those commands.  The files *)
(* the factory's manifest names are left out of a measurement.  The record *)
(* is that of the poller's checkout, which StateStore.tla looks into: here *)
(* a put may err with the record written.                                  *)
(***************************************************************************)
EXTENDS Integers, Sequences

CONSTANTS
  Scenes,     \* the pollers that poll at once, the repos whose files are generated
              \* again meanwhile, with bounds on what people do and on the polls
              \* that err or die: [pollers, again, moves, faults]
  Triggers,   \* the triggers of the pipeline, in order
  Watch,      \* the repos a trigger watches, in order
  Repo,       \* the repos
  Generates   \* those the factory generates files in

VARIABLES
  scene,      \* which of the scenes this is
  head,       \* the commit a repo is at
  edits,      \* what its worktree holds on top of it: an edit's number, 0 if nothing
  generated,  \* and which of two forms its generated files have
  moves,      \* what people did so far
  recorded,   \* the fingerprint a trigger's record holds
  pc, at,     \* where a poll stands, and the trigger it is at
  previous,   \* the fingerprint it passed to that trigger
  parts,      \* what the trigger measured so far: a head and a worktree each
  changed,    \* combined.Changed
  answer,     \* what the poller's last poll answered
  written,    \* the fingerprints the poll under way put where there was another
  told,       \* those of the polls that answered a change, or erred
  faults

world == <<head, edits, generated, moves>>
poll  == <<pc, at, previous, parts, changed, written>>
vars  == <<scene, world, recorded, poll, answer, told, faults>>

Poller == scene.pollers
NoFingerprint == <<>>
Trig(p)  == Triggers[at[p]]
Dir(p)   == Watch[Trig(p)][(Len(parts[p]) + 2) \div 2]
Measured(p) == pc[p] = "look" /\ Len(parts[p]) = 2 * Len(Watch[Trig(p)])

\* Mutant: the generated files are measured too.
WorktreeOfAll(r) == IF r \in Generates THEN <<edits[r], generated[r]>> ELSE edits[r]
Worktree(r) == edits[r]

\* What a trigger would measure if nothing moved meanwhile.
Part(r, i) == IF i % 2 = 1 THEN head[r] ELSE Worktree(r)
Now(t) == [i \in 1 .. 2 * Len(Watch[t]) |-> Part(Watch[t][(i + 1) \div 2], i)]

Init ==
  /\ scene \in Scenes
  /\ head = [r \in Repo |-> 1] /\ edits = [r \in Repo |-> 0]
  /\ generated = [r \in Generates |-> 0] /\ moves = 0
  /\ recorded = [t \in DOMAIN Watch |-> NoFingerprint]
  /\ pc = [p \in Poller |-> "idle"] /\ at = [p \in Poller |-> 1]
  /\ previous = [p \in Poller |-> NoFingerprint] /\ parts = [p \in Poller |-> <<>>]
  /\ changed = [p \in Poller |-> FALSE] /\ answer = [p \in Poller |-> "none"]
  /\ written = [p \in Poller |-> {}] /\ told = {}
  /\ faults = 0

-----------------------------------------------------------------------------
(* Around the poll.                                                        *)

Moves == moves < scene.moves /\ moves' = moves + 1
             /\ UNCHANGED <<scene, generated, recorded, poll, answer, told, faults>>

Commit(r) == /\ head' = [head EXCEPT ![r] = @ + 1]
             /\ edits' = [edits EXCEPT ![r] = 0]
             /\ Moves

Edit(r) == edits' = [edits EXCEPT ![r] = moves + 1] /\ Moves /\ UNCHANGED head

Generate(r) ==
  /\ r \in scene.again
  /\ generated' = [generated EXCEPT ![r] = 1 - @]
  /\ UNCHANGED <<scene, head, edits, moves, recorded, poll, answer, told, faults>>

-----------------------------------------------------------------------------
(* One poll.                                                               *)

ReadFingerprint(p) ==
  /\ pc[p] \in {"idle", "read"}
  /\ previous' = [previous EXCEPT ![p] = recorded[Trig(p)]]
  /\ pc' = [pc EXCEPT ![p] = "look"]
  /\ UNCHANGED <<scene, world, recorded, at, parts, changed, answer, written, told, faults>>

\* HeadSHA, then WorktreeHash, of one repo after another.
Look(p) ==
  /\ pc[p] = "look" /\ ~Measured(p)
  /\ parts' = [parts EXCEPT ![p] = Append(@, Part(Dir(p), Len(@) + 1))]
  /\ UNCHANGED <<scene, world, recorded, pc, at, previous, changed, answer, written, told, faults>>

\* Mutant: the last trigger decides.
CombineLast(p, moved) == changed' = [changed EXCEPT ![p] = moved]
Combine(p, moved) == changed' = [changed EXCEPT ![p] = @ \/ moved]

Put(p) == /\ recorded' = [recorded EXCEPT ![Trig(p)] = parts[p]]
          /\ written' = [written EXCEPT ![p] =
                           IF previous[p] = parts[p] THEN @ ELSE @ \cup {<<Trig(p), parts[p]>>}]

\* The fingerprint is put, whatever the trigger answers; then the answers are
\* combined.
WriteFingerprint(p) ==
  /\ Measured(p)
  /\ Put(p)
  /\ Combine(p, previous[p] # parts[p])
  /\ parts' = [parts EXCEPT ![p] = <<>>]
  /\ previous' = [previous EXCEPT ![p] = NoFingerprint]
  /\ IF at[p] < Len(Triggers)
       THEN at' = [at EXCEPT ![p] = @ + 1] /\ pc' = [pc EXCEPT ![p] = "read"]
       ELSE pc' = [pc EXCEPT ![p] = "answer"] /\ UNCHANGED at
  /\ UNCHANGED <<scene, world, answer, told, faults>>

End(p, said, wrote) ==
  /\ pc' = [pc EXCEPT ![p] = "idle"]
  /\ answer' = [answer EXCEPT ![p] = said]
  /\ told' = IF said = "unchanged" THEN told ELSE told \cup wrote
  /\ written' = [written EXCEPT ![p] = {}]
  /\ at' = [at EXCEPT ![p] = 1]
  /\ previous' = [previous EXCEPT ![p] = NoFingerprint]
  /\ parts' = [parts EXCEPT ![p] = <<>>]
  /\ changed' = [changed EXCEPT ![p] = FALSE]

Answer(p) ==
  /\ pc[p] = "answer"
  /\ End(p, IF changed[p] THEN "changed" ELSE "unchanged", written[p])
  /\ UNCHANGED <<scene, world, recorded, faults>>

\* A call errs or the process dies: the answers of the triggers before go with
\* it.  A put whose push failed has written the record.
Fail(p) ==
  /\ pc[p] # "idle" /\ faults < scene.faults /\ faults' = faults + 1
  /\ \/ End(p, "error", written[p]) /\ UNCHANGED recorded
     \/ /\ Measured(p)
        /\ recorded' = [recorded EXCEPT ![Trig(p)] = parts[p]]
        /\ End(p, "error", written[p] \cup {<<Trig(p), parts[p]>>})
  /\ UNCHANGED <<scene, world>>

Step(p) == ReadFingerprint(p) \/ Look(p) \/ WriteFingerprint(p) \/ Answer(p)

Next ==
  \/ \E r \in Repo : Commit(r) \/ Edit(r)
  \/ \E r \in Generates : Generate(r)
  \/ \E p \in Poller : Step(p) \/ Fail(p)

TypeOK ==
  /\ head \in [Repo -> 1 .. scene.moves + 1] /\ edits \in [Repo -> 0 .. scene.moves]
  /\ generated \in [Generates -> 0 .. 1]
  /\ pc \in [Poller -> {"idle", "read", "look", "answer"}]
  /\ at \in [Poller -> DOMAIN Triggers]
  /\ \A p \in Poller : Len(parts[p]) <= 2 * Len(Watch[Trig(p)])
  /\ changed \in [Poller -> BOOLEAN]
  /\ answer \in [Poller -> {"none", "unchanged", "changed", "error"}]

\* A poller polls again and again.
FairSpec == Init /\ [][Next]_vars /\ \A p \in UNION {x.pollers : x \in Scenes} : WF_vars(p \in Poller /\ Step(p))

\* What the repos come to is told: when people stop, each trigger has measured
\* where they stopped, and a poll said so, or erred, over whichever trigger and
\* whatever measurement was torn on the way ("Asks the triggers whether anything
\* moved", architecture.md:25).
WhatMovedIsTold == <>[](\A i \in DOMAIN Triggers : <<Triggers[i], Now(Triggers[i])>> \in told)

\* Nobody is called out for the factory's own files: when people stop, so do the
\* polls that say that something moved, however often the files are generated
\* again ("a poll fires for churn an apply will not see", triggercontroller.go:132).
PollsComeToRest == <>[](\A p \in Poller : answer[p] # "changed")
=============================================================================
