--------------------------- MODULE ComputeEngines ---------------------------
(***************************************************************************)
(* The two compute engines of a pipeline side by side: the local one in    *)
(* the checkouts of this machine, the remote one on GitHub.  A substage    *)
(* names the engine it runs in; both read what there is to do off the same *)
(* schedule, and share nothing else.                                       *)
(***************************************************************************)
EXTENDS LocalCompute

CONSTANTS Attempts, Askings, Polls, Page, Reaped   \* see RemoteCompute

VARIABLES asked, pc, turn, found, verdict, created, status, wave, done, listed

ASSUME RemoteAssumption ==
  /\ Attempts \in Nat /\ Polls \in Nat /\ Page \in Nat /\ Reaped \in BOOLEAN
  /\ Askings \subseteq SUBSET (Substage \X (1..Attempts))

Remote == INSTANCE RemoteCompute WITH answer <- verdict, at <- wave, exit <- done

remoteVars  == <<asked, pc, turn, found, verdict, created, status, wave, done, listed>>
enginesVars == <<vars, remoteVars>>

EnginesInit == Init /\ Remote!Init

EnginesNext == \/ Next /\ UNCHANGED remoteVars
               \/ Remote!Next /\ UNCHANGED vars

EnginesSpec == EnginesInit /\ [][EnginesNext]_enginesVars

EnginesTypeOK == TypeOK /\ Remote!TypeOK

\* What RemoteCompute says of these, the run under way and the one before it.
EveryCallAnswers  == Remote!EveryCallAnswers
AnswersAreItsOwn  == Remote!AnswersAreItsOwn
WavesDoNotOverlap == Remote!WavesDoNotOverlap
FailureIsSeen     == Remote!FailureIsSeen
=============================================================================
