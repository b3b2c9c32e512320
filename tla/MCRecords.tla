----------------------------- MODULE MCRecords ------------------------------
(* What is recorded, from three sides: plans of puts, one apply after      *)
(* another, and one release job after another.  A behaviour is one of      *)
(* StateStore, of ApplyLoop or of Release, as its first state says.        *)
EXTENDS StateStore, TLC

CONSTANTS c1, c2, k1, k2, p1, p2, q1, q2, q3, r1, r2, build, test, ship

VARIABLES part,
  head, approved, evaluated, minted, runs, kept, applying, verb, rev, stage,
  asked, view, everGreen, advanced, hitches,
  tip, tags, published, byRev, byTag, decided, ran, releasing, how, of, local,
  decision, unread, pending, found, told, crashes

(* Two CI runs at once; or two processes in a kept checkout a person works *)
(* in too, and a third in another one.                                     *)

\* A run record that passed after it failed, a mint, and a record put once.
Ran(f)    == <<[path |-> f, value |-> "failed", checked |-> FALSE],
               [path |-> f, value |-> "passed", checked |-> FALSE]>>
Minted(f) == <<[path |-> f, value |-> "passed", checked |-> TRUE]>>
Kept(f)   == <<[path |-> f, value |-> "passed", checked |-> FALSE]>>

Homes  == p1 :> c1 @@ p2 :> c2 @@ q1 :> k1 @@ q2 :> k1 @@ q3 :> k2
Plans  == p1 :> Ran("run") \o Minted("revision") @@ p2 :> Ran("other")
            @@ q1 :> Kept("run") @@ q2 :> Ran("other") @@ q3 :> <<Ran("run")[1]>>
Scenes == {{}, {p1, p2}, {q1, q2, q3}}
Bounds == c1 :> 2 @@ c2 :> 1 @@ k1 :> 1 @@ k2 :> 0

ASSUME EachHasItsOwn == RunsApart

(* Two stages.  In the first, test waits for build and for a person; the   *)
(* second publishes.                                                       *)
Loop == INSTANCE ApplyLoop WITH
  Proc <- {p1}, Rev <- {r1, r2}, Sub <- {build, test, ship}, LastStage <- 2,
  StageOf <- build :> 1 @@ test :> 1 @@ ship :> 2,
  Needs <- build :> {} @@ test :> {build} @@ ship :> {},
  Gated <- {test}, Builds <- {build}, Publishes <- {ship},
  Threshold <- <<100, 100>>, Verbs <- {"apply"}, Decisions <- {"proceed"}, MaxFaults <- 3,
  pc <- applying, faults <- hitches

(* Two repos, in a checkout that is kept.  The second revision moves the   *)
(* first repo and builds the bytes of the first revision; the third moves  *)
(* nothing the release tags.                                               *)
Line == INSTANCE Release WITH
  Proc <- {p1}, LastRepo <- 2, Home <- 1, LastRev <- 3,
  Pin <- <<(<<1, 1>>), <<2, 1>>, <<2, 1>> >>, Tree <- <<"one", "two", "two">>,
  Ships <- <<"old", "old", "new">>, Releasing <- {1, 2} \X {1, 2},
  Semantic <- TRUE, Ignoring <- FALSE, Fresh <- FALSE,
  Verbs <- {"evaluate", "stages"}, LastVersion <- 6, MaxFaults <- 2,
  head <- tip, evaluated <- decided, pc <- releasing, verb <- how, rev <- of,
  index <- told, faults <- crashes

loopVars == <<head, approved, evaluated, minted, runs, kept, applying, verb, rev, stage,
              asked, view, everGreen, advanced, hitches>>
lineVars == <<tip, tags, published, byRev, byTag, decided, ran, releasing, how, of, local,
              decision, unread, pending, found, told, crashes>>
allVars  == <<part, vars, loopVars, lineVars>>

Stores(A)    == part = "put" /\ A /\ UNCHANGED <<part, loopVars, lineVars>>
Applies(A)  == part = "apply" /\ A /\ UNCHANGED <<part, vars, lineVars>>
Releases(A) == part = "release" /\ A /\ UNCHANGED <<part, vars, loopVars>>

\* What a behaviour is not about stands where it starts.
MCInit == /\ Init /\ Loop!Init /\ Line!Init
          /\ part \in {"put", "apply", "release"}
          /\ part # "put" <=> \A p \in Process : ~ Busy(p)
          /\ part # "apply" => head = r1

MCNext == \/ Stores(Next)
          \/ Applies(Loop!Next)
          \/ Releases(Line!Next)

\* The fairness of the three.
MCSpec ==
  /\ MCInit /\ [][MCNext]_allVars
  /\ \A p \in {p1, p2} : WF_allVars(Stores(Step(p)))
  /\ \A c \in {c1, c2} : WF_allVars(Stores(Reclone(c)))
  /\ WF_allVars(Applies(Loop!Proceed(p1)))
  /\ WF_allVars(Applies(Loop!StartApply(p1)))
  /\ WF_allVars(Applies(Loop!Approve))
  /\ WF_allVars(Releases(Line!Proceed(p1)))
  /\ \A r \in 1 .. 3 : SF_allVars(Releases(r \notin ran /\ Line!StartStages(p1, r)))

TypesHold == TypeOK /\ Loop!TypeOK /\ Line!TypeOK

GreenStays           == Loop!GreenStays
EventuallyGreen      == part = "apply" => Loop!EventuallyGreen
OneNumberPerRevision == Line!OneNumberPerRevision
OwnReleaseConverges  == Line!OwnReleaseConverges
DecisionsAreCarriedOut == Line!DecisionsAreCarriedOut
=============================================================================
