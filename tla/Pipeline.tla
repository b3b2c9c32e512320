------------------------------ MODULE Pipeline ------------------------------
(***************************************************************************)
(* What a pipeline file declares, what pkg/config/config.go refuses of it, *)
(* and what an apply then looks up in it.                                  *)
(*                                                                         *)
(* Validate and the lookups are written apart and read the file            *)
(* differently: Validate asks that names are declared, the apply indexes   *)
(* them (reconcilecontroller/index.go; the last of a name wins), skips a   *)
(* target it does not know, holds a substage whose need did not advance,   *)
(* and finds the stage of a job by its name.  A person edits the file.     *)
(*                                                                         *)
(* Left out: the spelling of names and URIs, versioning, and the engines'  *)
(* specs but for the repos an artifact engine ignores.  Targets pass: what *)
(* a failed one does is ApplyLoop's.                                       *)
(***************************************************************************)
EXTENDS Integers, Sequences, Waves

CONSTANTS
  Written,      \* the file as it is first written
  RepoName,     \* the names an edit may write: of repos,
  EngineName,   \* ... of engines,
  TargetName,   \* ... of targets,
  StageName,    \* ... of stages and substages
  MaxEdits      \* bound on the edits between two applies

\* The structs of config.go: what the parser makes of a file, right or wrong.
RepoDef   == [name : STRING, needs : SUBSET STRING]
EngineDef == [name : STRING, port : STRING, manager : STRING, ignored : SUBSET STRING]
TargetDef == [name : STRING, in : Seq(STRING)]
SubDef    == [name : STRING, engine : STRING, targets : Seq(STRING), gates : SUBSET STRING,
              needs : SUBSET STRING, uses : SUBSET (STRING \X STRING), sync : BOOLEAN]
StageDef  == [name : STRING, promotion : STRING, subs : Seq(SubDef)]
Files ==
  [repos : Seq(RepoDef), managers : Seq([name : STRING]), engines : Seq(EngineDef), state : STRING,
   triggers : SUBSET STRING, targets : Seq(TargetDef), stages : Seq(StageDef)]

ASSUME FileAssumption ==
  /\ Written \in Files
  /\ \A names \in {RepoName, EngineName, TargetName, StageName} : names \subseteq STRING
  /\ MaxEdits \in Nat

VARIABLES
  file,     \* the file
  edits,    \* how often it was edited
  cut,      \* how it is applied: whole, or a job per stage or per substage
  state,    \* "edited", "running", "refused", "failed" or "done"
  place,    \* the stage of the walk
  round,    \* its next wave
  ran       \* what ran, in order

fileVars == <<file, edits, cut, state, place, round, ran>>

NamesIn(list) == {list[i].name : i \in DOMAIN list}
OneEach(list) == \A i, j \in DOMAIN list : list[i].name = list[j].name => i = j

First(list, n) == CHOOSE i \in DOMAIN list :
                    list[i].name = n /\ \A j \in 1..(i - 1) : list[j].name # n
Final(list, n) == CHOOSE i \in DOMAIN list :
                    list[i].name = n /\ \A j \in (i + 1)..Len(list) : list[j].name # n

\* The names of a list, and what each of them needs: of several entries of a
\* name, the last that needs something counts.
NameList(list) == [i \in DOMAIN list |-> list[i].name]
NeedsIn(list)  == [n \in NamesIn(list) |->
  LET needy == {i \in DOMAIN list : list[i].name = n /\ list[i].needs # {}}
  IN  IF needy = {} THEN {} ELSE list[CHOOSE i \in needy : \A j \in needy : j <= i].needs]
Ordered(list)  == ~Stuck(NameList(list), NeedsIn(list))

-----------------------------------------------------------------------------
(* Validate.                                                               *)

ReposHold(f) ==
  /\ OneEach(f.repos)
  /\ \A i \in DOMAIN f.repos : f.repos[i].needs \subseteq NamesIn(f.repos) \ {f.repos[i].name}
  /\ Ordered(f.repos)

ManagersHold(f) ==
  /\ OneEach(f.managers)
  /\ \A m \in NamesIn(f.managers) : \E i \in DOMAIN f.engines : f.engines[i].manager = m

EnginesHold(f) ==
  /\ f.engines # <<>>
  /\ OneEach(f.engines)
  /\ \A i \in DOMAIN f.engines : LET named == f.engines[i] IN
       /\ named.manager \in NamesIn(f.managers)
       /\ named.port = "artifact" => named.ignored \subseteq NamesIn(f.repos)

\* requirePort, and the index's require after it.
HasPort(f, n, port) ==
  n \in NamesIn(f.engines) /\ f.engines[Final(f.engines, n)].port = port

TargetsHold(f) ==
  /\ OneEach(f.targets)
  /\ \A i \in DOMAIN f.targets : Names(f.targets[i].in) \subseteq NamesIn(f.repos)

\* Mutant: a substage may need itself.
SubHoldsSelf(f, stage, sub) ==
  /\ IF HasPort(f, sub.engine, "artifact") THEN sub.targets = <<>>
     ELSE HasPort(f, sub.engine, "compute") /\ sub.targets # <<>>
  /\ Names(sub.targets) \subseteq NamesIn(f.targets)
  /\ \A g \in sub.gates : HasPort(f, g, "gate")
  /\ sub.needs \subseteq NamesIn(stage.subs)
SubHolds(f, stage, sub) ==
  /\ IF HasPort(f, sub.engine, "artifact") THEN sub.targets = <<>>
     ELSE HasPort(f, sub.engine, "compute") /\ sub.targets # <<>>
  /\ Names(sub.targets) \subseteq NamesIn(f.targets)
  /\ \A g \in sub.gates : HasPort(f, g, "gate")
  /\ sub.needs \subseteq NamesIn(stage.subs) \ {sub.name}

\* A use names a substage of a stage in front of stage i.
UseHolds(f, i, u) ==
  /\ \E l \in 1..(i - 1) : f.stages[l].name = u[1]
  /\ u[2] \in NamesIn(f.stages[First(f.stages, u[1])].subs)

StageHolds(f, i) ==
  LET stage == f.stages[i] IN
  /\ stage.promotion = "" \/ HasPort(f, stage.promotion, "promotion")
  /\ stage.subs # <<>>
  /\ OneEach(stage.subs)
  /\ \A j \in DOMAIN stage.subs :
       SubHolds(f, stage, stage.subs[j]) /\ \A u \in stage.subs[j].uses : UseHolds(f, i, u)
  /\ Ordered(stage.subs)

\* More than one repo: some substage converges the workspace.
Converges(f) ==
  Len(f.repos) > 1 => \E i \in DOMAIN f.stages : \E j \in DOMAIN f.stages[i].subs :
                        f.stages[i].subs[j].sync

Validate(f) ==
  /\ ReposHold(f) /\ ManagersHold(f) /\ EnginesHold(f) /\ TargetsHold(f)
  /\ HasPort(f, f.state, "state")
  /\ \A t \in f.triggers : HasPort(f, t, "trigger")
  /\ f.stages # <<>>
  /\ OneEach(f.stages)
  /\ \A i \in DOMAIN f.stages : StageHolds(f, i)
  /\ Converges(f)

-----------------------------------------------------------------------------
(* The lookups of an apply.                                                *)

\* The stage a place of the walk means: the place itself in a whole apply, the
\* last stage of the name in a job that was told --stage.
StageAt(k) == IF cut = "whole" THEN k ELSE Final(file.stages, file.stages[k].name)
SubsAt(k)  == file.stages[StageAt(k)].subs

\* The waves of a stage; one of all its substages when none needs any.
SubWaves(subs) ==
  IF \A j \in DOMAIN subs : subs[j].needs = {} THEN <<NameList(subs)>>
  ELSE WavesOf(NameList(subs), NeedsIn(subs))

\* The directories of a substage's targets; one nobody declared is skipped.
TargetsOf(sub) ==
  LET known == Those(sub.targets, NamesIn(file.targets))
  IN  [i \in DOMAIN known |-> file.targets[Final(file.targets, known[i])].in]

\* What a stage's substages declared they read; everything if one declared nothing.
ReadsAll(subs) == \E j \in DOMAIN subs : subs[j].uses = {}
UsesOf(subs)   == UNION {subs[j].uses : j \in DOMAIN subs}

\* A whole apply brings files back for a stage that publishes alone: it has
\* the rest where it built them.
Carries(k) == IF cut = "whole" THEN \E j \in DOMAIN SubsAt(k) : HasPort(file, SubsAt(k)[j].engine, "artifact")
              ELSE StageAt(k) > 1
InFront(k) == IF cut = "whole" THEN First(file.stages, file.stages[k].name) - 1 ELSE StageAt(k) - 1

\* A run record is kept by the names of its stage and substage.
Records == {<<ran[i].stage, ran[i].name>> : i \in DOMAIN ran}
Carried(k) ==
  LET earlier == UNION {{file.stages[i].name} \X NamesIn(file.stages[i].subs) : i \in 1..InFront(k)}
  IN  IF ~Carries(k) THEN {}
      ELSE {r \in Records \cap earlier : ReadsAll(SubsAt(k)) \/ r \in UsesOf(SubsAt(k))}

\* What ran in this stage has advanced.  A substage whose need did not is held.
Advanced(k)    == {ran[i].name : i \in {i \in DOMAIN ran : ran[i].at[1] = StageAt(k)}}
IsHeld(k, sub) == ~(sub.needs \subseteq Advanced(k))

\* What is known of the directories of a target, and of what they need.
Ordering(in) ==
  [d \in Names(in) |-> IF d \in NamesIn(file.repos) THEN NeedsIn(file.repos)[d] ELSE {}]

\* What a substage looks up; a compute engine orders each target's directories.
Resolves(sub) ==
  /\ HasPort(file, sub.engine, "artifact") \/ HasPort(file, sub.engine, "compute")
  /\ \A i \in DOMAIN TargetsOf(sub) : ~Stuck(TargetsOf(sub)[i], Ordering(TargetsOf(sub)[i]))
  /\ \A g \in sub.gates : HasPort(file, g, "gate")

-----------------------------------------------------------------------------
FileInit ==
  /\ file = Written /\ edits = 0
  /\ cut = "whole" /\ state = "edited" /\ place = 1 /\ round = 1 /\ ran = <<>>

\* A person changes one field of an entry, or drops an entry.
Dropped(list) ==
  {[k \in 1..(Len(list) - 1) |-> list[IF k < i THEN k ELSE k + 1]] : i \in DOMAIN list}

EditRepos ==
     {[file EXCEPT !.repos[i].name = n] : i \in DOMAIN file.repos, n \in RepoName}
  \cup {[file EXCEPT !.repos[i].needs = n] : i \in DOMAIN file.repos, n \in SUBSET RepoName}
  \cup {[file EXCEPT !.repos = l] : l \in Dropped(file.repos)}

EditEngines ==
     {[file EXCEPT !.engines[i].name = n] : i \in DOMAIN file.engines, n \in EngineName}
  \cup {[file EXCEPT !.engines[i].port = file.engines[j].port] : i, j \in DOMAIN file.engines}
  \cup {[file EXCEPT !.engines[i].ignored = {n}] : i \in DOMAIN file.engines, n \in RepoName}
  \cup {[file EXCEPT !.engines = l] : l \in Dropped(file.engines)}
  \cup {[file EXCEPT !.managers = l] : l \in Dropped(file.managers)}
  \cup {[file EXCEPT !.state = n] : n \in EngineName}
  \cup {[file EXCEPT !.triggers = {n}] : n \in EngineName}

EditTargets ==
     {[file EXCEPT !.targets[i].name = n] : i \in DOMAIN file.targets, n \in TargetName}
  \cup {[file EXCEPT !.targets[i].in = <<n>>] : i \in DOMAIN file.targets, n \in RepoName}
  \cup {[file EXCEPT !.targets = l] : l \in Dropped(file.targets)}

EditStage(i) ==
     {[file EXCEPT !.stages[i].name = n] : n \in StageName}
  \cup {[file EXCEPT !.stages[i].promotion = n] : n \in EngineName}
  \cup {[file EXCEPT !.stages[i].subs = l] : l \in Dropped(file.stages[i].subs)}

EditSub(i, j) ==
     {[file EXCEPT !.stages[i].subs[j].name = n] : n \in StageName}
  \cup {[file EXCEPT !.stages[i].subs[j].engine = n] : n \in EngineName}
  \cup {[file EXCEPT !.stages[i].subs[j].gates = {n}] : n \in EngineName}
  \cup {[file EXCEPT !.stages[i].subs[j].targets = l] : l \in {<<>>} \cup {<<t>> : t \in TargetName}}
  \cup {[file EXCEPT !.stages[i].subs[j].needs = l] : l \in {{}} \cup {{n} : n \in StageName}}
  \cup {[file EXCEPT !.stages[i].subs[j].uses = {u}] : u \in StageName \X StageName}
  \cup {[file EXCEPT !.stages[i].subs[j].sync = ~@]}

Edited ==
  EditRepos \cup EditEngines \cup EditTargets
  \cup {[file EXCEPT !.stages = l] : l \in Dropped(file.stages)}
  \cup UNION {EditStage(i) \cup UNION {EditSub(i, j) : j \in DOMAIN file.stages[i].subs}
              : i \in DOMAIN file.stages}

Edit ==
  /\ state = "edited" /\ edits < MaxEdits
  /\ file' \in Edited \ {file}
  /\ edits' = edits + 1
  /\ UNCHANGED <<cut, state, place, round, ran>>

\* Parse; an apply reconciles every engine's resources through its manager and
\* reads records from the state engine before anything runs, and a poll asks
\* the triggers.
LookupsResolve ==
  /\ \A i \in DOMAIN file.engines : file.engines[i].manager \in NamesIn(file.managers)
  /\ HasPort(file, file.state, "state")
  /\ \A t \in file.triggers : HasPort(file, t, "trigger")

Load ==
  /\ state = "edited"
  /\ IF ~Validate(file) THEN state' = "refused" /\ UNCHANGED cut
     ELSE /\ state' = IF LookupsResolve THEN "running" ELSE "failed"
          /\ cut' \in {"whole", "stage", "substage"}
  /\ UNCHANGED <<file, edits, place, round, ran>>

\* The run record of the j-th substage of the stage.
Record(j) ==
  LET sub == SubsAt(place)[j] IN
  [at |-> <<StageAt(place), j>>, stage |-> file.stages[StageAt(place)].name, name |-> sub.name,
   targets |-> TargetsOf(sub), carried |-> Carried(place)]

\* These run next to one another and are recorded.
RunThese(go) ==
  IF \A i \in DOMAIN go : Resolves(SubsAt(place)[go[i]])
    THEN ran' = ran \o [i \in DOMAIN go |-> Record(go[i])] /\ UNCHANGED state
    ELSE state' = "failed" /\ UNCHANGED ran

\* The next wave of a stage: who is not held.
RunWave ==
  /\ state = "running" /\ cut # "substage" /\ round <= Len(SubWaves(SubsAt(place)))
  /\ LET subs  == SubsAt(place)
         names == SubWaves(subs)[round]
         picks == [i \in DOMAIN names |-> Final(subs, names[i])]
     IN  RunThese(Those(picks, {j \in DOMAIN subs : ~IsHeld(place, subs[j])}))
  /\ round' = round + 1
  /\ UNCHANGED <<file, edits, cut, place>>

\* The job of one substage, after the jobs of those it needs.
RunJob ==
  /\ state = "running" /\ cut = "substage"
  /\ \E n \in NamesIn(SubsAt(place)) \ Advanced(place) :
       LET j == First(SubsAt(place), n)
       IN  SubsAt(place)[j].needs \subseteq Advanced(place) /\ RunThese(<<j>>)
  /\ UNCHANGED <<file, edits, cut, place, round>>

StageIsOver ==
  IF cut = "substage" THEN NamesIn(SubsAt(place)) \subseteq Advanced(place)
                      ELSE round > Len(SubWaves(SubsAt(place)))

\* The stage is over: its promotion is asked, with every substage's record, and
\* the walk goes on to the next one.  After the last job of a substage nobody asks.
Promote ==
  /\ state = "running" /\ StageIsOver
  /\ LET stage == file.stages[StageAt(place)] IN
       IF \/ cut = "substage" /\ place = Len(file.stages)
          \/ /\ stage.promotion = "" \/ HasPort(file, stage.promotion, "promotion")
             /\ {stage.name} \X NamesIn(stage.subs) \subseteq Records
       THEN IF place < Len(file.stages)
            THEN place' = place + 1 /\ round' = 1 /\ UNCHANGED state
            ELSE state' = "done" /\ UNCHANGED <<place, round>>
       ELSE state' = "failed" /\ UNCHANGED <<place, round>>
  /\ UNCHANGED <<file, edits, cut, ran>>

FileNext == Edit \/ Load \/ RunWave \/ RunJob \/ Promote

FileSpec == FileInit /\ [][FileNext]_fileVars

-----------------------------------------------------------------------------
(* Properties.                                                             *)

RunRecord ==
  [at : (Nat \ {0}) \X (Nat \ {0}), stage : STRING, name : STRING, targets : Seq(Seq(STRING)),
   carried : SUBSET (STRING \X STRING)]

FileTypeOK ==
  /\ file \in Files /\ edits \in 0..MaxEdits
  /\ cut \in {"whole", "stage", "substage"}
  /\ state \in {"edited", "running", "refused", "failed", "done"}
  /\ place \in Nat \ {0} /\ round \in Nat \ {0}
  /\ ran \in Seq(RunRecord)

Subs == UNION {{i} \X DOMAIN file.stages[i].subs : i \in DOMAIN file.stages}
Sub(p) == file.stages[p[1]].subs[p[2]]
RunOf(p) == {i \in DOMAIN ran : ran[i].at = p}

\* What a substage reads of the stages in front: what it uses, or all of them.
WantedBy(p) == IF Sub(p).uses # {} THEN Sub(p).uses
               ELSE {<<file.stages[q[1]].name, Sub(q).name>> : q \in {q \in Subs : q[1] < p[1]}}

\* One run of substage p, and it was the run the file asks for: after the
\* substages it needs and the stages in front, with every target it names in
\* every directory the target names, and with the files of every substage it
\* uses brought to it.
RanAsDeclared(p) ==
  /\ \E i \in DOMAIN ran :
       /\ RunOf(p) = {i}
       /\ \A q \in Subs :
            q[1] < p[1] \/ (q[1] = p[1] /\ Sub(q).name \in Sub(p).needs)
              => \E h \in 1..(i - 1) : ran[h].at = q
       /\ Len(ran[i].targets) = Len(Sub(p).targets)
       /\ \A t \in DOMAIN ran[i].targets :
            /\ Names(ran[i].targets[t]) \subseteq NamesIn(file.repos)
            /\ \E d \in DOMAIN file.targets :
                 file.targets[d].name = Sub(p).targets[t] /\ file.targets[d].in = ran[i].targets[t]
       /\ Carries(p[1]) => WantedBy(p) \subseteq ran[i].carried

\* Whatever a person wrote, a file that is accepted is run as it reads: no
\* lookup fails in the middle of an apply, no substage waits for ever, and none
\* is left out (config.Validate stands for the lookups that skip).
NothingIsSkipped ==
  /\ state # "failed"
  /\ state = "done" => \A p \in Subs : RanAsDeclared(p)
=============================================================================
