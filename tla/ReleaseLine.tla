----------------------------- MODULE ReleaseLine ----------------------------
(***************************************************************************)
(* Which version comes next.  Commit subjects are scored against the       *)
(* team's vocabulary, the highest level since the last tag moves that      *)
(* version, and a cap clamps the move                                      *)
(* (internal/controller/artifactcontroller/version.go, bumpLevel and       *)
(* decideRelease of reconcilecontroller, LatestTag of gitadapter).         *)
(*                                                                         *)
(* Release is about who publishes a number; this module is about which     *)
(* number it is, as history grows, between a decision and its tag as well. *)
(***************************************************************************)
EXTENDS Integers, Sequences, FiniteSets

CONSTANTS
  Subject,     \* the subjects commits may carry
  Contains,    \* the tokens a subject contains
  IsSelf,      \* the subjects that start with the self reconcile prefix
  Width,       \* the length of a token
  Vocabulary,  \* the lists of tokens, by level: ignore, patch, minor, major
  Policies,    \* the strategies, caps and words for the unmatched to look at
  FirstTag,    \* the version the line starts from
  ByHand,      \* the versions an operator may release by hand
  LastCommit   \* bound on the history

None == 0  Patch == 1  Minor == 2  Major == 3

Version == [major : Nat, minor : Nat, patch : Nat, pre : Nat]

VARIABLES
  policy,    \* the versioning of this pipeline
  history,   \* the subjects of the commits, oldest first
  tags,      \* the version tags: to the commit each is at
  released,  \* those of them the pipeline recorded
  decided    \* the decision under way: a version and the commit it is for

vars == <<policy, history, tags, released, decided>>

NoVersion  == [major |-> -1, minor |-> -1, patch |-> -1, pre |-> 0]
NoDecision == [version |-> NoVersion, at |-> 0]
V(x, y, z) == [major |-> x, minor |-> y, patch |-> z, pre |-> 0]

-----------------------------------------------------------------------------
\* Scoring one subject: the longest token wins, a tie goes to the list that
\* is looked at first, and what no list claims is forge-ci's own or unmatched.
Claims(s) == {c \in (None .. Major) \X UNION {Vocabulary[l] : l \in None .. Major} :
                c[2] \in Vocabulary[c[1]] /\ c[2] \in Contains[s]}
Longest(C) == {c \in C : \A d \in C : Width[d[2]] <= Width[c[2]]}
LevelOf(word) == CASE word = "major" -> Major [] word = "minor" -> Minor
                   [] word = "patch" -> Patch [] OTHER -> None
Unclaimed(s) == Claims(s) = {} /\ ~IsSelf[s]

\* Mutant: the first list that claims a subject wins, whatever its token.
ClassifyFirst(s, unmatched) ==
  IF Claims(s) # {} THEN CHOOSE l \in None .. Major :
       (\E c \in Claims(s) : c[1] = l) /\ \A c \in Claims(s) : l <= c[1]
  ELSE IF IsSelf[s] \/ unmatched = "" THEN Patch ELSE LevelOf(unmatched)

Classify(s, unmatched) ==
  IF Claims(s) # {} THEN CHOOSE l \in None .. Major :
       /\ \E c \in Longest(Claims(s)) : c[1] = l
       /\ \A c \in Longest(Claims(s)) : l <= c[1]
  ELSE IF IsSelf[s] \/ unmatched = "" THEN Patch ELSE LevelOf(unmatched)

\* The subjects since a tag; all of them where there is no such tag.
Since(v) == IF v \in DOMAIN tags THEN tags[v] + 1 .. Len(history) ELSE 1 .. Len(history)

Highest(L) == IF L = {} THEN None ELSE CHOOSE l \in L : \A k \in L : k <= l
Scoring == IF policy.unmatched = "error" THEN "patch" ELSE policy.unmatched
Scan(v) ==
  CASE policy.strategy = "bump-minor-version" -> Minor
    [] policy.strategy = "semantic" -> Highest({Classify(history[i], Scoring) : i \in Since(v)})
    [] OTHER -> Patch
\* Only the newest commit is held to the vocabulary.
Refuses(v) == /\ policy.strategy = "semantic" /\ policy.unmatched = "error"
              /\ Since(v) # {} /\ Unclaimed(history[Len(history)])

-----------------------------------------------------------------------------
\* Moving a version.  A cap is a major, or a major and a minor; -1: none.
Move(v, level) ==
  CASE level = Major -> V(v.major + 1, 0, 0)
    [] level = Minor -> V(v.major, v.minor + 1, 0)
    [] OTHER         -> V(v.major, v.minor, v.patch + 1)

\* Mutant: the minor of the cap is looked at under another major only.
WithinCapLoosely(v, cap) ==
  \/ cap.major = -1
  \/ v.major <= cap.major /\ (v.major = cap.major \/ cap.minor = -1 \/ v.minor <= cap.minor)
WithinCap(v, cap) ==
  \/ cap.major = -1
  \/ v.major <= cap.major /\ ~(cap.minor >= 0 /\ v.major = cap.major /\ v.minor > cap.minor)

\* Whatever a cap names, it admits the version a line starts with.  A subject
\* contains finitely many tokens: one of them is the longest.
ASSUME LineAssumption ==
  /\ FirstTag \in Version /\ FirstTag.pre = 0
  /\ ByHand \subseteq Version
  /\ \A q \in Policies : /\ q.cap \in [major : Nat \cup {-1}, minor : Nat \cup {-1}]
                         /\ q.cap.major = 0 => q.cap.minor # 0
                         /\ WithinCap(FirstTag, q.cap)
  /\ \A s \in Subject : Claims(s) # {} => Longest(Claims(s)) # {}

AtLeast(l, k) == IF l < k THEN k ELSE l
Fits(v, level, cap) == {l \in Patch .. Major : l <= AtLeast(level, Patch) /\ WithinCap(Move(v, l), cap)}

\* NoVersion where the code errs: the previous version is past the cap.
Bump(previous, level, cap) ==
  IF previous = NoVersion THEN V(0, 1, 0)
  ELSE IF previous.pre # 0 THEN [previous EXCEPT !.pre = 0]
  ELSE IF ~WithinCap(previous, cap) \/ Fits(previous, level, cap) = {} THEN NoVersion
  ELSE Move(previous, Highest(Fits(previous, level, cap)))

-----------------------------------------------------------------------------
\* Versions in the order consumers read them, and in git's order of names,
\* which has no suffix sort configured and puts v1.0.0-rc1 above v1.0.0.
Triple(v)   == <<v.major, v.minor, v.patch>>
Less(s, t)  == \E i \in 1 .. 3 : s[i] < t[i] /\ \A k \in 1 .. i - 1 : s[k] = t[k]
Precedes(v, w) == Less(Triple(v), Triple(w)) \/ (Triple(v) = Triple(w) /\ v.pre # 0 /\ (w.pre = 0 \/ v.pre < w.pre))

\* Mutant: the names are sorted letter by letter: v0.9.0 is above v0.10.0.
Letter(n) == IF n < 10 THEN n ELSE 1
NameBelowByLetter(v, w) ==
  LET L(x) == <<Letter(x.major), Letter(x.minor), Letter(x.patch)>> IN
  Less(L(v), L(w)) \/ (L(v) = L(w) /\ (Less(Triple(v), Triple(w)) \/ (Triple(v) = Triple(w) /\ v.pre < w.pre)))
NameBelow(v, w) == Less(Triple(v), Triple(w)) \/ (Triple(v) = Triple(w) /\ v.pre < w.pre)

\* The first tag git lists, if there is one.
LatestTag ==
  IF DOMAIN tags = {} THEN {NoVersion}
  ELSE {v \in DOMAIN tags : \A w \in DOMAIN tags \ {v} : NameBelow(w, v)}

-----------------------------------------------------------------------------
Init ==
  /\ policy \in Policies
  /\ \E s \in Subject : history = <<s>>
  /\ tags \in {[v \in {} |-> 0], [v \in {FirstTag} |-> 1]}
  /\ released = DOMAIN tags
  /\ decided = NoDecision

Commit(s) ==
  /\ Len(history) < LastCommit
  /\ history' = Append(history, s)
  /\ UNCHANGED <<policy, tags, released, decided>>

\* decideRelease gives a commit that was released its own number, and one
\* behind which nothing releases none.
IsOut    == \E v \in released : tags[v] = Len(history)
Skips(v) == v # NoVersion /\ Scan(v) = None

Decide ==
  /\ decided = NoDecision
  /\ ~IsOut
  /\ \E previous \in LatestTag :
       LET next == Bump(previous, Scan(previous), policy.cap) IN
       /\ ~Refuses(previous) /\ ~Skips(previous) /\ next # NoVersion
       /\ decided' = [version |-> next, at |-> Len(history)]
  /\ UNCHANGED <<policy, history, tags, released>>

\* The publish tags the commit the decision was made at, and refuses where
\* the tag is at another one.
Publish ==
  /\ decided # NoDecision
  /\ decided.version \in DOMAIN tags => tags[decided.version] = decided.at
  /\ tags' = [v \in DOMAIN tags \cup {decided.version} |->
                IF v = decided.version THEN decided.at ELSE tags[v]]
  /\ released' = released \cup {decided.version}
  /\ decided' = NoDecision
  /\ UNCHANGED <<policy, history>>

Refused ==
  /\ decided # NoDecision
  /\ decided.version \in DOMAIN tags /\ tags[decided.version] # decided.at
  /\ decided' = NoDecision
  /\ UNCHANGED <<policy, history, tags, released>>

\* An operator releases a version above the ones there are.
TagByHand(v) ==
  /\ v \notin DOMAIN tags
  /\ \A w \in DOMAIN tags : Precedes(w, v)
  /\ tags' = [w \in DOMAIN tags \cup {v} |-> IF w = v THEN Len(history) ELSE tags[w]]
  /\ UNCHANGED <<policy, history, released, decided>>

Next ==
  \/ \E s \in Subject : Commit(s)
  \/ Decide \/ Publish \/ Refused
  \/ \E v \in ByHand : TagByHand(v)

Spec == Init /\ [][Next]_vars

-----------------------------------------------------------------------------
TypeOK ==
  /\ policy \in Policies
  /\ history \in Seq(Subject)
  /\ \A v \in DOMAIN tags : tags[v] \in 1 .. Len(history)
  /\ released \subseteq DOMAIN tags

\* The version decided on is above every version that is out: the line never
\* comes back to a number, in whichever order git names the tags ("the bump is
\* already spent", version.go:177).
NextIsNew ==
  [][decided' # decided /\ decided' # NoDecision =>
       \A v \in DOMAIN tags : v.pre = 0 => Precedes(v, decided'.version)]_vars

\* A line that holds at a cap stays there (version.go:148): no release leaves
\* the majors, or the minors of the major, that it names.
StaysInCap ==
  LET c == policy.cap IN
  c.major # -1 => \A v \in released :
    v.major < c.major \/ (v.major = c.major /\ (c.minor = -1 \/ v.minor <= c.minor))

\* No commit slips between two releases: a version moved at least as far from
\* the one before it as every commit between them claims and the cap allows,
\* commits that came after the decision counting for the next one.
Before(v)   == {u \in DOMAIN tags : Precedes(u, v)}
Previous(v) == CHOOSE u \in Before(v) : \A t \in Before(v) : ~Precedes(u, t)
Claimed(s)  == {c[1] : c \in {d \in Claims(s) : \A e \in Claims(s) : Width[e[2]] <= Width[d[2]]}}
EveryCommitCounts ==
  policy.strategy = "semantic" =>
    \A v \in {w \in released : Before(w) # {}} :
      \A i \in tags[Previous(v)] + 1 .. tags[v] : \A l \in Claimed(history[i]) \ {None} :
        ~Precedes(v, Move(Previous(v), Highest(Fits(Previous(v), l, policy.cap))))
=============================================================================
