------------------------- MODULE ReleaseLineProofs -------------------------
(***************************************************************************)
(* Why a line of versions neither leaves its cap nor comes back to a       *)
(* number, and why no commit slips between two releases, for every         *)
(* vocabulary, every history and every cap.  They hold where nobody        *)
(* releases a prerelease by hand: one that is, sorts above its release and *)
(* is decided again.                                                       *)
(***************************************************************************)
EXTENDS ReleaseLine, SequenceTheorems, WellFoundedInduction, TLAPS

\* A version without a prerelease.
Final(v) == v \in Version /\ v.pre = 0

\* The state a line is in: what is tagged is at a commit, and what was
\* decided is a version within the cap, for a commit.
Decided ==
  decided # NoDecision =>
    /\ decided.version \in Version
    /\ decided.at \in 1 .. Len(history)
DecidedInCap ==
  decided # NoDecision => WithinCap(decided.version, policy.cap)
TagsTyped ==
  /\ policy \in Policies
  /\ history \in Seq(Subject) /\ Len(history) > 0
  /\ tags \in [DOMAIN tags -> 1 .. Len(history)]
  /\ DOMAIN tags \subseteq Version
  /\ released \subseteq DOMAIN tags
TypeInv == TagsTyped /\ Decided

-----------------------------------------------------------------------------
\* A set of numbers has a least one.
LEMMA Least ==
  ASSUME NEW T, T \subseteq Nat, T # {}
  PROVE  \E x \in T : \A y \in T : x <= y
<1> DEFINE R == OpToRel(<, Nat)
<1>1. PICK x \in T : \A y \in T : ~ (<<y, x>> \in R)
  <2>1. IsWellFoundedOn(R, Nat)
    BY NatLessThanWellFounded
  <2> HIDE DEF R
  <2> QED
    BY <2>1, WFMin
<1>2. \A y \in T : ~ (y < x)
  BY <1>1 DEF OpToRel
<1> QED
  BY <1>2

\* The highest of some levels is one of them.
LEMMA HighestIsMember ==
  ASSUME NEW L \in SUBSET (Patch .. Major), L # {}
  PROVE  Highest(L) \in L
<1>1. \E l \in L : \A k \in L : k <= l
  <2>1. CASE 3 \in L
    BY <2>1 DEF Patch, Major
  <2>2. CASE 3 \notin L /\ 2 \in L
    BY <2>2 DEF Patch, Major
  <2>3. CASE 3 \notin L /\ 2 \notin L
    <3>1. PICK l \in L : TRUE
      OBVIOUS
    <3>2. \A k \in L : k = 1
      BY <2>3 DEF Patch, Major
    <3> QED
      BY <3>1, <3>2
  <2> QED
    BY <2>1, <2>2, <2>3
<1> QED
  BY <1>1 DEF Highest

\* A move of a version is a version above it.
LEMMA MoveIsAbove ==
  ASSUME NEW v \in Version, NEW l \in Patch .. Major
  PROVE  /\ Final(Move(v, l))
         /\ Less(Triple(v), Triple(Move(v, l)))
<1> DEFINE w == Move(v, l)
<1>1. CASE l = Major
  <2>1. w = V(v.major + 1, 0, 0)
    BY <1>1 DEF Move, Major, Minor
  <2>2. Triple(v)[1] < Triple(w)[1]
    BY <2>1 DEF Triple, V, Version
  <2> QED
    BY <2>1, <2>2 DEF Final, Version, V, Less
<1>2. CASE l = Minor
  <2>1. w = V(v.major, v.minor + 1, 0)
    BY <1>2 DEF Move, Major, Minor
  <2>2. /\ Triple(v)[2] < Triple(w)[2]
        /\ Triple(v)[1] = Triple(w)[1]
    BY <2>1 DEF Triple, V, Version
  <2> QED
    BY <2>1, <2>2 DEF Final, Version, V, Less
<1>3. CASE l = Patch
  <2>1. w = V(v.major, v.minor, v.patch + 1)
    BY <1>3 DEF Move, Major, Minor, Patch
  <2>2. /\ Triple(v)[3] < Triple(w)[3]
        /\ Triple(v)[1] = Triple(w)[1]
        /\ Triple(v)[2] = Triple(w)[2]
    BY <2>1 DEF Triple, V, Version
  <2> QED
    BY <2>1, <2>2 DEF Final, Version, V, Less
<1> QED
  BY <1>1, <1>2, <1>3 DEF Patch, Minor, Major

\* Versions are compared number by number, so the order is transitive.
LEMMA LessIsTransitive ==
  ASSUME NEW u \in Version, NEW v \in Version, NEW w \in Version,
         Less(Triple(u), Triple(v)), Less(Triple(v), Triple(w))
  PROVE  Less(Triple(u), Triple(w))
<1> DEFINE a == Triple(u)  b == Triple(v)  c == Triple(w)
<1>1. /\ a[1] \in Nat /\ a[2] \in Nat /\ a[3] \in Nat
      /\ b[1] \in Nat /\ b[2] \in Nat /\ b[3] \in Nat
      /\ c[1] \in Nat /\ c[2] \in Nat /\ c[3] \in Nat
  BY DEF Triple, Version
<1>2. ASSUME NEW s, NEW t, Less(s, t)
      PROVE  \/ s[1] < t[1]
             \/ s[1] = t[1] /\ s[2] < t[2]
             \/ s[1] = t[1] /\ s[2] = t[2] /\ s[3] < t[3]
  BY <1>2 DEF Less
<1>3. \/ a[1] < b[1]
      \/ a[1] = b[1] /\ a[2] < b[2]
      \/ a[1] = b[1] /\ a[2] = b[2] /\ a[3] < b[3]
  BY <1>2
<1>4. \/ b[1] < c[1]
      \/ b[1] = c[1] /\ b[2] < c[2]
      \/ b[1] = c[1] /\ b[2] = c[2] /\ b[3] < c[3]
  BY <1>2
<1> HIDE DEF a, b, c
<1>5. \/ a[1] < c[1]
      \/ a[1] = c[1] /\ a[2] < c[2]
      \/ a[1] = c[1] /\ a[2] = c[2] /\ a[3] < c[3]
  BY <1>1, <1>3, <1>4
<1>6. Less(a, c)
  <2>1. CASE a[1] < c[1]
    BY <2>1 DEF Less
  <2>2. CASE a[1] = c[1] /\ a[2] < c[2]
    BY <2>2 DEF Less
  <2>3. CASE a[1] = c[1] /\ a[2] = c[2] /\ a[3] < c[3]
    BY <2>3 DEF Less
  <2> QED
    BY <1>5, <2>1, <2>2, <2>3
<1> QED
  BY <1>6 DEF a, c

\* A bump that answers a version answers a version; from a final one it is
\* above it, and within the cap.
LEMMA BumpMoves ==
  ASSUME NEW previous \in Version, NEW level, NEW cap,
         Bump(previous, level, cap) # NoVersion
  PROVE  /\ Final(Bump(previous, level, cap))
         /\ previous.pre = 0 =>
              /\ Less(Triple(previous), Triple(Bump(previous, level, cap)))
              /\ WithinCap(Bump(previous, level, cap), cap)
<1>1. previous # NoVersion
  BY DEF NoVersion, Version
<1>2. CASE previous.pre # 0
  <2>1. Bump(previous, level, cap) = [previous EXCEPT !.pre = 0]
    BY <1>1, <1>2 DEF Bump
  <2> QED
    BY <2>1, <1>2 DEF Final, Version
<1>3. CASE previous.pre = 0
  <2> DEFINE L == Fits(previous, level, cap)
             l == Highest(L)
  <2>1. /\ L # {}
        /\ Bump(previous, level, cap) = Move(previous, l)
    BY <1>1, <1>3 DEF Bump
  <2>2. L \in SUBSET (Patch .. Major)
    BY DEF Fits
  <2>3. l \in L
    BY <2>1, <2>2, HighestIsMember
  <2>4. l \in Patch .. Major /\ WithinCap(Move(previous, l), cap)
    BY <2>3 DEF Fits
  <2> QED
    BY <2>1, <2>4, MoveIsAbove
<1> QED
  BY <1>2, <1>3

\* The version a line without tags starts with is within every cap.
LEMMA StartIsInCap ==
  ASSUME NEW q \in Policies
  PROVE  Final(V(0, 1, 0)) /\ WithinCap(V(0, 1, 0), q.cap)
<1>1. /\ q.cap \in [major : Nat \cup {-1}, minor : Nat \cup {-1}]
      /\ q.cap.major = 0 => q.cap.minor # 0
  BY LineAssumption
<1> QED
  BY <1>1 DEF Final, V, Version, WithinCap

-----------------------------------------------------------------------------
\* What a decision is: a version bumped from the tag git names first.
LEMMA DecideMakes ==
  ASSUME TypeInv, Decide
  PROVE  \E previous \in LatestTag :
           /\ decided'.version = Bump(previous, Scan(previous), policy.cap)
           /\ decided'.version # NoVersion
           /\ decided'.at = Len(history)
           /\ previous = NoVersion \/ previous \in DOMAIN tags
           /\ previous = NoVersion => DOMAIN tags = {}
<1>1. PICK previous \in LatestTag :
        /\ Bump(previous, Scan(previous), policy.cap) # NoVersion
        /\ decided' = [version |-> Bump(previous, Scan(previous), policy.cap), at |-> Len(history)]
  BY DEF Decide
<1>2. /\ previous = NoVersion \/ previous \in DOMAIN tags
      /\ previous = NoVersion => DOMAIN tags = {}
  <2>1. CASE DOMAIN tags = {}
    BY <2>1 DEF LatestTag
  <2>2. CASE DOMAIN tags # {}
    <3>1. previous \in DOMAIN tags
      BY <2>2 DEF LatestTag
    <3>2. previous # NoVersion
      BY <3>1 DEF NoVersion, Version, TypeInv, TagsTyped
    <3> QED
      BY <3>1, <3>2
  <2> QED
    BY <2>1, <2>2
<1> QED
  BY <1>1, <1>2

LEMMA TypeInit == Init => TypeInv
<1> SUFFICES ASSUME Init PROVE TypeInv
  OBVIOUS
<1>1. FirstTag \in Version
  BY LineAssumption
<1>2. history \in Seq(Subject) /\ Len(history) = 1
  BY DEF Init
<1>3. tags \in [DOMAIN tags -> 1 .. 1] /\ DOMAIN tags \subseteq {FirstTag}
  <2>1. CASE tags = [v \in {} |-> 0]
    BY <2>1
  <2>2. CASE tags = [v \in {FirstTag} |-> 1]
    BY <2>2
  <2> QED
    BY <2>1, <2>2 DEF Init
<1> QED
  BY <1>1, <1>2, <1>3 DEF Init, TypeInv, TagsTyped, Decided

LEMMA TypeStep == TypeInv /\ [Next]_vars => TypeInv'
<1> SUFFICES ASSUME TypeInv, [Next]_vars PROVE TypeInv'
  OBVIOUS
<1> USE DEF TypeInv, TagsTyped
<1>1. ASSUME NEW s \in Subject, Commit(s) PROVE TypeInv'
  <2>1. /\ history' \in Seq(Subject) /\ Len(history') = Len(history) + 1
        /\ Len(history) \in Nat
    BY <1>1 DEF Commit
  <2>2. UNCHANGED <<policy, tags, released, decided>>
    BY <1>1 DEF Commit
  <2> QED
    BY <2>1, <2>2 DEF Decided
<1>2. CASE Decide
  <2>1. UNCHANGED <<policy, history, tags, released>>
    BY <1>2 DEF Decide
  <2>2. decided'.version \in Version /\ decided'.at \in 1 .. Len(history)
    <3>1. PICK previous \in LatestTag :
            /\ decided'.version = Bump(previous, Scan(previous), policy.cap)
            /\ decided'.version # NoVersion
            /\ decided'.at = Len(history)
            /\ previous = NoVersion \/ previous \in DOMAIN tags
            /\ previous = NoVersion => DOMAIN tags = {}
      BY <1>2, DecideMakes
    <3>2. Len(history) \in 1 .. Len(history)
      BY LenProperties DEF TypeInv, TagsTyped
    <3>3. CASE previous = NoVersion
      <4>1. decided'.version = V(0, 1, 0)
        BY <3>1, <3>3 DEF Bump
      <4> QED
        BY <3>1, <3>2, <4>1, StartIsInCap DEF Final
    <3>4. CASE previous \in DOMAIN tags
      BY <3>1, <3>2, <3>4, BumpMoves DEF Final
    <3> QED
      BY <3>1, <3>3, <3>4
  <2> QED
    BY <2>1, <2>2 DEF Decided
<1>3. CASE Publish
  <2>1. /\ decided.version \in Version /\ decided.at \in 1 .. Len(history)
        /\ decided' = NoDecision /\ UNCHANGED <<policy, history>>
    BY <1>3 DEF Publish, Decided
  <2>2. /\ DOMAIN tags' = DOMAIN tags \cup {decided.version}
        /\ tags' \in [DOMAIN tags' -> 1 .. Len(history)]
        /\ released' = released \cup {decided.version}
    BY <1>3, <2>1 DEF Publish
  <2> QED
    BY <2>1, <2>2 DEF Decided
<1>4. CASE Refused
  BY <1>4 DEF Refused, Decided
<1>5. ASSUME NEW v \in ByHand, TagByHand(v) PROVE TypeInv'
  <2>1. v \in Version /\ UNCHANGED <<policy, history, released, decided>>
    BY <1>5, LineAssumption DEF TagByHand
  <2>2. Len(history) \in 1 .. Len(history)
    BY LenProperties
  <2>3. /\ DOMAIN tags' = DOMAIN tags \cup {v}
        /\ tags' \in [DOMAIN tags' -> 1 .. Len(history)]
    BY <1>5, <2>2 DEF TagByHand
  <2> QED
    BY <2>1, <2>3 DEF Decided
<1>6. CASE UNCHANGED vars
  BY <1>6 DEF vars, Decided
<1> QED
  BY <1>1, <1>2, <1>3, <1>4, <1>5, <1>6 DEF Next

\* TypeOK: what is tagged is at a commit there is, and what is released is
\* tagged.
THEOREM TypeCorrect == Spec => []TypeOK
<1>1. TypeInv => TypeOK
  BY DEF TypeInv, TagsTyped, TypeOK
<1> QED
  BY <1>1, TypeInit, TypeStep, PTL DEF Spec

-----------------------------------------------------------------------------
\* What both theorems below need: nothing but final versions is tagged.
AllFinal == \A v \in DOMAIN tags : v.pre = 0
DecidedFinal == decided # NoDecision => decided.version.pre = 0
ReleasedInCap == \A v \in released : WithinCap(v, policy.cap)
LineInv == TypeInv /\ AllFinal /\ DecidedFinal /\ DecidedInCap /\ ReleasedInCap

LEMMA LineInit == Init => LineInv
<1> SUFFICES ASSUME Init PROVE LineInv
  OBVIOUS
<1>1. TypeInv
  BY TypeInit
<1>2. DOMAIN tags \subseteq {FirstTag}
  <2>1. CASE tags = [v \in {} |-> 0]
    BY <2>1
  <2>2. CASE tags = [v \in {FirstTag} |-> 1]
    BY <2>2
  <2> QED
    BY <2>1, <2>2 DEF Init
<1>3. FirstTag.pre = 0 /\ WithinCap(FirstTag, policy.cap)
  BY LineAssumption DEF Init
<1> QED
  BY <1>1, <1>2, <1>3 DEF LineInv, AllFinal, DecidedFinal, DecidedInCap, ReleasedInCap, Init

\* A decision is a final version within the cap, above every tag.
LEMMA DecisionIsAbove ==
  ASSUME LineInv, Decide
  PROVE  /\ decided'.version.pre = 0
         /\ WithinCap(decided'.version, policy.cap)
         /\ \A v \in DOMAIN tags : Precedes(v, decided'.version)
<1> DEFINE next == decided'.version
<1>1. PICK previous \in LatestTag :
        /\ next = Bump(previous, Scan(previous), policy.cap)
        /\ next # NoVersion
        /\ decided'.at = Len(history)
        /\ previous = NoVersion \/ previous \in DOMAIN tags
        /\ previous = NoVersion => DOMAIN tags = {}
  BY DecideMakes DEF LineInv
<1>2. CASE previous = NoVersion
  <2>1. next = V(0, 1, 0)
    BY <1>1, <1>2 DEF Bump
  <2> QED
    BY <1>1, <1>2, <2>1, StartIsInCap DEF LineInv, TypeInv, TagsTyped, Final
<1>3. CASE previous \in DOMAIN tags
  <2>1. previous \in Version /\ previous.pre = 0
    BY <1>3 DEF LineInv, TypeInv, TagsTyped, AllFinal
  <2>2. /\ Final(next)
        /\ Less(Triple(previous), Triple(next))
        /\ WithinCap(next, policy.cap)
    BY <1>1, <2>1, BumpMoves
  <2>3. ASSUME NEW v \in DOMAIN tags PROVE Precedes(v, next)
    <3>1. v \in Version /\ v.pre = 0
      BY DEF LineInv, TypeInv, TagsTyped, AllFinal
    <3>2. CASE v = previous
      BY <2>2, <3>2 DEF Precedes
    <3>3. CASE v # previous
      <4>1. NameBelow(v, previous)
        BY <1>3, <3>3 DEF LatestTag
      <4>2. Less(Triple(v), Triple(previous))
        BY <4>1, <3>1, <2>1 DEF NameBelow
      <4>3. Less(Triple(v), Triple(next))
        BY <4>2, <2>1, <2>2, <3>1, LessIsTransitive DEF Final
      <4> QED
        BY <4>3 DEF Precedes
    <3> QED
      BY <3>2, <3>3
  <2> QED
    BY <2>2, <2>3 DEF Final
<1> QED
  BY <1>1, <1>2, <1>3

LEMMA LineStep ==
  ASSUME \A v \in ByHand : v.pre = 0
  PROVE  LineInv /\ [Next]_vars => LineInv'
<1> SUFFICES ASSUME LineInv, [Next]_vars PROVE LineInv'
  OBVIOUS
<1>1. TypeInv'
  BY TypeStep DEF LineInv
<1> USE DEF LineInv, AllFinal, DecidedFinal, DecidedInCap, ReleasedInCap
<1>2. ASSUME NEW s \in Subject, Commit(s) PROVE LineInv'
  BY <1>1, <1>2 DEF Commit
<1>3. CASE Decide
  <2>1. UNCHANGED <<policy, history, tags, released>>
    BY <1>3 DEF Decide
  <2>2. decided'.version.pre = 0 /\ WithinCap(decided'.version, policy.cap)
    BY <1>3, DecisionIsAbove
  <2> QED
    BY <1>1, <2>1, <2>2
<1>4. CASE Publish
  <2>1. /\ decided.version.pre = 0 /\ WithinCap(decided.version, policy.cap)
        /\ decided' = NoDecision /\ UNCHANGED policy
    BY <1>4 DEF Publish
  <2>2. /\ DOMAIN tags' = DOMAIN tags \cup {decided.version}
        /\ released' = released \cup {decided.version}
    BY <1>4 DEF Publish
  <2> QED
    BY <1>1, <2>1, <2>2
<1>5. CASE Refused
  BY <1>1, <1>5 DEF Refused
<1>6. ASSUME NEW v \in ByHand, TagByHand(v) PROVE LineInv'
  <2>1. /\ DOMAIN tags' = DOMAIN tags \cup {v} /\ v.pre = 0
        /\ UNCHANGED <<policy, history, released, decided>>
    BY <1>6 DEF TagByHand
  <2> QED
    BY <1>1, <2>1
<1>7. CASE UNCHANGED vars
  BY <1>1, <1>7 DEF vars
<1> QED
  BY <1>2, <1>3, <1>4, <1>5, <1>6, <1>7 DEF Next

\* What is released is within the cap, and the cap reads as the words say: in
\* a lower major, or in the major it names and at most at the minor.
LEMMA CapsRead ==
  ASSUME NEW v \in Version, NEW q \in Policies, WithinCap(v, q.cap), q.cap.major # -1
  PROVE  \/ v.major < q.cap.major
         \/ v.major = q.cap.major /\ (q.cap.minor = -1 \/ v.minor <= q.cap.minor)
<1>1. q.cap \in [major : Nat \cup {-1}, minor : Nat \cup {-1}]
  BY LineAssumption
<1> DEFINE M == q.cap.major  N == q.cap.minor  a == v.major  b == v.minor
<1>2. M \in Nat /\ N \in Nat \cup {-1} /\ a \in Nat /\ b \in Nat
  BY <1>1 DEF Version
<1>3. a <= M /\ ~(N >= 0 /\ a = M /\ b > N)
  BY DEF WithinCap
<1> HIDE DEF M, N, a, b
<1>4. a < M \/ (a = M /\ (N = -1 \/ b <= N))
  BY <1>2, <1>3
<1> QED
  BY <1>4 DEF M, N, a, b

\* StaysInCap: a line that holds at a cap stays there.
THEOREM CapIsKept ==
  ASSUME \A v \in ByHand : v.pre = 0
  PROVE  Spec => []StaysInCap
<1>1. LineInv => StaysInCap
  <2> SUFFICES ASSUME LineInv, policy.cap.major # -1, NEW v \in released
               PROVE  \/ v.major < policy.cap.major
                      \/ v.major = policy.cap.major /\ (policy.cap.minor = -1 \/ v.minor <= policy.cap.minor)
    BY DEF StaysInCap
  <2>1. v \in Version /\ policy \in Policies /\ WithinCap(v, policy.cap)
    BY DEF LineInv, TypeInv, TagsTyped, ReleasedInCap
  <2> QED
    BY <2>1, CapsRead
<1>2. LineInv /\ [Next]_vars => LineInv'
  BY LineStep
<1> QED
  BY <1>1, <1>2, LineInit, PTL DEF Spec

\* NextIsNew: the version decided on is above every version that is out, so
\* the line never comes back to a number.
THEOREM VersionsMoveOn ==
  ASSUME \A v \in ByHand : v.pre = 0
  PROVE  Spec => NextIsNew
<1>1. LineInv /\ [Next]_vars => LineInv'
  BY LineStep
<1>2. LineInv /\ [Next]_vars =>
        [decided' # decided /\ decided' # NoDecision =>
           \A v \in DOMAIN tags : v.pre = 0 => Precedes(v, decided'.version)]_vars
  <2> SUFFICES ASSUME LineInv, Next, decided' # decided, decided' # NoDecision
               PROVE  \A v \in DOMAIN tags : Precedes(v, decided'.version)
    OBVIOUS
  <2>1. Decide
    BY DEF Next, Commit, Publish, Refused, TagByHand
  <2> QED
    BY <2>1, DecisionIsAbove
<1> QED
  BY <1>1, <1>2, LineInit, PTL DEF Spec, NextIsNew

-----------------------------------------------------------------------------
(* No commit slips between two releases.                                    *)

\* The order of the final versions is a total one.
LEMMA FinalsInOrder ==
  ASSUME NEW v, NEW w, Final(v), Final(w)
  PROVE  /\ Precedes(v, w) <=> Less(Triple(v), Triple(w))
         /\ ~ Precedes(v, v)
         /\ v = w \/ Precedes(v, w) \/ Precedes(w, v)
         /\ ~ (Precedes(v, w) /\ Precedes(w, v))
<1>1. /\ v \in Version /\ w \in Version /\ v.pre = 0 /\ w.pre = 0
      /\ v.major \in Nat /\ v.minor \in Nat /\ v.patch \in Nat
      /\ w.major \in Nat /\ w.minor \in Nat /\ w.patch \in Nat
  BY DEF Final, Version
<1>2. Precedes(v, w) <=> Less(Triple(v), Triple(w))
  BY <1>1 DEF Precedes
<1>3. ASSUME NEW x \in Version PROVE ~ Less(Triple(x), Triple(x))
  <2>1. Triple(x)[1] \in Nat /\ Triple(x)[2] \in Nat /\ Triple(x)[3] \in Nat
    BY DEF Triple, Version
  <2> QED
    BY <2>1 DEF Less
<1>4. ~ Precedes(v, v)
  BY <1>1, <1>3 DEF Precedes
<1>5. v = w \/ Less(Triple(v), Triple(w)) \/ Less(Triple(w), Triple(v))
  <2>1. CASE v.major # w.major
    <3>1. Triple(v)[1] < Triple(w)[1] \/ Triple(w)[1] < Triple(v)[1]
      BY <1>1, <2>1 DEF Triple
    <3> QED
      BY <3>1 DEF Less
  <2>2. CASE v.major = w.major /\ v.minor # w.minor
    <3>1. /\ Triple(v)[2] < Triple(w)[2] \/ Triple(w)[2] < Triple(v)[2]
          /\ Triple(v)[1] = Triple(w)[1]
      BY <1>1, <2>2 DEF Triple
    <3> QED
      BY <3>1 DEF Less
  <2>3. CASE v.major = w.major /\ v.minor = w.minor /\ v.patch # w.patch
    <3>1. /\ Triple(v)[3] < Triple(w)[3] \/ Triple(w)[3] < Triple(v)[3]
          /\ Triple(v)[1] = Triple(w)[1] /\ Triple(v)[2] = Triple(w)[2]
      BY <1>1, <2>3 DEF Triple
    <3> QED
      BY <3>1 DEF Less
  <2>4. CASE v.major = w.major /\ v.minor = w.minor /\ v.patch = w.patch
    BY <1>1, <2>4 DEF Version
  <2> QED
    BY <2>1, <2>2, <2>3, <2>4
<1>6. ~ (Less(Triple(v), Triple(w)) /\ Less(Triple(w), Triple(v)))
  BY <1>1, <1>3, LessIsTransitive
<1> QED
  BY <1>1, <1>2, <1>4, <1>5, <1>6 DEF Precedes

LEMMA FinalsAreTransitive ==
  ASSUME NEW u, NEW v, NEW w, Final(u), Final(v), Final(w), Precedes(u, v), Precedes(v, w)
  PROVE  Precedes(u, w)
<1>1. Less(Triple(u), Triple(v)) /\ Less(Triple(v), Triple(w))
  BY FinalsInOrder
<1> QED
  BY <1>1, LessIsTransitive, FinalsInOrder DEF Final

\* The highest of some levels is the highest.
LEMMA HighestLevel ==
  ASSUME NEW L \in SUBSET (None .. Major)
  PROVE  /\ Highest(L) \in None .. Major
         /\ \A l \in L : l <= Highest(L)
         /\ L # {} => Highest(L) \in L
<1>1. CASE L = {}
  BY <1>1 DEF Highest, None, Major
<1>2. CASE L # {}
  <2>1. \E l \in L : \A k \in L : k <= l
    <3>1. CASE 3 \in L
      BY <3>1 DEF None, Major
    <3>2. CASE 3 \notin L /\ 2 \in L
      BY <3>2 DEF None, Major
    <3>3. CASE 3 \notin L /\ 2 \notin L /\ 1 \in L
      BY <3>3 DEF None, Major
    <3>4. CASE 3 \notin L /\ 2 \notin L /\ 1 \notin L
      <4>1. PICK l \in L : TRUE
        BY <1>2
      <4>2. \A k \in L : k <= 0 /\ l = 0
        BY <3>4 DEF None, Major
      <4> QED
        BY <4>2
    <3> QED
      BY <3>1, <3>2, <3>3, <3>4
  <2>2. Highest(L) \in L /\ \A k \in L : k <= Highest(L)
    BY <1>2, <2>1 DEF Highest
  <2> QED
    BY <2>2
<1> QED
  BY <1>1, <1>2

\* A higher level does not move a version less far.
LEMMA MoveIsMonotone ==
  ASSUME NEW v, Final(v), NEW k \in None .. Major, NEW l \in Patch .. Major, k <= l
  PROVE  ~ Precedes(Move(v, l), Move(v, k))
<1>1. /\ v \in Version /\ v.major \in Nat /\ v.minor \in Nat /\ v.patch \in Nat
  BY DEF Final, Version
<1>2. Move(v, None) = Move(v, Patch)
  BY DEF Move, None, Patch, Minor, Major
<1>3. \A j \in Patch .. Major : Final(Move(v, j))
  BY <1>1, MoveIsAbove
<1>4. CASE k = l
  BY <1>3, <1>4, FinalsInOrder
<1>5. CASE k # l
  <2>1. PICK j \in Patch .. Major : Move(v, k) = Move(v, j) /\ j <= l
    BY <1>2 DEF None, Patch, Minor, Major
  <2>2. CASE j = l
    BY <1>3, <2>1, <2>2, FinalsInOrder
  <2>3. CASE j = Patch /\ l = Minor
    <3>1. /\ Triple(Move(v, j))[1] = Triple(Move(v, l))[1]
          /\ Triple(Move(v, j))[2] < Triple(Move(v, l))[2]
      BY <1>1, <2>3 DEF Move, Triple, V, Patch, Minor, Major
    <3>2. Less(Triple(Move(v, j)), Triple(Move(v, l)))
      BY <3>1 DEF Less
    <3> QED
      BY <1>3, <2>1, <3>2, FinalsInOrder
  <2>4. CASE j \in {Patch, Minor} /\ l = Major
    <3>1. Triple(Move(v, j))[1] < Triple(Move(v, l))[1]
      BY <1>1, <2>4 DEF Move, Triple, V, Patch, Minor, Major
    <3>2. Less(Triple(Move(v, j)), Triple(Move(v, l)))
      BY <3>1 DEF Less
    <3> QED
      BY <1>3, <2>1, <3>2, FinalsInOrder
  <2> QED
    BY <2>1, <2>2, <2>3, <2>4 DEF Patch, Minor, Major
<1> QED
  BY <1>4, <1>5

\* What the code scores a subject is a level, and the one it is claimed for,
\* where the lists do not dispute it.
OneList == \A s \in Subject : \A c, d \in Longest(Claims(s)) : c[1] = d[1]

LEMMA ClassifyIsALevel ==
  ASSUME NEW s \in Subject, NEW unmatched
  PROVE  /\ Classify(s, unmatched) \in None .. Major
         /\ OneList => \A l \in Claimed(s) : l = Classify(s, unmatched)
<1> DEFINE C == Longest(Claims(s))
<1>1. \A c \in C : c[1] \in None .. Major
  BY DEF Longest, Claims
<1>2. CASE Claims(s) # {}
  <2>1. C # {}
    BY <1>2, LineAssumption
  <2> DEFINE L == {c[1] : c \in C}
  <2>2. L \in SUBSET Nat /\ L # {}
    BY <1>1, <2>1 DEF None, Major
  <2>3. PICK j \in L : \A k \in L : j <= k
    <3> HIDE DEF L
    <3> QED
      BY <2>2, Least
  <2>4. \E k \in None .. Major : (\E c \in C : c[1] = k) /\ \A c \in C : k <= c[1]
    BY <1>1, <2>3
  <2>5. /\ Classify(s, unmatched) \in None .. Major
        /\ \E c \in C : c[1] = Classify(s, unmatched)
    BY <1>2, <2>4 DEF Classify
  <2>6. \A l \in Claimed(s) : \E c \in C : l = c[1]
    BY DEF Claimed, Longest
  <2> QED
    BY <2>5, <2>6 DEF OneList
<1>3. CASE Claims(s) = {}
  <2>1. Classify(s, unmatched) \in None .. Major
    BY <1>3 DEF Classify, LevelOf, None, Patch, Minor, Major
  <2>2. Claimed(s) = {}
    BY <1>3 DEF Claimed
  <2> QED
    BY <2>1, <2>2
<1> QED
  BY <1>2, <1>3

-----------------------------------------------------------------------------
\* The commits behind u up to the n-th did not claim more than v moved from u.
Covered(v, u, n) ==
  \A i \in tags[u] + 1 .. n : \A l \in Claimed(history[i]) \ {None} :
    ~ Precedes(v, Move(u, Highest(Fits(u, l, policy.cap))))

\* u is the last version before v.
LastBefore(u, v) == u \in Before(v) /\ \A t \in Before(v) \ {u} : Precedes(t, u)

\* What a release of v at the n-th commit rests on.
Counted(v, n) == Before(v) # {} => \E u \in DOMAIN tags : LastBefore(u, v) /\ Covered(v, u, n)

\* That holds of what is out and of what was decided, which is above it.
CountInv ==
  /\ decided # NoDecision => \A v \in released : Precedes(v, decided.version)
  /\ policy.strategy = "semantic" =>
       /\ \A v \in released : Counted(v, tags[v])
       /\ decided # NoDecision => Counted(decided.version, decided.at)

LEMMA TagsAreFinal ==
  ASSUME LineInv
  PROVE  /\ \A v \in DOMAIN tags : Final(v) /\ tags[v] \in 1 .. Len(history)
         /\ released \subseteq DOMAIN tags
         /\ decided # NoDecision => Final(decided.version) /\ decided.at \in 1 .. Len(history)
         /\ Len(history) \in Nat /\ Len(history) > 0
         /\ policy \in Policies /\ history \in Seq(Subject)
  BY LenProperties DEF LineInv, TypeInv, TagsTyped, Decided, AllFinal, DecidedFinal, Final

\* The claims a version answers for are those of its own past.
LEMMA CountedStays ==
  ASSUME LineInv, NEW v, NEW n \in 1 .. Len(history), Counted(v, n),
         Before(v)' = Before(v), \A t \in DOMAIN tags : tags'[t] = tags[t],
         DOMAIN tags \subseteq DOMAIN tags', UNCHANGED policy,
         \A i \in 1 .. Len(history) : history'[i] = history[i]
  PROVE  Counted(v, n)'
<1>1. CASE Before(v) = {}
  BY <1>1 DEF Counted
<1>2. CASE Before(v) # {}
  <2>1. PICK u \in DOMAIN tags : LastBefore(u, v) /\ Covered(v, u, n)
    BY <1>2 DEF Counted
  <2>2. LastBefore(u, v)'
    BY <2>1 DEF LastBefore
  <2>3. Covered(v, u, n)'
    <3>1. tags[u] \in 1 .. Len(history) /\ Len(history) \in Nat
      BY TagsAreFinal
    <3>2. ASSUME NEW i \in tags'[u] + 1 .. n PROVE i \in tags[u] + 1 .. n /\ history'[i] = history[i]
      BY <3>1
    <3> QED
      BY <2>1, <3>2 DEF Covered
  <2> QED
    BY <2>1, <2>2, <2>3 DEF Counted
<1> QED
  BY <1>1, <1>2

\* The subjects since the last tag are scored as high as they claim.
LEMMA ScanCounts ==
  ASSUME LineInv, OneList, policy.strategy = "semantic", NEW v,
         NEW i \in Since(v), Since(v) \subseteq 1 .. Len(history), NEW l \in Claimed(history[i])
  PROVE  Scan(v) \in None .. Major /\ l \in None .. Major /\ l <= Scan(v)
<1> DEFINE L == {Classify(history[k], Scoring) : k \in Since(v)}
<1>1. Scan(v) = Highest(L)
  BY DEF Scan
<1>2. \A k \in Since(v) : history[k] \in Subject
  BY TagsAreFinal, ElementOfSeq
<1>3. L \in SUBSET (None .. Major)
  BY <1>2, ClassifyIsALevel
<1>4. l = Classify(history[i], Scoring)
  BY <1>2, ClassifyIsALevel
<1>5. l \in L
  BY <1>4
<1> HIDE DEF L
<1> QED
  BY <1>1, <1>3, <1>5, HighestLevel

\* A decision moves as far as the commits behind the last tag claim.
LEMMA DecisionCounts ==
  ASSUME LineInv, OneList, policy.strategy = "semantic", Decide
  PROVE  Counted(decided'.version, decided'.at)
<1> DEFINE next == decided'.version
<1>1. PICK previous \in LatestTag :
        /\ next = Bump(previous, Scan(previous), policy.cap)
        /\ next # NoVersion
        /\ decided'.at = Len(history)
        /\ previous = NoVersion \/ previous \in DOMAIN tags
        /\ previous = NoVersion => DOMAIN tags = {}
  BY DecideMakes DEF LineInv
<1>2. CASE previous = NoVersion
  BY <1>1, <1>2 DEF Counted, Before
<1>3. CASE previous \in DOMAIN tags
  <2>1. \A v \in DOMAIN tags : Precedes(v, next)
    BY DecisionIsAbove
  <2>2. Before(next) = DOMAIN tags
    BY <2>1 DEF Before
  <2>3. LastBefore(previous, next)
    <3>1. ASSUME NEW t \in DOMAIN tags, t # previous PROVE Precedes(t, previous)
      <4>1. NameBelow(t, previous)
        BY <1>3, <3>1 DEF LatestTag
      <4>2. Final(t) /\ Final(previous)
        BY <1>3, TagsAreFinal
      <4>3. Less(Triple(t), Triple(previous))
        BY <4>1, <4>2 DEF NameBelow, Final
      <4> QED
        BY <4>2, <4>3, FinalsInOrder
    <3> QED
      BY <1>3, <2>2, <3>1 DEF LastBefore
  <2>4. Since(previous) = tags[previous] + 1 .. Len(history) /\ Since(previous) \subseteq 1 .. Len(history)
    BY <1>3, TagsAreFinal DEF Since
  <2>5. ASSUME NEW i \in Since(previous), NEW l \in Claimed(history[i]) \ {None}
        PROVE  ~ Precedes(next, Move(previous, Highest(Fits(previous, l, policy.cap))))
    <3> DEFINE F == Fits(previous, l, policy.cap)
               G == Fits(previous, Scan(previous), policy.cap)
    <3>1. Scan(previous) \in None .. Major /\ l \in None .. Major /\ l <= Scan(previous)
      BY <2>4, ScanCounts
    <3>2. F \subseteq G /\ G \in SUBSET (Patch .. Major)
      BY <3>1 DEF Fits, AtLeast, None, Patch, Major
    <3>3. previous # NoVersion /\ previous.pre = 0 /\ Final(previous)
      BY <1>3, TagsAreFinal DEF Final, NoVersion, Version
    <3>4. G # {} /\ next = Move(previous, Highest(G))
      BY <1>1, <3>3 DEF Bump
    <3>5. Highest(G) \in G
      BY <3>2, <3>4, HighestIsMember
    <3>6. F \in SUBSET (None .. Major) /\ G \in SUBSET (None .. Major)
      BY <3>2 DEF None, Patch, Major
    <3>7. Highest(F) \in None .. Major /\ Highest(F) <= Highest(G)
      <4> HIDE DEF F, G
      <4>1. CASE F = {}
        <5>1. Highest(F) = 0
          BY <4>1 DEF Highest, None
        <5>2. Highest(G) >= 0
          BY <3>6, HighestLevel DEF None, Major
        <5> QED
          BY <3>6, <5>1, <5>2, HighestLevel DEF None, Major
      <4>2. CASE F # {}
        BY <3>2, <3>6, <4>2, HighestLevel
      <4> QED
        BY <4>1, <4>2
    <3>8. Highest(G) \in Patch .. Major
      BY <3>2, <3>5
    <3> HIDE DEF F, G
    <3> QED
      BY <3>3, <3>4, <3>7, <3>8, MoveIsMonotone DEF F
  <2>6. Covered(next, previous, Len(history))
    BY <2>4, <2>5 DEF Covered
  <2> QED
    BY <1>1, <1>3, <2>3, <2>6 DEF Counted
<1> QED
  BY <1>1, <1>2, <1>3

\* A version that is tagged above the others comes before none of them.
LEMMA NewOnTop ==
  ASSUME LineInv, NEW w, Final(w), DOMAIN tags' = DOMAIN tags \cup {w}, NEW v, Final(v),
         w = v \/ Precedes(v, w)
  PROVE  Before(v)' = Before(v)
<1>1. ~ Precedes(w, v)
  BY FinalsInOrder
<1> QED
  BY <1>1 DEF Before

LEMMA CommitCounts ==
  ASSUME LineInv, CountInv, NEW s \in Subject, Commit(s)
  PROVE  CountInv'
<1>1. /\ \A i \in 1 .. Len(history) : history'[i] = history[i]
      /\ UNCHANGED <<policy, tags, released, decided>>
  BY TagsAreFinal, AppendProperties DEF Commit
<1>2. \A v : Before(v)' = Before(v)
  BY <1>1 DEF Before
<1>3. \A v, n : n \in 1 .. Len(history) /\ Counted(v, n) => Counted(v, n)'
  BY <1>1, <1>2, CountedStays
<1> QED
  BY <1>1, <1>3, TagsAreFinal DEF CountInv

LEMMA DecideCounts ==
  ASSUME OneList, LineInv, CountInv, Decide
  PROVE  CountInv'
<1>1. UNCHANGED <<policy, history, tags, released>>
  BY DEF Decide
<1>2. \A v, n : Counted(v, n)' <=> Counted(v, n)
  BY <1>1 DEF Counted, Before, LastBefore, Covered
<1>3. \A v \in released : Precedes(v, decided'.version)
  BY DecisionIsAbove, TagsAreFinal
<1>4. policy.strategy = "semantic" => Counted(decided'.version, decided'.at)
  BY DecisionCounts
<1> QED
  BY <1>1, <1>2, <1>3, <1>4 DEF CountInv

LEMMA PublishCounts ==
  ASSUME LineInv, CountInv, Publish
  PROVE  CountInv'
<1>0. PICK d, at : d = decided.version /\ at = decided.at
  OBVIOUS
<1>1. /\ decided # NoDecision /\ decided' = NoDecision /\ UNCHANGED <<policy, history>>
      /\ DOMAIN tags' = DOMAIN tags \cup {d} /\ released' = released \cup {d}
      /\ tags'[d] = at
      /\ \A t \in DOMAIN tags : tags'[t] = tags[t]
  BY <1>0 DEF Publish
<1>2. Final(d) /\ at \in 1 .. Len(history)
  BY <1>0, <1>1, TagsAreFinal
<1>3. \A v \in released : Final(v) /\ Precedes(v, d) /\ tags[v] \in 1 .. Len(history) /\ tags'[v] = tags[v]
  BY <1>0, <1>1, TagsAreFinal DEF CountInv
<1>4. \A v \in released \cup {d} : Before(v)' = Before(v)
  BY <1>1, <1>2, <1>3, NewOnTop
<1>5. ASSUME NEW v \in released \cup {d}, NEW n \in 1 .. Len(history), Counted(v, n)
      PROVE  Counted(v, n)'
  <2>1. Before(v)' = Before(v)
    BY <1>4
  <2> QED
    BY <1>1, <1>5, <2>1, CountedStays
<1>6. ASSUME policy.strategy = "semantic", NEW v \in released' PROVE Counted(v, tags[v])'
  <2>1. CASE v = d
    <3>1. Counted(d, at)'
      BY <1>0, <1>1, <1>2, <1>5, <1>6 DEF CountInv
    <3> QED
      BY <1>1, <2>1, <3>1 DEF Counted
  <2>2. CASE v \in released
    <3>1. Counted(v, tags[v])
      BY <1>6, <2>2 DEF CountInv
    <3>2. PICK n : n = tags[v]
      OBVIOUS
    <3>3. n \in 1 .. Len(history) /\ tags'[v] = n /\ Counted(v, n)
      BY <1>3, <2>2, <3>1, <3>2
    <3>4. Counted(v, n)'
      BY <1>5, <2>2, <3>3
    <3> QED
      BY <3>3, <3>4
  <2> QED
    BY <1>1, <1>6, <2>1, <2>2
<1> QED
  BY <1>1, <1>6 DEF CountInv

\* A release by hand under the version that was decided takes the commits in
\* front of it along.
LEMMA TagByHandCounts ==
  ASSUME LineInv, CountInv, NEW w \in ByHand, w.pre = 0, TagByHand(w)
  PROVE  CountInv'
<1>0. PICK d, at : d = decided.version /\ at = decided.at
  OBVIOUS
<1>1. /\ w \notin DOMAIN tags /\ \A t \in DOMAIN tags : Precedes(t, w)
      /\ DOMAIN tags' = DOMAIN tags \cup {w} /\ tags'[w] = Len(history)
      /\ \A t \in DOMAIN tags : tags'[t] = tags[t]
      /\ UNCHANGED <<policy, history, released, decided>>
  BY DEF TagByHand
<1>2. Final(w)
  BY LineAssumption DEF Final
<1>3. \A v \in released : v \in DOMAIN tags /\ Final(v) /\ tags[v] \in 1 .. Len(history)
  BY TagsAreFinal
<1>4. ASSUME NEW v, Final(v), w = v \/ Precedes(v, w), NEW n \in 1 .. Len(history), Counted(v, n)
      PROVE  Counted(v, n)'
  <2>1. Before(v)' = Before(v)
    BY <1>1, <1>2, <1>4, NewOnTop
  <2> QED
    BY <1>1, <1>4, <2>1, CountedStays
<1>5. ASSUME policy.strategy = "semantic", NEW v \in released PROVE Counted(v, tags[v])'
  <2>1. PICK n : n = tags[v]
    OBVIOUS
  <2>2. Counted(v, n)
    BY <1>5, <2>1 DEF CountInv
  <2>3. Counted(v, n)'
    BY <1>1, <1>3, <1>4, <2>1, <2>2
  <2>4. tags'[v] = n
    BY <1>1, <1>3, <2>1
  <2> QED
    BY <2>3, <2>4
<1>6. ASSUME policy.strategy = "semantic", decided # NoDecision PROVE Counted(d, at)'
  <2>1. Final(d) /\ at \in 1 .. Len(history) /\ Counted(d, at)
    BY <1>0, <1>6, TagsAreFinal DEF CountInv
  <2>2. CASE w = d \/ Precedes(d, w)
    BY <1>4, <2>1, <2>2
  <2>3. CASE Precedes(w, d)
    <3>1. \A t \in DOMAIN tags : Final(t) /\ Precedes(t, d)
      BY <1>1, <1>2, <2>1, <2>3, TagsAreFinal, FinalsAreTransitive
    <3>2. Before(d)' = DOMAIN tags'
      BY <1>1, <2>3, <3>1 DEF Before
    <3>3. LastBefore(w, d)'
      BY <1>1, <3>2 DEF LastBefore
    <3>4. tags'[w] + 1 .. at = {}
      BY <1>1, <2>1, TagsAreFinal
    <3>5. Covered(d, w, at)'
      BY <3>4 DEF Covered
    <3> QED
      BY <1>1, <3>3, <3>5 DEF Counted
  <2> QED
    BY <1>2, <2>1, <2>2, <2>3, FinalsInOrder
<1> QED
  BY <1>0, <1>1, <1>5, <1>6 DEF CountInv

\* The version before a release is the last one before it.
LEMMA PreviousIsLast ==
  ASSUME LineInv, NEW v, NEW u \in DOMAIN tags, LastBefore(u, v)
  PROVE  Previous(v) = u
<1> DEFINE P(x) == x \in Before(v) /\ \A t \in Before(v) : ~ Precedes(x, t)
<1>1. u \in Before(v) /\ \A t \in Before(v) : t \in DOMAIN tags /\ Final(t) /\ (t # u => Precedes(t, u))
  BY TagsAreFinal DEF LastBefore, Before
<1>2. P(u)
  BY <1>1, FinalsInOrder
<1>3. \A x : P(x) => x = u
  BY <1>1
<1>4. Previous(v) = CHOOSE x \in Before(v) : \A t \in Before(v) : ~ Precedes(x, t)
  BY DEF Previous
<1> QED
  BY <1>2, <1>3, <1>4

\* EveryCommitCounts: if no subject carries tokens of one length from two lists,
\* a version moved at least as far from the one before it as every commit
\* between them claims and the cap allows, wherever the decision was made and
\* whoever committed or released in front of its tag.
THEOREM NoCommitSlips ==
  ASSUME \A v \in ByHand : v.pre = 0, OneList
  PROVE  Spec => []EveryCommitCounts
<1>1. Init => CountInv
  <2> SUFFICES ASSUME Init PROVE CountInv
    OBVIOUS
  <2>1. DOMAIN tags \subseteq {FirstTag} /\ released = DOMAIN tags /\ decided = NoDecision
    BY DEF Init
  <2>2. Final(FirstTag)
    BY LineAssumption DEF Final
  <2>3. \A v \in released : Before(v) = {}
    BY <2>1, <2>2, FinalsInOrder DEF Before
  <2> QED
    BY <2>1, <2>3 DEF CountInv, Counted
<1>2. LineInv /\ [Next]_vars => LineInv'
  BY LineStep
<1>3. LineInv /\ CountInv /\ [Next]_vars => CountInv'
  <2> SUFFICES ASSUME LineInv, CountInv, [Next]_vars PROVE CountInv'
    OBVIOUS
  <2>1. CASE Refused \/ UNCHANGED vars
    <3>1. UNCHANGED <<policy, history, tags, released>> /\ (decided' = decided \/ decided' = NoDecision)
      BY <2>1 DEF Refused, vars
    <3>2. \A v, n : Counted(v, n)' <=> Counted(v, n)
      BY <3>1 DEF Counted, Before, LastBefore, Covered
    <3> QED
      BY <3>1, <3>2 DEF CountInv
  <2> QED
    BY <2>1, CommitCounts, DecideCounts, PublishCounts, TagByHandCounts DEF Next
<1>4. LineInv /\ CountInv => EveryCommitCounts
  <2> SUFFICES ASSUME LineInv, CountInv, policy.strategy = "semantic",
                      NEW v \in released, Before(v) # {}
               PROVE  \A i \in tags[Previous(v)] + 1 .. tags[v] : \A l \in Claimed(history[i]) \ {None} :
                        ~ Precedes(v, Move(Previous(v), Highest(Fits(Previous(v), l, policy.cap))))
    BY DEF EveryCommitCounts
  <2>1. PICK u \in DOMAIN tags : LastBefore(u, v) /\ Covered(v, u, tags[v])
    BY DEF CountInv, Counted
  <2> QED
    BY <2>1, PreviousIsLast DEF Covered
<1> QED
  BY <1>1, <1>2, <1>3, <1>4, LineInit, PTL DEF Spec
=============================================================================
