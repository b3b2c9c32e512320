-------------------------- MODULE StateStoreProofs --------------------------
(***************************************************************************)
(* What a put of the git state engine keeps, for any processes, checkouts, *)
(* plans and faults: types, a person's files, and, where the runs in CI    *)
(* are apart (RunsApart), that no rebase of theirs stops and that what     *)
(* their puts answered for is at the remote.                               *)
(***************************************************************************)
EXTENDS StateStore, FiniteSetTheorems, WellFoundedInduction, TLAPS

-----------------------------------------------------------------------------
(* Numbers.                                                                *)

\* A set of naturals has a least element.
LEMMA Least ==
  ASSUME NEW T, T \subseteq Nat, T # {}
  PROVE  \E x \in T : \A y \in T : x <= y
<1> DEFINE R == OpToRel(<, Nat)
<1>1. PICK x \in T : \A y \in T : ~ (<<y, x>> \in R)
  <2>1. IsWellFoundedOn(R, Nat)
    BY NatLessThanWellFounded
  <2> HIDE DEF R
  <2> QED
    BY <2>1, WFMin
<1>2. \A y \in T : ~ (y < x)
  BY <1>1 DEF OpToRel
<1> QED
  BY <1>2

\* A bounded set of naturals has a greatest one.
LEMMA Greatest ==
  ASSUME NEW n \in Nat, NEW T, T \subseteq 0..n, T # {}
  PROVE  \E x \in T : \A y \in T : y <= x
<1> DEFINE M == {m \in Nat : \A y \in T : y <= m}
<1>1. PICK m \in M : \A k \in M : m <= k
  <2>1. M \subseteq Nat /\ n \in M
    OBVIOUS
  <2> HIDE DEF M
  <2> QED
    BY <2>1, Least
<1>2. m \in Nat /\ \A y \in T : y <= m /\ y \in Nat
  OBVIOUS
<1>3. CASE m \in T
  BY <1>2, <1>3
<1>4. CASE m \notin T
  <2>1. PICK y \in T : TRUE
    OBVIOUS
  <2>2. m # 0
    BY <1>2, <1>4, <2>1
  <2>3. \A z \in T : z <= m - 1
    BY <1>2, <1>4
  <2>4. m - 1 \in M
    BY <1>2, <2>2, <2>3
  <2>5. m <= m - 1
    BY <1>1, <2>4
  <2> QED
    BY <1>2, <2>5
<1> QED
  BY <1>3, <1>4

\* The elements of a finite set of numbers, counted from the least one.
LEMMA CountedOff ==
  ASSUME NEW n \in Nat, NEW T, T \subseteq 1..n, NEW k \in 1..Cardinality(T)
  PROVE  \E i \in T : Cardinality({j \in T : j <= i}) = k
<1> DEFINE Upto(m) == {j \in T : j <= m}
           C(m) == Cardinality(Upto(m))
<1>1. \A m \in Int : IsFiniteSet(Upto(m)) /\ C(m) \in Nat
  <2>1. IsFiniteSet(1..n)
    BY FS_Interval
  <2>2. ASSUME NEW m \in Int PROVE IsFiniteSet(Upto(m)) /\ C(m) \in Nat
    <3>1. Upto(m) \in SUBSET (1..n)
      OBVIOUS
    <3> HIDE DEF Upto
    <3>2. IsFiniteSet(Upto(m))
      BY <2>1, <3>1, FS_Subset
    <3> QED
      BY <3>2, FS_CardinalityType
  <2> QED
    BY <2>2
<1> T \subseteq Int /\ \A j \in T : 1 <= j /\ j <= n
  OBVIOUS
<1>2. Upto(n) = T
  <2>1. \A j \in T : j <= n
    OBVIOUS
  <2> QED
    BY <2>1, Zenon
<1>3. C(n) = Cardinality(T)
  BY <1>2
<1>4. Upto(0) = {}
  <2>1. \A j \in T : ~ (j <= 0)
    OBVIOUS
  <2> QED
    BY <2>1, Zenon
<1>5. C(0) = 0
  BY <1>4, FS_EmptySet
<1>6. \A m \in 1..n : m \notin T => Upto(m) = Upto(m - 1)
  <2> SUFFICES ASSUME NEW m \in 1..n, m \notin T PROVE Upto(m) = Upto(m - 1)
    OBVIOUS
  <2>1. \A j \in T : j <= m <=> j <= m - 1
    OBVIOUS
  <2> QED
    BY <2>1, Zenon
<1>7. \A m \in 1..n : m \in T => Upto(m) = Upto(m - 1) \union {m} /\ m \notin Upto(m - 1)
  <2> SUFFICES ASSUME NEW m \in 1..n, m \in T
               PROVE  Upto(m) = Upto(m - 1) \union {m} /\ m \notin Upto(m - 1)
    OBVIOUS
  <2>1. /\ ~ (m <= m - 1)
        /\ \A j \in T : j <= m <=> j <= m - 1 \/ j = m
    OBVIOUS
  <2>2. m \notin Upto(m - 1)
    BY <2>1
  <2>3. \A j : j \in Upto(m) <=> j \in Upto(m - 1) \union {m}
    BY <2>1, Zenon
  <2> QED
    BY <2>2, <2>3, Zenon
<1>8. ASSUME NEW m \in 1..n, m \in T PROVE C(m) = C(m - 1) + 1
  <2>1. Upto(m) = Upto(m - 1) \union {m} /\ m \notin Upto(m - 1)
    BY <1>7, <1>8
  <2>2. m - 1 \in Int
    OBVIOUS
  <2>3. IsFiniteSet(Upto(m - 1))
    BY <1>1, <2>2
  <2> HIDE DEF Upto
  <2> QED
    BY <2>1, <2>3, FS_AddElement
<1>9. ASSUME NEW m \in 1..n, m \notin T PROVE C(m) = C(m - 1)
  BY <1>6, <1>9
<1> DEFINE c == [m \in 0..n |-> C(m)]
<1> HIDE DEF Upto, C
<1>10. c \in [0..n -> Nat] /\ c[0] = 0 /\ c[n] = Cardinality(T)
  <2>1. \A m \in 0..n : C(m) \in Nat
    BY <1>1
  <2> QED
    BY <1>3, <1>5, <2>1
<1>11. \A m \in 1..n : c[m] = c[m - 1] + (IF m \in T THEN 1 ELSE 0)
  <2> SUFFICES ASSUME NEW m \in 1..n PROVE c[m] = c[m - 1] + (IF m \in T THEN 1 ELSE 0)
    OBVIOUS
  <2>1. m - 1 \in 0..n /\ m \in 0..n
    OBVIOUS
  <2>2. c[m] = C(m) /\ c[m - 1] = C(m - 1)
    BY <2>1
  <2>3. C(m - 1) \in Nat
    BY <1>1, <2>1
  <2>4. CASE m \in T
    BY <1>8, <2>2, <2>4
  <2>5. CASE m \notin T
    BY <1>9, <2>2, <2>3, <2>5
  <2> QED
    BY <2>4, <2>5
<1>12. \A m \in 0..n : c[m] = C(m)
  OBVIOUS
<1> HIDE DEF c
<1> DEFINE M == {m \in 0..n : c[m] >= k}
<1>13. k \in Nat /\ k # 0 /\ k <= c[n]
  BY <1>10
<1>14. PICK m \in M : \A l \in M : m <= l
  <2>1. M \subseteq Nat /\ n \in M
    BY <1>13
  <2> HIDE DEF M
  <2> QED
    BY <2>1, Least
<1>15. m \in 1..n /\ c[m] >= k
  BY <1>10, <1>13, <1>14
<1>16. m - 1 \in 0..n /\ m - 1 \notin M
  BY <1>14, <1>15
<1>17. c[m - 1] < k /\ c[m - 1] \in Nat /\ c[m] \in Nat
  BY <1>10, <1>13, <1>15, <1>16
<1>18. m \in T /\ c[m] = k
  BY <1>11, <1>13, <1>15, <1>17
<1> QED
  BY <1>12, <1>15, <1>18 DEF Upto, C

-----------------------------------------------------------------------------
(* Commits, and the files after a sequence of them.                        *)

LEMMA CommitType ==
  ASSUME NEW d \in Commits
  PROVE  DOMAIN d \subseteq Path /\ d \in [DOMAIN d -> Blob]
BY DEF Commits

\* A record's file makes a commit.
LEMMA OneFile ==
  ASSUME NEW f \in Path, NEW v \in Blob
  PROVE  [g \in {f} |-> v] \in Commits
<1> DEFINE d == [g \in {f} |-> v]
<1>1. {f} \in (SUBSET Path) \ {{}} /\ d \in [{f} -> Blob]
  OBVIOUS
<1>2. d \in Commits
  <2> HIDE DEF d
  <2> QED
    BY <1>1, Zenon DEF Commits
<1> QED
  BY <1>2

\* A file is as the last commit that changes it has it,
LEMMA LastChange ==
  ASSUME NEW log \in Seq(Commits), NEW f \in Path,
         NEW i \in DOMAIN log, f \in DOMAIN log[i],
         \A j \in DOMAIN log : f \in DOMAIN log[j] => j <= i
  PROVE  FilesOf(log)[f] = log[i][f]
<1> DEFINE touched == {j \in DOMAIN log : f \in DOMAIN log[j]}
<1>1. i \in touched /\ \A j \in touched : j <= i
  OBVIOUS
<1>2. FilesOf(log)[f] = IF touched = {} THEN Absent
                     ELSE log[CHOOSE k \in touched : \A j \in touched : j <= k][f]
  BY DEF FilesOf
<1>3. touched \subseteq Int
  OBVIOUS
<1> HIDE DEF touched
<1>4. (CHOOSE k \in touched : \A j \in touched : j <= k) = i
  BY <1>1, <1>3
<1> QED
  BY <1>1, <1>2, <1>4

\* not there if none does,
LEMMA NoChange ==
  ASSUME NEW log \in Seq(Commits), NEW f \in Path, \A j \in DOMAIN log : f \notin DOMAIN log[j]
  PROVE  FilesOf(log)[f] = Absent
BY DEF FilesOf

\* and there is a last one if one does.
LEMMA LastOne ==
  ASSUME NEW log \in Seq(Commits), NEW f \in Path, NEW k \in DOMAIN log, f \in DOMAIN log[k]
  PROVE  \E i \in DOMAIN log : f \in DOMAIN log[i] /\ \A j \in DOMAIN log : f \in DOMAIN log[j] => j <= i
<1> DEFINE touched == {j \in DOMAIN log : f \in DOMAIN log[j]}
<1>1. touched \subseteq 0..Len(log) /\ k \in touched
  OBVIOUS
<1>2. \E i \in touched : \A j \in touched : j <= i
  <2> HIDE DEF touched
  <2> QED
    BY <1>1, Greatest
<1> QED
  BY <1>2

LEMMA TreeType == ASSUME NEW log \in Seq(Commits) PROVE FilesOf(log) \in [Path -> Blob]
<1>1. ASSUME NEW f \in Path PROVE FilesOf(log)[f] \in Blob
  <2>1. CASE \A j \in DOMAIN log : f \notin DOMAIN log[j]
    BY <2>1, NoChange DEF Blob
  <2>2. CASE \E j \in DOMAIN log : f \in DOMAIN log[j]
    <3>1. PICK i \in DOMAIN log : f \in DOMAIN log[i] /\ \A j \in DOMAIN log : f \in DOMAIN log[j] => j <= i
      BY <2>2, LastOne
    <3>2. FilesOf(log)[f] = log[i][f]
      BY <3>1, LastChange
    <3>3. log[i] \in Commits
      OBVIOUS
    <3> QED
      BY <3>1, <3>2, <3>3, CommitType
  <2> QED
    BY <2>1, <2>2
<1> QED
  BY <1>1 DEF FilesOf

\* Commits on top change the files they name and no others.
LEMMA TreeOnTop ==
  ASSUME NEW log \in Seq(Commits), NEW top \in Seq(Commits), NEW f \in Path,
         \A k \in DOMAIN top : f \notin DOMAIN top[k]
  PROVE  FilesOf(log \o top)[f] = FilesOf(log)[f]
<1> DEFINE all == log \o top
<1>1. /\ all \in Seq(Commits) /\ DOMAIN log = 1..Len(log) /\ DOMAIN all = 1..Len(log) + Len(top)
      /\ \A j \in DOMAIN log : all[j] = log[j]
      /\ \A j \in DOMAIN all \ DOMAIN log : j - Len(log) \in DOMAIN top /\ all[j] = top[j - Len(log)]
  OBVIOUS
<1>2. \A j \in DOMAIN all : f \in DOMAIN all[j] => j \in DOMAIN log
  BY <1>1
<1>3. CASE \A j \in DOMAIN log : f \notin DOMAIN log[j]
  BY <1>1, <1>2, <1>3, NoChange
<1>4. CASE \E j \in DOMAIN log : f \in DOMAIN log[j]
  <2>1. PICK i \in DOMAIN log : f \in DOMAIN log[i] /\ \A j \in DOMAIN log : f \in DOMAIN log[j] => j <= i
    BY <1>4, LastOne
  <2>2. FilesOf(log)[f] = log[i][f]
    BY <2>1, LastChange
  <2>3. i \in DOMAIN all /\ f \in DOMAIN all[i] /\ \A j \in DOMAIN all : f \in DOMAIN all[j] => j <= i
    BY <1>1, <1>2, <2>1
  <2>4. FilesOf(all)[f] = all[i][f]
    BY <1>1, <2>3, LastChange
  <2> QED
    BY <1>1, <2>2, <2>4
<1> QED
  BY <1>3, <1>4

\* One on top has the last word on the files it names.
LEMMA TreeAfter ==
  ASSUME NEW log \in Seq(Commits), NEW d \in Commits, NEW f \in Path
  PROVE  FilesOf(log \o <<d>>)[f] = IF f \in DOMAIN d THEN d[f] ELSE FilesOf(log)[f]
<1>1. CASE f \in DOMAIN d
  <2> DEFINE all == log \o <<d>>
             i == Len(log) + 1
  <2>1. all \in Seq(Commits) /\ i \in DOMAIN all /\ all[i] = d /\ \A j \in DOMAIN all : j <= i
    OBVIOUS
  <2> HIDE DEF all, i
  <2>2. FilesOf(all)[f] = all[i][f]
    BY <1>1, <2>1, LastChange
  <2> QED
    BY <1>1, <2>1, <2>2 DEF all
<1>2. CASE f \notin DOMAIN d
  <2>1. <<d>> \in Seq(Commits) /\ \A k \in DOMAIN <<d>> : <<d>>[k] = d
    OBVIOUS
  <2> QED
    BY <1>2, <2>1, TreeOnTop
<1> QED
  BY <1>1, <1>2

-----------------------------------------------------------------------------
(* Types.                                                                  *)

\* Who is in a put is at a record of its plan.
AtWork == \A p \in Process : pc[p] # "idle" => Busy(p)

Typed == TypeOK /\ AtWork

At == {"write", "add", "staged", "commit", "push", "rebase", "again"}

LEMMA RecordType ==
  ASSUME TypeOK, NEW p \in Process, Busy(p)
  PROVE  /\ Home[p] \in Clone /\ at[p] \in Nat /\ at[p] \in 1..Len(Plan[p]) /\ Record(p) = Plan[p][at[p]]
         /\ Record(p).path \in Path /\ Record(p).path \notin Foreign /\ Record(p).value \in Value
         /\ Record(p).value \in Blob
<1>1. Plan[p] \in Seq(Item) /\ at[p] \in DOMAIN Plan[p]
  BY StoreAssumption DEF Busy
<1>2. Record(p) \in Item
  BY <1>1 DEF Record
<1> QED
  BY <1>1, <1>2, StoreAssumption DEF Record, Item, Blob

\* What a put's outcome does to who is where.
LEMMA OutcomeTypes ==
  ASSUME Typed, NEW p \in Process, Busy(p),
         Acknowledge(p) \/ GiveUp(p) \/ \E next \in At : GoTo(p, next)
  PROVE  /\ pc' \in [Process -> At \union {"idle"}] /\ spoilt' \subseteq Clone
         /\ at' \in [Process -> Nat] /\ \A q \in Process : at'[q] <= Len(Plan[q]) + 1
         /\ AtWork'
         /\ \A q \in Process : at'[q] # 0 <=> at[q] # 0
         /\ \A q \in Process \ {p} : at'[q] = at[q] /\ pc'[q] = pc[q]
<1>1. /\ at \in [Process -> Nat] /\ \A q \in Process : at[q] <= Len(Plan[q]) + 1
      /\ pc \in [Process -> At \union {"idle"}] /\ spoilt \subseteq Clone
  BY DEF Typed, TypeOK, At
<1>2. at[p] \in 1..Len(Plan[p]) /\ Home[p] \in Clone /\ \A q \in Process : Len(Plan[q]) \in Nat
  BY RecordType, StoreAssumption DEF Typed
<1>3. CASE Acknowledge(p)
  BY <1>1, <1>2, <1>3 DEF Acknowledge, AtWork, Typed, Busy
<1>4. CASE GiveUp(p)
  BY <1>1, <1>2, <1>4 DEF GiveUp, AtWork, Typed, Busy
<1>5. CASE \E next \in At : GoTo(p, next)
  BY <1>1, <1>2, <1>5 DEF GoTo, AtWork, Typed, Busy, At
<1> QED
  BY <1>3, <1>4, <1>5

LEMMA RepoTypes ==
  ASSUME TypeOK, NEW c \in Clone
  PROVE  /\ remote \in Seq(Commits) /\ ahead[c] \in Seq(Commits) /\ base[c] \in 0..Len(remote)
         /\ Based(c) \in Seq(Commits) /\ Len(Based(c)) = base[c]
         /\ \A i \in 1..base[c] : Based(c)[i] = remote[i]
         /\ Tip(c) \in [Path -> Blob] /\ FilesOf(remote) \in [Path -> Blob]
         /\ index[c] \in [Path -> Blob] /\ work[c] \in [Path -> Blob]
<1>1. remote \in Seq(Commits) /\ ahead[c] \in Seq(Commits) /\ base[c] \in 0..Len(remote)
  BY DEF TypeOK
<1>2. /\ Based(c) \in Seq(Commits) /\ Len(Based(c)) = base[c]
      /\ \A i \in 1..base[c] : Based(c)[i] = remote[i]
  BY <1>1 DEF Based
<1>3. Based(c) \o ahead[c] \in Seq(Commits)
  BY <1>1, <1>2
<1> QED
  BY <1>1, <1>2, <1>3, TreeType DEF TypeOK, Tip

\* A rebase replays commits of the checkout and makes none.
LEMMA ReplayedType ==
  ASSUME TypeOK, NEW c \in Clone, NEW n \in 0..Len(ahead[c])
  PROVE  /\ Replayed(c, n) \in Seq(Commits)
         /\ \A k \in DOMAIN Replayed(c, n) : \E i \in DOMAIN ahead[c] : Replayed(c, n)[k] = ahead[c][i]
<1> DEFINE said(i) == \E f \in DOMAIN ahead[c][i] :
                        ahead[c][i][f] # FilesOf(remote \o SubSeq(ahead[c], 1, i - 1))[f]
           left    == {i \in 1..n : said(i)}
           nth(k)  == CHOOSE i \in left : Cardinality({j \in left : j <= i}) = k
<1>1. Replayed(c, n) = [k \in 1..Cardinality(left) |-> ahead[c][nth(k)]]
  BY DEF Replayed
<1>2. left \subseteq 1..n
  OBVIOUS
<1> HIDE DEF left
<1>3. n \in Nat /\ Cardinality(left) \in Nat
  <2>1. n \in Nat /\ IsFiniteSet(1..n)
    BY RepoTypes, FS_Interval
  <2>2. IsFiniteSet(left)
    BY <1>2, <2>1, FS_Subset
  <2> QED
    BY <2>1, <2>2, FS_CardinalityType
<1>4. ASSUME NEW k \in 1..Cardinality(left) PROVE nth(k) \in left
  <2> HIDE DEF nth
  <2>1. \A T : T \subseteq 1..n => \A m \in 1..Cardinality(T) : \E i \in T : Cardinality({j \in T : j <= i}) = m
    BY <1>3, CountedOff
  <2>2. \E i \in left : Cardinality({j \in left : j <= i}) = k
    BY <1>2, <2>1, Zenon
  <2> QED
    BY <2>2 DEF nth
<1> HIDE DEF nth
<1>5. ahead[c] \in Seq(Commits)
  BY RepoTypes
<1>6. ASSUME NEW k \in 1..Cardinality(left) PROVE nth(k) \in DOMAIN ahead[c] /\ ahead[c][nth(k)] \in Commits
  <2>1. nth(k) \in 1..n
    BY <1>2, <1>4
  <2> QED
    BY <1>5, <2>1
<1> QED
  BY <1>1, <1>3, <1>6

-----------------------------------------------------------------------------
(* Every command keeps the types.                                          *)

RepoTyped ==
  /\ remote \in Seq(Commits)
  /\ base \in [Clone -> 0..Len(remote)]
  /\ ahead \in [Clone -> Seq(Commits)]
  /\ index \in [Clone -> [Path -> Blob]]
  /\ work \in [Clone -> [Path -> Blob]]
  /\ rebasing \subseteq Clone

\* The commits of a checkout are taken: the remote only grows.
LEMMA AcceptTypes ==
  ASSUME TypeOK, NEW c \in Clone, Accept(c)
  PROVE  /\ remote' \in Seq(Commits)
         /\ base' \in [Clone -> 0..Len(remote')]
         /\ ahead' \in [Clone -> Seq(Commits)]
         /\ Len(remote') = Len(remote) + Len(ahead[c])
         /\ \A i \in DOMAIN remote : remote'[i] = remote[i]
         /\ \A i \in DOMAIN remote' \ DOMAIN remote :
              i - Len(remote) \in DOMAIN ahead[c] /\ remote'[i] = ahead[c][i - Len(remote)]
<1>1. /\ remote \in Seq(Commits) /\ ahead[c] \in Seq(Commits) /\ ahead \in [Clone -> Seq(Commits)]
      /\ base \in [Clone -> 0..Len(remote)]
  BY DEF TypeOK
<1>2. remote' = remote \o ahead[c]
  BY DEF Accept
<1>3. /\ remote' \in Seq(Commits) /\ Len(remote') = Len(remote) + Len(ahead[c])
      /\ \A i \in DOMAIN remote : remote'[i] = remote[i]
      /\ \A i \in DOMAIN remote' \ DOMAIN remote :
           i - Len(remote) \in DOMAIN ahead[c] /\ remote'[i] = ahead[c][i - Len(remote)]
  BY <1>1, <1>2
<1>4. ahead' \in [Clone -> Seq(Commits)]
  BY <1>1 DEF Accept
<1>5. \A d \in Clone : base'[d] \in 0..Len(remote')
  BY <1>1, <1>3 DEF Accept
<1> QED
  BY <1>1, <1>3, <1>4, <1>5 DEF Accept

LEMMA MoveTypes ==
  ASSUME TypeOK, NEW c \in Clone, NEW new \in Seq(Commits), NEW files \in [Path -> Blob],
         Move(c, new, files), UNCHANGED remote
  PROVE  /\ base' \in [Clone -> 0..Len(remote')] /\ ahead' \in [Clone -> Seq(Commits)]
         /\ index' \in [Clone -> [Path -> Blob]] /\ work' \in [Clone -> [Path -> Blob]]
<1>1. remote \in Seq(Commits) /\ FilesOf(remote \o new) \in [Path -> Blob]
  <2>1. remote \in Seq(Commits) /\ remote \o new \in Seq(Commits)
    BY DEF TypeOK
  <2> QED
    BY <2>1, TreeType
<1> QED
  BY <1>1 DEF TypeOK, Move

\* What a rebase leaves in the files.
LEMMA RebaseTypes ==
  ASSUME Typed, NEW p \in Process, Busy(p), Rebase(p)
  PROVE  RepoTyped' /\ (Acknowledge(p) \/ GiveUp(p) \/ \E next \in At : GoTo(p, next))
<1> DEFINE c      == Home[p]
           all    == Replayed(c, Len(ahead[c]))
           first  == CHOOSE i \in Stops(c) : \A j \in Stops(c) : i <= j
           before == Replayed(c, first - 1)
           rebased == [f \in Path |-> IF work[c][f] = index[c][f] THEN FilesOf(remote \o all)[f] ELSE work[c][f]]
           stopped == [f \in Path |-> IF f \in Clashes(c, first) THEN Markers ELSE FilesOf(remote \o before)[f]]
<1>1. c \in Clone /\ TypeOK /\ remote \in Seq(Commits) /\ ahead[c] \in Seq(Commits)
  BY RecordType, RepoTypes DEF Typed
<1>2. /\ UNCHANGED remote
      /\ \/ Refused(c) /\ GiveUp(p) /\ UNCHANGED repo
         \/ /\ Stops(c) = {} /\ Move(c, all, rebased) /\ GoTo(p, "again") /\ UNCHANGED rebasing
         \/ /\ Stops(c) # {} /\ Move(c, before, stopped)
            /\ rebasing' = rebasing \union {c} /\ GiveUp(p)
  BY DEF Rebase
<1> HIDE DEF c, all, first, before, rebased, stopped
<1>3. CASE Refused(c) /\ GiveUp(p) /\ UNCHANGED repo
  BY <1>1, <1>2, <1>3 DEF RepoTyped, TypeOK, repo
<1>4. CASE Move(c, all, rebased) /\ GoTo(p, "again") /\ UNCHANGED rebasing
  <2>1. all \in Seq(Commits)
    BY <1>1, ReplayedType DEF all
  <2>2. remote \o all \in Seq(Commits)
    BY <1>1, <2>1
  <2>3. rebased \in [Path -> Blob]
    BY <1>1, <2>2, TreeType, RepoTypes DEF rebased
  <2>4. RepoTyped'
    BY <1>1, <1>2, <1>4, <2>1, <2>3, MoveTypes DEF RepoTyped, TypeOK
  <2> QED
    BY <1>4, <2>4 DEF At
<1>5. CASE /\ Stops(c) # {} /\ Move(c, before, stopped)
           /\ rebasing' = rebasing \union {c} /\ GiveUp(p)
  <2>1. Stops(c) \subseteq 1..Len(ahead[c])
    BY <1>1 DEF Stops
  <2>2. \E i \in Stops(c) : \A j \in Stops(c) : i <= j
    <3>1. Stops(c) \subseteq Nat
      BY <1>1, <2>1
    <3> QED
      BY <1>5, <3>1, Least
  <2>3. first \in 1..Len(ahead[c]) /\ Len(ahead[c]) \in Nat
    BY <1>1, <2>1, <2>2 DEF first
  <2>4. before \in Seq(Commits)
    BY <1>1, <2>3, ReplayedType DEF before
  <2>5. remote \o before \in Seq(Commits)
    BY <1>1, <2>4
  <2>6. stopped \in [Path -> Blob]
    BY <2>5, TreeType DEF stopped, Blob
  <2>7. RepoTyped'
    BY <1>1, <1>2, <1>5, <2>4, <2>6, MoveTypes DEF RepoTyped, TypeOK
  <2> QED
    BY <1>5, <2>7
<1> QED
  BY <1>2, <1>3, <1>4, <1>5

\* The other commands of a put.
LEMMA CommandTypes ==
  ASSUME Typed, NEW p \in Process, Busy(p),
         Look(p) \/ Write(p) \/ Add(p) \/ Staged(p) \/ Commit(p) \/ Push(p) \/ PushAgain(p)
  PROVE  RepoTyped' /\ (Acknowledge(p) \/ GiveUp(p) \/ \E next \in At : GoTo(p, next))
<1> DEFINE c == Home[p]
           f == Record(p).path
<1>1. c \in Clone /\ f \in Path /\ Record(p).value \in Blob /\ TypeOK
  BY RecordType DEF Typed
<1>2. RepoTyped /\ ahead[c] \in Seq(Commits)
  BY <1>1 DEF TypeOK, RepoTyped
<1> HIDE DEF c, f
<1>3. CASE Look(p)
  BY <1>2, <1>3 DEF Look, RepoTyped, repo, At
<1>4. CASE Write(p)
  BY <1>1, <1>2, <1>4 DEF Write, RepoTyped, At, c, f
<1>5. CASE Add(p)
  BY <1>1, <1>2, <1>5 DEF Add, RepoTyped, At, c, f
<1>6. CASE Staged(p)
  BY <1>2, <1>6 DEF Staged, RepoTyped, repo, At
<1>7. CASE Commit(p)
  <2>1. Scoped(c, f) \in Commits
    BY <1>1, <1>2, OneFile DEF RepoTyped, Scoped
  <2>2. Append(ahead[c], Scoped(c, f)) \in Seq(Commits)
    BY <1>2, <2>1
  <2>3. UNCHANGED <<remote, base, work, rebasing>>
    BY <1>7 DEF Commit
  <2>4. CASE GiveUp(p) /\ UNCHANGED <<ahead, index>>
    BY <1>2, <2>3, <2>4 DEF RepoTyped
  <2>5. CASE /\ ahead' = [ahead EXCEPT ![c] = Append(@, Scoped(c, f))]
             /\ index' = [index EXCEPT ![c][f] = work[c][f]]
             /\ IF HasRemote THEN GoTo(p, "push") ELSE Acknowledge(p)
    BY <1>1, <1>2, <2>2, <2>3, <2>5 DEF RepoTyped, At
  <2> QED
    BY <1>7, <2>4, <2>5 DEF Commit, c, f
<1>8. CASE Push(p)
  <2>1. UNCHANGED <<index, work, rebasing>>
    BY <1>8 DEF Push
  <2>2. CASE Accept(c) /\ Acknowledge(p)
    BY <1>1, <1>2, <2>1, <2>2, AcceptTypes DEF RepoTyped
  <2>3. CASE Acknowledge(p) /\ UNCHANGED <<remote, base, ahead>>
    BY <1>2, <2>1, <2>3 DEF RepoTyped
  <2>4. CASE GoTo(p, "rebase") /\ UNCHANGED <<remote, base, ahead>>
    BY <1>2, <2>1, <2>4 DEF RepoTyped, At
  <2> QED
    BY <1>8, <2>2, <2>3, <2>4 DEF Push, c
<1>9. CASE PushAgain(p)
  <2>1. UNCHANGED <<index, work, rebasing>>
    BY <1>9 DEF PushAgain
  <2>2. CASE Accept(c) /\ Acknowledge(p)
    BY <1>1, <1>2, <2>1, <2>2, AcceptTypes DEF RepoTyped
  <2>3. CASE GiveUp(p) /\ UNCHANGED <<remote, base, ahead>>
    BY <1>2, <2>1, <2>3 DEF RepoTyped
  <2> QED
    BY <1>9, <2>2, <2>3 DEF PushAgain, c
<1> QED
  BY <1>3, <1>4, <1>5, <1>6, <1>7, <1>8, <1>9

LEMMA StepIsBusy ==
  ASSUME Typed, NEW p \in Process, Step(p) \/ Fail(p) \/ PushUnanswered(p)
  PROVE  Busy(p)
BY DEF Typed, AtWork, Step, Look, Write, Add, Staged, Commit, Push, Rebase, PushAgain, Fail, PushUnanswered

LEMMA StepTypes ==
  ASSUME Typed, NEW p \in Process, Step(p)
  PROVE  /\ RepoTyped' /\ UNCHANGED faults /\ Busy(p)
         /\ (Acknowledge(p) \/ GiveUp(p) \/ \E next \in At : GoTo(p, next))
<1>1. Busy(p)
  BY StepIsBusy
<1>2. UNCHANGED faults
  BY DEF Step, Look, Write, Add, Staged, Commit, Push, Rebase, PushAgain
<1>3. CASE Rebase(p)
  BY <1>1, <1>2, <1>3, RebaseTypes
<1>4. CASE ~ Rebase(p)
  BY <1>1, <1>2, <1>4, CommandTypes DEF Step
<1> QED
  BY <1>3, <1>4

\* Faults are counted.
LEMMA FaultTypes ==
  ASSUME TypeOK, NEW c \in Clone, Fault(c)
  PROVE  faults' \in [Clone -> Nat] /\ \A d \in Clone : faults'[d] <= MaxFaults[d]
<1>1. \A d \in Clone : MaxFaults[d] \in Nat
  BY StoreAssumption
<1> QED
  BY <1>1 DEF TypeOK, Fault

LEMMA TypedNext == ASSUME Typed, [Next]_vars PROVE Typed'
<1>1. TypeOK /\ RepoTyped
  BY DEF Typed, TypeOK, RepoTyped
<1>2. ASSUME NEW p \in Process, Step(p) PROVE Typed'
  <2>1. /\ RepoTyped' /\ UNCHANGED faults /\ Busy(p)
        /\ (Acknowledge(p) \/ GiveUp(p) \/ \E next \in At : GoTo(p, next))
    BY <1>2, StepTypes
  <2> QED
    BY <1>1, <2>1, OutcomeTypes DEF Typed, TypeOK, RepoTyped, At
<1>3. ASSUME NEW p \in Process, Fail(p) PROVE Typed'
  <2>1. Busy(p) /\ GiveUp(p) /\ Home[p] \in Clone
    BY <1>3, StepIsBusy, RecordType, <1>1 DEF Fail
  <2> QED
    BY <1>1, <1>3, <2>1, OutcomeTypes, FaultTypes DEF Typed, TypeOK, RepoTyped, At, Fail, repo
<1>4. ASSUME NEW p \in Process, PushUnanswered(p) PROVE Typed'
  <2>1. Busy(p) /\ GiveUp(p) /\ Home[p] \in Clone
    BY <1>4, StepIsBusy, RecordType, <1>1 DEF PushUnanswered
  <2>2. RepoTyped'
    BY <1>1, <1>4, <2>1, AcceptTypes DEF PushUnanswered, RepoTyped
  <2> QED
    BY <1>1, <1>4, <2>1, <2>2, OutcomeTypes, FaultTypes DEF Typed, TypeOK, RepoTyped, At, PushUnanswered
<1>5. ASSUME NEW c \in Clone, Reclone(c) PROVE Typed'
  <2>1. <<>> \in Seq(Commits) /\ FilesOf(remote) \in [Path -> Blob]
    BY <1>1, TreeType DEF RepoTyped
  <2>2. RepoTyped'
    BY <1>1, <1>5, <2>1, MoveTypes DEF Reclone, RepoTyped
  <2> QED
    BY <1>1, <1>5, <2>2 DEF Typed, TypeOK, RepoTyped, Reclone, AtWork, Busy
<1>6. ASSUME NEW c \in Clone, Edit(c) PROVE Typed'
  <2>1. PICK f \in Foreign, v \in Value :
          /\ work' = [work EXCEPT ![c][f] = v]
          /\ index' = index \/ index' = [index EXCEPT ![c][f] = v]
    BY <1>6, Zenon DEF Edit
  <2>2. f \in Path /\ v \in Blob
    BY StoreAssumption DEF Blob
  <2>3. \A w \in [Clone -> [Path -> Blob]] : [w EXCEPT ![c][f] = v] \in [Clone -> [Path -> Blob]]
    BY <2>2
  <2>4. work' \in [Clone -> [Path -> Blob]] /\ index' \in [Clone -> [Path -> Blob]]
    BY <1>1, <2>1, <2>3 DEF RepoTyped
  <2> QED
    BY <1>1, <1>6, <2>4, FaultTypes DEF Typed, TypeOK, Edit, AtWork, Busy
<1>7. CASE UNCHANGED vars
  BY <1>1, <1>7 DEF Typed, TypeOK, AtWork, Busy, vars, repo
<1> QED
  BY <1>2, <1>3, <1>4, <1>5, <1>6, <1>7 DEF Next, Done

LEMMA TypedInitially == Init => Typed
<1> SUFFICES ASSUME Init PROVE Typed
  OBVIOUS
<1>1. <<>> \in Seq(Commits) /\ FilesOf(<<>>) \in [Path -> Blob] /\ Len(<<>>) = 0
  <2>1. <<>> \in Seq(Commits) /\ Len(<<>>) = 0
    OBVIOUS
  <2> QED
    BY <2>1, TreeType
<1>2. /\ remote = <<>> /\ base \in [Clone -> 0..Len(remote)] /\ ahead \in [Clone -> Seq(Commits)]
      /\ index \in [Clone -> [Path -> Blob]] /\ work \in [Clone -> [Path -> Blob]]
  BY <1>1 DEF Init
<1>3. at \in [Process -> Nat] /\ \A p \in Process : at[p] <= Len(Plan[p]) + 1
  <2>1. \A p \in Process : Len(Plan[p]) \in Nat
    BY StoreAssumption
  <2> QED
    BY <2>1 DEF Init
<1>4. faults \in [Clone -> Nat] /\ \A c \in Clone : faults[c] <= MaxFaults[c]
  BY StoreAssumption DEF Init
<1> QED
  BY <1>1, <1>2, <1>3, <1>4 DEF Init, Typed, TypeOK, AtWork

\* The variables keep their types, and a put under way is at a record of its
\* process's plan.
THEOREM TypeCorrect == Spec => []TypeOK
<1>1. Typed => TypeOK
  BY DEF Typed
<1> QED
  BY <1>1, TypedInitially, TypedNext, PTL DEF Spec

-----------------------------------------------------------------------------
(* Whose records are where.                                                *)

\* A process that runs in checkout c puts records at f.
PutIn(c, f) == \E p \in Process : Home[p] = c /\ Puts(p, f)

\* What a checkout holds was put there, and what the remote has beyond it was
\* put in another one.
ComesFrom ==
  /\ {p \in Process : at[p] # 0} \in Together
  /\ \A c \in Clone : \A i \in DOMAIN ahead[c] : \A f \in DOMAIN ahead[c][i] : PutIn(c, f)
  /\ \A i \in DOMAIN remote : \A f \in DOMAIN remote[i] : \E d \in Clone : PutIn(d, f)
  /\ \A c \in Clone : \A i \in DOMAIN remote : i > base[c] =>
       \A f \in DOMAIN remote[i] : \E d \in Clone \ {c} : PutIn(d, f)

\* A step makes at most one commit, of the record a process is at.
CommitsOwn == \A c \in Clone : \A i \in DOMAIN ahead'[c] :
  \/ \E j \in DOMAIN ahead[c] : ahead'[c][i] = ahead[c][j]
  \/ \E p \in Process : Home[p] = c /\ Busy(p) /\ DOMAIN ahead'[c][i] = {Record(p).path}

\* The remote moves by the commits of one checkout.
Pushes == \E c \in Clone : Accept(c)
Stays  == UNCHANGED remote /\ \A c \in Clone : base'[c] \in {base[c], Len(remote)}

LEMMA AcceptWrites == ASSUME TypeOK, NEW c \in Clone, Accept(c) PROVE CommitsOwn
<1>1. ahead' = [ahead EXCEPT ![c] = <<>>] /\ ahead \in [Clone -> Seq(Commits)]
  BY DEF Accept, TypeOK
<1> QED
  BY <1>1 DEF CommitsOwn

LEMMA MoveWrites ==
  ASSUME TypeOK, NEW c \in Clone, NEW new, NEW files, Move(c, new, files), UNCHANGED remote,
         \A k \in DOMAIN new : \E i \in DOMAIN ahead[c] : new[k] = ahead[c][i]
  PROVE  CommitsOwn /\ Stays
<1>1. ahead' = [ahead EXCEPT ![c] = new] /\ ahead \in [Clone -> Seq(Commits)]
  BY DEF Move, TypeOK
<1>2. base' = [base EXCEPT ![c] = Len(remote)] /\ base \in [Clone -> 0..Len(remote)]
  BY DEF Move, TypeOK
<1> QED
  BY <1>1, <1>2 DEF CommitsOwn, Stays

LEMMA RestWrites ==
  ASSUME UNCHANGED <<remote, base, ahead>> PROVE CommitsOwn /\ Stays
BY DEF CommitsOwn, Stays

LEMMA RebaseWrites ==
  ASSUME Typed, NEW p \in Process, Busy(p), Rebase(p)
  PROVE  CommitsOwn /\ Stays
<1> DEFINE c      == Home[p]
           all    == Replayed(c, Len(ahead[c]))
           first  == CHOOSE i \in Stops(c) : \A j \in Stops(c) : i <= j
           before == Replayed(c, first - 1)
<1>1. c \in Clone /\ TypeOK /\ ahead[c] \in Seq(Commits)
  BY RecordType, RepoTypes DEF Typed
<1>2. /\ UNCHANGED remote
      /\ \/ UNCHANGED repo
         \/ \E files : Move(c, all, files)
         \/ Stops(c) # {} /\ \E files : Move(c, before, files)
  BY DEF Rebase
<1> HIDE DEF c, all, first, before
<1>3. CASE UNCHANGED repo
  BY <1>2, <1>3, RestWrites DEF repo
<1>4. CASE \E files : Move(c, all, files)
  <2>1. \A k \in DOMAIN all : \E i \in DOMAIN ahead[c] : all[k] = ahead[c][i]
    BY <1>1, ReplayedType DEF all
  <2> QED
    BY <1>1, <1>2, <1>4, <2>1, MoveWrites
<1>5. CASE Stops(c) # {} /\ \E files : Move(c, before, files)
  <2>1. Stops(c) \subseteq 1..Len(ahead[c]) /\ Stops(c) \subseteq Nat
    BY <1>1 DEF Stops
  <2>2. \E i \in Stops(c) : \A j \in Stops(c) : i <= j
    BY <1>5, <2>1, Least
  <2>3. first \in 1..Len(ahead[c]) /\ Len(ahead[c]) \in Nat
    BY <1>1, <2>1, <2>2 DEF first
  <2>4. \A k \in DOMAIN before : \E i \in DOMAIN ahead[c] : before[k] = ahead[c][i]
    BY <1>1, <2>3, ReplayedType DEF before
  <2> QED
    BY <1>1, <1>2, <1>5, <2>4, MoveWrites
<1> QED
  BY <1>2, <1>3, <1>4, <1>5

LEMMA CommitWrites ==
  ASSUME Typed, NEW p \in Process, Busy(p), Commit(p)
  PROVE  CommitsOwn /\ Stays
<1> DEFINE c == Home[p]
           f == Record(p).path
<1>1. c \in Clone /\ ahead \in [Clone -> Seq(Commits)] /\ UNCHANGED <<remote, base>>
  BY RecordType DEF Typed, TypeOK, Commit
<1>2. CASE UNCHANGED ahead
  BY <1>1, <1>2, RestWrites
<1>3. CASE ahead' = [ahead EXCEPT ![c] = Append(@, Scoped(c, f))]
  <2>1. Append(ahead[c], Scoped(c, f)) = ahead'[c] /\ \A d \in Clone \ {c} : ahead'[d] = ahead[d]
    BY <1>1, <1>3
  <2>2. DOMAIN Scoped(c, f) = {Record(p).path}
    BY DEF Scoped
  <2>3. \A i \in DOMAIN ahead'[c] : \/ (i \in DOMAIN ahead[c] /\ ahead'[c][i] = ahead[c][i])
                                     \/ ahead'[c][i] = Scoped(c, f)
    <3>1. ahead[c] \in Seq(Commits)
      BY <1>1
    <3> HIDE DEF c, f
    <3> QED
      BY <2>1, <3>1
  <2> QED
    BY <1>1, <2>1, <2>2, <2>3 DEF CommitsOwn, Stays
<1> QED
  BY <1>2, <1>3 DEF Commit

LEMMA StepWrites ==
  ASSUME Typed, [Next]_vars
  PROVE  /\ CommitsOwn /\ (Pushes \/ Stays)
         /\ \A p \in Process : at'[p] # 0 <=> at[p] # 0
<1> USE DEF Typed
<1>1. ASSUME NEW p \in Process, Step(p) PROVE CommitsOwn /\ (Pushes \/ Stays)
  <2>1. Busy(p) /\ Home[p] \in Clone
    BY <1>1, StepIsBusy, RecordType
  <2>2. CASE UNCHANGED <<remote, base, ahead>>
    BY <2>2, RestWrites
  <2>3. CASE Accept(Home[p])
    BY <2>1, <2>3, AcceptWrites DEF Pushes
  <2>4. CASE Look(p) \/ Write(p) \/ Add(p) \/ Staged(p)
    BY <2>4, RestWrites DEF Look, Write, Add, Staged, repo
  <2>5. CASE Commit(p)
    BY <2>1, <2>5, CommitWrites
  <2>6. CASE Push(p) \/ PushAgain(p)
    BY <2>2, <2>3, <2>6 DEF Push, PushAgain
  <2>7. CASE Rebase(p)
    BY <2>1, <2>7, RebaseWrites
  <2> QED
    BY <1>1, <2>4, <2>5, <2>6, <2>7 DEF Step
<1>2. ASSUME NEW p \in Process, Fail(p) PROVE CommitsOwn /\ (Pushes \/ Stays)
  BY <1>2, RestWrites DEF Fail, repo
<1>3. ASSUME NEW p \in Process, PushUnanswered(p) PROVE CommitsOwn /\ (Pushes \/ Stays)
  <2>1. Home[p] \in Clone /\ Accept(Home[p])
    BY <1>3, StepIsBusy, RecordType DEF PushUnanswered
  <2> QED
    BY <2>1, AcceptWrites DEF Pushes
<1>4. ASSUME NEW c \in Clone, Reclone(c) PROVE CommitsOwn /\ (Pushes \/ Stays)
  BY <1>4, MoveWrites DEF Reclone
<1>5. ASSUME NEW c \in Clone, Edit(c) PROVE CommitsOwn /\ (Pushes \/ Stays)
  BY <1>5, RestWrites DEF Edit
<1>6. CASE UNCHANGED vars
  BY <1>6, RestWrites DEF vars, repo
<1>7. CommitsOwn /\ (Pushes \/ Stays)
  BY <1>1, <1>2, <1>3, <1>4, <1>5, <1>6 DEF Next, Done
<1>8. \A p \in Process : at'[p] # 0 <=> at[p] # 0
  <2>1. CASE \E p \in Process : Step(p) \/ Fail(p) \/ PushUnanswered(p)
    <3>1. PICK p \in Process : Step(p) \/ Fail(p) \/ PushUnanswered(p)
      BY <2>1
    <3>2. Busy(p)
      BY <3>1, StepIsBusy
    <3>3. Acknowledge(p) \/ GiveUp(p) \/ \E next \in At : GoTo(p, next)
      BY <3>1, StepTypes DEF Fail, PushUnanswered
    <3> QED
      BY <3>2, <3>3, OutcomeTypes
  <2>2. CASE UNCHANGED at
    BY <2>2
  <2> QED
    BY <2>1, <2>2 DEF Next, Done, Reclone, Edit, vars
<1> QED
  BY <1>7, <1>8

LEMMA ComesFromNext ==
  ASSUME Typed, ComesFrom, [Next]_vars
  PROVE  ComesFrom'
<1>1. /\ CommitsOwn /\ (Pushes \/ Stays) /\ \A p \in Process : at'[p] # 0 <=> at[p] # 0
  BY StepWrites
<1>2. \A f : \A c \in Clone : PutIn(c, f)' <=> PutIn(c, f)
  BY <1>1 DEF PutIn, Puts
<1>3. TypeOK /\ Typed'
  BY TypedNext DEF Typed
<1>4. {p \in Process : at[p] # 0}' \in Together
  <2>1. {p \in Process : at'[p] # 0} = {p \in Process : at[p] # 0}
    BY <1>1
  <2> QED
    BY <2>1 DEF ComesFrom
<1>5. ASSUME NEW c \in Clone, NEW i \in DOMAIN ahead'[c], NEW f \in DOMAIN ahead'[c][i] PROVE PutIn(c, f)
  <2>1. CASE \E j \in DOMAIN ahead[c] : ahead'[c][i] = ahead[c][j]
    BY <1>5, <2>1 DEF ComesFrom
  <2>2. CASE \E p \in Process : Home[p] = c /\ Busy(p) /\ DOMAIN ahead'[c][i] = {Record(p).path}
    <3>1. PICK p \in Process : Home[p] = c /\ Busy(p) /\ f = Record(p).path
      BY <1>5, <2>2
    <3>2. at[p] # 0 /\ at[p] \in DOMAIN Plan[p] /\ Plan[p][at[p]].path = f
      BY <1>3, <3>1, RecordType DEF Busy, Record
    <3> QED
      BY <3>1, <3>2 DEF PutIn, Puts
  <2> QED
    BY <1>1, <2>1, <2>2 DEF CommitsOwn
<1>6. /\ \A i \in DOMAIN remote' : \A f \in DOMAIN remote'[i] : \E d \in Clone : PutIn(d, f)
      /\ \A c \in Clone : \A i \in DOMAIN remote' : i > base'[c] =>
           \A f \in DOMAIN remote'[i] : \E d \in Clone \ {c} : PutIn(d, f)
  <2>1. CASE Stays
    <3>1. \A c \in Clone : base[c] <= Len(remote) /\ base[c] \in Nat /\ remote \in Seq(Commits)
      BY <1>3 DEF TypeOK
    <3>2. \A c \in Clone : \A i \in DOMAIN remote : i > base'[c] => i > base[c]
      BY <2>1, <3>1 DEF Stays
    <3> QED
      BY <2>1, <3>2 DEF Stays, ComesFrom
  <2>2. CASE Pushes
    <3>1. PICK c \in Clone : Accept(c)
      BY <2>2 DEF Pushes
    <3>2. /\ remote' \in Seq(Commits) /\ Len(remote') = Len(remote) + Len(ahead[c])
          /\ \A i \in DOMAIN remote : remote'[i] = remote[i]
          /\ \A i \in DOMAIN remote' \ DOMAIN remote :
               i - Len(remote) \in DOMAIN ahead[c] /\ remote'[i] = ahead[c][i - Len(remote)]
      BY <1>3, <3>1, AcceptTypes
    <3>3. /\ base'[c] = Len(remote') /\ \A d \in Clone \ {c} : base'[d] = base[d]
      BY <1>3, <3>1, <3>2 DEF Accept, TypeOK
    <3>4. \A i \in DOMAIN remote' : ~ (i > base'[c])
      BY <3>2, <3>3
    <3>5. \A i \in DOMAIN remote' \ DOMAIN remote : \A f \in DOMAIN remote'[i] : PutIn(c, f)
      BY <3>2 DEF ComesFrom
    <3> QED
      BY <3>2, <3>3, <3>4, <3>5 DEF ComesFrom
  <2> QED
    BY <1>1, <2>1, <2>2
<1> QED
  BY <1>2, <1>4, <1>5, <1>6 DEF ComesFrom

LEMMA ComesFromInitially == Init => ComesFrom
<1> SUFFICES ASSUME Init PROVE ComesFrom
  OBVIOUS
<1>1. PICK T \in Together : at = [p \in Process |-> IF p \in T THEN 1 ELSE 0]
  BY DEF Init
<1>2. T \subseteq Process
  BY StoreAssumption
<1>3. {p \in Process : at[p] # 0} = T
  BY <1>1, <1>2
<1>4. DOMAIN remote = {} /\ \A c \in Clone : DOMAIN ahead[c] = {}
  BY DEF Init
<1> QED
  BY <1>1, <1>3, <1>4 DEF ComesFrom

\* Whose records are where, in every state.
THEOREM RecordsAreTheirs == Spec => [](Typed /\ ComesFrom)
<1>1. Init => Typed /\ ComesFrom
  BY TypedInitially, ComesFromInitially
<1>2. Typed /\ ComesFrom /\ [Next]_vars => (Typed /\ ComesFrom)'
  BY TypedNext, ComesFromNext
<1> QED
  BY <1>1, <1>2, PTL DEF Spec

\* A person's files stay: a commit takes the path of its record and nothing
\* that happens to be staged (Commit of gitadapter.go).
THEOREM FilesStay == Spec => []ForeignStaysHere
<1>1. ASSUME Typed, ComesFrom PROVE ForeignStaysHere
  <2> SUFFICES ASSUME NEW i \in DOMAIN remote, NEW f \in DOMAIN remote[i] PROVE f \notin Foreign
    BY DEF ForeignStaysHere
  <2>1. PICK p \in Process : Puts(p, f)
    BY <1>1 DEF ComesFrom, PutIn
  <2>2. PICK k \in DOMAIN Plan[p] : Plan[p][k].path = f
    BY <2>1 DEF Puts
  <2>3. Plan[p][k] \in Item
    BY <2>2, StoreAssumption
  <2> QED
    BY <2>2, <2>3 DEF Item
<1> QED
  BY <1>1, RecordsAreTheirs, PTL

-----------------------------------------------------------------------------
(* Runs in CI are apart, and so no rebase of theirs stops.                 *)

\* A process in CI that is run.
Runs(p) == IsCI(p) /\ at[p] # 0

LEMMA Apart ==
  ASSUME RunsApart, ComesFrom, NEW p \in Process, Runs(p), NEW q \in Process, q # p, at[q] # 0
  PROVE  Home[q] # Home[p] /\ \A f : ~ (Puts(p, f) /\ Puts(q, f))
<1> DEFINE T == {r \in Process : at[r] # 0}
<1>1. T \in Together /\ p \in T /\ q \in T
  BY DEF ComesFrom, Runs
<1> HIDE DEF T
<1> QED
  BY <1>1 DEF RunsApart, Runs, Puts

\* What somebody puts in another checkout is no record of a run in CI.
LEMMA NotOfOthers ==
  ASSUME RunsApart, ComesFrom, NEW p \in Process, Runs(p), NEW d, d # Home[p], NEW f, Puts(p, f)
  PROVE  ~ PutIn(d, f)
BY Apart DEF PutIn, Puts

LEMMA PathOfPut == ASSUME NEW p \in Process, NEW f, Puts(p, f) PROVE f \in Path
<1>1. PICK k \in DOMAIN Plan[p] : Plan[p][k].path = f
  BY DEF Puts
<1>2. Plan[p][k] \in Item
  BY <1>1, StoreAssumption
<1> QED
  BY <1>1, <1>2 DEF Item

\* The remote moves under a checkout in CI, but not in the files put there.
LEMMA RemoteStands ==
  ASSUME RunsApart, Typed, ComesFrom, NEW p \in Process, Runs(p), NEW f, Puts(p, f)
  PROVE  FilesOf(remote)[f] = FilesOf(Based(Home[p]))[f]
<1> DEFINE c   == Home[p]
           top == SubSeq(remote, base[c] + 1, Len(remote))
<1>1. c \in Clone /\ f \in Path
  BY PathOfPut, StoreAssumption
<1>2. /\ remote \in Seq(Commits) /\ base[c] \in 0..Len(remote) /\ Based(c) \in Seq(Commits)
      /\ Len(Based(c)) = base[c] /\ \A i \in 1..base[c] : Based(c)[i] = remote[i]
  BY <1>1, RepoTypes DEF Typed
<1>3. /\ top \in Seq(Commits) /\ DOMAIN top = 1..Len(remote) - base[c]
      /\ \A k \in DOMAIN top : top[k] = remote[base[c] + k] /\ base[c] + k \in DOMAIN remote
  BY <1>2
<1>4. remote = Based(c) \o top
  <2> DEFINE s == Based(c) \o top
  <2> HIDE DEF c, top
  <2>1. Len(top) = Len(remote) - base[c]
    BY <1>2, <1>3
  <2>2. /\ s \in Seq(Commits) /\ Len(s) = Len(remote)
        /\ \A i \in 1..base[c] : s[i] = Based(c)[i]
        /\ \A i \in base[c] + 1..Len(remote) : s[i] = top[i - base[c]]
    BY <1>2, <1>3, <2>1
  <2>3. \A i \in base[c] + 1..Len(remote) : i - base[c] \in DOMAIN top /\ top[i - base[c]] = remote[i]
    BY <1>2, <1>3
  <2>4. \A i \in 1..Len(remote) : s[i] = remote[i]
    BY <1>2, <2>2, <2>3
  <2> HIDE DEF s
  <2>5. s = remote
    BY <1>2, <2>2, <2>4
  <2> QED
    BY <2>5 DEF s
<1>5. \A k \in DOMAIN top : f \notin DOMAIN top[k]
  <2> SUFFICES ASSUME NEW k \in DOMAIN top, f \in DOMAIN top[k] PROVE FALSE
    OBVIOUS
  <2>1. base[c] + k \in DOMAIN remote /\ base[c] + k > base[c] /\ f \in DOMAIN remote[base[c] + k]
    BY <1>2, <1>3
  <2>2. PICK d \in Clone \ {c} : PutIn(d, f)
    BY <1>1, <2>1 DEF ComesFrom
  <2> QED
    BY <2>2, NotOfOthers
<1> HIDE DEF top, c
<1>6. FilesOf(Based(c) \o top)[f] = FilesOf(Based(c))[f]
  BY <1>1, <1>2, <1>3, <1>5, TreeOnTop
<1> QED
  BY <1>4, <1>6 DEF c

LEMMA NoStops ==
  ASSUME RunsApart, Typed, ComesFrom, NEW p \in Process, Runs(p)
  PROVE  Stops(Home[p]) = {}
<1> DEFINE c == Home[p]
<1>1. c \in Clone
  BY StoreAssumption
<1>2. ASSUME NEW i \in DOMAIN ahead[c], NEW f \in Clashes(c, i) PROVE FALSE
  <2>1. f \in DOMAIN ahead[c][i] /\ FilesOf(remote)[f] # FilesOf(Based(c))[f]
    BY <1>2 DEF Clashes
  <2>2. PICK q \in Process : Home[q] = c /\ Puts(q, f)
    BY <1>1, <2>1 DEF ComesFrom, PutIn
  <2>3. q = p
    BY <2>2, Apart DEF Puts
  <2> QED
    BY <2>1, <2>2, <2>3, RemoteStands
<1> QED
  BY <1>2 DEF Stops

LEMMA WinnerNext ==
  ASSUME RunsApart, Typed, ComesFrom, NobodyPicksAWinner, [Next]_vars
  PROVE  NobodyPicksAWinner'
<1>1. CASE rebasing' \subseteq rebasing
  BY <1>1 DEF NobodyPicksAWinner
<1>2. ASSUME NEW p \in Process, Rebase(p) PROVE NobodyPicksAWinner'
  <2>1. \/ rebasing' = rebasing
        \/ Stops(Home[p]) # {} /\ rebasing' = rebasing \union {Home[p]}
    BY <1>2 DEF Rebase, repo
  <2>2. at[p] # 0
    <3>1. Busy(p)
      BY <1>2, StepIsBusy DEF Step
    <3> QED
      BY <3>1, RecordType DEF Typed
  <2>3. Home[p] \in Disposable => Stops(Home[p]) = {}
    BY <2>2, NoStops DEF Runs, IsCI
  <2> QED
    BY <2>1, <2>3 DEF NobodyPicksAWinner
<1>3. ASSUME NEW p \in Process, Step(p), ~ Rebase(p) PROVE UNCHANGED rebasing
  BY <1>3 DEF Step, Look, Write, Add, Staged, Commit, Push, PushAgain, repo
<1>4. ASSUME NEW p \in Process, Fail(p) \/ PushUnanswered(p) PROVE UNCHANGED rebasing
  BY <1>4 DEF Fail, PushUnanswered, repo
<1>5. ASSUME NEW c \in Clone, Reclone(c) \/ Edit(c) PROVE rebasing' \subseteq rebasing
  BY <1>5 DEF Reclone, Edit
<1>6. CASE UNCHANGED vars
  BY <1>1, <1>6 DEF vars, repo
<1> QED
  BY <1>1, <1>2, <1>3, <1>4, <1>5, <1>6 DEF Next, Done

\* No rebase of a run in CI stops: nobody is asked which of two records is
\* right (push of statecontroller.go).
THEOREM NoRunIsStopped == ASSUME RunsApart PROVE Spec => []NobodyPicksAWinner
<1> DEFINE Inv == Typed /\ ComesFrom /\ NobodyPicksAWinner
<1>1. Init => Inv
  BY TypedInitially, ComesFromInitially DEF Init, NobodyPicksAWinner
<1>2. Inv /\ [Next]_vars => Inv'
  BY TypedNext, ComesFromNext, WinnerNext
<1>3. Inv => NobodyPicksAWinner
  OBVIOUS
<1> HIDE DEF Inv
<1> QED
  BY <1>1, <1>2, <1>3, PTL DEF Spec

-----------------------------------------------------------------------------
(* One run in CI: its clone is the remote it last saw and the record under *)
(* way, and nothing else.                                                  *)

Files(c) == FilesOf(Based(c))
Held(p)  == [g \in {Record(p).path} |-> Record(p).value]
Put(p)   == [Files(Home[p]) EXCEPT ![Record(p).path] = Record(p).value]

Clean(c)   == ahead[c] = <<>> /\ index[c] = Files(c) /\ work[c] = Files(c)
Written(p) == ahead[Home[p]] = <<>> /\ index[Home[p]] = Files(Home[p]) /\ work[Home[p]] = Put(p)
Added(p)   == ahead[Home[p]] = <<>> /\ index[Home[p]] = Put(p) /\ work[Home[p]] = Put(p)
Ahead(p)   == /\ ahead[Home[p]] = <<Held(p)>> /\ index[Home[p]] = Put(p) /\ work[Home[p]] = Put(p)
              /\ Files(Home[p])[Record(p).path] # Record(p).value

\* A run that erred is over; another one is where its last command left it.
Standing(p) ==
  /\ Home[p] \in spoilt => pc[p] = "idle"
  /\ Home[p] \notin spoilt =>
       /\ pc[p] \in {"idle", "write"} => Clean(Home[p])
       /\ pc[p] = "add" => Written(p)
       /\ pc[p] \in {"staged", "commit"} => Added(p)
       /\ pc[p] \in {"push", "rebase", "again"} => Ahead(p)

\* The remote has the record p is at, and is otherwise as it was.
Recorded(p) ==
  /\ FilesOf(remote')[Record(p).path] = Record(p).value
  /\ \A g \in Path \ {Record(p).path} : FilesOf(remote')[g] = FilesOf(remote)[g]

\* What a step of p does: p is not answered, or its record is at the remote.
Outcome(p) ==
  \/ UNCHANGED <<remote, at>>
  \/ Recorded(p) /\ (UNCHANGED at \/ at' = [at EXCEPT ![p] = @ + 1])

LEMMA OnTop ==
  ASSUME NEW log \in Seq(Commits), NEW f \in Path, NEW v \in Blob
  PROVE  FilesOf(log \o <<[g \in {f} |-> v]>>) = [FilesOf(log) EXCEPT ![f] = v]
<1> DEFINE d == [g \in {f} |-> v]
<1>1. d \in Commits /\ DOMAIN d = {f} /\ d[f] = v
  BY OneFile
<1> HIDE DEF d
<1>2. FilesOf(log) \in [Path -> Blob] /\ FilesOf(log \o <<d>>) \in [Path -> Blob]
  <2>1. log \o <<d>> \in Seq(Commits)
    BY <1>1
  <2> QED
    BY <2>1, TreeType
<1>3. \A g \in Path : FilesOf(log \o <<d>>)[g] = IF g = f THEN v ELSE FilesOf(log)[g]
  BY <1>1, TreeAfter
<1>4. FilesOf(log \o <<d>>) = [FilesOf(log) EXCEPT ![f] = v]
  BY <1>2, <1>3
<1> QED
  BY <1>4 DEF d

\* What a run in CI at a record may count on.
LEMMA RunFacts ==
  ASSUME RunsApart, Typed, ComesFrom, NobodyPicksAWinner, NEW p \in Process, IsCI(p), Busy(p)
  PROVE  /\ Home[p] \in Clone /\ Home[p] \notin rebasing /\ Home[p] \in Disposable
         /\ Record(p).path \in Path /\ Record(p).value \in Blob
         /\ Files(Home[p]) \in [Path -> Blob] /\ FilesOf(remote) \in [Path -> Blob]
         /\ FilesOf(remote)[Record(p).path] = Files(Home[p])[Record(p).path]
         /\ ahead[Home[p]] = <<>> => Tip(Home[p]) = Files(Home[p])
         /\ FilesOf(remote \o <<Held(p)>>) = [FilesOf(remote) EXCEPT ![Record(p).path] = Record(p).value]
<1> DEFINE c == Home[p]
<1>1. /\ c \in Clone /\ c \notin rebasing /\ c \in Disposable
      /\ Record(p).path \in Path /\ Record(p).value \in Blob /\ at[p] \in 1..Len(Plan[p])
      /\ Record(p) = Plan[p][at[p]]
  BY RecordType DEF Typed, IsCI, NobodyPicksAWinner
<1>2. Puts(p, Record(p).path) /\ Runs(p)
  BY <1>1 DEF Puts, Runs, Busy
<1>3. /\ Based(c) \in Seq(Commits) /\ remote \in Seq(Commits) /\ FilesOf(remote) \in [Path -> Blob]
  BY <1>1, RepoTypes DEF Typed
<1>4. Files(c) \in [Path -> Blob]
  BY <1>3, TreeType DEF Files
<1>5. FilesOf(remote)[Record(p).path] = Files(c)[Record(p).path]
  BY <1>2, RemoteStands DEF Files
<1>6. ahead[c] = <<>> => Tip(c) = Files(c)
  <2>1. Based(c) \o <<>> = Based(c)
    BY <1>3
  <2> QED
    BY <2>1 DEF Tip, Files
<1>7. FilesOf(remote \o <<Held(p)>>) = [FilesOf(remote) EXCEPT ![Record(p).path] = Record(p).value]
  BY <1>1, <1>3, OnTop DEF Held
<1> QED
  BY <1>1, <1>3, <1>4, <1>5, <1>6, <1>7

\* The commands in front of the push.
LEMMA StandsBeforePush ==
  ASSUME RunsApart, Typed, ComesFrom, NobodyPicksAWinner, HasRemote,
         NEW p \in Process, IsCI(p), Busy(p), Standing(p),
         Look(p) \/ Write(p) \/ Add(p) \/ Staged(p) \/ Commit(p)
  PROVE  Standing(p)' /\ Outcome(p)
<1> DEFINE c == Home[p]
           f == Record(p).path
           v == Record(p).value
<1>1. /\ c \in Clone /\ c \notin rebasing /\ c \in Disposable /\ f \in Path /\ v \in Blob
      /\ Files(c) \in [Path -> Blob] /\ FilesOf(remote)[f] = Files(c)[f]
      /\ ahead[c] = <<>> => Tip(c) = Files(c)
  BY RunFacts
<1>2. /\ pc \in [Process -> At \union {"idle"}] /\ at \in [Process -> Nat] /\ spoilt \subseteq Clone
      /\ index \in [Clone -> [Path -> Blob]] /\ work \in [Clone -> [Path -> Blob]]
      /\ ahead \in [Clone -> Seq(Commits)]
  BY DEF Typed, TypeOK, At
<1>3. UNCHANGED <<remote, base>>
  BY DEF Look, Write, Add, Staged, Commit, repo
<1>4. Files(c)' = Files(c)
  BY <1>3 DEF Files, Based
<1>5. UNCHANGED at => Record(p)' = Record(p) /\ Held(p)' = Held(p) /\ Put(p)' = Put(p)
  BY <1>4 DEF Record, Held, Put
<1>6. FilesOf(remote)[f] = v => Recorded(p)
  BY <1>3 DEF Recorded
<1>7. GiveUp(p) => Standing(p)' /\ Outcome(p)
  BY <1>1, <1>2, <1>3 DEF GiveUp, Standing, Outcome
<1> HIDE DEF c, f, v
<1>8. CASE Look(p)
  <2>1. pc[p] = "idle" /\ c \notin spoilt /\ Clean(c) /\ UNCHANGED repo
    BY <1>8 DEF Look, Standing, c
  <2>2. Clean(c)'
    BY <1>4, <2>1 DEF Clean, repo
  <2>3. CASE Acknowledge(p) /\ work[c][f] = v
    <3>1. Recorded(p)
      BY <1>1, <1>6, <2>1, <2>3 DEF Clean
    <3> QED
      BY <1>2, <2>1, <2>2, <2>3, <3>1 DEF Acknowledge, Outcome, Standing, c
  <2>4. CASE GoTo(p, "write")
    BY <1>2, <1>3, <2>1, <2>2, <2>4 DEF GoTo, Outcome, Standing, c
  <2> QED
    BY <1>8, <2>3, <2>4 DEF Look, c, f, v
<1>9. CASE Write(p)
  <2>1. pc[p] = "write" /\ c \notin spoilt /\ Clean(c) /\ GoTo(p, "add")
    BY <1>9 DEF Write, Standing, c
  <2>2. UNCHANGED <<ahead, index>> /\ work'[c] = [work[c] EXCEPT ![f] = v]
    BY <1>1, <1>2, <1>9 DEF Write, c, f, v
  <2>3. Written(p)'
    BY <1>4, <1>5, <2>1, <2>2 DEF GoTo, Written, Clean, Put, c, f, v
  <2> QED
    BY <1>2, <1>3, <2>1, <2>3 DEF GoTo, Outcome, Standing, c
<1>10. CASE Add(p)
  <2>1. pc[p] = "add" /\ c \notin spoilt /\ Written(p) /\ GoTo(p, "staged")
    BY <1>10 DEF Add, Standing, c
  <2>2. UNCHANGED <<ahead, work>> /\ index'[c] = [index[c] EXCEPT ![f] = work[c][f]]
    BY <1>1, <1>2, <1>10 DEF Add, c, f
  <2>3. work[c][f] = v
    BY <1>1, <2>1 DEF Written, Put, c, f, v
  <2>4. Added(p)'
    BY <1>4, <1>5, <2>1, <2>2, <2>3 DEF GoTo, Added, Written, Put, c, f, v
  <2> QED
    BY <1>2, <1>3, <2>1, <2>4 DEF GoTo, Outcome, Standing, c
<1>11. CASE Staged(p)
  <2>1. pc[p] = "staged" /\ c \notin spoilt /\ Added(p) /\ UNCHANGED repo
    BY <1>11 DEF Staged, Standing, c
  <2>2. CASE index[c][f] = Tip(c)[f] /\ Acknowledge(p)
    <3>1. index[c][f] = v /\ Tip(c) = Files(c) /\ ahead[c] = <<>>
      BY <1>1, <2>1 DEF Added, Put, c, f, v
    <3>2. Files(c)[f] = v
      BY <2>2, <3>1
    <3>3. Put(p) = Files(c)
      BY <1>1, <3>2 DEF Put, c, f, v
    <3>4. Clean(c)'
      BY <1>4, <2>1, <3>3 DEF Clean, Added, repo, c
    <3>5. Recorded(p)
      BY <1>1, <1>6, <3>2
    <3> QED
      BY <1>2, <2>1, <2>2, <3>4, <3>5 DEF Acknowledge, Outcome, Standing, c
  <2>3. CASE GoTo(p, "commit")
    <3>1. Added(p)'
      BY <1>4, <1>5, <2>1, <2>3 DEF GoTo, Added, repo
    <3> QED
      BY <1>2, <1>3, <2>1, <2>3, <3>1 DEF GoTo, Outcome, Standing, c
  <2> QED
    BY <1>11, <2>2, <2>3 DEF Staged, c, f
<1>12. CASE Commit(p)
  <2>1. pc[p] = "commit" /\ c \notin spoilt /\ Added(p) /\ UNCHANGED work
    BY <1>12 DEF Commit, Standing, c
  <2>2. work[c][f] = v /\ Tip(c) = Files(c) /\ ahead[c] = <<>>
    BY <1>1, <2>1 DEF Added, Put, c, f, v
  <2>3. CASE GiveUp(p)
    BY <1>7, <2>3
  <2>4. CASE /\ work[c][f] # Tip(c)[f] /\ GoTo(p, "push")
             /\ ahead' = [ahead EXCEPT ![c] = Append(@, Scoped(c, f))]
             /\ index' = [index EXCEPT ![c][f] = work[c][f]]
    <3>1. Scoped(c, f) = Held(p)
      BY <2>2 DEF Scoped, Held, c, f, v
    <3>2. ahead'[c] = <<Held(p)>>
      BY <1>1, <1>2, <2>2, <2>4, <3>1
    <3>3. index'[c] = [index[c] EXCEPT ![f] = v]
      BY <1>1, <1>2, <2>2, <2>4
    <3>4. index'[c] = Put(p)
      BY <1>1, <2>1, <3>3 DEF Added, Put, c, f, v
    <3>5. Ahead(p)'
      BY <1>4, <1>5, <2>1, <2>2, <2>4, <3>2, <3>4 DEF GoTo, Added, Ahead, c, f, v
    <3> QED
      BY <1>2, <1>3, <2>1, <2>4, <3>5 DEF GoTo, Outcome, Standing, c
  <2> QED
    BY <1>1, <1>12, <2>3, <2>4 DEF Commit, c, f
<1> QED
  BY <1>8, <1>9, <1>10, <1>11, <1>12

\* The remote takes the record.
LEMMA TakesRecord ==
  ASSUME RunsApart, Typed, ComesFrom, NobodyPicksAWinner,
         NEW p \in Process, IsCI(p), Busy(p), Ahead(p), base[Home[p]] = Len(remote), Accept(Home[p])
  PROVE  /\ Recorded(p)
         /\ Files(Home[p])' = Put(p) /\ ahead'[Home[p]] = <<>>
<1> DEFINE c == Home[p]
<1>1. /\ c \in Clone /\ FilesOf(remote \o <<Held(p)>>) = [FilesOf(remote) EXCEPT ![Record(p).path] = Record(p).value]
      /\ Record(p).path \in Path /\ FilesOf(remote) \in [Path -> Blob]
  BY RunFacts
<1>2. remote \in Seq(Commits) /\ base \in [Clone -> 0..Len(remote)] /\ ahead \in [Clone -> Seq(Commits)]
  BY DEF Typed, TypeOK
<1>3. remote' = remote \o <<Held(p)>> /\ remote' \in Seq(Commits)
  BY <1>1, <1>2, AcceptTypes DEF Accept, Ahead, Typed
<1>4. Recorded(p)
  BY <1>1, <1>3 DEF Recorded
<1>5. base'[c] = Len(remote')
  <2>1. base'[c] = Len(remote) + Len(ahead[c])
    BY <1>1, <1>2 DEF Accept
  <2> QED
    BY <1>1, <2>1, AcceptTypes DEF Typed
<1>6. Based(c)' = remote' /\ Based(c) = remote
  BY <1>2, <1>3, <1>5 DEF Based
<1>7. ahead'[c] = <<>>
  BY <1>1, <1>2 DEF Accept
<1> QED
  BY <1>1, <1>3, <1>4, <1>6, <1>7 DEF Files, Put

\* The push, its rebase and the second push.
LEMMA StandsInPush ==
  ASSUME RunsApart, Typed, ComesFrom, NobodyPicksAWinner,
         NEW p \in Process, IsCI(p), Busy(p), Standing(p),
         Push(p) \/ Rebase(p) \/ PushAgain(p)
  PROVE  Standing(p)' /\ Outcome(p)
<1> DEFINE c == Home[p]
           f == Record(p).path
           v == Record(p).value
<1>1. /\ c \in Clone /\ c \notin rebasing /\ c \in Disposable /\ f \in Path /\ v \in Blob
      /\ Files(c) \in [Path -> Blob] /\ FilesOf(remote)[f] = Files(c)[f] /\ FilesOf(remote) \in [Path -> Blob]
      /\ FilesOf(remote \o <<Held(p)>>) = [FilesOf(remote) EXCEPT ![f] = v]
  BY RunFacts
<1>2. /\ pc \in [Process -> At \union {"idle"}] /\ at \in [Process -> Nat] /\ spoilt \subseteq Clone
      /\ index \in [Clone -> [Path -> Blob]] /\ work \in [Clone -> [Path -> Blob]]
      /\ ahead \in [Clone -> Seq(Commits)] /\ base \in [Clone -> 0..Len(remote)]
      /\ remote \in Seq(Commits)
  BY DEF Typed, TypeOK, At
<1>3. Ahead(p) /\ c \notin spoilt
  BY DEF Standing, Push, Rebase, PushAgain
<1>4. ASSUME GiveUp(p), UNCHANGED remote PROVE Standing(p)' /\ Outcome(p)
  BY <1>1, <1>2, <1>4 DEF GiveUp, Standing, Outcome
<1>5. ASSUME Accept(c), base[c] = Len(remote), Acknowledge(p), UNCHANGED <<index, work>>
      PROVE  Standing(p)' /\ Outcome(p)
  <2>1. Recorded(p) /\ Files(c)' = Put(p) /\ ahead'[c] = <<>>
    BY <1>3, <1>5, TakesRecord
  <2>2. Clean(c)'
    BY <1>3, <1>5, <2>1 DEF Clean, Ahead
  <2> QED
    BY <1>2, <1>3, <1>5, <2>1, <2>2 DEF Acknowledge, Outcome, Standing
<1> HIDE DEF c, f, v
<1>6. CASE Push(p)
  <2>1. CASE GoTo(p, "rebase") /\ UNCHANGED <<remote, base, ahead>>
    <3>1. UNCHANGED <<remote, base, ahead, index, work, at>>
      BY <1>6, <2>1 DEF Push, GoTo
    <3>2. Ahead(p)'
      BY <1>3, <3>1 DEF Ahead, Held, Put, Files, Based, Record
    <3> QED
      BY <1>2, <1>3, <2>1, <3>1, <3>2 DEF GoTo, Outcome, Standing, c
  <2> QED
    BY <1>1, <1>5, <1>6, <2>1 DEF Push, c
<1>7. CASE PushAgain(p)
  BY <1>4, <1>5, <1>7 DEF PushAgain, c
<1>8. CASE Rebase(p)
  <2>1. UNCHANGED remote
    BY <1>8 DEF Rebase
  <2>2. CASE GiveUp(p)
    BY <1>4, <2>1, <2>2
  <2>3. CASE ~ GiveUp(p)
    <3> DEFINE all == Replayed(c, Len(ahead[c]))
               files == [g \in Path |-> IF work[c][g] = index[c][g] THEN FilesOf(remote \o all)[g] ELSE work[c][g]]
    <3>1. Move(c, all, files) /\ GoTo(p, "again")
      BY <1>8, <2>3 DEF Rebase, c
    <3>2. all = <<Held(p)>>
      <4> DEFINE said(i) == \E g \in DOMAIN ahead[c][i] :
                              ahead[c][i][g] # FilesOf(remote \o SubSeq(ahead[c], 1, i - 1))[g]
                 left == {i \in 1..1 : said(i)}
                 nth(k) == CHOOSE i \in left : Cardinality({j \in left : j <= i}) = k
      <4>1. ahead[c] = <<Held(p)>> /\ Len(ahead[c]) = 1 /\ ahead[c][1] = Held(p)
        BY <1>3 DEF Ahead, c
      <4>2. remote \o SubSeq(ahead[c], 1, 1 - 1) = remote
        BY <1>2, <4>1
      <4>3. f \in DOMAIN Held(p) /\ Held(p)[f] = v /\ FilesOf(remote)[f] # v
        BY <1>1, <1>3 DEF Held, Ahead, c, f, v
      <4>4. said(1)
        <5>1. \E g \in DOMAIN ahead[c][1] : ahead[c][1][g] # FilesOf(remote)[g]
          BY <4>1, <4>3
        <5> QED
          BY <4>2, <5>1
      <4>5. left = {1}
        BY <4>4
      <4>6. all = [k \in 1..Cardinality(left) |-> ahead[c][nth(k)]]
        <5>1. all = Replayed(c, 1)
          BY <4>1
        <5> QED
          BY <5>1 DEF Replayed
      <4> HIDE DEF left
      <4>7. {j \in left : j <= 1} = {1} /\ Cardinality({1}) = 1
        BY <4>5, FS_Singleton
      <4>8. nth(1) = 1
        BY <4>5, <4>7
      <4> HIDE DEF nth
      <4>9. all = [k \in 1..1 |-> Held(p)]
        BY <4>1, <4>5, <4>6, <4>7, <4>8
      <4> QED
        BY <4>9
    <3>3. \A g \in Path : work[c][g] = index[c][g]
      BY <1>3 DEF Ahead, c
    <3>4. files = FilesOf(remote \o <<Held(p)>>)
      BY <1>1, <3>2, <3>3
    <3> HIDE DEF all, files
    <3>5. /\ base'[c] = Len(remote) /\ ahead'[c] = <<Held(p)>>
          /\ index'[c] = FilesOf(remote \o <<Held(p)>>) /\ work'[c] = FilesOf(remote \o <<Held(p)>>)
      BY <1>1, <1>2, <3>1, <3>2, <3>4 DEF Move
    <3>6. Based(c)' = remote
      BY <1>2, <2>1, <3>5 DEF Based
    <3>7. Files(c)' = FilesOf(remote) /\ UNCHANGED at
      BY <3>1, <3>6 DEF Files, GoTo
    <3>8. Put(p)' = FilesOf(remote \o <<Held(p)>>) /\ Held(p)' = Held(p)
      BY <1>1, <3>7 DEF Put, Held, Record, c, f, v
    <3>9. FilesOf(remote)[f] # v /\ Record(p)' = Record(p)
      BY <1>1, <1>3, <3>7 DEF Ahead, Record, c, f, v
    <3>10. Ahead(p)'
      BY <3>5, <3>7, <3>8, <3>9 DEF Ahead, c, f, v
    <3> QED
      BY <1>2, <1>3, <2>1, <3>1, <3>7, <3>10 DEF GoTo, Outcome, Standing, c
  <2> QED
    BY <2>2, <2>3
<1> QED
  BY <1>6, <1>7, <1>8

\* A command that fails, and a push whose answer is lost.
LEMMA StandsFailed ==
  ASSUME RunsApart, Typed, ComesFrom, NobodyPicksAWinner,
         NEW p \in Process, IsCI(p), Busy(p), Standing(p), Fail(p) \/ PushUnanswered(p)
  PROVE  Standing(p)' /\ Outcome(p)
<1>1. /\ Home[p] \in Clone /\ Home[p] \in Disposable
      /\ pc \in [Process -> At \union {"idle"}] /\ spoilt \subseteq Clone
  BY RunFacts DEF Typed, TypeOK, At
<1>2. GiveUp(p) /\ UNCHANGED at
  BY DEF Fail, PushUnanswered, GiveUp
<1>3. Standing(p)'
  BY <1>1, <1>2 DEF GiveUp, Standing
<1>4. CASE Fail(p)
  BY <1>2, <1>3, <1>4 DEF Fail, Outcome
<1>5. CASE PushUnanswered(p)
  <2>1. Ahead(p) /\ base[Home[p]] = Len(remote) /\ Accept(Home[p])
    BY <1>5 DEF PushUnanswered, Standing
  <2> QED
    BY <1>2, <1>3, <2>1, TakesRecord DEF Outcome
<1> QED
  BY <1>3, <1>4, <1>5

-----------------------------------------------------------------------------
(* What was answered is at the remote, or a later record of the process.   *)

Lasts(p) == \A i \in 1..at[p] - 1 : \E j \in DOMAIN Plan[p] :
  j >= i /\ Plan[p][j].path = Plan[p][i].path /\ Plan[p][j].value = FilesOf(remote)[Plan[p][i].path]

LEMMA LastsOwn ==
  ASSUME Typed, NEW p \in Process, Busy(p), Lasts(p), Outcome(p)
  PROVE  Lasts(p)'
<1>1. /\ at \in [Process -> Nat] /\ at[p] \in 1..Len(Plan[p]) /\ Plan[p] \in Seq(Item)
      /\ Record(p) = Plan[p][at[p]]
  BY RecordType, StoreAssumption DEF Typed, TypeOK
<1>2. CASE UNCHANGED <<remote, at>>
  BY <1>2 DEF Lasts
<1>3. CASE Recorded(p) /\ (UNCHANGED at \/ at' = [at EXCEPT ![p] = @ + 1])
  <2> SUFFICES ASSUME NEW i \in 1..at'[p] - 1
               PROVE  \E j \in DOMAIN Plan[p] : /\ j >= i /\ Plan[p][j].path = Plan[p][i].path
                                                /\ Plan[p][j].value = FilesOf(remote')[Plan[p][i].path]
    BY DEF Lasts
  <2>1. i \in 1..at[p] /\ i \in DOMAIN Plan[p] /\ Plan[p][i] \in Item
    BY <1>1, <1>3
  <2>2. CASE Plan[p][i].path = Record(p).path
    BY <1>1, <1>3, <2>1, <2>2 DEF Recorded
  <2>3. CASE Plan[p][i].path # Record(p).path
    <3>1. i \in 1..at[p] - 1
      BY <1>1, <2>1, <2>3
    <3>2. Plan[p][i].path \in Path
      BY <2>1 DEF Item
    <3>3. FilesOf(remote')[Plan[p][i].path] = FilesOf(remote)[Plan[p][i].path]
      BY <1>3, <2>3, <3>2 DEF Recorded
    <3> QED
      BY <3>1, <3>3 DEF Lasts
  <2> QED
    BY <2>2, <2>3
<1> QED
  BY <1>2, <1>3 DEF Outcome

\* The checkout c is as it was.
Kept(c) == /\ base'[c] = base[c] /\ ahead'[c] = ahead[c] /\ index'[c] = index[c] /\ work'[c] = work[c]
           /\ c \in spoilt' <=> c \in spoilt

\* A put works in its own checkout.
LEMMA KeepsOthers ==
  ASSUME Typed, NEW q \in Process, Busy(q), NEW c \in Clone, c # Home[q],
         Step(q) \/ Fail(q) \/ PushUnanswered(q)
  PROVE  Kept(c) /\ (UNCHANGED remote \/ Accept(Home[q]))
<1>1. /\ base \in [Clone -> 0..Len(remote)] /\ ahead \in [Clone -> Seq(Commits)]
      /\ index \in [Clone -> [Path -> Blob]] /\ work \in [Clone -> [Path -> Blob]]
      /\ Home[q] \in Clone
  BY RecordType DEF Typed, TypeOK
<1>2. c \in spoilt' <=> c \in spoilt
  <2>1. Acknowledge(q) \/ GiveUp(q) \/ \E next \in At : GoTo(q, next)
    BY StepTypes DEF Fail, PushUnanswered
  <2> QED
    BY <2>1 DEF Acknowledge, GiveUp, GoTo
<1>3. CASE UNCHANGED repo /\ UNCHANGED remote
  BY <1>2, <1>3 DEF Kept, repo
<1>4. CASE Look(q) \/ Staged(q) \/ Fail(q)
  BY <1>3, <1>4 DEF Look, Staged, Fail
<1>5. CASE Write(q) \/ Add(q)
  BY <1>1, <1>2, <1>5 DEF Write, Add, Kept
<1>6. CASE Commit(q)
  BY <1>1, <1>2, <1>6 DEF Commit, Kept
<1>7. CASE Push(q) \/ PushAgain(q) \/ PushUnanswered(q)
  BY <1>1, <1>2, <1>7 DEF Push, PushAgain, PushUnanswered, Accept, Kept
<1>8. ASSUME NEW new, NEW files, Move(Home[q], new, files), UNCHANGED remote
      PROVE  Kept(c)
  BY <1>1, <1>2, <1>8 DEF Move, Kept
<1>9. CASE Rebase(q)
  <2>1. UNCHANGED remote /\ (UNCHANGED repo \/ \E new, files : Move(Home[q], new, files))
    BY <1>9 DEF Rebase
  <2> QED
    BY <1>3, <1>8, <2>1
<1> QED
  BY <1>4, <1>5, <1>6, <1>7, <1>9 DEF Step

LEMMA StandsKept ==
  ASSUME Typed, NEW p \in Process, Standing(p), Home[p] \in Clone, Kept(Home[p]),
         pc'[p] = pc[p], at'[p] = at[p],
         \A i \in 1..base[Home[p]] : remote'[i] = remote[i], remote' \in Seq(Commits)
  PROVE  Standing(p)'
<1> DEFINE c == Home[p]
<1>1. base[c] \in 0..Len(remote) /\ remote \in Seq(Commits)
  BY DEF Typed, TypeOK
<1>2. Based(c)' = Based(c)
  <2>1. base'[c] = base[c]
    BY DEF Kept
  <2> DEFINE n == base[c]
  <2>2. n \in Nat /\ \A i \in 1..n : remote'[i] = remote[i]
    BY <1>1
  <2> HIDE DEF n
  <2>3. [i \in 1..n |-> remote'[i]] = [i \in 1..n |-> remote[i]]
    BY <2>2
  <2>4. /\ SubSeq(remote', 1, n) = [i \in 1..n |-> remote'[i]]
        /\ SubSeq(remote, 1, n) = [i \in 1..n |-> remote[i]]
    BY <2>2
  <2> QED
    BY <2>1, <2>3, <2>4 DEF Based, n
<1>3. Files(c)' = Files(c) /\ Record(p)' = Record(p)
  BY <1>2 DEF Files, Record
<1>4. Put(p)' = Put(p) /\ Held(p)' = Held(p)
  BY <1>3 DEF Put, Held
<1> QED
  BY <1>3, <1>4 DEF Standing, Kept, Clean, Written, Added, Ahead

LEMMA OthersLeaveIt ==
  ASSUME RunsApart, Typed, ComesFrom, NEW p \in Process, Runs(p), Standing(p), Lasts(p),
         NEW q \in Process, q # p, Step(q) \/ Fail(q) \/ PushUnanswered(q)
  PROVE  Standing(p)' /\ Lasts(p)'
<1> DEFINE c == Home[p]
<1>1. Busy(q) /\ at[q] # 0 /\ Home[q] \in Clone
  <2>1. Busy(q)
    BY StepIsBusy
  <2> QED
    BY <2>1, RecordType DEF Typed
<1>2. c # Home[q] /\ c \in Clone
  BY <1>1, Apart, StoreAssumption
<1>3. Kept(c) /\ (UNCHANGED remote \/ Accept(Home[q]))
  BY <1>1, <1>2, KeepsOthers
<1>4. pc'[p] = pc[p] /\ at'[p] = at[p]
  <2>1. Acknowledge(q) \/ GiveUp(q) \/ \E next \in At : GoTo(q, next)
    BY StepTypes DEF Fail, PushUnanswered
  <2> QED
    BY <1>1, <2>1, OutcomeTypes
<1>5. remote \in Seq(Commits) /\ base[c] \in 0..Len(remote) /\ ahead[Home[q]] \in Seq(Commits)
  BY <1>1, <1>2, RepoTypes DEF Typed
<1>6. remote' \in Seq(Commits) /\ \A i \in DOMAIN remote : remote'[i] = remote[i]
  BY <1>1, <1>3, <1>5, AcceptTypes DEF Typed
<1>7. Standing(p)'
  BY <1>2, <1>3, <1>4, <1>5, <1>6, StandsKept
<1>8. \A f : Puts(p, f) => FilesOf(remote')[f] = FilesOf(remote)[f]
  <2> SUFFICES ASSUME NEW f, Puts(p, f), Accept(Home[q]) PROVE FilesOf(remote')[f] = FilesOf(remote)[f]
    BY <1>3
  <2>1. \A k \in DOMAIN ahead[Home[q]] : f \notin DOMAIN ahead[Home[q]][k]
    BY <1>1, <1>2, NotOfOthers DEF ComesFrom
  <2>2. f \in Path /\ remote' = remote \o ahead[Home[q]]
    BY PathOfPut DEF Accept
  <2> QED
    BY <1>5, <2>1, <2>2, TreeOnTop
<1>9. at[p] \in Nat /\ at[p] - 1 <= Len(Plan[p]) /\ at[p] # 0 /\ DOMAIN Plan[p] = 1..Len(Plan[p]) /\ Len(Plan[p]) \in Nat
  BY StoreAssumption DEF Typed, TypeOK, Runs
<1>10. \A i \in 1..at[p] - 1 : Puts(p, Plan[p][i].path)
  <2>1. \A i \in 1..at[p] - 1 : i \in DOMAIN Plan[p]
    BY <1>9
  <2> QED
    BY <1>9, <2>1 DEF Puts
<1>11. Lasts(p)'
  BY <1>4, <1>8, <1>10 DEF Lasts
<1> QED
  BY <1>7, <1>11

\* A fresh clone, and somebody's edits.
LEMMA BesidesLeaveIt ==
  ASSUME Typed, NEW p \in Process, Runs(p), Standing(p), Lasts(p),
         NEW d \in Clone, Reclone(d) \/ Edit(d)
  PROVE  Standing(p)' /\ Lasts(p)'
<1> DEFINE c == Home[p]
<1>1. /\ c \in Clone /\ c \in Disposable /\ remote \in Seq(Commits) /\ UNCHANGED <<remote, pc, at>>
      /\ base \in [Clone -> 0..Len(remote)] /\ ahead \in [Clone -> Seq(Commits)]
      /\ index \in [Clone -> [Path -> Blob]] /\ work \in [Clone -> [Path -> Blob]]
  BY StoreAssumption DEF Runs, IsCI, Typed, TypeOK, Reclone, Edit
<1>2. Lasts(p)'
  BY <1>1 DEF Lasts
<1>3. CASE Edit(d)
  <2>1. d # c /\ UNCHANGED <<base, ahead, spoilt>>
    BY <1>1, <1>3 DEF Edit
  <2>2. PICK f \in Foreign, v \in Value :
          /\ work' = [work EXCEPT ![d][f] = v]
          /\ index' = index \/ index' = [index EXCEPT ![d][f] = v]
    BY <1>3, Zenon DEF Edit
  <2>3. work'[c] = work[c] /\ index'[c] = index[c]
    BY <1>1, <2>1, <2>2
  <2>4. Kept(c)
    BY <2>1, <2>3 DEF Kept
  <2> QED
    BY <1>1, <1>2, <2>4, StandsKept
<1>4. CASE Reclone(d) /\ d # c
  <2>1. Kept(c)
    BY <1>1, <1>4 DEF Reclone, Move, Kept
  <2> QED
    BY <1>1, <1>2, <2>1, StandsKept
<1>5. CASE Reclone(d) /\ d = c
  <2>1. pc'[p] = "idle" /\ c \notin spoilt'
    BY <1>1, <1>5 DEF Reclone
  <2>2. base'[c] = Len(remote) /\ ahead'[c] = <<>> /\ work'[c] = FilesOf(remote) /\ index'[c] = FilesOf(remote \o <<>>)
    BY <1>1, <1>5 DEF Reclone, Move
  <2>3. Based(c)' = remote /\ remote \o <<>> = remote
    BY <1>1, <2>2 DEF Based
  <2>4. Clean(c)'
    BY <2>2, <2>3 DEF Clean, Files
  <2> QED
    BY <1>2, <2>1, <2>4 DEF Standing
<1> QED
  BY <1>3, <1>4, <1>5

-----------------------------------------------------------------------------
\* Every run in CI stands where its last command left it, and what it was
\* answered for is at the remote.
RunsStand == \A p \in Process : Runs(p) => Standing(p) /\ Lasts(p)

Inv == Typed /\ ComesFrom /\ NobodyPicksAWinner /\ RunsStand

LEMMA InvInitially == Init => Inv
<1> SUFFICES ASSUME Init PROVE Inv
  OBVIOUS
<1>1. Typed /\ ComesFrom /\ NobodyPicksAWinner
  BY TypedInitially, ComesFromInitially DEF Init, NobodyPicksAWinner
<1>2. ASSUME NEW p \in Process PROVE Standing(p) /\ Lasts(p)
  <2>1. Home[p] \in Clone /\ Based(Home[p]) = <<>>
    BY StoreAssumption DEF Init, Based
  <2>2. Clean(Home[p])
    BY <2>1 DEF Init, Clean, Files
  <2>3. at[p] \in {0, 1} /\ pc[p] = "idle" /\ spoilt = {}
    BY DEF Init
  <2> QED
    BY <2>2, <2>3 DEF Standing, Lasts
<1> QED
  BY <1>1, <1>2 DEF Inv, RunsStand

LEMMA InvNext == ASSUME RunsApart, HasRemote, Inv, [Next]_vars PROVE Inv'
<1>1. Typed /\ ComesFrom /\ NobodyPicksAWinner /\ RunsStand
  BY DEF Inv
<1>2. Typed' /\ ComesFrom' /\ NobodyPicksAWinner'
  BY <1>1, TypedNext, ComesFromNext, WinnerNext
<1>3. ASSUME NEW p \in Process, Runs(p)' PROVE (Standing(p) /\ Lasts(p))'
  <2>1. Runs(p) /\ Standing(p) /\ Lasts(p)
    BY <1>1, <1>3, StepWrites DEF Runs, RunsStand
  <2>2. ASSUME NEW q \in Process, Step(q) \/ Fail(q) \/ PushUnanswered(q) PROVE (Standing(p) /\ Lasts(p))'
    <3>1. CASE q # p
      BY <1>1, <2>1, <2>2, <3>1, OthersLeaveIt
    <3>2. CASE q = p
      <4>1. Busy(p) /\ IsCI(p)
        BY <1>1, <2>1, <2>2, <3>2, StepIsBusy DEF Runs
      <4>2. Standing(p)' /\ Outcome(p)
        BY <1>1, <2>1, <2>2, <3>2, <4>1, StandsBeforePush, StandsInPush, StandsFailed DEF Step
      <4> QED
        BY <1>1, <2>1, <4>1, <4>2, LastsOwn
    <3> QED
      BY <3>1, <3>2
  <2>3. ASSUME NEW d \in Clone, Reclone(d) \/ Edit(d) PROVE (Standing(p) /\ Lasts(p))'
    BY <1>1, <2>1, <2>3, BesidesLeaveIt
  <2>4. CASE UNCHANGED vars
    BY <2>1, <2>4 DEF vars, repo, Standing, Lasts, Clean, Written, Added, Ahead, Put, Held, Files, Based, Record
  <2> QED
    BY <2>2, <2>3, <2>4 DEF Next, Done
<1> QED
  BY <1>2, <1>3 DEF Inv, RunsStand

\* What a run in CI is between two of its commands, in every state.
THEOREM RunsAreStanding == ASSUME RunsApart, HasRemote PROVE Spec => []Inv
BY InvInitially, InvNext, PTL DEF Spec

\* A put that answered a run in CI is at the remote, or a later one of the same
\* run is: it may skip its commit or have its push refused, and it answers only
\* when the remote has the record (Put and push of statecontroller.go).
THEOREM AnsweredIsAtRemote == ASSUME RunsApart PROVE Spec => []AcknowledgedIsOnRemote
<1>1. ASSUME HasRemote, Inv PROVE AcknowledgedIsOnRemote
  <2> SUFFICES ASSUME NEW p \in Process, IsCI(p), NEW i \in 1..at[p] - 1, Owns(p, Plan[p][i].path)
               PROVE  Age(p, Plan[p][i].path, remote) >= i
    BY DEF AcknowledgedIsOnRemote
  <2> DEFINE f    == Plan[p][i].path
             at_f == {j \in DOMAIN Plan[p] : Plan[p][j].path = f /\ Plan[p][j].value = FilesOf(remote)[f]}
  <2>1. Runs(p)
    BY DEF Owns, Puts, Runs
  <2>2. Lasts(p)
    BY <1>1, <2>1 DEF Inv, RunsStand
  <2>3. PICK j \in DOMAIN Plan[p] : j >= i /\ Plan[p][j].path = f /\ Plan[p][j].value = FilesOf(remote)[f]
    BY <2>2 DEF Lasts
  <2>4. j \in at_f
    BY <2>3
  <2>5. Len(Plan[p]) \in Nat /\ DOMAIN Plan[p] = 1..Len(Plan[p]) /\ at_f \subseteq 0..Len(Plan[p])
    BY StoreAssumption
  <2> HIDE DEF at_f
  <2>6. \E k \in at_f : \A l \in at_f : l <= k
    BY <2>4, <2>5, Greatest
  <2>7. Age(p, f, remote) = CHOOSE k \in at_f : \A l \in at_f : l <= k
    BY <2>4 DEF Age, at_f
  <2>8. Age(p, f, remote) \in at_f /\ \A l \in at_f : l <= Age(p, f, remote)
    BY <2>6, <2>7
  <2>9. i \in Int /\ j \in Int /\ Age(p, f, remote) \in Int
    <3>1. at[p] \in Nat
      BY <1>1 DEF Inv, Typed, TypeOK
    <3>2. Age(p, f, remote) \in 0..Len(Plan[p])
      BY <2>5, <2>8
    <3> QED
      BY <2>5, <3>1, <3>2
  <2> QED
    BY <2>3, <2>4, <2>8, <2>9
<1>2. CASE HasRemote
  BY <1>1, <1>2, RunsAreStanding, PTL
<1>3. CASE ~ HasRemote
  <2>1. AcknowledgedIsOnRemote
    BY <1>3 DEF AcknowledgedIsOnRemote
  <2> QED
    BY <2>1, PTL
<1> QED
  BY <1>2, <1>3
=============================================================================
