------------------------- MODULE ComputeProofs ------------------------------
(***************************************************************************)
(* Why the local compute engine keeps the promise of TargetRun, and why    *)
(* the evidence of a run is its own: for any number of runs over the same  *)
(* checkouts and any configuration.  And why an answer of the remote       *)
(* engine is that of the run its call dispatched, and the script of that   *)
(* run goes in order: for any number of attempts, of polls and of runs on  *)
(* a page, whatever GitHub does.  And why a pipeline file that Validate    *)
(* accepts is run as it reads: for any file and any edits of it.           *)
(*                                                                         *)
(* All rest on the order of the waves (waves.go), which comes first: no   *)
(* command is in a wave with what it rests on, or in front of it.          *)
(***************************************************************************)
EXTENDS ComputeEngines, Pipeline, FiniteSetTheorems, SequenceTheorems, NaturalsInduction,
        WellFoundedInduction, TLAPS

-----------------------------------------------------------------------------
(* Ordering by needs.  The loops of waves.go and the plan of a run are      *)
(* recursive functions; what they compute for every list and every graph   *)
(* is shown by induction over the turns.                                   *)

\* A set of numbers has a least one.
LEMMA LeastOf ==
  ASSUME NEW M, M \subseteq Nat, M # {}
  PROVE  \E x \in M : \A y \in M : x <= y
<1> DEFINE R == OpToRel(<, Nat)
<1>1. PICK x \in M : \A y \in M : ~ (<<y, x>> \in R)
  <2>1. IsWellFoundedOn(R, Nat)
    BY NatLessThanWellFounded
  <2> HIDE DEF R
  <2> QED
    BY <2>1, WFMin
<1>2. \A y \in M : ~ (y < x)
  BY <1>1 DEF OpToRel
<1> QED
  BY <1>2

\* Induction, of a set of numbers.
LEMMA Inductive ==
  ASSUME NEW T, 0 \in T, \A n \in Nat : n \in T => n + 1 \in T
  PROVE  Nat \subseteq T
<1> DEFINE M == {n \in Nat : n \notin T}
<1> SUFFICES ASSUME M # {} PROVE FALSE
  OBVIOUS
<1>1. PICK x \in M : \A y \in M : x <= y
  BY LeastOf
<1>2. x - 1 \in Nat /\ x - 1 \in T
  BY <1>1
<1> QED
  BY <1>2

\* A function g of the turns up to n that starts at b and goes on as f says.
Unfolds(g, n, b, f) == g[0] = b /\ \A i \in 1 .. n : g[i] = f[i][g[i - 1]]
\* From what g and h have in common at a turn follows the next one.
GoesOnLike(g, h, n) == g[0] = h[0] /\ \A i \in 1 .. n : g[i - 1] = h[i - 1] => g[i] = h[i]

\* A function that is defined turn by turn is there.
LEMMA Recursive ==
  ASSUME NEW n \in Nat, NEW V, NEW b \in V, NEW f, f \in [1 .. n -> [V -> V]]
  PROVE  \E g \in [0 .. n -> V] : Unfolds(g, n, b, f)
<1> DEFINE Up(m, g) == g[0] = b /\ \A i \in 1 .. m : g[i] = f[i][g[i - 1]]
<1> DEFINE T == {m \in Nat : m <= n => \E g \in [0 .. m -> V] : Up(m, g)}
<1>1. 0 \in T
  <2> DEFINE g == [i \in 0 .. 0 |-> b]
  <2>1. g \in [0 .. 0 -> V] /\ Up(0, g)
    OBVIOUS
  <2> HIDE DEF g
  <2> QED
    BY <2>1
<1>2. ASSUME NEW m \in Nat, m \in T
      PROVE  m + 1 \in T
  <2> SUFFICES ASSUME m + 1 <= n PROVE \E g \in [0 .. m + 1 -> V] : Up(m + 1, g)
    OBVIOUS
  <2>1. PICK g \in [0 .. m -> V] : Up(m, g)
    BY <1>2
  <2> DEFINE h == [i \in 0 .. m + 1 |-> IF i = m + 1 THEN f[i][g[m]] ELSE g[i]]
  <2>2. h \in [0 .. m + 1 -> V]
    <3>1. f[m + 1] \in [V -> V] /\ g[m] \in V
      OBVIOUS
    <3>2. \A i \in 0 .. m + 1 : i = m + 1 \/ i \in 0 .. m
      OBVIOUS
    <3> QED
      BY <3>1, <3>2
  <2>3. h[0] = b
    BY <2>1
  <2>4. ASSUME NEW i \in 1 .. m + 1 PROVE h[i] = f[i][h[i - 1]]
    <3>1. CASE i = m + 1
      BY <3>1
    <3>2. CASE i \in 1 .. m
      <4>1. h[i] = g[i] /\ h[i - 1] = g[i - 1]
        BY <3>2
      <4> QED
        BY <2>1, <3>2, <4>1
    <3> QED
      BY <3>1, <3>2
  <2> HIDE DEF h
  <2> QED
    BY <2>2, <2>3, <2>4
<1> HIDE DEF T
<1>3. n \in T
  BY <1>1, <1>2, Inductive
<1> QED
  BY <1>3 DEF T, Unfolds

\* Two functions that begin alike and go on alike are alike.
LEMMA GoOnAlike ==
  ASSUME NEW n \in Nat, NEW g, NEW h, GoesOnLike(g, h, n)
  PROVE  \A i \in 0 .. n : g[i] = h[i]
<1> DEFINE T == {m \in Nat : m <= n => g[m] = h[m]}
<1>1. 0 \in T
  BY DEF GoesOnLike
<1>2. ASSUME NEW m \in Nat, m \in T PROVE m + 1 \in T
  <2> SUFFICES ASSUME m + 1 <= n PROVE g[m + 1] = h[m + 1]
    OBVIOUS
  <2>1. m + 1 \in 1 .. n /\ (m + 1) - 1 = m /\ g[m] = h[m]
    BY <1>2
  <2> QED
    BY <2>1 DEF GoesOnLike
<1> HIDE DEF T
<1>3. Nat \subseteq T
  BY <1>1, <1>2, Inductive
<1> QED
  BY <1>3 DEF T

\* The turns of the loop that picks what is wanted.
Picks(g, in, S) ==
  /\ g[0] = <<>> /\ Those(in, S) = g[Len(in)]
  /\ \A i \in 1 .. Len(in) : g[i] = IF in[i] \in S THEN Append(g[i - 1], in[i]) ELSE g[i - 1]

\* Those is the last of them.
LEMMA ThoseUnfold ==
  ASSUME NEW X, NEW in \in Seq(X), NEW S
  PROVE  \E g \in [0 .. Len(in) -> Seq(X)] : Picks(g, in, S)
<1> DEFINE Grown(v, i) == IF in[i] \in S THEN Append(v, in[i]) ELSE v
<1> DEFINE Step(h, i) == IF i = 0 THEN <<>> ELSE Grown(h[i - 1], i)
<1> DEFINE Is(h) == h = [i \in 0 .. Len(in) |-> Step(h, i)]
<1> DEFINE c == CHOOSE h : Is(h)
<1>1. Those(in, S) = c[Len(in)]
  BY DEF Those
<1>2. PICK n \in Nat : n = Len(in)
  OBVIOUS
<1>3. PICK V : V = Seq(X)
  OBVIOUS
<1>4. PICK e \in V : e = <<>>
  <2>1. <<>> \in Seq(X)
    OBVIOUS
  <2> QED
    BY <1>3, <2>1
<1> DEFINE f == [i \in 1 .. n |-> [v \in V |-> Grown(v, i)]]
<1>5. \A i \in 1 .. n : \A v \in V : Grown(v, i) \in V
  BY <1>2, <1>3
<1> HIDE DEF Grown
<1>6. f \in [1 .. n -> [V -> V]] /\ \A i \in 1 .. n : \A v \in V : f[i][v] = Grown(v, i)
  BY <1>5
<1> HIDE DEF f
<1>7. PICK g \in [0 .. n -> V] : Unfolds(g, n, e, f)
  BY <1>2, <1>4, <1>6, Recursive
<1>8. ASSUME NEW i \in 1 .. n PROVE g[i] = Grown(g[i - 1], i)
  <2>1. i - 1 \in 0 .. n
    OBVIOUS
  <2> QED
    BY <1>6, <1>7, <2>1 DEF Unfolds
<1>9. Is(g)
  <2>1. ASSUME NEW i \in 0 .. n PROVE g[i] = Step(g, i)
    <3>1. CASE i = 0
      BY <1>4, <1>7, <3>1 DEF Unfolds
    <3>2. CASE i \in 1 .. n
      BY <1>8, <3>2
    <3> QED
      BY <3>1, <3>2
  <2> HIDE DEF Step
  <2> QED
    BY <1>2, <2>1
<1>10. Is(c)
  <2> HIDE DEF Is
  <2> QED
    BY <1>9
<1> HIDE DEF c
<1>11. \A i \in 0 .. n : c[i] = Step(c, i)
  <2> HIDE DEF Step
  <2> QED
    BY <1>2, <1>10
<1>12. g[0] = c[0]
  BY <1>4, <1>7, <1>11 DEF Unfolds
<1>13. ASSUME NEW i \in 1 .. n PROVE g[i - 1] = c[i - 1] => g[i] = c[i]
  <2>1. c[i] = Grown(c[i - 1], i)
    BY <1>11
  <2> QED
    BY <1>8, <2>1
<1> HIDE DEF Step, Is
<1>14. GoesOnLike(g, c, n)
  BY <1>12, <1>13 DEF GoesOnLike
<1>16. \A i \in 0 .. n : g[i] = c[i]
  BY <1>2, <1>14, GoOnAlike
<1>15. \A i \in 1 .. n : g[i] = IF in[i] \in S THEN Append(g[i - 1], in[i]) ELSE g[i - 1]
  BY <1>8 DEF Grown
<1> QED
  BY <1>1, <1>2, <1>3, <1>4, <1>7, <1>15, <1>16 DEF Unfolds, Picks

\* What is kept of a list, in order: the names that are wanted.
LEMMA ThoseAre ==
  ASSUME NEW X, NEW in \in Seq(X), NEW S
  PROVE  Those(in, S) \in Seq(X) /\ Names(Those(in, S)) = Names(in) \cap S
<1>1. PICK g \in [0 .. Len(in) -> Seq(X)] : Picks(g, in, S)
  BY ThoseUnfold
<1>2. PICK n \in Nat : n = Len(in)
  OBVIOUS
<1> DEFINE Upto(m) == {in[j] : j \in 1 .. m} \cap S
<1> DEFINE T == {m \in Nat : m <= n => Names(g[m]) = Upto(m)}
<1>3. 0 \in T
  BY <1>1 DEF Names, Picks
<1>4. ASSUME NEW m \in Nat, m \in T PROVE m + 1 \in T
  <2> SUFFICES ASSUME m + 1 <= n PROVE Names(g[m + 1]) = Upto(m + 1)
    OBVIOUS
  <2>1. Names(g[m]) = Upto(m)
    BY <1>4
  <2>2. g[m] \in Seq(X) /\ in[m + 1] \in X
    BY <1>2
  <2>3. m + 1 \in 1 .. Len(in) /\ (m + 1) - 1 = m
    BY <1>2
  <2>4. g[m + 1] = IF in[m + 1] \in S THEN Append(g[m], in[m + 1]) ELSE g[m]
    BY <1>1, <2>3 DEF Picks
  <2>5. {in[j] : j \in 1 .. m + 1} = {in[j] : j \in 1 .. m} \union {in[m + 1]}
    <3>1. 1 .. m + 1 = (1 .. m) \union {m + 1}
      OBVIOUS
    <3> QED
      BY <3>1
  <2>6. Names(Append(g[m], in[m + 1])) = Names(g[m]) \union {in[m + 1]}
    <3>1. PICK s \in Seq(X) : s = g[m]
      BY <2>2
    <3>2. PICK e \in X : e = in[m + 1]
      BY <2>2
    <3>3. /\ DOMAIN Append(s, e) = (1 .. Len(s)) \union {Len(s) + 1}
          /\ DOMAIN s = 1 .. Len(s)
          /\ \A k \in 1 .. Len(s) : Append(s, e)[k] = s[k]
          /\ Append(s, e)[Len(s) + 1] = e
      OBVIOUS
    <3>4. Names(Append(s, e)) = Names(s) \union {e}
      BY <3>3 DEF Names
    <3> QED
      BY <3>1, <3>2, <3>4
  <2> QED
    BY <2>1, <2>4, <2>5, <2>6
<1> HIDE DEF T
<1>5. n \in T
  BY <1>3, <1>4, Inductive
<1>6. Names(g[n]) = Upto(n)
  BY <1>5 DEF T
<1>7. Upto(n) = Names(in) \cap S
  BY <1>2 DEF Names
<1> QED
  BY <1>1, <1>2, <1>6, <1>7 DEF Picks

\* The next wave is what is pending and ready.
LEMMA NextWaveIs ==
  ASSUME NEW X, NEW in \in Seq(X), NEW needs, NEW pending, pending \subseteq Names(in)
  PROVE  /\ NextWave(in, needs, pending) \in Seq(X)
         /\ Names(NextWave(in, needs, pending)) = {a \in pending : Ready(a, needs, pending)}
<1> DEFINE S == {a \in pending : Ready(a, needs, pending)}
<1>1. Names(in) \cap S = S
  OBVIOUS
<1> HIDE DEF S
<1>2. Those(in, S) \in Seq(X) /\ Names(Those(in, S)) = S
  BY <1>1, ThoseAre
<1> QED
  BY <1>2 DEF NextWave, S

\* What is pending, turn by turn of the loop.
LEMMA PendingUnfold ==
  ASSUME NEW in, NEW needs, NEW k \in Nat
  PROVE  /\ Pending(in, needs, 0) = Names(in)
         /\ Pending(in, needs, k) \subseteq Names(in)
         /\ Pending(in, needs, k + 1)
              = Pending(in, needs, k) \ Names(NextWave(in, needs, Pending(in, needs, k)))
<1> DEFINE Rest(v) == v \ Names(NextWave(in, needs, v))
<1> DEFINE Step(h, i) == IF i = 0 THEN Names(in) ELSE Rest(h[i - 1])
<1> DEFINE Is(h, n) == h = [i \in 0 .. n |-> Step(h, i)]
<1> DEFINE c(n) == CHOOSE h : Is(h, n)
<1>1. \A n : Pending(in, needs, n) = c(n)[n]
  BY DEF Pending
<1> DEFINE Goes(g, n) == g[0] = Names(in) /\ \A i \in 1 .. n : g[i] = Rest(g[i - 1])
<1>2. PICK V : V = SUBSET Names(in)
  OBVIOUS
<1>3. PICK e \in V : e = Names(in)
  BY <1>2
<1>4. \A v \in V : Rest(v) \in V
  BY <1>2
<1> HIDE DEF Rest
<1>5. ASSUME NEW n \in Nat
      PROVE  /\ c(n)[0] = Names(in)
             /\ \A i \in 1 .. n : c(n)[i] = Rest(c(n)[i - 1])
             /\ c(n)[n] \in V
  <2> DEFINE f == [i \in 1 .. n |-> [v \in V |-> Rest(v)]]
  <2>1. f \in [1 .. n -> [V -> V]] /\ \A i \in 1 .. n : \A v \in V : f[i][v] = Rest(v)
    BY <1>4
  <2> HIDE DEF f
  <2>2. PICK g \in [0 .. n -> V] : Unfolds(g, n, e, f)
    BY <1>3, <2>1, Recursive
  <2>3. ASSUME NEW i \in 1 .. n PROVE g[i] = Rest(g[i - 1])
    <3>1. i - 1 \in 0 .. n
      OBVIOUS
    <3> QED
      BY <2>1, <2>2, <3>1 DEF Unfolds
  <2>4. Is(g, n)
    <3>1. ASSUME NEW i \in 0 .. n PROVE g[i] = Step(g, i)
      <4>1. CASE i = 0
        BY <1>3, <2>2, <4>1 DEF Unfolds
      <4>2. CASE i \in 1 .. n
        BY <2>3, <4>2
      <4> QED
        BY <4>1, <4>2
    <3> HIDE DEF Step
    <3> QED
      BY <2>2, <3>1
  <2>5. Is(c(n), n)
    <3> HIDE DEF Is
    <3> QED
      BY <2>4
  <2> HIDE DEF c
  <2>6. \A i \in 0 .. n : c(n)[i] = Step(c(n), i)
    <3> HIDE DEF Step
    <3> QED
      BY <2>5
  <2>7. c(n)[0] = Names(in) /\ \A i \in 1 .. n : c(n)[i] = Rest(c(n)[i - 1])
    BY <2>6
  <2>8. GoesOnLike(g, c(n), n)
    <3>1. g[0] = c(n)[0]
      BY <1>3, <2>2, <2>7 DEF Unfolds
    <3> QED
      BY <2>3, <2>7, <3>1 DEF GoesOnLike
  <2>9. \A i \in 0 .. n : g[i] = c(n)[i]
    BY <2>8, GoOnAlike
  <2> QED
    BY <2>2, <2>7, <2>9
<1> HIDE DEF Is, c
<1>6. c(0)[0] = Names(in)
  BY <1>5
<1>7. c(k + 1)[k + 1] = Rest(c(k + 1)[k])
  BY <1>5
<1>8. c(k + 1)[k] = c(k)[k]
  <2>1. GoesOnLike(c(k), c(k + 1), k)
    BY <1>5 DEF GoesOnLike
  <2> QED
    BY <2>1, GoOnAlike
<1>9. c(k)[k] \in V
  BY <1>5
<1> QED
  BY <1>1, <1>2, <1>6, <1>7, <1>8, <1>9 DEF Rest

\* Nothing comes back to what is pending.
LEMMA PendingShrinks ==
  ASSUME NEW in, NEW needs, NEW k \in Nat, NEW l \in Nat, k <= l
  PROVE  Pending(in, needs, l) \subseteq Pending(in, needs, k)
<1> DEFINE T == {m \in Nat : Pending(in, needs, k + m) \subseteq Pending(in, needs, k)}
<1>1. 0 \in T
  OBVIOUS
<1>2. ASSUME NEW m \in Nat, m \in T PROVE m + 1 \in T
  <2>1. k + m \in Nat /\ k + (m + 1) = (k + m) + 1
    OBVIOUS
  <2>2. Pending(in, needs, (k + m) + 1) \subseteq Pending(in, needs, k + m)
    BY <2>1, PendingUnfold
  <2> QED
    BY <1>2, <2>1, <2>2
<1> HIDE DEF T
<1>3. l - k \in T
  BY <1>1, <1>2, Inductive
<1> QED
  BY <1>3 DEF T

\* A list that is not stuck is through after the turns it takes.
LEMMA TurnsAre ==
  ASSUME NEW X, NEW in \in Seq(X), in # <<>>, NEW needs, ~ Stuck(in, needs)
  PROVE  /\ Turns(in, needs) \in Nat \ {0}
         /\ Pending(in, needs, Turns(in, needs)) = {}
<1>1. PICK n \in Nat : n = Len(in)
  OBVIOUS
<1> DEFINE M == {k \in 0 .. n : Pending(in, needs, k) = {}}
<1>2. n \in M
  BY <1>1 DEF Stuck
<1>3. PICK k \in M : \A y \in M : k <= y
  <2>1. M \subseteq Nat /\ M # {}
    BY <1>2
  <2> HIDE DEF M
  <2> QED
    BY <2>1, LeastOf
<1>4. k \in 0 .. Len(in) /\ Pending(in, needs, k) = {} /\ \A j \in 0 .. (k - 1) : Pending(in, needs, j) # {}
  BY <1>1, <1>3
<1>5. /\ Turns(in, needs) \in 0 .. Len(in)
      /\ Pending(in, needs, Turns(in, needs)) = {}
  BY <1>4 DEF Turns
<1>6. Pending(in, needs, 0) # {}
  <2>1. in[1] \in Names(in)
    BY DEF Names
  <2> QED
    BY <2>1, PendingUnfold
<1> QED
  BY <1>5, <1>6

\* What waves are for: no name is left out or made up, and each comes before
\* what needs it.
WellOrdered(w, in, needs) ==
  /\ \A k \in DOMAIN w : Names(w[k]) \subseteq Names(in)
  /\ \A a \in Names(in) : \E k \in DOMAIN w : a \in Names(w[k])
  /\ \A k, l \in DOMAIN w : \A a \in Names(w[k]) : \A b \in Names(w[l]) :
       a # b /\ a \in needs[b] => k < l

\* The waves of every list that is not stuck are well ordered (waves.go, Waves).
THEOREM WavesAreWellOrdered ==
  ASSUME NEW X, NEW in \in Seq(X), in # <<>>, NEW needs, ~ Stuck(in, needs)
  PROVE  /\ WavesOf(in, needs) \in Seq(Seq(X)) \ {<<>>}
         /\ WellOrdered(WavesOf(in, needs), in, needs)
<1>1. CASE ~ AnyEdge(in, needs)
  <2>1. PICK w : w = [k \in 1 .. Len(in) |-> <<in[k]>>]
    OBVIOUS
  <2>2. WavesOf(in, needs) = w
    BY <1>1, <2>1 DEF WavesOf
  <2>3. w \in Seq(Seq(X)) \ {<<>>} /\ DOMAIN w = DOMAIN in
    BY <2>1
  <2>4. \A k \in DOMAIN w : Names(w[k]) = {in[k]}
    <3>1. \A x : Names(<<x>>) = {x}
      BY DEF Names
    <3> QED
      BY <2>1, <3>1
  <2>5. WellOrdered(w, in, needs)
    <3>1. Names(in) = {in[k] : k \in DOMAIN w}
      BY <2>3 DEF Names
    <3>2. \A a \in Names(in), b \in Names(in) : ~ (a # b /\ a \in needs[b])
      BY <1>1 DEF AnyEdge
    <3>3. \A k \in DOMAIN w : Names(w[k]) \subseteq Names(in)
      BY <2>4, <3>1
    <3> QED
      BY <2>4, <3>1, <3>2, <3>3 DEF WellOrdered
  <2> QED
    BY <2>2, <2>3, <2>5
<1>2. CASE AnyEdge(in, needs)
  <2> DEFINE P(k) == Pending(in, needs, k)
  <2>1. PICK n \in Nat \ {0} : n = Turns(in, needs)
    BY TurnsAre
  <2>2. P(n) = {} /\ P(0) = Names(in)
    BY <2>1, TurnsAre, PendingUnfold
  <2>3. PICK w : w = [k \in 1 .. n |-> NextWave(in, needs, P(k - 1))]
    OBVIOUS
  <2>4. WavesOf(in, needs) = w
    BY <1>2, <2>1, <2>3 DEF WavesOf
  <2>5. ASSUME NEW k \in 1 .. n
        PROVE  /\ w[k] \in Seq(X)
               /\ Names(w[k]) = {a \in P(k - 1) : Ready(a, needs, P(k - 1))}
               /\ P(k) = P(k - 1) \ Names(w[k])
               /\ P(k - 1) \subseteq Names(in)
    <3>1. PICK j \in Nat : j = k - 1
      OBVIOUS
    <3>2. w[k] = NextWave(in, needs, P(j)) /\ k = j + 1
      BY <2>3, <3>1
    <3>3. P(j) \subseteq Names(in) /\ P(j + 1) = P(j) \ Names(NextWave(in, needs, P(j)))
      BY PendingUnfold
    <3> HIDE DEF P
    <3>4. /\ NextWave(in, needs, P(j)) \in Seq(X)
          /\ Names(NextWave(in, needs, P(j))) = {a \in P(j) : Ready(a, needs, P(j))}
      BY <3>3, NextWaveIs
    <3> QED
      BY <3>1, <3>2, <3>3, <3>4
  <2>6. ASSUME NEW k \in Nat, NEW l \in Nat, k <= l PROVE P(l) \subseteq P(k)
    BY <2>6, PendingShrinks
  <2> HIDE DEF P
  <2>7. DOMAIN w = 1 .. n /\ w \in Seq(Seq(X)) \ {<<>>}
    <3>1. \A k \in 1 .. n : w[k] \in Seq(X)
      BY <2>5
    <3> QED
      <4>1. PICK V : V = Seq(X)
        OBVIOUS
      <4>2. w \in [1 .. n -> V] /\ DOMAIN w = 1 .. n
        BY <2>3, <3>1, <4>1
      <4>3. w \in Seq(V) /\ w # <<>>
        BY <2>1, <4>2
      <4> QED
        BY <4>1, <4>2, <4>3
  <2>8. \A k \in DOMAIN w : Names(w[k]) \subseteq Names(in)
    BY <2>5, <2>7
  <2>9. ASSUME NEW a \in Names(in) PROVE \E k \in DOMAIN w : a \in Names(w[k])
    <3> DEFINE M == {k \in 0 .. n : a \notin P(k)}
    <3>1. M \subseteq Nat /\ n \in M /\ 0 \notin M
      BY <2>2, <2>9
    <3>2. PICK k \in M : \A y \in M : k <= y
      <4> HIDE DEF M
      <4> QED
        BY <3>1, LeastOf
    <3>3. k \in 1 .. n /\ k - 1 \notin M /\ k - 1 \in 0 .. n
      BY <3>1, <3>2
    <3>4. a \in P(k - 1) /\ a \notin P(k)
      BY <3>2, <3>3
    <3> QED
      BY <2>5, <2>7, <3>3, <3>4
  <2>10. ASSUME NEW k \in DOMAIN w, NEW l \in DOMAIN w, NEW a \in Names(w[k]), NEW b \in Names(w[l]),
                a # b, a \in needs[b]
         PROVE  k < l
    <3>1. k \in 1 .. n /\ l \in 1 .. n
      BY <2>7
    <3>2. a \in P(k - 1)
      BY <2>5, <3>1
    <3>3. Ready(b, needs, P(l - 1))
      BY <2>5, <3>1
    <3>4. a \notin P(l - 1)
      BY <2>10, <3>3 DEF Ready
    <3>5. ~ l <= k
      <4>1. SUFFICES ASSUME l <= k PROVE FALSE
        OBVIOUS
      <4>2. l - 1 \in Nat /\ k - 1 \in Nat /\ l - 1 <= k - 1
        BY <3>1, <4>1
      <4>3. P(k - 1) \subseteq P(l - 1)
        BY <2>6, <4>2
      <4> QED
        BY <3>2, <3>4, <4>3
    <3> QED
      BY <3>1, <3>5
  <2> QED
    BY <2>4, <2>7, <2>8, <2>9, <2>10 DEF WellOrdered
<1> QED
  BY <1>1, <1>2

-----------------------------------------------------------------------------
(* The plan of a run.                                                      *)

\* What a wave is in a plan.
OneWave == [target : Nat, dirs : Seq(Dir \union {Root})]

\* The waves of one target, in its order.
GoesByNeeds(w) == \A k, l \in DOMAIN w : \A a \in Names(w[k]) : \A b \in Names(w[l]) :
  b \in Dir /\ a \in Needs[b] \ {b} => k < l

\* The waves of a target, or the one wave of a target that names no directory.
LEMMA TargetIsOrdered ==
  ASSUME NEW s \in Substage, NEW t \in DOMAIN Targets[s]
  PROVE  /\ WavesFor(Targets[s][t]) \in Seq(Seq(Dir \union {Root})) \ {<<>>}
         /\ GoesByNeeds(WavesFor(Targets[s][t]))
<1>1. PICK in : in = Targets[s][t]
  OBVIOUS
<1>2. PICK X : X = Dir \union {Root}
  OBVIOUS
<1>3. in \in Seq(Dir) /\ ~ Stuck(in, Needs)
  <2>1. Targets[s] \in Seq(Seq(Dir))
    BY ScheduleAssumption
  <2>2. Targets[s][t] \in Seq(Dir)
    BY <2>1, ElementOfSeq
  <2> QED
    BY <1>1, <2>2, ScheduleAssumption
<1>4. in \in Seq(X)
  BY <1>2, <1>3
<1>5. CASE in = <<>>
  <2>1. PICK w : w = <<(<<Root>>)>>
    OBVIOUS
  <2>2. WavesFor(in) = w
    BY <1>5, <2>1 DEF WavesFor
  <2>3. w \in Seq(Seq(X)) \ {<<>>} /\ DOMAIN w = {1} /\ w[1] = <<Root>>
    <3>1. <<Root>> \in Seq(X)
      BY <1>2
    <3> QED
      BY <2>1, <3>1
  <2>4. Names(<<Root>>) = {Root}
    BY DEF Names
  <2>5. GoesByNeeds(w)
    BY <2>3, <2>4, ScheduleAssumption DEF GoesByNeeds
  <2> QED
    BY <1>1, <1>2, <2>2, <2>3, <2>5
<1>6. CASE in # <<>>
  <2>1. PICK w : w = WavesOf(in, Needs)
    OBVIOUS
  <2>2. WavesFor(in) = w
    BY <1>6, <2>1 DEF WavesFor
  <2>3. w \in Seq(Seq(X)) \ {<<>>} /\ WellOrdered(w, in, Needs)
    BY <1>3, <1>4, <1>6, <2>1, WavesAreWellOrdered
  <2>4. GoesByNeeds(w)
    BY <2>3 DEF GoesByNeeds, WellOrdered
  <2> QED
    BY <1>1, <1>2, <2>2, <2>3, <2>4
<1> QED
  BY <1>5, <1>6

\* A plan of the targets up to t.
GoesInOrder(p, t) ==
  /\ p \in Seq(OneWave)
  /\ \A k \in 1 .. Len(p) : p[k].target <= t
  /\ \A k, l \in 1 .. Len(p) : p[k].target < p[l].target => k < l
  /\ \A k, l \in 1 .. Len(p) : \A a \in Names(p[k].dirs) : \A b \in Names(p[l].dirs) :
       p[k].target = p[l].target /\ b \in Dir /\ a \in Needs[b] \ {b} => k < l

\* The waves of a target as a plan has them.
Tagged(t, w) == [k \in DOMAIN w |-> [target |-> t, dirs |-> w[k]]]

\* A function of the numbers up to n is a sequence.
LEMMA IsASequence ==
  ASSUME NEW S, NEW n \in Nat, NEW g \in [1 .. n -> S]
  PROVE  g \in Seq(S) /\ Len(g) = n
OBVIOUS

\* Each wave keeps its directories and has the number of the target.
LEMMA TaggedAre ==
  ASSUME NEW t \in Nat, NEW w \in Seq(Seq(Dir \union {Root}))
  PROVE  /\ Tagged(t, w) \in Seq(OneWave) /\ Len(Tagged(t, w)) = Len(w)
         /\ \A k \in 1 .. Len(w) : Tagged(t, w)[k].target = t /\ Tagged(t, w)[k].dirs = w[k]
<1>1. PICK V : V = Seq(Dir \union {Root})
  OBVIOUS
<1>2. w \in Seq(V) /\ DOMAIN w = 1 .. Len(w) /\ Len(w) \in Nat /\ \A k \in 1 .. Len(w) : w[k] \in V
  BY <1>1
<1>3. PICK g : g = Tagged(t, w)
  OBVIOUS
<1>4. g = [k \in 1 .. Len(w) |-> [target |-> t, dirs |-> w[k]]]
  BY <1>2, <1>3 DEF Tagged
<1>5. \A k \in 1 .. Len(w) : g[k].target = t /\ g[k].dirs = w[k] /\ g[k] \in OneWave
  BY <1>1, <1>2, <1>4 DEF OneWave
<1>6. g \in [1 .. Len(w) -> OneWave]
  BY <1>4, <1>5
<1>7. g \in Seq(OneWave) /\ Len(g) = Len(w)
  <2>1. PICK n \in Nat : n = Len(w)
    BY <1>2
  <2>2. PICK W : W = OneWave
    OBVIOUS
  <2>3. g \in [1 .. n -> W] /\ DOMAIN g = 1 .. n
    BY <1>6, <2>1, <2>2
  <2>4. g \in Seq(W) /\ Len(g) = n
    BY <2>1, <2>3, IsASequence
  <2> QED
    BY <2>1, <2>2, <2>4
<1> QED
  BY <1>3, <1>5, <1>7

\* A plan goes on with the next target.
LEMMA NextTarget ==
  ASSUME NEW t \in Nat, NEW p, GoesInOrder(p, t), NEW w \in Seq(Seq(Dir \union {Root})), GoesByNeeds(w)
  PROVE  GoesInOrder(p \o Tagged(t + 1, w), t + 1)
<1>0. t + 1 \in Nat
  OBVIOUS
<1>1. PICK g \in Seq(OneWave) : g = Tagged(t + 1, w)
  BY <1>0, TaggedAre
<1>2. PICK m \in Nat : m = Len(p)
  BY DEF GoesInOrder
<1>3. PICK n \in Nat : n = Len(w) /\ n = Len(g) /\ DOMAIN w = 1 .. n
  BY <1>0, <1>1, TaggedAre
<1>4. \A k \in 1 .. n : g[k].target = t + 1 /\ g[k].dirs = w[k]
  BY <1>0, <1>1, <1>3, TaggedAre
<1>5. p \in Seq(OneWave) /\ \A k \in 1 .. m : p[k].target \in Nat /\ p[k].target <= t
  <2>1. \A k \in 1 .. m : p[k] \in OneWave
    BY <1>2 DEF GoesInOrder
  <2> QED
    BY <1>2, <2>1 DEF GoesInOrder, OneWave
<1>6. PICK q \in Seq(OneWave) : q = p \o g
  BY <1>1, <1>5, ConcatProperties
<1>7. /\ Len(q) = m + n
      /\ \A k \in 1 .. m : q[k] = p[k]
      /\ \A k \in (m + 1) .. (m + n) : k - m \in 1 .. n /\ q[k] = g[k - m]
  BY <1>1, <1>2, <1>3, <1>5, <1>6
<1>8. \A k \in 1 .. (m + n) : k \in 1 .. m \/ k \in (m + 1) .. (m + n)
  OBVIOUS
<1>9. \A k \in 1 .. m : q[k].target \in Nat /\ q[k].target <= t
  BY <1>5, <1>7
<1>10. \A k \in (m + 1) .. (m + n) : q[k].target = t + 1 /\ q[k].dirs = w[k - m]
  BY <1>4, <1>7
<1>11. \A k \in 1 .. Len(q) : q[k].target <= t + 1
  BY <1>7, <1>8, <1>9, <1>10
<1>12. ASSUME NEW k \in 1 .. Len(q), NEW l \in 1 .. Len(q), q[k].target < q[l].target
       PROVE  k < l
  <2>1. CASE l \in 1 .. m /\ k \in 1 .. m
    BY <1>2, <1>7, <1>12, <2>1 DEF GoesInOrder
  <2>2. CASE l \in (m + 1) .. (m + n)
    <3>1. q[l].target = t + 1
      BY <1>10, <2>2
    <3>2. CASE k \in (m + 1) .. (m + n)
      BY <1>10, <1>12, <3>1, <3>2
    <3>3. CASE k \in 1 .. m
      BY <2>2, <3>3
    <3> QED
      BY <1>7, <1>8, <3>2, <3>3
  <2>3. CASE l \in 1 .. m /\ k \in (m + 1) .. (m + n)
    BY <1>9, <1>10, <1>12, <2>3
  <2> QED
    BY <1>7, <1>8, <2>1, <2>2, <2>3
<1>13. ASSUME NEW k \in 1 .. Len(q), NEW l \in 1 .. Len(q),
              NEW a \in Names(q[k].dirs), NEW b \in Names(q[l].dirs),
              q[k].target = q[l].target, b \in Dir, a \in Needs[b] \ {b}
       PROVE  k < l
  <2>1. CASE l \in 1 .. m /\ k \in 1 .. m
    BY <1>2, <1>7, <1>13, <2>1 DEF GoesInOrder
  <2>2. CASE l \in (m + 1) .. (m + n) /\ k \in (m + 1) .. (m + n)
    <3>1. k - m \in DOMAIN w /\ l - m \in DOMAIN w /\ a \in Names(w[k - m]) /\ b \in Names(w[l - m])
      BY <1>3, <1>7, <1>10, <2>2
    <3>2. k - m < l - m
      BY <1>13, <3>1 DEF GoesByNeeds
    <3> QED
      BY <3>2
  <2>3. CASE l \in 1 .. m /\ k \in (m + 1) .. (m + n)
    BY <1>9, <1>10, <1>13, <2>3
  <2>4. CASE k \in 1 .. m /\ l \in (m + 1) .. (m + n)
    BY <2>4
  <2> QED
    BY <1>7, <1>8, <2>1, <2>2, <2>3, <2>4
<1> QED
  BY <1>1, <1>6, <1>11, <1>12, <1>13 DEF GoesInOrder

\* A plan starts with what converges the workspace.
LEMMA FirstConverges ==
  ASSUME NEW s \in Substage
  PROVE  GoesInOrder(Tagged(0, Converging(s)), 0)
<1>1. PICK X : X = Dir \union {Root}
  OBVIOUS
<1>2. PICK w \in Seq(Seq(X)) : w = Converging(s) /\ \A k \in 1 .. Len(w) : Names(w[k]) = {Root}
  <2>1. <<Root>> \in Seq(X) /\ Names(<<Root>>) = {Root}
    BY <1>1 DEF Names
  <2>2. PICK r \in Seq(X) : r = <<Root>> /\ Names(r) = {Root}
    BY <2>1
  <2>3. PICK V : V = Seq(X)
    OBVIOUS
  <2>4. PICK c : c = <<r, r>>
    OBVIOUS
  <2>5. PICK e : e = <<>>
    OBVIOUS
  <2>6. /\ c \in Seq(V) /\ \A k \in 1 .. Len(c) : Names(c[k]) = {Root}
        /\ e \in Seq(V) /\ \A k \in 1 .. Len(e) : Names(e[k]) = {Root}
    <3>1. c[1] = r /\ c[2] = r /\ Len(c) = 2 /\ Len(e) = 0 /\ 1 .. 2 = {1, 2}
      BY <2>4, <2>5
    <3>2. c \in Seq(V) /\ e \in Seq(V)
      BY <2>2, <2>3, <2>4, <2>5
    <3> QED
      BY <2>2, <3>1, <3>2
  <2>7. Converging(s) = c \/ Converging(s) = e
    BY <2>2, <2>4, <2>5 DEF Converging
  <2> QED
    BY <2>3, <2>6, <2>7
<1>3. PICK g \in Seq(OneWave) : g = Tagged(0, w) /\ Len(g) = Len(w)
                                /\ \A k \in 1 .. Len(w) : g[k].target = 0 /\ g[k].dirs = w[k]
  BY <1>1, TaggedAre
<1>4. ASSUME NEW k \in 1 .. Len(g) PROVE g[k].target = 0 /\ Names(g[k].dirs) = {Root}
  <2>1. k \in 1 .. Len(w)
    BY <1>3
  <2>2. g[k].target = 0 /\ g[k].dirs = w[k]
    BY <1>3, <2>1
  <2> QED
    BY <1>2, <2>1, <2>2
<1>5. GoesInOrder(g, 0)
  <2>1. \A k, l \in 1 .. Len(g) : g[k].target <= 0 /\ ~ g[k].target < g[l].target
    BY <1>4
  <2>2. \A l \in 1 .. Len(g) : \A b \in Names(g[l].dirs) : b \notin Dir
    BY <1>4, ScheduleAssumption
  <2> QED
    BY <2>1, <2>2 DEF GoesInOrder
<1> QED
  BY <1>2, <1>3, <1>5

\* The plan of a substage is its targets, in order.
LEMMA PlanUnfolds ==
  ASSUME NEW s \in Substage
  PROVE  GoesInOrder(Plan[s], Len(Targets[s])) /\ Plan[s] # <<>>
<1> DEFINE Waves(t) == Tagged(t, WavesFor(Targets[s][t]))
<1> DEFINE Grown(v, t) == v \o Waves(t)
<1> DEFINE Step(h, t) == IF t = 0 THEN Tagged(0, Converging(s)) ELSE Grown(h[t - 1], t)
<1> DEFINE Is(h) == h = [t \in 0 .. Len(Targets[s]) |-> Step(h, t)]
<1> DEFINE c == CHOOSE h : Is(h)
<1>1. Plan[s] = c[Len(Targets[s])]
  BY DEF Plan, Tagged
<1>2. PICK n \in Nat \ {0} : n = Len(Targets[s]) /\ DOMAIN Targets[s] = 1 .. n
  <2>1. Targets[s] \in Seq(Seq(Dir)) /\ Targets[s] # <<>>
    BY ScheduleAssumption
  <2> QED
    BY <2>1
<1>3. PICK V : V = Seq(OneWave)
  OBVIOUS
<1>4. PICK e \in V : e = Tagged(0, Converging(s)) /\ GoesInOrder(e, 0)
  BY <1>3, FirstConverges DEF GoesInOrder
<1>5. ASSUME NEW t \in 1 .. n PROVE Waves(t) \in V /\ Len(Waves(t)) > 0
  <2>1. PICK w \in Seq(Seq(Dir \union {Root})) : w = WavesFor(Targets[s][t]) /\ w # <<>>
    BY <1>2, TargetIsOrdered
  <2>2. Tagged(t, w) \in Seq(OneWave) /\ Len(Tagged(t, w)) = Len(w)
    BY TaggedAre
  <2> QED
    BY <1>3, <2>1, <2>2
<1>6. ASSUME NEW t \in 1 .. n, NEW p, GoesInOrder(p, t - 1) PROVE GoesInOrder(p \o Waves(t), t)
  <2>1. PICK w \in Seq(Seq(Dir \union {Root})) : w = WavesFor(Targets[s][t]) /\ GoesByNeeds(w)
    BY <1>2, TargetIsOrdered
  <2>2. PICK m \in Nat : m = t - 1 /\ t = m + 1
    OBVIOUS
  <2>3. GoesInOrder(p \o Tagged(m + 1, w), m + 1)
    BY <1>6, <2>1, <2>2, NextTarget
  <2> QED
    BY <2>1, <2>2, <2>3
<1> HIDE DEF Waves
<1> DEFINE f == [t \in 1 .. n |-> [v \in V |-> Grown(v, t)]]
<1>7. f \in [1 .. n -> [V -> V]] /\ \A t \in 1 .. n : \A v \in V : f[t][v] = Grown(v, t)
  <2>1. ASSUME NEW t \in 1 .. n, NEW v \in V PROVE Grown(v, t) \in V
    BY <1>3, <1>5, ConcatProperties
  <2> HIDE DEF Grown
  <2> QED
    BY <2>1
<1> HIDE DEF f, Grown
<1>8. PICK g \in [0 .. n -> V] : Unfolds(g, n, e, f)
  BY <1>2, <1>4, <1>7, Recursive
<1>9. ASSUME NEW t \in 1 .. n PROVE g[t] = Grown(g[t - 1], t) /\ g[t - 1] \in V
  <2>1. t - 1 \in 0 .. n
    OBVIOUS
  <2> QED
    BY <1>7, <1>8, <2>1 DEF Unfolds
<1>10. Is(c)
  <2>1. ASSUME NEW t \in 0 .. n PROVE g[t] = Step(g, t)
    <3>1. CASE t = 0
      BY <1>4, <1>8, <3>1 DEF Unfolds
    <3>2. CASE t \in 1 .. n
      BY <1>9, <3>2
    <3> QED
      BY <3>1, <3>2
  <2>2. Is(g)
    <3> HIDE DEF Step
    <3> QED
      BY <1>2, <1>8, <2>1
  <2> HIDE DEF Is
  <2> QED
    BY <2>2
<1> HIDE DEF c
<1>11. \A t \in 0 .. n : c[t] = Step(c, t)
  <2> HIDE DEF Step
  <2> QED
    BY <1>2, <1>10
<1>12. GoesOnLike(g, c, n)
  <2>1. g[0] = c[0]
    BY <1>2, <1>4, <1>8, <1>11 DEF Unfolds
  <2>2. ASSUME NEW t \in 1 .. n PROVE c[t] = Grown(c[t - 1], t)
    BY <1>11
  <2> QED
    BY <1>9, <2>1, <2>2 DEF GoesOnLike
<1>13. g[n] = c[n]
  BY <1>2, <1>12, GoOnAlike
<1> HIDE DEF Is, Step
<1> DEFINE T == {t \in Nat : t <= n => GoesInOrder(g[t], t)}
<1>14. 0 \in T
  BY <1>4, <1>8 DEF Unfolds
<1>15. ASSUME NEW t \in Nat, t \in T PROVE t + 1 \in T
  <2> SUFFICES ASSUME t + 1 <= n PROVE GoesInOrder(g[t + 1], t + 1)
    OBVIOUS
  <2>1. t + 1 \in 1 .. n /\ (t + 1) - 1 = t
    OBVIOUS
  <2>2. g[t + 1] = g[t] \o Waves(t + 1)
    BY <1>9, <2>1 DEF Grown
  <2>3. GoesInOrder(g[t], t)
    BY <1>15
  <2> QED
    BY <1>6, <2>1, <2>2, <2>3
<1> HIDE DEF T
<1>16. GoesInOrder(g[n], n)
  <2>1. n \in T
    BY <1>2, <1>14, <1>15, Inductive
  <2> QED
    BY <2>1 DEF T
<1>17. g[n] # <<>>
  <2>1. n \in 1 .. n
    BY <1>2
  <2>2. g[n] = g[n - 1] \o Waves(n) /\ g[n - 1] \in Seq(OneWave)
    BY <1>3, <1>9, <2>1 DEF Grown
  <2>3. Waves(n) \in Seq(OneWave) /\ Len(Waves(n)) > 0
    BY <1>3, <1>5, <2>1
  <2>4. Len(g[n]) = Len(g[n - 1]) + Len(Waves(n))
    BY <2>2, <2>3, ConcatProperties
  <2>5. Len(g[n]) > 0
    BY <2>2, <2>3, <2>4
  <2> QED
    BY <2>5
<1> QED
  BY <1>1, <1>2, <1>13, <1>16, <1>17

\* The plans of every configuration that is accepted are layered: no command rests
\* on one of its own wave or of a later one.
THEOREM PlansAreLayered == Layered
<1> SUFFICES ASSUME NEW s \in Substage
             PROVE  /\ Plan[s] \in Seq(OneWave) \ {<<>>}
                    /\ \A i, j \in Job[s] : RestsOn(s, i, j) => i[1] < j[1]
  BY DEF Layered, OneWave
<1>1. PICK p \in Seq(OneWave) : p = Plan[s] /\ p # <<>> /\ GoesInOrder(p, Len(Targets[s]))
  BY PlanUnfolds DEF GoesInOrder
<1>2. DOMAIN p = 1 .. Len(p) /\ \A k \in 1 .. Len(p) : p[k] \in OneWave
  BY <1>1
<1>3. ASSUME NEW j \in Job[s] PROVE j[1] \in 1 .. Len(p) /\ p[j[1]].dirs[j[2]] \in Names(p[j[1]].dirs)
  <2>1. PICK k \in DOMAIN p : j \in {<<k, i>> : i \in DOMAIN p[k].dirs}
    BY <1>1 DEF Job
  <2> QED
    BY <1>2, <2>1 DEF Names
<1>4. ASSUME NEW i \in Job[s], NEW j \in Job[s], RestsOn(s, i, j) PROVE i[1] < j[1]
  <2>1. /\ Target(s, i) = p[i[1]].target /\ Target(s, j) = p[j[1]].target
        /\ DirOf(s, i) = p[i[1]].dirs[i[2]] /\ DirOf(s, j) = p[j[1]].dirs[j[2]]
    BY <1>1 DEF Target, DirOf
  <2>2. CASE Target(s, i) < Target(s, j)
    BY <1>1, <1>3, <2>1, <2>2 DEF GoesInOrder
  <2>3. CASE /\ Target(s, i) = Target(s, j)
             /\ DirOf(s, j) \in Dir /\ DirOf(s, i) \in Needs[DirOf(s, j)] \ {DirOf(s, j)}
    <3>1. PICK a \in Names(p[i[1]].dirs) : a = DirOf(s, i)
      BY <1>3, <2>1
    <3>2. PICK b \in Names(p[j[1]].dirs) : b = DirOf(s, j)
      BY <1>3, <2>1
    <3>3. /\ i[1] \in 1 .. Len(p) /\ j[1] \in 1 .. Len(p)
          /\ p[i[1]].target = p[j[1]].target /\ b \in Dir /\ a \in Needs[b] \ {b}
      BY <1>3, <2>1, <2>3, <3>1, <3>2
    <3> QED
      BY <1>1, <3>3 DEF GoesInOrder
  <2> QED
    BY <1>4, <2>2, <2>3 DEF RestsOn
<1> QED
  BY <1>1, <1>4

-----------------------------------------------------------------------------
(* The local engine.                                                       *)

Kinds == {"none", "running", "zero", "nonzero", "passed", "failed", "error"}

\* The waves in front of the one a run is at have passed, and those behind it
\* have not started.
WaveByWave(c) == \A j \in Job[c] :
  /\ exit[c][j] # "none" <=> j[1] <= at[c]
  /\ j[1] < at[c] => exit[c][j] = "passed"

\* What is answered passed has passed; before a run begins there is nothing.
AnswersItsJobs(c) ==
  /\ answer[c] = "passed" => \A j \in Job[c] : exit[c][j] = "passed"
  /\ at[c] = 0 => answer[c] = "none" /\ earlier[c] = {} /\ result[c] = {}

\* A command that has ended has left its report, which is not older than its
\* own run, and one that passed has been harvested.
LeavesItsReport(c) ==
  /\ result[c] \cap earlier[c] = {}
  /\ \A j \in Job[c] :
       /\ <<c, j>> \notin earlier[c]
       /\ exit[c][j] \in {"zero", "nonzero", "passed"} => <<c, j>> \in store
       /\ exit[c][j] = "passed" /\ Target(c, j) # 0 => <<c, j>> \in result[c]

Inv == TypeOK /\ \A c \in Call : WaveByWave(c) /\ AnswersItsJobs(c) /\ LeavesItsReport(c)

-----------------------------------------------------------------------------
\* What a layered plan says of jobs.
LEMMA JobsOfWaves ==
  ASSUME NEW c \in Call
  PROVE  /\ c \in Substage
         /\ Len(Plan[c]) \in Nat /\ Len(Plan[c]) > 0
         /\ Job[c] \subseteq AnyJob
         /\ \A j \in Job[c] : j[1] \in 1..Len(Plan[c])
<1>1. c \in Substage
  BY CallAssumption
<1>2. Plan[c] \in Seq([target : Nat, dirs : Seq(Dir \union {Root})]) /\ Plan[c] # <<>>
  BY <1>1, PlansAreLayered DEF Layered
<1>3. Len(Plan[c]) \in Nat /\ Len(Plan[c]) > 0 /\ DOMAIN Plan[c] = 1..Len(Plan[c])
  BY <1>2
<1>4. Job[c] = UNION {{<<k, i>> : i \in DOMAIN Plan[c][k].dirs} : k \in DOMAIN Plan[c]}
  BY <1>1 DEF Job
<1>5. \A j \in Job[c] : j[1] \in 1..Len(Plan[c])
  <2> SUFFICES ASSUME NEW j \in Job[c] PROVE j[1] \in 1..Len(Plan[c])
    OBVIOUS
  <2>1. PICK k \in DOMAIN Plan[c] : j \in {<<k, i>> : i \in DOMAIN Plan[c][k].dirs}
    BY <1>4
  <2> QED
    BY <1>3, <2>1
<1> QED
  BY <1>1, <1>3, <1>5 DEF AnyJob

LEMMA RestsOnEarlier ==
  ASSUME NEW c \in Call, NEW j \in Job[c]
  PROVE  \A i \in Before[c][j] : i \in Job[c] /\ i[1] < j[1]
BY CallAssumption, PlansAreLayered DEF Layered, Before

-----------------------------------------------------------------------------
(* The invariant.                                                          *)

LEMMA InvInitially == Init => Inv
<1> SUFFICES ASSUME Init PROVE Inv
  OBVIOUS
<1>1. TypeOK
  BY JobsOfWaves DEF Init, TypeOK
<1>2. ASSUME NEW c \in Call PROVE WaveByWave(c) /\ AnswersItsJobs(c) /\ LeavesItsReport(c)
  BY JobsOfWaves DEF Init, WaveByWave, AnswersItsJobs, LeavesItsReport
<1> QED
  BY <1>1, <1>2 DEF Inv

\* A run that takes no step keeps its part, whatever is put in the stores.
LEMMA OthersKeepTheirs ==
  ASSUME Inv, NEW d \in Call,
         at'[d] = at[d], exit'[d] = exit[d], earlier'[d] = earlier[d],
         result'[d] = result[d], answer'[d] = answer[d], store \subseteq store'
  PROVE  WaveByWave(d)' /\ AnswersItsJobs(d)' /\ LeavesItsReport(d)'
BY DEF Inv, WaveByWave, AnswersItsJobs, LeavesItsReport

LEMMA BeginKeeps ==
  ASSUME Inv, NEW c \in Call, Begin(c)
  PROVE  Inv'
<1>1. /\ c \in Substage /\ Len(Plan[c]) \in Nat /\ Len(Plan[c]) > 0
      /\ Job[c] \subseteq AnyJob /\ \A j \in Job[c] : j[1] \in 1..Len(Plan[c])
  BY JobsOfWaves
<1>2. /\ at[c] = 0 /\ at' = [at EXCEPT ![c] = 1]
      /\ earlier' = [earlier EXCEPT ![c] = Started]
      /\ exit' = [exit EXCEPT ![c] = [j \in AnyJob |-> IF j \in Wave(c, 1) THEN "running" ELSE exit[c][j]]]
      /\ UNCHANGED <<store, result, answer>>
  BY DEF Begin
<1>3. TypeOK
  BY DEF Inv
<1>4. Started \subseteq Report
  BY DEF Started
<1>5. TypeOK'
  <2>1. at' \in [Call -> Nat] /\ \A d \in Call : at'[d] <= Len(Plan[d])
    BY <1>1, <1>2, <1>3 DEF TypeOK
  <2>2. exit' \in [Call -> [AnyJob -> Kinds]]
    BY <1>2, <1>3 DEF TypeOK, Kinds
  <2> QED
    BY <1>2, <1>3, <1>4, <2>1, <2>2 DEF TypeOK, Kinds
<1>6. \A d \in Call \ {c} : WaveByWave(d)' /\ AnswersItsJobs(d)' /\ LeavesItsReport(d)'
  BY <1>2, <1>3, OthersKeepTheirs DEF TypeOK
<1>7. WaveByWave(c) /\ AnswersItsJobs(c) /\ LeavesItsReport(c)
  BY DEF Inv
<1>8. \A j \in Job[c] : exit[c][j] = "none"
  BY <1>1, <1>2, <1>7 DEF WaveByWave
<1>9. \A j \in Job[c] : exit'[c][j] = IF j[1] = 1 THEN "running" ELSE "none"
  BY <1>1, <1>2, <1>3, <1>8 DEF TypeOK, Wave
<1>10. WaveByWave(c)'
  <2>1. at'[c] = 1
    BY <1>2, <1>3 DEF TypeOK
  <2> SUFFICES ASSUME NEW j \in Job[c]
               PROVE  (exit'[c][j] # "none" <=> j[1] <= 1) /\ ~ j[1] < 1
    BY <2>1 DEF WaveByWave
  <2>2. j[1] \in Nat /\ j[1] >= 1
    BY <1>1
  <2> QED
    BY <1>9, <2>2
<1>11. AnswersItsJobs(c)'
  BY <1>2, <1>3, <1>7 DEF AnswersItsJobs, TypeOK
<1>12. LeavesItsReport(c)'
  <2>1. \A j \in Job[c] : <<c, j>> \notin Started
    BY <1>8 DEF Started
  <2>2. result'[c] = {} /\ earlier'[c] = Started
    BY <1>2, <1>3, <1>7 DEF AnswersItsJobs, TypeOK
  <2> QED
    BY <1>9, <2>1, <2>2 DEF LeavesItsReport
<1> QED
  BY <1>5, <1>6, <1>10, <1>11, <1>12 DEF Inv

LEMMA RunInKeeps ==
  ASSUME Inv, NEW c \in Call, NEW j \in Job[c], RunIn(c, j)
  PROVE  Inv'
<1>1. j \in AnyJob /\ <<c, j>> \in Report
  BY JobsOfWaves DEF Report
<1>2. TypeOK /\ WaveByWave(c) /\ AnswersItsJobs(c) /\ LeavesItsReport(c)
  BY DEF Inv
<1>3. PICK how \in {"zero", "nonzero", "error"} :
        /\ exit' = [exit EXCEPT ![c][j] = how]
        /\ store \subseteq store' /\ store' \subseteq store \union {<<c, j>>}
        /\ how # "error" => <<c, j>> \in store'
  BY DEF RunIn
<1>4. exit[c][j] = "running" /\ UNCHANGED <<at, earlier, result, answer>>
  BY DEF RunIn
<1>5. TypeOK'
  <2>1. exit' \in [Call -> [AnyJob -> Kinds]]
    BY <1>1, <1>2, <1>3 DEF TypeOK, Kinds
  <2> QED
    BY <1>1, <1>2, <1>3, <1>4, <2>1 DEF TypeOK, Kinds
<1>6. \A d \in Call \ {c} : WaveByWave(d)' /\ AnswersItsJobs(d)' /\ LeavesItsReport(d)'
  BY <1>2, <1>3, <1>4, OthersKeepTheirs DEF TypeOK
<1>7. \A i \in Job[c] : exit'[c][i] = IF i = j THEN how ELSE exit[c][i]
  BY <1>1, <1>2, <1>3, JobsOfWaves DEF TypeOK
<1>8. WaveByWave(c)' /\ AnswersItsJobs(c)' /\ LeavesItsReport(c)'
  BY <1>2, <1>3, <1>4, <1>7 DEF WaveByWave, AnswersItsJobs, LeavesItsReport
<1> QED
  BY <1>5, <1>6, <1>8 DEF Inv

LEMMA MergeKeeps ==
  ASSUME Inv, NEW c \in Call, NEW j \in Job[c], Merge(c, j)
  PROVE  Inv'
<1>1. j \in AnyJob /\ <<c, j>> \in Report
  BY JobsOfWaves DEF Report
<1>2. TypeOK /\ WaveByWave(c) /\ AnswersItsJobs(c) /\ LeavesItsReport(c)
  BY DEF Inv
<1> DEFINE H == Harvested(c, DirOf(c, j))
<1>3. H \subseteq store /\ H \cap earlier[c] = {}
      /\ (<<c, j>> \in store /\ <<c, j>> \notin earlier[c] => <<c, j>> \in H)
  BY DEF Harvested
<1>4. exit[c][j] \in {"zero", "nonzero"} /\ UNCHANGED <<at, earlier, store, answer>>
  BY DEF Merge
<1>5. PICK how \in {"passed", "failed", "error"} :
        /\ exit' = [exit EXCEPT ![c][j] = how]
        /\ \/ result' = result /\ (how # "passed" \/ Target(c, j) = 0)
           \/ result' = [result EXCEPT ![c] = @ \union H]
  BY <1>2, <1>1 DEF Merge, TypeOK
<1> HIDE DEF H
<1>6. result'[c] \in {result[c], result[c] \union H} /\ result' \in [Call -> SUBSET Report]
  BY <1>2, <1>3, <1>5 DEF TypeOK
<1>7. how = "passed" /\ Target(c, j) # 0 => result'[c] = result[c] \union H
  BY <1>2, <1>5 DEF TypeOK
<1>8. TypeOK'
  <2>1. exit' \in [Call -> [AnyJob -> Kinds]]
    BY <1>1, <1>2, <1>5 DEF TypeOK, Kinds
  <2> QED
    BY <1>2, <1>4, <1>6, <2>1 DEF TypeOK, Kinds
<1>9. \A d \in Call \ {c} : WaveByWave(d)' /\ AnswersItsJobs(d)' /\ LeavesItsReport(d)'
  <2> TAKE d \in Call \ {c}
  <2>1. exit'[d] = exit[d] /\ result'[d] = result[d]
    BY <1>2, <1>5 DEF TypeOK
  <2> QED
    BY <1>4, <2>1, OthersKeepTheirs
<1>10. \A i \in Job[c] : exit'[c][i] = IF i = j THEN how ELSE exit[c][i]
  BY <1>1, <1>2, <1>5, JobsOfWaves DEF TypeOK
<1>11. WaveByWave(c)'
  BY <1>2, <1>4, <1>10 DEF WaveByWave
<1>12. AnswersItsJobs(c)'
  <2>1. exit[c][j] # "passed" /\ at[c] # 0
    <3>1. j[1] \in Nat /\ j[1] > 0
      BY JobsOfWaves
    <3> QED
      BY <1>2, <1>4, <3>1 DEF WaveByWave
  <2> QED
    BY <1>2, <1>4, <2>1 DEF AnswersItsJobs
<1>13. LeavesItsReport(c)'
  BY <1>2, <1>3, <1>4, <1>6, <1>7, <1>10 DEF LeavesItsReport
<1> QED
  BY <1>8, <1>9, <1>11, <1>12, <1>13 DEF Inv

\* When a wave is over, what has started has ended.
LEMMA WaveIsOver ==
  ASSUME Inv, NEW c \in Call, EndWave(c)
  PROVE  /\ at[c] > 0 /\ answer[c] = "none"
         /\ \A j \in Job[c] : j[1] <= at[c] => exit[c][j] \in {"passed", "failed", "error"}
         /\ Verdict(c) \in {"none", "passed"} => \A j \in Job[c] : j[1] <= at[c] => exit[c][j] = "passed"
<1>1. WaveByWave(c) /\ at[c] \in Nat
  BY DEF Inv, TypeOK
<1>2. \A j \in Job[c] : j[1] \in Nat
  BY JobsOfWaves
<1>3. at[c] > 0 /\ answer[c] = "none" /\ WaveDone(c)
  BY DEF EndWave
<1>4. \A j \in Job[c] : j[1] = at[c] => exit[c][j] \in {"passed", "failed", "error"}
  BY <1>3 DEF WaveDone, Wave, Jobs
<1>5. \A j \in Job[c] : j[1] <= at[c] => exit[c][j] \in {"passed", "failed", "error"}
  BY <1>1, <1>2, <1>4 DEF WaveByWave
<1>6. Verdict(c) \in {"none", "passed"} => \A j \in Job[c] : exit[c][j] \notin {"failed", "error"}
  BY DEF Verdict, Jobs
<1> QED
  BY <1>3, <1>5, <1>6

LEMMA EndWaveKeeps ==
  ASSUME Inv, NEW c \in Call, EndWave(c)
  PROVE  Inv'
<1>1. /\ Len(Plan[c]) \in Nat
      /\ Job[c] \subseteq AnyJob /\ \A j \in Job[c] : j[1] \in 1..Len(Plan[c])
  BY JobsOfWaves
<1>2. TypeOK /\ WaveByWave(c) /\ AnswersItsJobs(c) /\ LeavesItsReport(c)
  BY DEF Inv
<1>3. /\ answer' = [answer EXCEPT ![c] = Verdict(c)]
      /\ UNCHANGED <<earlier, store, result>>
  BY DEF EndWave
<1>4. Verdict(c) \in {"none", "passed", "failed", "error"}
  BY DEF Verdict
<1>5. CASE Verdict(c) # "none"
  <2>1. UNCHANGED <<at, exit>>
    BY <1>5 DEF EndWave
  <2>2. TypeOK'
    BY <1>2, <1>3, <1>4, <2>1 DEF TypeOK
  <2>3. \A d \in Call \ {c} : WaveByWave(d)' /\ AnswersItsJobs(d)' /\ LeavesItsReport(d)'
    BY <1>2, <1>3, <2>1, OthersKeepTheirs DEF TypeOK
  <2>4. Verdict(c) = "passed" => \A j \in Job[c] : exit[c][j] = "passed"
    <3>1. Verdict(c) = "passed" => at[c] = Len(Plan[c])
      BY DEF Verdict, Last
    <3> QED
      BY <1>1, <3>1, WaveIsOver
  <2>5. answer'[c] = Verdict(c)
    BY <1>2, <1>3 DEF TypeOK
  <2>6. WaveByWave(c)' /\ AnswersItsJobs(c)' /\ LeavesItsReport(c)'
    BY <1>2, <1>3, <2>1, <2>4, <2>5, WaveIsOver DEF WaveByWave, AnswersItsJobs, LeavesItsReport
  <2> QED
    BY <2>2, <2>3, <2>6 DEF Inv
<1>6. CASE Verdict(c) = "none"
  <2>1. /\ at' = [at EXCEPT ![c] = @ + 1]
        /\ exit' = [exit EXCEPT ![c] =
             [j \in AnyJob |-> IF j \in Wave(c, at[c] + 1) THEN "running" ELSE exit[c][j]]]
    BY <1>6 DEF EndWave
  <2>2. at[c] \in Nat /\ at[c] + 1 <= Len(Plan[c])
    <3>1. at[c] # Len(Plan[c])
      BY <1>6 DEF Verdict, Last
    <3> QED
      BY <1>1, <1>2, <3>1 DEF TypeOK
  <2>3. answer' = answer
    BY <1>2, <1>3, <1>6, WaveIsOver DEF TypeOK
  <2>4. TypeOK'
    <3>1. exit' \in [Call -> [AnyJob -> Kinds]]
      BY <1>2, <2>1 DEF TypeOK, Kinds
    <3>2. at' \in [Call -> Nat] /\ \A d \in Call : at'[d] <= Len(Plan[d])
      BY <1>2, <2>1, <2>2 DEF TypeOK
    <3> QED
      BY <1>2, <1>3, <2>3, <3>1, <3>2 DEF TypeOK, Kinds
  <2>5. \A d \in Call \ {c} : WaveByWave(d)' /\ AnswersItsJobs(d)' /\ LeavesItsReport(d)'
    BY <1>2, <1>3, <2>1, <2>3, OthersKeepTheirs DEF TypeOK
  <2>6. \A j \in Job[c] : exit'[c][j] = IF j[1] = at[c] + 1 THEN "running" ELSE exit[c][j]
    BY <1>1, <1>2, <2>1 DEF TypeOK, Wave
  <2>7. at'[c] = at[c] + 1
    BY <1>2, <2>1 DEF TypeOK
  <2>8. WaveByWave(c)'
    BY <1>1, <1>2, <1>6, <2>2, <2>6, <2>7, WaveIsOver DEF WaveByWave
  <2>9. AnswersItsJobs(c)'
    BY <2>2, <2>3, <2>7, WaveIsOver DEF AnswersItsJobs
  <2>10. LeavesItsReport(c)'
    BY <1>2, <1>3, <2>6 DEF LeavesItsReport
  <2> QED
    BY <2>4, <2>5, <2>8, <2>9, <2>10 DEF Inv
<1> QED
  BY <1>5, <1>6

LEMMA InvStep == Inv /\ [Next]_vars => Inv'
<1> SUFFICES ASSUME Inv, [Next]_vars PROVE Inv'
  OBVIOUS
<1>1. CASE UNCHANGED vars
  BY <1>1 DEF Inv, TypeOK, WaveByWave, AnswersItsJobs, LeavesItsReport, vars
<1>2. CASE Next
  BY <1>2, BeginKeeps, RunInKeeps, MergeKeeps, EndWaveKeeps DEF Next
<1> QED
  BY <1>1, <1>2

\* Every wave rests on the ones in front of it, whatever the goroutines do.
THEOREM WavesGoInOrder == Spec => []Inv
BY InvInitially, InvStep, PTL DEF Spec

\* The variables keep their types.
THEOREM TypeCorrect == Spec => []TypeOK
<1>1. Inv => TypeOK
  BY DEF Inv
<1> QED
  BY <1>1, WavesGoInOrder, PTL

\* A run that passed carries every report of its own and none that is older
\* (Harvest and merge of computecontroller.go).
THEOREM EvidenceIsKept == Spec => []EvidenceIsItsOwn
<1>1. Inv => EvidenceIsItsOwn
  BY DEF Inv, AnswersItsJobs, LeavesItsReport, EvidenceIsItsOwn
<1> QED
  BY <1>1, WavesGoInOrder, PTL

-----------------------------------------------------------------------------
(* The promise.                                                            *)

\* Both modules read the one schedule.
LEMMA OneSchedule ==
  /\ Promise!Job = Job /\ Promise!Before = Before
<1>1. Promise!Plan = Plan
  BY DEF Plan, Promise!Plan, Converging, Promise!Converging, WavesFor, Promise!WavesFor,
     WavesOf, Promise!WavesOf, AnyEdge, Promise!AnyEdge, Turns, Promise!Turns,
     Pending, Promise!Pending, NextWave, Promise!NextWave, Those, Promise!Those, Ready, Promise!Ready,
     Names, Promise!Names
<1>2. Promise!Job = Job
  BY <1>1 DEF Job, Promise!Job
<1>3. ASSUME NEW s, NEW i, NEW j PROVE Promise!RestsOn(s, i, j) = RestsOn(s, i, j)
  BY <1>1 DEF RestsOn, Promise!RestsOn, Target, Promise!Target, DirOf, Promise!DirOf
<1> QED
  BY <1>2, <1>3 DEF Before, Promise!Before

\* What TargetRun sees of a run.
Begun(c)   == Job[c] \ Jobs(c, {"none"})
Passed(c)  == Jobs(c, {"passed"})
Broken(c)  == Jobs(c, {"failed", "error"})
Seen       == <<[c \in Call |-> Begun(c)], [c \in Call |-> Passed(c)],
                [c \in Call |-> Broken(c)], answer>>

\* A run that takes no step looks the same.
LEMMA LooksTheSame ==
  ASSUME NEW d, exit'[d] = exit[d]
  PROVE  Begun(d)' = Begun(d) /\ Passed(d)' = Passed(d) /\ Broken(d)' = Broken(d)
BY DEF Begun, Passed, Broken, Jobs

\* A wave starts: nothing in it has started, and what it rests on has passed.
LEMMA StartsAWave ==
  ASSUME Inv, NEW c \in Call, NEW k \in Nat,
         k <= Len(Plan[c]), k = at[c] + 1,
         answer[c] = "none", answer' = answer,
         exit' = [exit EXCEPT ![c] = [j \in AnyJob |-> IF j \in Wave(c, k) THEN "running" ELSE exit[c][j]]],
         \A j \in Job[c] : j[1] < k => exit[c][j] = "passed"
  PROVE  Promise!Start(c, Wave(c, k))
<1>1. TypeOK /\ WaveByWave(c)
  BY DEF Inv
<1>2. Job[c] \subseteq AnyJob /\ \A j \in Job[c] : j[1] \in Nat
  BY JobsOfWaves
<1>3. \A d \in Call \ {c} : exit'[d] = exit[d]
  BY <1>1 DEF TypeOK
<1>4. \A j \in Job[c] : exit'[c][j] = IF j[1] = k THEN "running" ELSE exit[c][j]
  BY <1>1, <1>2 DEF TypeOK, Wave
<1>5. \A j \in Wave(c, k) : j \in Job[c] /\ exit[c][j] = "none"
  BY <1>1, <1>2 DEF WaveByWave, Wave, TypeOK
<1>6. Begun(c)' = Begun(c) \union Wave(c, k) /\ Passed(c)' = Passed(c) /\ Broken(c)' = Broken(c)
  <2>1. \A j \in Job[c] : j \in Wave(c, k) <=> j[1] = k
    BY DEF Wave
  <2>2. Begun(c)' = Begun(c) \union Wave(c, k)
    <3>1. \A j : j \in Begun(c) <=> j \in Job[c] /\ exit[c][j] # "none"
      BY DEF Begun, Jobs
    <3>2. \A j : j \in Begun(c)' <=> j \in Job[c] /\ exit'[c][j] # "none"
      BY DEF Begun, Jobs
    <3>3. ASSUME NEW j PROVE j \in Begun(c)' <=> j \in Begun(c) \/ j \in Wave(c, k)
      <4>1. CASE j \in Wave(c, k)
        <5>1. j \in Job[c] /\ exit'[c][j] = "running"
          BY <1>4, <1>5, <2>1, <4>1
        <5> QED
          BY <3>2, <4>1, <5>1
      <4>2. CASE j \notin Wave(c, k)
        <5>1. j \in Job[c] => exit'[c][j] = exit[c][j]
          BY <1>4, <2>1, <4>2
        <5> QED
          BY <3>1, <3>2, <4>2, <5>1
      <4> QED
        BY <4>1, <4>2
    <3> QED
      BY <3>3
  <2>3. \A j \in Job[c] : exit'[c][j] = exit[c][j] \/ (exit[c][j] = "none" /\ exit'[c][j] = "running")
    BY <1>4, <1>5, <2>1
  <2> QED
    BY <2>2, <2>3 DEF Passed, Broken, Jobs
<1>7. Wave(c, k) \cap Begun(c) = {}
  BY <1>5 DEF Begun, Jobs
<1>8. \A j \in Wave(c, k) : Before[c][j] \subseteq Passed(c)
  <2> TAKE j \in Wave(c, k)
  <2>1. j \in Job[c] /\ j[1] = k
    BY DEF Wave
  <2> QED
    BY <2>1, RestsOnEarlier DEF Passed, Jobs
<1>9. [d \in Call |-> Begun(d)'] = [[d \in Call |-> Begun(d)] EXCEPT ![c] = @ \union Wave(c, k)]
  BY <1>3, <1>6, LooksTheSame
<1>10. /\ [d \in Call |-> Passed(d)'] = [d \in Call |-> Passed(d)]
       /\ [d \in Call |-> Broken(d)'] = [d \in Call |-> Broken(d)]
  BY <1>3, <1>6, LooksTheSame
<1> QED
  BY <1>7, <1>8, <1>9, <1>10, OneSchedule DEF Promise!Start, Begun, Passed, Broken

\* A job that was running has ended, one way or the other.
LEMMA EndsAJob ==
  ASSUME TypeOK, NEW c \in Call, Job[c] \subseteq AnyJob, NEW j \in Job[c],
         NEW how \in {"passed", "failed", "error"},
         exit[c][j] \in {"running", "zero", "nonzero"},
         exit' = [exit EXCEPT ![c][j] = how], answer' = answer
  PROVE  Promise!End(c, j)
<1>1. \A d \in Call \ {c} : exit'[d] = exit[d]
  BY DEF TypeOK
<1>2. \A i \in Job[c] : exit'[c][i] = IF i = j THEN how ELSE exit[c][i]
  BY DEF TypeOK
<1>3. j \in Begun(c) /\ j \notin Passed(c) /\ j \notin Broken(c)
  BY DEF Begun, Passed, Broken, Jobs
<1>4. Begun(c)' = Begun(c)
  BY <1>2 DEF Begun, Jobs
<1>5. CASE how = "passed"
  <2>1. Passed(c)' = Passed(c) \union {j} /\ Broken(c)' = Broken(c)
    BY <1>2, <1>5 DEF Passed, Broken, Jobs
  <2> QED
    BY <1>1, <1>3, <1>4, <2>1, LooksTheSame DEF Promise!End, Begun, Passed, Broken
<1>6. CASE how # "passed"
  <2>1. Broken(c)' = Broken(c) \union {j} /\ Passed(c)' = Passed(c)
    BY <1>2, <1>6 DEF Passed, Broken, Jobs
  <2> QED
    BY <1>1, <1>3, <1>4, <2>1, LooksTheSame DEF Promise!End, Begun, Passed, Broken
<1> QED
  BY <1>5, <1>6

\* A wave is over: the answer is one the promise allows, or the next one starts.
LEMMA EndWaveKeepsPromise ==
  ASSUME Inv, NEW c \in Call, EndWave(c)
  PROVE  \/ Promise!Pass(c) \/ Promise!Fail(c) \/ Promise!Err(c)
         \/ \E k \in Nat : Wave(c, k) \subseteq Job[c] /\ Promise!Start(c, Wave(c, k))
<1>1. TypeOK /\ WaveByWave(c)
  BY DEF Inv
<1>2. Len(Plan[c]) \in Nat /\ \A j \in Job[c] : j[1] \in 1..Len(Plan[c])
  BY JobsOfWaves
<1>3. answer[c] = "none" /\ answer' = [answer EXCEPT ![c] = Verdict(c)]
  BY DEF EndWave
<1>4. \A j \in Job[c] : exit[c][j] # "none" => exit[c][j] \in {"passed", "failed", "error"}
  BY <1>1, WaveIsOver DEF WaveByWave
<1>5. CASE Verdict(c) = "none"
  <2>1. PICK k \in Nat : k = at[c] + 1
    BY <1>1 DEF TypeOK
  <2>2. k <= Len(Plan[c])
    BY <1>1, <1>2, <1>5, <2>1 DEF Verdict, Last, TypeOK
  <2>3. answer' = answer
    BY <1>1, <1>3, <1>5 DEF TypeOK
  <2>4. \A j \in Job[c] : j[1] < k => exit[c][j] = "passed"
    <3>1. at[c] \in Nat
      BY <1>1 DEF TypeOK
    <3> QED
      BY <1>2, <1>5, <2>1, <3>1, WaveIsOver
  <2>5. exit' = [exit EXCEPT ![c] = [j \in AnyJob |-> IF j \in Wave(c, k) THEN "running" ELSE exit[c][j]]]
    BY <1>5, <2>1 DEF EndWave
  <2>6. Promise!Start(c, Wave(c, k))
    BY <1>3, <2>1, <2>2, <2>3, <2>4, <2>5, StartsAWave
  <2>7. Wave(c, k) \subseteq Job[c]
    BY DEF Wave
  <2> QED
    BY <2>6, <2>7
<1>6. ASSUME Verdict(c) # "none" PROVE exit' = exit
  BY <1>6 DEF EndWave
<1>7. CASE Verdict(c) = "passed"
  <2>1. at[c] = Len(Plan[c])
    BY <1>7 DEF Verdict, Last
  <2>2. Jobs(c, {"passed"}) = Job[c]
    BY <1>2, <1>7, <2>1, WaveIsOver DEF Jobs
  <2> QED
    BY <1>3, <1>6, <1>7, <2>2, OneSchedule DEF Promise!Pass, Jobs
<1>8. CASE Verdict(c) = "failed"
  <2>1. Jobs(c, {"failed", "error"}) # {}
    BY <1>8 DEF Verdict, Jobs
  <2>2. Job[c] \ Jobs(c, {"none"}) = Jobs(c, {"passed"}) \union Jobs(c, {"failed", "error"})
    BY <1>4 DEF Jobs
  <2> QED
    BY <1>3, <1>6, <1>8, <2>1, <2>2, OneSchedule DEF Promise!Fail, Jobs
<1>9. CASE Verdict(c) = "error"
  BY <1>3, <1>6, <1>9, OneSchedule DEF Promise!Err, Jobs
<1> QED
  BY <1>5, <1>7, <1>8, <1>9 DEF Verdict

LEMMA StepsKeepPromise ==
  ASSUME Inv, [Next]_vars
  PROVE  Promise!Next \/ UNCHANGED Seen
<1>1. TypeOK
  BY DEF Inv
<1>2. ASSUME NEW c \in Call, Begin(c) PROVE Promise!Next
  <2>1. Len(Plan[c]) \in Nat /\ Len(Plan[c]) > 0 /\ \A j \in Job[c] : j[1] \in 1..Len(Plan[c])
    BY JobsOfWaves
  <2>2. at[c] = 0 /\ answer[c] = "none" /\ answer' = answer
    BY <1>2 DEF Begin, Inv, AnswersItsJobs
  <2>3. exit' = [exit EXCEPT ![c] = [j \in AnyJob |-> IF j \in Wave(c, 1) THEN "running" ELSE exit[c][j]]]
    BY <1>2 DEF Begin
  <2>4. \A j \in Job[c] : ~ j[1] < 1
    BY <2>1
  <2>5. 1 <= Len(Plan[c]) /\ 1 = at[c] + 1
    BY <2>1, <2>2
  <2>6. Promise!Start(c, Wave(c, 1))
    BY <2>2, <2>3, <2>4, <2>5, StartsAWave
  <2> QED
    BY <2>6, OneSchedule DEF Promise!Next, Wave
<1>3. ASSUME NEW c \in Call, NEW j \in Job[c], RunIn(c, j) PROVE Promise!Next \/ UNCHANGED Seen
  <2>1. Job[c] \subseteq AnyJob /\ exit[c][j] = "running" /\ answer' = answer
    BY <1>3, JobsOfWaves DEF RunIn
  <2>2. CASE exit' = [exit EXCEPT ![c][j] = "error"]
    <3>1. Promise!End(c, j)
      BY <1>1, <2>1, <2>2, EndsAJob
    <3> QED
      BY <3>1, OneSchedule DEF Promise!Next
  <2>3. ASSUME NEW how \in {"zero", "nonzero"}, exit' = [exit EXCEPT ![c][j] = how]
        PROVE  UNCHANGED Seen
    <3>1. \A d \in Call : \A i \in Job[d] :
            exit'[d][i] = IF d = c /\ i = j THEN how ELSE exit[d][i]
      BY <1>1, <2>1, <2>3, JobsOfWaves DEF TypeOK
    <3>2. \A d \in Call : Begun(d)' = Begun(d) /\ Passed(d)' = Passed(d) /\ Broken(d)' = Broken(d)
      BY <2>1, <3>1 DEF Begun, Passed, Broken, Jobs
    <3> QED
      BY <2>1, <3>2 DEF Seen
  <2> QED
    BY <1>3, <2>2, <2>3 DEF RunIn
<1>4. ASSUME NEW c \in Call, NEW j \in Job[c], Merge(c, j) PROVE Promise!Next
  <2>1. Job[c] \subseteq AnyJob /\ exit[c][j] \in {"zero", "nonzero"} /\ answer' = answer
    BY <1>4, JobsOfWaves DEF Merge
  <2>2. PICK how \in {"passed", "failed", "error"} : exit' = [exit EXCEPT ![c][j] = how]
    BY <1>1, <1>4 DEF Merge, TypeOK
  <2>3. Promise!End(c, j)
    BY <1>1, <2>1, <2>2, EndsAJob
  <2> QED
    BY <2>3, OneSchedule DEF Promise!Next
<1>5. ASSUME NEW c \in Call, EndWave(c) PROVE Promise!Next
  BY <1>5, EndWaveKeepsPromise, OneSchedule DEF Promise!Next
<1>6. CASE UNCHANGED vars
  BY <1>6 DEF vars, Seen, Begun, Passed, Broken, Jobs
<1> QED
  BY <1>2, <1>3, <1>4, <1>5, <1>6 DEF Next

\* The local engine implements the promise of a compute engine: Run's barriers
\* and early end, over any goroutines, runs and outcomes of their commands.
THEOREM PromiseIsKept == Spec => KeepsPromise
<1>1. Init => Promise!Init
  BY OneSchedule, CallAssumption DEF Init, Promise!Init, Jobs, AnyJob
<1>2. Inv /\ [Next]_vars => [Promise!Next]_Seen
  BY StepsKeepPromise
<1> QED
  BY <1>1, <1>2, WavesGoInOrder, PTL DEF Spec, Promise!Spec, KeepsPromise, Seen, Begun, Passed, Broken

-----------------------------------------------------------------------------
(* The remote engine.  It reads the same schedule.                         *)

LEMMA RemoteSchedule ==
  /\ Remote!Plan = Plan /\ Remote!Job = Job /\ Remote!Before = Before /\ Remote!AnyJob = AnyJob
  /\ \A s, k : Remote!Wave(s, k) = Wave(s, k)
<1>1. Remote!Plan = Plan
  BY DEF Plan, Remote!Plan, Converging, Remote!Converging, WavesFor, Remote!WavesFor,
     WavesOf, Remote!WavesOf, AnyEdge, Remote!AnyEdge, Turns, Remote!Turns,
     Pending, Remote!Pending, NextWave, Remote!NextWave, Those, Remote!Those, Ready, Remote!Ready,
     Names, Remote!Names
<1>2. Remote!Job = Job
  BY <1>1 DEF Job, Remote!Job
<1>3. ASSUME NEW s, NEW i, NEW j PROVE Remote!RestsOn(s, i, j) = RestsOn(s, i, j)
  BY <1>1 DEF RestsOn, Remote!RestsOn, Target, Remote!Target, DirOf, Remote!DirOf
<1> QED
  BY <1>1, <1>2, <1>3 DEF Before, Remote!Before, AnyJob, Remote!AnyJob, Wave, Remote!Wave

\* The plan of any substage.
LEMMA JobsOfPlans ==
  ASSUME NEW s \in Substage
  PROVE  /\ Len(Plan[s]) \in Nat /\ Len(Plan[s]) > 0
         /\ Job[s] \subseteq AnyJob
         /\ \A j \in Job[s] : j[1] \in 1..Len(Plan[s])
         /\ \A j \in Job[s] : \A i \in Before[s][j] : i \in Job[s] /\ i[1] < j[1]
<1>1. Plan[s] \in Seq([target : Nat, dirs : Seq(Dir \union {Root})]) /\ Plan[s] # <<>>
  BY PlansAreLayered DEF Layered
<1>2. Len(Plan[s]) \in Nat /\ Len(Plan[s]) > 0 /\ DOMAIN Plan[s] = 1..Len(Plan[s])
  BY <1>1
<1>3. Job[s] = UNION {{<<k, i>> : i \in DOMAIN Plan[s][k].dirs} : k \in DOMAIN Plan[s]}
  BY DEF Job
<1>4. ASSUME NEW j \in Job[s]
      PROVE  \E k \in 1..Len(Plan[s]) : \E i \in DOMAIN Plan[s][k].dirs : j = <<k, i>>
  <2>1. PICK k \in DOMAIN Plan[s] : j \in {<<k, i>> : i \in DOMAIN Plan[s][k].dirs}
    BY <1>3
  <2> QED
    BY <1>2, <2>1
<1>5. Job[s] \subseteq AnyJob /\ \A j \in Job[s] : j[1] \in 1..Len(Plan[s])
  BY <1>4 DEF AnyJob
<1>6. \A j \in Job[s] : \A i \in Before[s][j] : i \in Job[s] /\ i[1] < j[1]
  BY PlansAreLayered DEF Layered, Before
<1> QED
  BY <1>2, <1>5, <1>6

\* The names of the calls, and what is left out of Remote!TypeOK: that a call
\* finds one run at most follows from its being its own.
Calls == Substage \X (1..Attempts)
RemoteTypes ==
  /\ asked \in Askings
  /\ pc \in [Calls -> {"idle", "wait", "hung", "done"}]
  /\ turn \in [Calls -> 0..Polls]
  /\ found \in [Calls -> SUBSET Calls]
  /\ verdict \in [Calls -> {"none", "passed", "failed", "error"}]
  /\ created \in Seq(Calls)
  /\ status \in [Calls -> {"none", "queued", "running", "success", "failure", "cancelled"}]
  /\ wave \in [Calls -> Nat]
  /\ done \in [Calls -> [AnyJob -> {"none", "running", "zero", "nonzero"}]]
  /\ listed \in [Calls -> {{}} \union {{js} : js \in SUBSET AnyJob}]

\* A call looks at its own run, and answers once, what that was concluded with.
LooksAtItsOwn(c) ==
  /\ pc[c] = "idle" => status[c] = "none"
  /\ pc[c] # "done" => verdict[c] = "none"
  /\ found[c] \subseteq {c}
  /\ verdict[c] = "passed" => status[c] = "success"
  /\ verdict[c] = "failed" => status[c] \in {"failure", "cancelled"}

\* The waves in front of the one a script is at have ended, and those behind it
\* have not started; a shell that asked which jobs there are waits for every
\* one of the wave that goes on.
ScriptInOrder(c) ==
  /\ wave[c] <= Len(Plan[c[1]])
  /\ status[c] \in {"none", "queued"} => wave[c] = 0
  /\ status[c] = "running" => wave[c] > 0
  /\ \A j \in Job[c[1]] :
       /\ done[c][j] # "none" <=> j[1] <= wave[c]
       /\ j[1] < wave[c] => done[c][j] \in {"zero", "nonzero"}
       /\ listed[c] # {} /\ j[1] = wave[c] /\ done[c][j] = "running" => j \in UNION listed[c]

RemoteInv == RemoteTypes /\ \A c \in Calls : LooksAtItsOwn(c) /\ ScriptInOrder(c)

\* A call, and its run, are left alone by the steps of others.
LEMMA OtherCallsKeepTheirs ==
  ASSUME RemoteInv, NEW d \in Calls,
         pc'[d] = pc[d], found'[d] = found[d], verdict'[d] = verdict[d], status'[d] = status[d],
         wave'[d] = wave[d], done'[d] = done[d], listed'[d] = listed[d]
  PROVE  LooksAtItsOwn(d)' /\ ScriptInOrder(d)'
BY DEF RemoteInv, LooksAtItsOwn, ScriptInOrder

LEMMA RemoteInitially == Remote!Init => RemoteInv
<1> SUFFICES ASSUME Remote!Init PROVE RemoteInv
  OBVIOUS
<1> USE DEF Remote!Init, Remote!Nothing, Remote!Attempt
<1>1. RemoteTypes
  BY RemoteSchedule, RemoteAssumption DEF RemoteTypes, Calls
<1>2. ASSUME NEW c \in Calls PROVE LooksAtItsOwn(c) /\ ScriptInOrder(c)
  <2>1. c[1] \in Substage
    BY DEF Calls
  <2>2. /\ Len(Plan[c[1]]) \in Nat /\ Job[c[1]] \subseteq AnyJob
        /\ \A j \in Job[c[1]] : j[1] \in 1..Len(Plan[c[1]])
    BY <2>1, JobsOfPlans
  <2> QED
    BY <2>2, RemoteSchedule DEF LooksAtItsOwn, ScriptInOrder, Calls
<1> QED
  BY <1>1, <1>2 DEF RemoteInv

\* The steps of a caller, and a request that hangs, leave the scripts alone.
LEMMA CallerKeeps ==
  ASSUME RemoteInv, NEW c \in Calls, Remote!Caller(c) \/ Remote!Hang(c), UNCHANGED asked
  PROVE  RemoteInv'
<1> USE DEF Remote!caller, Remote!runner, Remote!Attempt
<1>1. RemoteTypes /\ LooksAtItsOwn(c) /\ ScriptInOrder(c)
  BY DEF RemoteInv
<1>2. PICK v \in {"none", "passed", "failed", "error"}, p \in {"wait", "hung", "done"} :
        /\ verdict' = [verdict EXCEPT ![c] = v] /\ pc' = [pc EXCEPT ![c] = p]
        /\ pc[c] \in {"idle", "wait"}
        /\ v # "none" => p = "done"
        /\ v = "passed" => status[c] = "success"
        /\ v = "failed" => status[c] \in {"failure", "cancelled"}
        /\ \E k \in 0..Polls : turn' = [turn EXCEPT ![c] = k]
        /\ \E f \in SUBSET {c} : found' = [found EXCEPT ![c] = f]
        /\ created' \in Seq(Calls)
        /\ \/ status' = status
           \/ pc[c] = "idle" /\ v \notin {"passed", "failed"} /\ status' = [status EXCEPT ![c] = "queued"]
        /\ UNCHANGED <<wave, done, listed>>
  <2>1. /\ pc = [pc EXCEPT ![c] = pc[c]] /\ verdict = [verdict EXCEPT ![c] = verdict[c]]
        /\ turn = [turn EXCEPT ![c] = turn[c]] /\ turn[c] \in 0..Polls /\ 0 \in 0..Polls
        /\ found = [found EXCEPT ![c] = found[c]] /\ found[c] \subseteq {c}
        /\ created \in Seq(Calls)
    BY <1>1, RemoteAssumption DEF RemoteTypes, LooksAtItsOwn
  <2>2. CASE Remote!Dispatch(c)
    <3>1. pc[c] = "idle" /\ verdict[c] = "none"
      BY <1>1, <2>2 DEF Remote!Dispatch, LooksAtItsOwn
    <3>2. created' \in Seq(Calls)
      BY <2>1, <2>2 DEF Remote!Dispatch
    <3>3. status' = [status EXCEPT ![c] = "queued"] /\ UNCHANGED <<wave, done, listed>>
      BY <2>2 DEF Remote!Dispatch
    <3>4. CASE pc' = [pc EXCEPT ![c] = "wait"] /\ UNCHANGED <<turn, found, verdict>>
      BY <2>1, <3>1, <3>2, <3>3, <3>4
    <3>5. CASE Remote!Answer(c, "error")
      BY <2>1, <3>1, <3>2, <3>3, <3>5 DEF Remote!Answer
    <3> QED
      BY <2>2, <3>4, <3>5 DEF Remote!Dispatch
  <2>3. CASE Remote!DispatchRefused(c)
    BY <2>1, <2>3 DEF Remote!DispatchRefused, Remote!Answer
  <2>4. CASE Remote!Poll(c)
    <3>1. pc[c] = "wait" /\ verdict[c] = "none" /\ turn[c] < Polls /\ UNCHANGED <<created, status, wave, done, listed>>
      BY <1>1, <2>4 DEF Remote!Poll, LooksAtItsOwn
    <3>2. turn[c] + 1 \in 0..Polls
      BY <2>1, <3>1, RemoteAssumption
    <3>3. PICK seen \in IF found[c] = {} THEN {{}, Remote!Mine(c)} ELSE {found[c]} :
            \/ /\ \E r \in seen : status[r] \in Remote!Ended
               /\ Remote!Answer(c, IF \E r \in seen : status[r] = "success" THEN "passed" ELSE "failed")
            \/ /\ ~\E r \in seen : status[r] \in Remote!Ended
               /\ found' = [found EXCEPT ![c] = seen]
               /\ turn' = [turn EXCEPT ![c] = @ + 1]
               /\ UNCHANGED <<pc, verdict>>
      BY <2>4 DEF Remote!Poll
    <3>4. seen \subseteq {c}
      BY <2>1 DEF Remote!Mine
    <3>5. CASE /\ \E r \in seen : status[r] \in Remote!Ended
               /\ Remote!Answer(c, IF \E r \in seen : status[r] = "success" THEN "passed" ELSE "failed")
      <4>1. seen = {c} /\ status[c] \in {"success", "failure", "cancelled"}
        BY <3>4, <3>5 DEF Remote!Ended
      <4>2. Remote!Answer(c, IF status[c] = "success" THEN "passed" ELSE "failed")
        BY <3>5, <4>1
      <4>3. CASE status[c] = "success"
        BY <2>1, <3>1, <4>2, <4>3 DEF Remote!Answer
      <4>4. CASE status[c] # "success"
        BY <2>1, <3>1, <4>1, <4>2, <4>4 DEF Remote!Answer
      <4> QED
        BY <4>3, <4>4
    <3>6. CASE found' = [found EXCEPT ![c] = seen] /\ turn' = [turn EXCEPT ![c] = @ + 1] /\ UNCHANGED <<pc, verdict>>
      BY <2>1, <3>1, <3>2, <3>4, <3>6
    <3> QED
      BY <3>3, <3>5, <3>6
  <2>5. CASE Remote!GiveUp(c)
    BY <2>1, <2>5 DEF Remote!GiveUp, Remote!TimeUp, Remote!Answer
  <2>6. CASE Remote!Hang(c)
    <3>1. /\ pc' = [pc EXCEPT ![c] = "hung"] /\ pc[c] \in {"idle", "wait"}
          /\ UNCHANGED <<turn, found, verdict, wave, done, listed>>
      BY <2>6 DEF Remote!Hang
    <3>2. /\ created' \in Seq(Calls)
          /\ \/ status' = status
             \/ pc[c] = "idle" /\ status' = [status EXCEPT ![c] = "queued"]
      BY <2>1, <2>6 DEF Remote!Hang
    <3>3. verdict[c] = "none"
      BY <1>1, <3>1 DEF LooksAtItsOwn
    <3> QED
      BY <2>1, <3>1, <3>2, <3>3
  <2> QED
    BY <2>2, <2>3, <2>4, <2>5, <2>6 DEF Remote!Caller
<1>3. RemoteTypes'
  <2>1. /\ pc' \in [Calls -> {"idle", "wait", "hung", "done"}]
        /\ verdict' \in [Calls -> {"none", "passed", "failed", "error"}]
    BY <1>1, <1>2 DEF RemoteTypes
  <2>2. turn' \in [Calls -> 0..Polls] /\ found' \in [Calls -> SUBSET Calls]
    BY <1>1, <1>2 DEF RemoteTypes
  <2>3. status' \in [Calls -> {"none", "queued", "running", "success", "failure", "cancelled"}]
    BY <1>1, <1>2 DEF RemoteTypes
  <2> QED
    BY <1>1, <1>2, <2>1, <2>2, <2>3 DEF RemoteTypes
<1>4. \A d \in Calls \ {c} : LooksAtItsOwn(d)' /\ ScriptInOrder(d)'
  BY <1>1, <1>2, OtherCallsKeepTheirs DEF RemoteTypes
<1>5. LooksAtItsOwn(c)'
  BY <1>1, <1>2 DEF RemoteTypes, LooksAtItsOwn
<1>6. ScriptInOrder(c)'
  BY <1>1, <1>2 DEF RemoteTypes, LooksAtItsOwn, ScriptInOrder
<1> QED
  BY <1>3, <1>4, <1>5, <1>6 DEF RemoteInv

\* A script comes to a wave: what is in front of it has ended.
LEMMA LaunchKeeps ==
  ASSUME RemoteInv, NEW c \in Calls, NEW k \in Nat, k = wave[c] + 1, k <= Len(Plan[c[1]]),
         Remote!Launch(c, k), \A j \in Job[c[1]] : j[1] = wave[c] => done[c][j] # "running",
         UNCHANGED <<asked, pc, turn, found, verdict, created>>,
         status' = [status EXCEPT ![c] = "running"], status[c] \in {"queued", "running"}
  PROVE  RemoteInv'
<1>1. RemoteTypes /\ LooksAtItsOwn(c) /\ ScriptInOrder(c) /\ c[1] \in Substage
  BY DEF RemoteInv, Calls
<1>2. /\ wave' = [wave EXCEPT ![c] = k]
      /\ done' = [done EXCEPT ![c] = [j \in AnyJob |-> IF j \in Wave(c[1], k) THEN "running" ELSE done[c][j]]]
      /\ listed' = [listed EXCEPT ![c] = {}]
  BY RemoteSchedule DEF Remote!Launch, Remote!Nothing
<1>3. RemoteTypes'
  BY <1>1, <1>2 DEF RemoteTypes
<1>4. \A d \in Calls \ {c} : LooksAtItsOwn(d)' /\ ScriptInOrder(d)'
  BY <1>1, <1>2, OtherCallsKeepTheirs DEF RemoteTypes
<1>5. LooksAtItsOwn(c)'
  BY <1>1 DEF LooksAtItsOwn, RemoteTypes
<1>6. ScriptInOrder(c)'
  <2>1. wave'[c] = k /\ wave[c] \in Nat /\ status'[c] = "running" /\ listed'[c] = {}
    BY <1>1, <1>2 DEF RemoteTypes
  <2>2. ASSUME NEW j \in Job[c[1]]
        PROVE  /\ j[1] \in Nat /\ done[c][j] \in {"none", "running", "zero", "nonzero"}
               /\ done'[c][j] = IF j[1] = k THEN "running" ELSE done[c][j]
    <3>1. j \in AnyJob /\ j[1] \in Nat
      BY <1>1, JobsOfPlans
    <3> QED
      BY <1>1, <1>2, <3>1 DEF RemoteTypes, Wave
  <2>3. ASSUME NEW j \in Job[c[1]]
        PROVE  /\ done'[c][j] # "none" <=> j[1] <= k
               /\ j[1] < k => done'[c][j] \in {"zero", "nonzero"}
    <3>1. done[c][j] # "none" <=> j[1] <= wave[c]
      BY <1>1 DEF ScriptInOrder
    <3>2. j[1] <= wave[c] => done[c][j] \in {"zero", "nonzero"}
      BY <1>1, <2>1, <2>2, <3>1 DEF ScriptInOrder
    <3> QED
      BY <2>1, <2>2, <3>1, <3>2
  <2> QED
    BY <2>1, <2>3 DEF ScriptInOrder
<1> QED
  BY <1>3, <1>4, <1>5, <1>6 DEF RemoteInv

\* A run is concluded, by its script or by a person.
LEMMA ConcludeKeeps ==
  ASSUME RemoteInv, NEW c \in Calls, NEW how \in {"success", "failure", "cancelled"},
         status' = [status EXCEPT ![c] = how], status[c] \in {"queued", "running"},
         UNCHANGED <<asked, pc, turn, found, verdict, created, wave, done, listed>>
  PROVE  RemoteInv'
<1>1. RemoteTypes /\ LooksAtItsOwn(c) /\ ScriptInOrder(c)
  BY DEF RemoteInv
<1>2. RemoteTypes'
  BY <1>1 DEF RemoteTypes
<1>3. \A d \in Calls \ {c} : LooksAtItsOwn(d)' /\ ScriptInOrder(d)'
  BY <1>1, OtherCallsKeepTheirs DEF RemoteTypes
<1>4. LooksAtItsOwn(c)' /\ ScriptInOrder(c)'
  BY <1>1 DEF LooksAtItsOwn, ScriptInOrder, RemoteTypes
<1> QED
  BY <1>2, <1>3, <1>4 DEF RemoteInv

\* A command of a script ends.
LEMMA ExitKeeps ==
  ASSUME RemoteInv, NEW c \in Calls, NEW j \in Job[c[1]], Remote!Exit(c, j), UNCHANGED asked
  PROVE  RemoteInv'
<1>1. RemoteTypes /\ LooksAtItsOwn(c) /\ ScriptInOrder(c) /\ c[1] \in Substage
  BY DEF RemoteInv, Calls
<1>2. PICK how \in {"zero", "nonzero"} : done' = [done EXCEPT ![c][j] = how]
  BY DEF Remote!Exit
<1>3. done[c][j] = "running" /\ UNCHANGED <<pc, turn, found, verdict, created, status, wave, listed>>
  BY DEF Remote!Exit, Remote!caller
<1>4. \A i \in Job[c[1]] : done'[c][i] = IF i = j THEN how ELSE done[c][i]
  BY <1>1, <1>2, JobsOfPlans DEF RemoteTypes
<1>5. RemoteTypes'
  <2>1. j \in AnyJob
    BY <1>1, JobsOfPlans
  <2>2. done' \in [Calls -> [AnyJob -> {"none", "running", "zero", "nonzero"}]]
    BY <1>1, <1>2, <2>1 DEF RemoteTypes
  <2> QED
    BY <1>1, <1>3, <2>2 DEF RemoteTypes
<1>6. \A d \in Calls \ {c} : LooksAtItsOwn(d)' /\ ScriptInOrder(d)'
  BY <1>1, <1>2, <1>3, OtherCallsKeepTheirs DEF RemoteTypes
<1>7. LooksAtItsOwn(c)' /\ ScriptInOrder(c)'
  BY <1>1, <1>3, <1>4 DEF LooksAtItsOwn, ScriptInOrder
<1> QED
  BY <1>5, <1>6, <1>7 DEF RemoteInv

\* The shell asks which jobs there are: those that go on are among them.
LEMMA ListJobsKeeps ==
  ASSUME RemoteInv, NEW c \in Calls, Remote!ListJobs(c), UNCHANGED asked
  PROVE  RemoteInv'
<1> DEFINE running == Wave(c[1], wave[c]) \cap Remote!Jobs(c, {"running"})
<1>1. RemoteTypes /\ LooksAtItsOwn(c) /\ ScriptInOrder(c) /\ c[1] \in Substage
  BY DEF RemoteInv, Calls
<1>2. PICK js \in SUBSET AnyJob : running \subseteq js /\ listed' = [listed EXCEPT ![c] = {js}]
  <2>1. Wave(c[1], wave[c]) \subseteq AnyJob
    BY <1>1, JobsOfPlans DEF Wave
  <2>2. PICK ended \in SUBSET (Wave(c[1], wave[c]) \ Remote!Jobs(c, {"running"})) :
          listed' = [listed EXCEPT ![c] = {running \union ended}]
    BY RemoteSchedule DEF Remote!ListJobs
  <2> QED
    BY <2>1, <2>2
<1>3. UNCHANGED <<pc, turn, found, verdict, created, status, wave, done>>
  BY DEF Remote!ListJobs, Remote!caller
<1>4. RemoteTypes'
  BY <1>1, <1>2, <1>3 DEF RemoteTypes
<1>5. \A d \in Calls \ {c} : LooksAtItsOwn(d)' /\ ScriptInOrder(d)'
  BY <1>1, <1>2, <1>3, OtherCallsKeepTheirs DEF RemoteTypes
<1>6. \A j \in Job[c[1]] : j[1] = wave[c] /\ done[c][j] = "running" => j \in running
  BY RemoteSchedule DEF Wave, Remote!Jobs
<1>7. listed'[c] = {js} /\ UNION listed'[c] = js
  BY <1>1, <1>2 DEF RemoteTypes
<1> HIDE DEF running
<1>8. LooksAtItsOwn(c)' /\ ScriptInOrder(c)'
  BY <1>1, <1>2, <1>3, <1>6, <1>7 DEF LooksAtItsOwn, ScriptInOrder
<1> QED
  BY <1>4, <1>5, <1>8 DEF RemoteInv

\* When the shell goes on, nothing of the wave is running any more.
LEMMA WaveHasEnded ==
  ASSUME RemoteInv, NEW c \in Calls, Remote!EndWave(c)
  PROVE  \A j \in Job[c[1]] : j[1] = wave[c] => done[c][j] # "running"
<1> DEFINE W == Wave(c[1], wave[c])
<1>1. ScriptInOrder(c) /\ c[1] \in Substage
  BY DEF RemoteInv, Calls
<1>2. /\ ~Remote!Alone(c) => listed[c] # {}
      /\ (IF Remote!Alone(c) THEN W ELSE UNION listed[c]) \cap Remote!Jobs(c, {"running"}) = {}
  BY RemoteSchedule DEF Remote!EndWave, Remote!Nothing, Remote!Waited
<1> SUFFICES ASSUME NEW j \in Job[c[1]], j[1] = wave[c], done[c][j] = "running" PROVE FALSE
  OBVIOUS
<1>3. j \in W /\ j \in Remote!Jobs(c, {"running"})
  BY RemoteSchedule DEF Wave, Remote!Jobs
<1> HIDE DEF W
<1>4. CASE Remote!Alone(c)
  BY <1>2, <1>3, <1>4
<1>5. CASE ~Remote!Alone(c)
  <2>1. j \in UNION listed[c]
    BY <1>1, <1>2, <1>5 DEF ScriptInOrder
  <2> QED
    BY <1>2, <1>3, <1>5, <2>1
<1> QED
  BY <1>4, <1>5

\* The steps of a run leave its caller alone.
LEMMA RunnerKeeps ==
  ASSUME RemoteInv, NEW c \in Calls, Remote!Runner(c), UNCHANGED asked
  PROVE  RemoteInv'
<1>1. RemoteTypes /\ LooksAtItsOwn(c) /\ ScriptInOrder(c) /\ c[1] \in Substage
  BY DEF RemoteInv, Calls
<1>2. /\ Len(Plan[c[1]]) \in Nat /\ Len(Plan[c[1]]) > 0
      /\ \A j \in Job[c[1]] : j[1] \in 1..Len(Plan[c[1]])
  BY <1>1, JobsOfPlans
<1>3. CASE Remote!Prepare(c)
  <2>1. status[c] = "queued" /\ UNCHANGED <<asked, pc, turn, found, verdict, created>>
    BY <1>3 DEF Remote!Prepare, Remote!caller
  <2>2. CASE status' = [status EXCEPT ![c] = "running"] /\ Remote!Launch(c, 1)
    <3>1. wave[c] = 0 /\ 1 = wave[c] + 1 /\ 1 <= Len(Plan[c[1]])
      BY <1>1, <1>2, <2>1 DEF ScriptInOrder
    <3>2. \A j \in Job[c[1]] : j[1] # wave[c]
      BY <1>2, <3>1
    <3> QED
      BY <2>1, <2>2, <3>1, <3>2, LaunchKeeps
  <2>3. CASE Remote!Conclude(c, "failure")
    BY <2>1, <2>3, ConcludeKeeps DEF Remote!Conclude
  <2> QED
    BY <1>3, <2>2, <2>3 DEF Remote!Prepare
<1>4. CASE Remote!EndWave(c)
  <2>1. status[c] = "running" /\ UNCHANGED <<asked, pc, turn, found, verdict, created>>
    BY <1>4 DEF Remote!EndWave, Remote!caller
  <2>2. CASE Remote!Conclude(c, "failure") \/ Remote!Conclude(c, "success")
    BY <2>1, <2>2, ConcludeKeeps DEF Remote!Conclude
  <2>3. CASE wave[c] # Len(Plan[c[1]]) /\ Remote!Launch(c, wave[c] + 1) /\ UNCHANGED status
    <3>1. PICK k \in Nat : k = wave[c] + 1
      BY <1>1 DEF RemoteTypes
    <3>2. k <= Len(Plan[c[1]])
      BY <1>1, <1>2, <2>3, <3>1 DEF RemoteTypes, ScriptInOrder
    <3>3. status' = [status EXCEPT ![c] = "running"]
      BY <1>1, <2>1, <2>3 DEF RemoteTypes
    <3>4. Remote!Launch(c, k)
      BY <2>3, <3>1
    <3> QED
      BY <1>4, <2>1, <3>1, <3>2, <3>3, <3>4, WaveHasEnded, LaunchKeeps
  <2> QED
    BY <1>4, <2>2, <2>3, RemoteSchedule DEF Remote!EndWave
<1>5. CASE Remote!Cancel(c)
  <2>1. /\ status[c] \in {"queued", "running"} /\ status' = [status EXCEPT ![c] = "cancelled"]
        /\ UNCHANGED <<asked, pc, turn, found, verdict, created, wave, done, listed>>
    BY <1>5 DEF Remote!Cancel, Remote!caller
  <2> QED
    BY <2>1, ConcludeKeeps
<1>6. CASE \E j \in Job[c[1]] : Remote!Exit(c, j)
  BY <1>6, ExitKeeps
<1> QED
  BY <1>3, <1>4, <1>5, <1>6, ListJobsKeeps, RemoteSchedule DEF Remote!Runner

\* The scripts go wave by wave and every call looks at its own run: inductive,
\* whatever GitHub does, in any number of calls at once.
THEOREM ScriptsGoInOrder == Remote!Spec => []RemoteInv
<1>1. RemoteInv /\ [Remote!Next]_(Remote!vars) => RemoteInv'
  <2> SUFFICES ASSUME RemoteInv, [Remote!Next]_(Remote!vars) PROVE RemoteInv'
    OBVIOUS
  <2>1. CASE Remote!Next
    <3>1. PICK c \in Calls : Remote!Caller(c) \/ Remote!Hang(c) \/ Remote!Runner(c)
      BY <2>1 DEF Remote!Next, Remote!Attempt, Calls
    <3> QED
      BY <2>1, <3>1, CallerKeeps, RunnerKeeps DEF Remote!Next
  <2>2. CASE UNCHANGED Remote!vars
    BY <2>2 DEF Remote!vars, Remote!caller, Remote!runner, RemoteInv, RemoteTypes, LooksAtItsOwn, ScriptInOrder
  <2> QED
    BY <2>1, <2>2
<1> QED
  BY <1>1, RemoteInitially, PTL DEF Remote!Spec

\* The variables of the remote engine keep their types.
THEOREM RemoteTypeCorrect == Remote!Spec => []Remote!TypeOK
<1>1. RemoteInv => Remote!TypeOK
  <2> SUFFICES ASSUME RemoteInv PROVE Remote!TypeOK
    OBVIOUS
  <2>1. \A c \in Calls : \A r, s \in found[c] : r = s
    BY DEF RemoteInv, LooksAtItsOwn
  <2> QED
    BY <2>1, RemoteSchedule DEF RemoteInv, RemoteTypes, ScriptInOrder, Remote!TypeOK, Remote!Attempt,
       Remote!Nothing, Calls
<1> QED
  BY <1>1, ScriptsGoInOrder, PTL

\* An answer is the conclusion of the run the call dispatched, with any number
\* of attempts and substages at once (markerFor, await).
THEOREM AnswersAreTheirOwn == Remote!Spec => []AnswersAreItsOwn
<1>1. RemoteInv => AnswersAreItsOwn
  BY DEF RemoteInv, LooksAtItsOwn, AnswersAreItsOwn, Remote!AnswersAreItsOwn, Remote!Attempt, Calls
<1> QED
  BY <1>1, ScriptsGoInOrder, PTL

\* No command of a script starts before all it rests on has ended, though a
\* shell may forget the jobs that ended before it listed them (scriptFor).
THEOREM ScriptsDoNotOverlap == Remote!Spec => []WavesDoNotOverlap
<1>1. RemoteInv => WavesDoNotOverlap
  <2> SUFFICES ASSUME RemoteInv, NEW c \in Calls, NEW j \in Job[c[1]], done[c][j] # "none",
                      NEW i \in Before[c[1]][j]
               PROVE  done[c][i] \notin {"none", "running"}
    BY RemoteSchedule DEF WavesDoNotOverlap, Remote!WavesDoNotOverlap, Remote!Jobs, Remote!Attempt, Calls
  <2>1. ScriptInOrder(c) /\ wave[c] \in Nat /\ c[1] \in Substage
    BY DEF RemoteInv, RemoteTypes, Calls
  <2>2. i \in Job[c[1]] /\ i[1] < j[1] /\ i[1] \in Nat /\ j[1] \in Nat
    BY <2>1, JobsOfPlans
  <2>3. i[1] < wave[c]
    BY <2>1, <2>2 DEF ScriptInOrder
  <2> QED
    BY <2>1, <2>2, <2>3 DEF ScriptInOrder
<1> QED
  BY <1>1, ScriptsGoInOrder, PTL

-----------------------------------------------------------------------------
(* A pipeline file that is accepted.  Names are declared once, so that the *)
(* first and the last of a name are one and no lookup of the apply skips;  *)
(* the needs go in order, so that nobody in a wave is held; and a use      *)
(* names a stage in front, so that its record is there to be brought.      *)

\* Names may repeat in a list; where they do not, they do not in what is kept of it.
NoRepeat(s) == \A i, j \in DOMAIN s : s[i] = s[j] => i = j

\* What is kept of a list has no name twice where the list has none.
LEMMA ThoseOnce ==
  ASSUME NEW X, NEW in \in Seq(X), NEW S, NoRepeat(in)
  PROVE  NoRepeat(Those(in, S))
<1>1. PICK g \in [0 .. Len(in) -> Seq(X)] : Picks(g, in, S)
  BY ThoseUnfold
<1>2. PICK n \in Nat : n = Len(in)
  OBVIOUS
<1> DEFINE Upto(m) == {in[j] : j \in 1 .. m}
<1> DEFINE T == {m \in Nat : m <= n => NoRepeat(g[m]) /\ Names(g[m]) \subseteq Upto(m)}
<1>3. 0 \in T
  BY <1>1 DEF Names, Picks, NoRepeat
<1>4. ASSUME NEW m \in Nat, m \in T PROVE m + 1 \in T
  <2> SUFFICES ASSUME m + 1 <= n PROVE NoRepeat(g[m + 1]) /\ Names(g[m + 1]) \subseteq Upto(m + 1)
    OBVIOUS
  <2>1. NoRepeat(g[m]) /\ Names(g[m]) \subseteq Upto(m)
    BY <1>4
  <2>2. m + 1 \in 1 .. Len(in) /\ (m + 1) - 1 = m
    BY <1>2
  <2>3. g[m + 1] = IF in[m + 1] \in S THEN Append(g[m], in[m + 1]) ELSE g[m]
    BY <1>1, <2>2 DEF Picks
  <2>4. Upto(m) \subseteq Upto(m + 1) /\ in[m + 1] \in Upto(m + 1)
    OBVIOUS
  <2>5. PICK s \in Seq(X) : s = g[m]
    BY <1>2
  <2>6. PICK e \in X : e = in[m + 1]
    BY <2>2
  <2>7. e \notin Names(s)
    <3>1. e \notin Upto(m)
      BY <1>2, <2>2, <2>6 DEF NoRepeat
    <3> QED
      BY <2>1, <2>5, <3>1
  <2>8. /\ DOMAIN Append(s, e) = (1 .. Len(s)) \union {Len(s) + 1}
        /\ DOMAIN s = 1 .. Len(s)
        /\ \A k \in 1 .. Len(s) : Append(s, e)[k] = s[k]
        /\ Append(s, e)[Len(s) + 1] = e
    OBVIOUS
  <2>9. Names(Append(s, e)) = Names(s) \union {e}
    BY <2>8 DEF Names
  <2>10. NoRepeat(Append(s, e))
    BY <2>1, <2>5, <2>7, <2>8 DEF NoRepeat, Names
  <2> QED
    BY <2>1, <2>3, <2>4, <2>5, <2>6, <2>9, <2>10
<1> HIDE DEF T
<1>5. n \in T
  BY <1>3, <1>4, Inductive
<1> QED
  BY <1>1, <1>2, <1>5 DEF T, Picks

\* Where every name is wanted nothing is dropped.
LEMMA ThoseAll ==
  ASSUME NEW X, NEW in \in Seq(X), NEW S, Names(in) \subseteq S
  PROVE  Those(in, S) = in
<1>1. PICK g \in [0 .. Len(in) -> Seq(X)] : Picks(g, in, S)
  BY ThoseUnfold
<1>2. PICK n \in Nat : n = Len(in)
  OBVIOUS
<1> DEFINE T == {m \in Nat : m <= n => Len(g[m]) = m /\ \A j \in 1 .. m : g[m][j] = in[j]}
<1>3. 0 \in T
  BY <1>1 DEF Picks
<1>4. ASSUME NEW m \in Nat, m \in T PROVE m + 1 \in T
  <2> SUFFICES ASSUME m + 1 <= n
               PROVE  Len(g[m + 1]) = m + 1 /\ \A j \in 1 .. m + 1 : g[m + 1][j] = in[j]
    OBVIOUS
  <2>1. Len(g[m]) = m /\ \A j \in 1 .. m : g[m][j] = in[j]
    BY <1>4
  <2>2. m + 1 \in 1 .. Len(in) /\ (m + 1) - 1 = m /\ m \in 0 .. n
    BY <1>2
  <2>3. in[m + 1] \in S
    BY <2>2 DEF Names
  <2>4. g[m + 1] = Append(g[m], in[m + 1])
    BY <1>1, <2>2, <2>3 DEF Picks
  <2>5. PICK s \in Seq(X) : s = g[m]
    BY <1>2, <2>2
  <2>6. PICK e \in X : e = in[m + 1]
    BY <2>2
  <2>7. /\ Len(Append(s, e)) = Len(s) + 1
        /\ \A k \in 1 .. Len(s) : Append(s, e)[k] = s[k]
        /\ Append(s, e)[Len(s) + 1] = e
    OBVIOUS
  <2>8. Len(g[m + 1]) = m + 1
    BY <2>1, <2>4, <2>5, <2>6, <2>7
  <2>9. ASSUME NEW j \in 1 .. m + 1 PROVE g[m + 1][j] = in[j]
    <3>1. CASE j = m + 1
      BY <2>1, <2>4, <2>5, <2>6, <2>7, <3>1
    <3>2. CASE j \in 1 .. m
      BY <2>1, <2>4, <2>5, <2>6, <2>7, <3>2
    <3> QED
      BY <3>1, <3>2
  <2> QED
    BY <2>8, <2>9
<1> HIDE DEF T
<1>5. n \in T
  BY <1>3, <1>4, Inductive
<1>6. g[n] \in Seq(X) /\ Len(g[n]) = n /\ \A j \in 1 .. n : g[n][j] = in[j]
  BY <1>2, <1>5 DEF T
<1>7. g[n] = in
  BY <1>2, <1>6
<1> QED
  BY <1>1, <1>2, <1>7 DEF Picks

\* A name is in one wave, once.
LEMMA WavesGoOnce ==
  ASSUME NEW X, NEW in \in Seq(X), in # <<>>, NEW needs, ~ Stuck(in, needs), NoRepeat(in)
  PROVE  /\ \A k \in DOMAIN WavesOf(in, needs) : NoRepeat(WavesOf(in, needs)[k])
         /\ \A k, l \in DOMAIN WavesOf(in, needs) :
              Names(WavesOf(in, needs)[k]) \cap Names(WavesOf(in, needs)[l]) # {} => k = l
<1>1. CASE ~ AnyEdge(in, needs)
  <2>1. PICK w : w = [k \in 1 .. Len(in) |-> <<in[k]>>]
    OBVIOUS
  <2>2. WavesOf(in, needs) = w
    BY <1>1, <2>1 DEF WavesOf
  <2>3. DOMAIN w = DOMAIN in /\ \A k \in DOMAIN w : w[k] = <<in[k]>>
    BY <2>1
  <2>4. \A x : Names(<<x>>) = {x} /\ NoRepeat(<<x>>)
    BY DEF Names, NoRepeat
  <2> QED
    <3>1. ASSUME NEW k \in DOMAIN w, NEW l \in DOMAIN w, Names(w[k]) \cap Names(w[l]) # {} PROVE k = l
      <4>1. Names(w[k]) = {in[k]} /\ Names(w[l]) = {in[l]}
        BY <2>3, <2>4
      <4> QED
        BY <2>3, <3>1, <4>1 DEF NoRepeat
    <3>2. \A k \in DOMAIN w : NoRepeat(w[k])
      BY <2>3, <2>4
    <3> QED
      BY <2>2, <3>1, <3>2
<1>2. CASE AnyEdge(in, needs)
  <2> DEFINE P(k) == Pending(in, needs, k)
  <2>1. PICK n \in Nat \ {0} : n = Turns(in, needs)
    BY TurnsAre
  <2>2. PICK w : w = [k \in 1 .. n |-> NextWave(in, needs, P(k - 1))]
    OBVIOUS
  <2>3. WavesOf(in, needs) = w /\ DOMAIN w = 1 .. n
    BY <1>2, <2>1, <2>2 DEF WavesOf
  <2>4. ASSUME NEW k \in 1 .. n
        PROVE  /\ NoRepeat(w[k])
               /\ Names(w[k]) \subseteq P(k - 1)
               /\ P(k) = P(k - 1) \ Names(w[k])
    <3>1. PICK j \in Nat : j = k - 1
      OBVIOUS
    <3>2. w[k] = NextWave(in, needs, P(j)) /\ k = j + 1
      BY <2>2, <3>1
    <3>3. P(j) \subseteq Names(in) /\ P(j + 1) = P(j) \ Names(NextWave(in, needs, P(j)))
      BY PendingUnfold
    <3> HIDE DEF P
    <3>4. Names(NextWave(in, needs, P(j))) \subseteq P(j)
      BY <3>3, NextWaveIs
    <3>5. NoRepeat(NextWave(in, needs, P(j)))
      BY ThoseOnce DEF NextWave
    <3> QED
      BY <3>1, <3>2, <3>3, <3>4, <3>5
  <2>5. ASSUME NEW k \in Nat, NEW l \in Nat, k <= l PROVE P(l) \subseteq P(k)
    BY <2>5, PendingShrinks
  <2> HIDE DEF P
  <2>6. ASSUME NEW k \in 1 .. n, NEW l \in 1 .. n, k < l PROVE Names(w[k]) \cap Names(w[l]) = {}
    <3>1. P(l - 1) \subseteq P(k)
      BY <2>5, <2>6
    <3> QED
      BY <2>4, <3>1
  <2> QED
    BY <2>3, <2>4, <2>6
<1> QED
  BY <1>1, <1>2

-----------------------------------------------------------------------------
\* Names that can be ranked so that each ranks above what it needs.
Ranks(rank, names, needs) ==
  /\ rank \in [names -> Nat]
  /\ \A b \in names : \A a \in names \cap needs[b] : a # b => rank[a] < rank[b]

\* Names that go by their needs can be ranked so: by their wave.
LEMMA OrderedIsRanked ==
  ASSUME NEW X, NEW in \in Seq(X), in # <<>>, NEW needs, ~ Stuck(in, needs)
  PROVE  \E rank : Ranks(rank, Names(in), needs)
<1>1. PICK w \in Seq(Seq(X)) : WellOrdered(w, in, needs)
  BY WavesAreWellOrdered
<1>2. DOMAIN w \subseteq Nat
  OBVIOUS
<1> DEFINE Wave1(a) == CHOOSE k \in DOMAIN w : a \in Names(w[k])
<1>3. \A a \in Names(in) : Wave1(a) \in DOMAIN w /\ a \in Names(w[Wave1(a)])
  BY <1>1 DEF WellOrdered
<1> HIDE DEF Wave1
<1> DEFINE rank == [a \in Names(in) |-> Wave1(a)]
<1>4. rank \in [Names(in) -> Nat]
  BY <1>2, <1>3
<1>5. ASSUME NEW b \in Names(in), NEW a \in Names(in) \cap needs[b], a # b
      PROVE  rank[a] < rank[b]
  BY <1>1, <1>3, <1>5 DEF WellOrdered
<1> QED
  BY <1>4, <1>5 DEF Ranks

\* Any list of ranked names, however often it has them, comes to an end.
LEMMA RankedIsOrdered ==
  ASSUME NEW X, NEW in \in Seq(X), NEW needs, NEW rank, Ranks(rank, Names(in), needs)
  PROVE  ~ Stuck(in, needs)
<1> DEFINE P(k) == Pending(in, needs, k)
<1>1. PICK n \in Nat : n = Len(in)
  OBVIOUS
<1>2. IsFiniteSet(Names(in)) /\ Cardinality(Names(in)) <= n
  <2>1. PICK f : f = [i \in 1 .. n |-> in[i]]
    OBVIOUS
  <2>2. IsFiniteSet(1 .. n) /\ Cardinality(1 .. n) = n
    BY FS_Interval
  <2>3. f \in Surjection(1 .. n, Names(in))
    BY <1>1, <2>1 DEF Names, Surjection
  <2> QED
    BY <2>2, <2>3, FS_Surjection
<1>3. ASSUME NEW k \in Nat, P(k) # {} PROVE \E a \in P(k) : a \notin P(k + 1)
  <2>1. P(k) \subseteq Names(in) /\ P(k + 1) = P(k) \ Names(NextWave(in, needs, P(k)))
    BY PendingUnfold
  <2> HIDE DEF P
  <2>2. Names(NextWave(in, needs, P(k))) = {a \in P(k) : Ready(a, needs, P(k))}
    BY <2>1, NextWaveIs
  <2> DEFINE M == {rank[a] : a \in P(k)}
  <2>3. M \subseteq Nat /\ M # {}
    BY <1>3, <2>1 DEF Ranks
  <2>4. PICK r \in M : \A y \in M : r <= y
    <3> HIDE DEF M
    <3> QED
      BY <2>3, LeastOf
  <2>5. PICK a \in P(k) : rank[a] = r
    OBVIOUS
  <2>6. Ready(a, needs, P(k))
    <3> SUFFICES ASSUME NEW b \in needs[a], b # a, b \in P(k) PROVE FALSE
      BY DEF Ready
    <3>1. rank[b] < rank[a] /\ rank[b] \in Nat /\ rank[a] \in Nat
      BY <2>1, <2>5 DEF Ranks
    <3>2. r <= rank[b]
      BY <2>4
    <3> QED
      BY <2>5, <3>1, <3>2
  <2> QED
    BY <2>1, <2>2, <2>5, <2>6
<1> DEFINE T == {k \in Nat : k <= n => Cardinality(P(k)) <= n - k}
<1>4. ASSUME NEW k \in Nat
      PROVE  IsFiniteSet(P(k)) /\ Cardinality(P(k)) \in Nat /\ P(k + 1) \subseteq P(k)
  <2>1. P(k) \subseteq Names(in) /\ P(k + 1) \subseteq P(k)
    BY PendingUnfold
  <2> HIDE DEF P
  <2> QED
    BY <1>2, <2>1, FS_Subset, FS_CardinalityType
<1>5. P(0) = Names(in)
  BY PendingUnfold
<1> HIDE DEF P
<1>6. 0 \in T
  BY <1>1, <1>2, <1>5
<1>7. ASSUME NEW k \in Nat, k \in T PROVE k + 1 \in T
  <2> SUFFICES ASSUME k + 1 <= n PROVE Cardinality(P(k + 1)) <= n - (k + 1)
    OBVIOUS
  <2>1. Cardinality(P(k)) <= n - k
    BY <1>7
  <2>2. CASE P(k) = {}
    <3>1. P(k + 1) = {}
      BY <1>4, <2>2
    <3>2. Cardinality(P(k + 1)) = 0
      BY <3>1, FS_EmptySet
    <3> QED
      BY <3>2
  <2>3. CASE P(k) # {}
    <3>1. PICK a \in P(k) : a \notin P(k + 1)
      BY <1>3, <2>3
    <3>2. P(k + 1) \subseteq P(k) /\ P(k + 1) # P(k)
      BY <1>4, <3>1
    <3>3. Cardinality(P(k + 1)) < Cardinality(P(k))
      <4>1. IsFiniteSet(P(k)) /\ Cardinality(P(k)) \in Nat
        BY <1>4
      <4>2. Cardinality(P(k + 1)) <= Cardinality(P(k)) /\ Cardinality(P(k)) # Cardinality(P(k + 1))
        BY <3>2, <4>1, FS_Subset
      <4>3. k + 1 \in Nat
        OBVIOUS
      <4>4. Cardinality(P(k + 1)) \in Nat
        BY <1>4, <4>3
      <4> QED
        BY <4>1, <4>2, <4>4
    <3>4. Cardinality(P(k)) \in Nat /\ Cardinality(P(k + 1)) \in Nat
      <4>1. k + 1 \in Nat
        OBVIOUS
      <4> QED
        BY <1>4, <4>1
    <3> QED
      BY <2>1, <3>3, <3>4
  <2> QED
    BY <2>2, <2>3
<1> HIDE DEF T
<1>8. n \in T
  BY <1>6, <1>7, Inductive
<1>9. Cardinality(P(n)) = 0
  BY <1>4, <1>8 DEF T
<1>10. P(n) = {}
  BY <1>4, <1>9, FS_EmptySet
<1> QED
  BY <1>1, <1>10 DEF Stuck, P

\* Where what ran stands.
Ats == {ran[i].at : i \in DOMAIN ran}

\* The record of substage r.at, with what it was told and what was brought to it.
IsRecord(r) ==
  /\ r.at \in Subs
  /\ r.stage = file.stages[r.at[1]].name /\ r.name = Sub(r.at).name
  /\ r.targets = TargetsOf(Sub(r.at))
  /\ Carries(r.at[1]) => WantedBy(r.at) \subseteq r.carried

\* What a substage comes after.
ComesAfter(p, q) == q[1] < p[1] \/ (q[1] = p[1] /\ Sub(q).name \in Sub(p).needs)

\* What ran is recorded as the file asks for it, once, and after what it needs.
RanRight ==
  /\ \A i \in DOMAIN ran : IsRecord(ran[i]) /\ ran[i].at[1] <= place
  /\ \A i, h \in DOMAIN ran : ran[i].at = ran[h].at => i = h
  /\ \A i \in DOMAIN ran : \A q \in Subs :
       ComesAfter(ran[i].at, q) => \E h \in 1 .. i - 1 : ran[h].at = q

\* The stages in front have run whole, and of this one the waves in front.
RanSoFar ==
  /\ place \in DOMAIN file.stages
  /\ \A q \in Subs : q[1] < place \/ state = "done" => q \in Ats
  /\ state = "running" /\ cut # "substage" =>
       LET waves == SubWaves(SubsAt(place)) IN
       /\ round <= Len(waves) + 1
       /\ \A q \in Subs : q[1] = place =>
            (q \in Ats <=> \E k \in 1 .. round - 1 : Sub(q).name \in Names(waves[k]))

FileInv ==
  /\ FileTypeOK
  /\ state # "failed"
  /\ state = "edited" => ran = <<>> /\ place = 1 /\ round = 1
  /\ state \in {"running", "done"} => Validate(file) /\ RanRight /\ RanSoFar

-----------------------------------------------------------------------------
\* In a list that has each name once the first and the last of a name are one.
LEMMA OneOfAName ==
  ASSUME NEW X, NEW list \in Seq(X), OneEach(list), NEW i \in DOMAIN list
  PROVE  Final(list, list[i].name) = i /\ First(list, list[i].name) = i
<1>1. DOMAIN list = 1 .. Len(list) /\ Len(list) \in Nat
  OBVIOUS
<1>2. \A j \in DOMAIN list : list[j].name = list[i].name => j = i
  BY DEF OneEach
<1>3. Final(list, list[i].name) = i
  <2> DEFINE Is(k) == list[k].name = list[i].name /\ \A j \in (k + 1) .. Len(list) : list[j].name # list[i].name
  <2>1. Is(i) /\ \A k \in DOMAIN list : Is(k) => k = i
    BY <1>1, <1>2
  <2>2. Final(list, list[i].name) = CHOOSE k \in DOMAIN list : Is(k)
    BY DEF Final
  <2> HIDE DEF Is
  <2> QED
    BY <2>1, <2>2
<1>4. First(list, list[i].name) = i
  <2> DEFINE Is(k) == list[k].name = list[i].name /\ \A j \in 1 .. (k - 1) : list[j].name # list[i].name
  <2>1. Is(i) /\ \A k \in DOMAIN list : Is(k) => k = i
    BY <1>1, <1>2
  <2>2. First(list, list[i].name) = CHOOSE k \in DOMAIN list : Is(k)
    BY DEF First
  <2> HIDE DEF Is
  <2> QED
    BY <2>1, <2>2
<1> QED
  BY <1>3, <1>4

\* ... and its needs are those it declares.
LEMMA NeedsOfAName ==
  ASSUME NEW X, NEW list \in Seq(X), OneEach(list), NEW i \in DOMAIN list
  PROVE  NeedsIn(list)[list[i].name] = list[i].needs
<1> DEFINE needy == {k \in DOMAIN list : list[k].name = list[i].name /\ list[k].needs # {}}
<1>1. DOMAIN list \subseteq Nat
  OBVIOUS
<1>2. list[i].name \in NamesIn(list)
  BY DEF NamesIn
<1>3. NeedsIn(list)[list[i].name]
        = IF needy = {} THEN {} ELSE list[CHOOSE k \in needy : \A j \in needy : j <= k].needs
  BY <1>2 DEF NeedsIn
<1>4. needy \subseteq {i}
  BY DEF OneEach
<1>5. CASE list[i].needs = {}
  <2>1. needy = {}
    BY <1>4, <1>5
  <2> QED
    BY <1>3, <1>5, <2>1
<1>6. CASE list[i].needs # {}
  <2>1. needy = {i}
    BY <1>4, <1>6
  <2>2. (CHOOSE k \in {i} : \A j \in {i} : j <= k) = i
    BY <1>1
  <2> QED
    BY <1>3, <2>1, <2>2
<1> QED
  BY <1>5, <1>6

\* What the walk has of a stage in its waves: each substage in one of them,
\* and after what it needs.
GoesOnce(w, subs) ==
  /\ w \in Seq(Seq(STRING)) \ {<<>>}
  /\ \A k \in DOMAIN w : Names(w[k]) \subseteq NamesIn(subs) /\ NoRepeat(w[k])
  /\ \A n \in NamesIn(subs) : \E k \in DOMAIN w : n \in Names(w[k])
  /\ \A k, l \in DOMAIN w : Names(w[k]) \cap Names(w[l]) # {} => k = l
  /\ \A j \in DOMAIN subs : \A l \in DOMAIN w : \A n \in subs[j].needs :
       subs[j].name \in Names(w[l]) => \E k \in DOMAIN w : k < l /\ n \in Names(w[k])

\* The waves of an accepted stage are such a walk.
LEMMA SubWavesGoOnce ==
  ASSUME NEW subs \in Seq(SubDef), subs # <<>>, OneEach(subs), Ordered(subs),
         \A j \in DOMAIN subs : subs[j].needs \subseteq NamesIn(subs) \ {subs[j].name}
  PROVE  GoesOnce(SubWaves(subs), subs)
<1> DEFINE in == NameList(subs)
<1>1. in \in Seq(STRING) /\ in # <<>> /\ DOMAIN in = DOMAIN subs /\ \A j \in DOMAIN subs : in[j] = subs[j].name
  <2>1. PICK n \in Nat : n = Len(subs) /\ DOMAIN subs = 1 .. n
    OBVIOUS
  <2>2. ASSUME NEW j \in 1 .. n PROVE subs[j].name \in STRING
    <3>1. subs[j] \in SubDef
      BY <2>1
    <3> QED
      BY <3>1 DEF SubDef
  <2>3. in = [j \in 1 .. n |-> subs[j].name]
    BY <2>1 DEF NameList
  <2> HIDE DEF in
  <2>4. in \in [1 .. n -> STRING] /\ \A j \in 1 .. n : in[j] = subs[j].name
    BY <2>2, <2>3
  <2>5. in \in Seq(STRING) /\ Len(in) = n
    BY <2>4, IsASequence
  <2> QED
    BY <2>1, <2>4, <2>5
<1> HIDE DEF in
<1>2. Names(in) = NamesIn(subs) /\ NoRepeat(in)
  BY <1>1 DEF Names, NamesIn, NoRepeat, OneEach
<1>3. CASE \A j \in DOMAIN subs : subs[j].needs = {}
  <2>1. PICK w : w = <<in>>
    OBVIOUS
  <2>2. SubWaves(subs) = w
    BY <1>3, <2>1 DEF SubWaves, in
  <2>3. w \in Seq(Seq(STRING)) \ {<<>>} /\ DOMAIN w = {1} /\ w[1] = in
    BY <1>1, <2>1
  <2>4. GoesOnce(w, subs)
    BY <1>2, <1>3, <2>3 DEF GoesOnce
  <2> QED
    BY <2>2, <2>4
<1>4. CASE ~ \A j \in DOMAIN subs : subs[j].needs = {}
  <2>1. PICK w : w = WavesOf(in, NeedsIn(subs))
    OBVIOUS
  <2>2. SubWaves(subs) = w
    BY <1>4, <2>1 DEF SubWaves, in
  <2>3. ~ Stuck(in, NeedsIn(subs))
    BY DEF Ordered, in
  <2>4. w \in Seq(Seq(STRING)) \ {<<>>} /\ WellOrdered(w, in, NeedsIn(subs))
    BY <1>1, <2>1, <2>3, WavesAreWellOrdered
  <2>5. /\ \A k \in DOMAIN w : NoRepeat(w[k])
        /\ \A k, l \in DOMAIN w : Names(w[k]) \cap Names(w[l]) # {} => k = l
    BY <1>1, <1>2, <2>1, <2>3, WavesGoOnce
  <2>6. ASSUME NEW j \in DOMAIN subs, NEW l \in DOMAIN w, NEW n \in subs[j].needs, subs[j].name \in Names(w[l])
        PROVE  \E k \in DOMAIN w : k < l /\ n \in Names(w[k])
    <3>1. n \in NamesIn(subs) /\ n # subs[j].name
      OBVIOUS
    <3>2. PICK k \in DOMAIN w : n \in Names(w[k])
      BY <1>2, <2>4, <3>1 DEF WellOrdered
    <3>3. n \in NeedsIn(subs)[subs[j].name]
      BY NeedsOfAName
    <3>4. k < l
      BY <2>4, <2>6, <3>1, <3>2, <3>3 DEF WellOrdered
    <3> QED
      BY <3>2, <3>4
  <2>7. /\ \A k \in DOMAIN w : Names(w[k]) \subseteq NamesIn(subs)
        /\ \A n \in NamesIn(subs) : \E k \in DOMAIN w : n \in Names(w[k])
    BY <1>2, <2>4 DEF WellOrdered
  <2> QED
    BY <2>2, <2>4, <2>5, <2>6, <2>7 DEF GoesOnce
<1> QED
  BY <1>3, <1>4

-----------------------------------------------------------------------------
\* What the parser makes of a stage, and what Validate says of it.
LEMMA StageIs ==
  ASSUME FileTypeOK, Validate(file), NEW k \in DOMAIN file.stages
  PROVE  /\ DOMAIN file.stages = 1 .. Len(file.stages) /\ Len(file.stages) \in Nat
         /\ file.stages[k].name \in STRING /\ file.stages[k].subs \in Seq(SubDef)
         /\ StageAt(k) = k /\ SubsAt(k) = file.stages[k].subs /\ InFront(k) = k - 1
         /\ First(file.stages, file.stages[k].name) = k
         /\ StageHolds(file, k)
<1>1. file.stages \in Seq(StageDef)
  BY DEF FileTypeOK, Files
<1>2. file.stages[k] \in StageDef
  BY <1>1
<1>3. OneEach(file.stages) /\ StageHolds(file, k)
  BY DEF Validate
<1>4. Final(file.stages, file.stages[k].name) = k /\ First(file.stages, file.stages[k].name) = k
  BY <1>1, <1>3, OneOfAName
<1>5. StageAt(k) = k
  BY <1>4 DEF StageAt
<1> QED
  BY <1>1, <1>2, <1>3, <1>4, <1>5 DEF SubsAt, InFront, StageDef

\* The targets a substage names are run, each in its directories.
LEMMA TargetsAreRun ==
  ASSUME FileTypeOK, Validate(file), NEW k \in DOMAIN file.stages, NEW j \in DOMAIN file.stages[k].subs
  PROVE  LET sub == file.stages[k].subs[j] IN
         /\ sub.targets \in Seq(STRING) /\ TargetsOf(sub) \in Seq(Seq(STRING))
         /\ Len(TargetsOf(sub)) = Len(sub.targets)
         /\ \A t \in DOMAIN TargetsOf(sub) :
              /\ t \in DOMAIN sub.targets
              /\ Names(TargetsOf(sub)[t]) \subseteq NamesIn(file.repos)
              /\ \E d \in DOMAIN file.targets :
                   file.targets[d].name = sub.targets[t] /\ file.targets[d].in = TargetsOf(sub)[t]
<1>1. PICK sub \in SubDef : sub = file.stages[k].subs[j]
  BY StageIs
<1>2. PICK list \in Seq(TargetDef) : list = file.targets
  BY DEF FileTypeOK, Files
<1>3. OneEach(list) /\ \A d \in DOMAIN list : Names(list[d].in) \subseteq NamesIn(file.repos)
  BY <1>2 DEF Validate, TargetsHold
<1>4. PICK named \in Seq(STRING) : named = sub.targets
  BY DEF SubDef
<1>5. Names(named) \subseteq NamesIn(list)
  BY <1>1, <1>2, <1>4, StageIs DEF StageHolds, SubHolds
<1>6. Those(named, NamesIn(list)) = named
  BY <1>5, ThoseAll
<1>7. TargetsOf(sub) = [i \in DOMAIN named |-> list[Final(list, named[i])].in]
  BY <1>2, <1>4, <1>6 DEF TargetsOf
<1>8. ASSUME NEW i \in DOMAIN named
      PROVE  \E d \in DOMAIN list : list[d].name = named[i] /\ list[d].in = list[Final(list, named[i])].in
                                    /\ list[d].in \in Seq(STRING)
  <2>1. named[i] \in NamesIn(list)
    BY <1>5 DEF Names
  <2>2. PICK d \in DOMAIN list : list[d].name = named[i]
    BY <2>1 DEF NamesIn
  <2>3. Final(list, named[i]) = d
    BY <1>3, <2>2, OneOfAName
  <2>4. list[d] \in TargetDef
    OBVIOUS
  <2> QED
    BY <2>2, <2>3, <2>4 DEF TargetDef
<1>9. PICK n \in Nat : n = Len(named) /\ DOMAIN named = 1 .. n
  OBVIOUS
<1>10. PICK V : V = Seq(STRING)
  OBVIOUS
<1>11. PICK told : told = TargetsOf(sub)
  OBVIOUS
<1>12. told \in [1 .. n -> V] /\ \A i \in 1 .. n : told[i] = list[Final(list, named[i])].in
  BY <1>7, <1>8, <1>9, <1>10, <1>11
<1>13. told \in Seq(V) /\ Len(told) = n
  BY <1>12, IsASequence
<1>14. ASSUME NEW t \in 1 .. n
       PROVE  /\ Names(told[t]) \subseteq NamesIn(file.repos)
              /\ \E d \in DOMAIN list : list[d].name = named[t] /\ list[d].in = told[t]
  BY <1>3, <1>8, <1>9, <1>12
<1> QED
  BY <1>1, <1>2, <1>4, <1>9, <1>10, <1>11, <1>12, <1>13, <1>14

\* The directories of a target can be ordered: what orders the repos orders them.
LEMMA DirectoriesAreOrdered ==
  ASSUME FileTypeOK, Validate(file), NEW in \in Seq(STRING), Names(in) \subseteq NamesIn(file.repos)
  PROVE  ~ Stuck(in, Ordering(in))
<1>1. PICK repos \in Seq(RepoDef) : repos = file.repos
  BY DEF FileTypeOK, Files
<1>2. OneEach(repos) /\ Ordered(repos)
  BY <1>1 DEF Validate, ReposHold
<1>3. PICK all : all = NameList(repos)
  OBVIOUS
<1>4. all \in Seq(STRING) /\ Names(all) = NamesIn(repos) /\ (repos = <<>> <=> all = <<>>)
  <2>1. PICK n \in Nat : n = Len(repos) /\ DOMAIN repos = 1 .. n
    OBVIOUS
  <2>2. ASSUME NEW j \in 1 .. n PROVE repos[j].name \in STRING
    <3>1. repos[j] \in RepoDef
      BY <2>1
    <3> QED
      BY <3>1 DEF RepoDef
  <2>3. all = [j \in 1 .. n |-> repos[j].name]
    BY <1>3, <2>1 DEF NameList
  <2>4. all \in [1 .. n -> STRING] /\ \A j \in 1 .. n : all[j] = repos[j].name
    BY <2>2, <2>3
  <2>5. all \in Seq(STRING) /\ Len(all) = n
    BY <2>4, IsASequence
  <2> QED
    BY <2>1, <2>4, <2>5 DEF Names, NamesIn
<1>5. PICK rank : Ranks(rank, Names(all), NeedsIn(repos))
  <2>1. CASE repos = <<>>
    <3>1. Names(all) = {}
      BY <1>4, <2>1 DEF Names
    <3>2. Ranks([x \in {} |-> 0], {}, NeedsIn(repos))
      BY DEF Ranks
    <3> QED
      BY <3>1, <3>2
  <2>2. CASE repos # <<>>
    BY <1>2, <1>3, <1>4, <2>2, OrderedIsRanked DEF Ordered
  <2> QED
    BY <2>1, <2>2
<1> DEFINE mine == [a \in Names(in) |-> rank[a]]
<1>6. Names(in) \subseteq Names(all)
  BY <1>1, <1>4
<1>7. mine \in [Names(in) -> Nat]
  BY <1>5, <1>6 DEF Ranks
<1>8. ASSUME NEW b \in Names(in), NEW a \in Names(in) \cap Ordering(in)[b], a # b
      PROVE  mine[a] < mine[b]
  <2>1. Ordering(in)[b] = NeedsIn(repos)[b]
    BY <1>1 DEF Ordering
  <2>2. rank[a] < rank[b]
    BY <1>5, <1>6, <1>8, <2>1 DEF Ranks
  <2> QED
    BY <2>2
<1>9. Ranks(mine, Names(in), Ordering(in))
  BY <1>7, <1>8 DEF Ranks
<1> QED
  BY <1>9, RankedIsOrdered

\* No lookup of a substage comes to nothing.
LEMMA LookupsHold ==
  ASSUME FileTypeOK, Validate(file), NEW k \in DOMAIN file.stages, NEW j \in DOMAIN file.stages[k].subs
  PROVE  Resolves(file.stages[k].subs[j])
<1>1. PICK sub : sub = file.stages[k].subs[j]
  OBVIOUS
<1>2. SubHolds(file, file.stages[k], sub)
  BY <1>1, StageIs DEF StageHolds
<1>3. ASSUME NEW i \in DOMAIN TargetsOf(sub)
      PROVE  ~ Stuck(TargetsOf(sub)[i], Ordering(TargetsOf(sub)[i]))
  <2>1. TargetsOf(sub) \in Seq(Seq(STRING)) /\ Names(TargetsOf(sub)[i]) \subseteq NamesIn(file.repos)
    BY <1>1, TargetsAreRun
  <2>2. TargetsOf(sub)[i] \in Seq(STRING)
    BY <2>1
  <2> QED
    BY <2>1, <2>2, DirectoriesAreOrdered
<1> QED
  BY <1>1, <1>2, <1>3 DEF Resolves, SubHolds

\* The substages of a file.
LEMMA SubsAre ==
  ASSUME FileTypeOK, Validate(file)
  PROVE  /\ \A k \in DOMAIN file.stages : \A j \in DOMAIN file.stages[k].subs : <<k, j>> \in Subs
         /\ \A q \in Subs : /\ q = <<q[1], q[2]>>
                            /\ q[1] \in DOMAIN file.stages /\ q[2] \in DOMAIN file.stages[q[1]].subs
                            /\ Sub(q) = file.stages[q[1]].subs[q[2]]
                            /\ Sub(q).name \in NamesIn(file.stages[q[1]].subs)
<1>1. \A k \in DOMAIN file.stages : \A j \in DOMAIN file.stages[k].subs : <<k, j>> \in Subs
  BY DEF Subs
<1>2. ASSUME NEW q \in Subs
      PROVE  /\ q = <<q[1], q[2]>>
             /\ q[1] \in DOMAIN file.stages /\ q[2] \in DOMAIN file.stages[q[1]].subs
  <2>1. PICK k \in DOMAIN file.stages : q \in {k} \X DOMAIN file.stages[k].subs
    BY DEF Subs
  <2> QED
    BY <2>1
<1> QED
  BY <1>1, <1>2 DEF Sub, NamesIn

\* What a substage wants was recorded by the stages in front and is brought.
LEMMA WantedIsBrought ==
  ASSUME FileTypeOK, Validate(file), RanRight, RanSoFar, NEW j \in DOMAIN file.stages[place].subs,
         Carries(place)
  PROVE  WantedBy(<<place, j>>) \subseteq Carried(place)
<1>1. PICK k \in DOMAIN file.stages : k = place
  BY DEF RanSoFar
<1>2. PICK sub : sub = file.stages[k].subs[j] /\ sub = Sub(<<k, j>>)
  BY <1>1 DEF Sub
<1>3. /\ SubsAt(k) = file.stages[k].subs /\ InFront(k) = k - 1 /\ StageHolds(file, k)
      /\ DOMAIN file.stages = 1 .. Len(file.stages) /\ Len(file.stages) \in Nat
  BY StageIs
<1> DEFINE front == UNION {{file.stages[i].name} \X NamesIn(file.stages[i].subs) : i \in 1 .. InFront(k)}
<1>4. Carried(k) = {r \in Records \cap front : ReadsAll(SubsAt(k)) \/ r \in UsesOf(SubsAt(k))}
  BY <1>1 DEF Carried
<1>5. ASSUME NEW l \in 1 .. k - 1, NEW i \in DOMAIN file.stages[l].subs
      PROVE  <<file.stages[l].name, file.stages[l].subs[i].name>> \in Records \cap front
  <2>1. l \in DOMAIN file.stages /\ <<l, i>> \in Subs /\ l < place
    BY <1>1, <1>3, SubsAre
  <2>2. PICK h \in DOMAIN ran : ran[h].at = <<l, i>>
    BY <2>1 DEF RanSoFar, Ats
  <2>3. ran[h].stage = file.stages[l].name /\ ran[h].name = file.stages[l].subs[i].name
    BY <2>2 DEF RanRight, IsRecord, Sub
  <2>4. <<file.stages[l].name, file.stages[l].subs[i].name>> \in Records
    BY <2>2, <2>3 DEF Records
  <2>5. file.stages[l].subs[i].name \in NamesIn(file.stages[l].subs) /\ l \in 1 .. InFront(k)
    BY <1>3 DEF NamesIn
  <2> QED
    BY <2>4, <2>5
<1> HIDE DEF front
<1>6. CASE sub.uses = {}
  <2>1. ReadsAll(SubsAt(k))
    BY <1>1, <1>2, <1>3, <1>6 DEF ReadsAll
  <2>2. WantedBy(<<k, j>>) = {<<file.stages[q[1]].name, Sub(q).name>> : q \in {q \in Subs : q[1] < k}}
    BY <1>2, <1>6 DEF WantedBy
  <2>3. ASSUME NEW q \in Subs, q[1] < k PROVE <<file.stages[q[1]].name, Sub(q).name>> \in Records \cap front
    <3>1. q[1] \in 1 .. k - 1 /\ q[2] \in DOMAIN file.stages[q[1]].subs /\ Sub(q) = file.stages[q[1]].subs[q[2]]
      BY <1>3, <2>3, SubsAre
    <3> QED
      BY <1>5, <3>1
  <2> QED
    BY <1>1, <1>4, <2>1, <2>2, <2>3
<1>7. CASE sub.uses # {}
  <2>1. WantedBy(<<k, j>>) = sub.uses
    BY <1>2, <1>7 DEF WantedBy
  <2>2. sub.uses \subseteq UsesOf(SubsAt(k))
    BY <1>1, <1>2, <1>3 DEF UsesOf
  <2>3. ASSUME NEW u \in sub.uses PROVE u \in Records \cap front
    <3>1. UseHolds(file, k, u)
      BY <1>1, <1>2, <1>3 DEF StageHolds
    <3>2. PICK l \in 1 .. k - 1 : file.stages[l].name = u[1]
      BY <3>1 DEF UseHolds
    <3>3. l \in DOMAIN file.stages
      BY <1>3
    <3>4. First(file.stages, u[1]) = l
      BY <3>2, <3>3, StageIs
    <3>5. PICK i \in DOMAIN file.stages[l].subs : file.stages[l].subs[i].name = u[2]
      BY <3>1, <3>4 DEF UseHolds, NamesIn
    <3>6. u = <<u[1], u[2]>>
      <4>1. PICK subs \in Seq(SubDef) : subs = file.stages[k].subs
        BY StageIs
      <4>2. j \in DOMAIN subs /\ sub = subs[j]
        BY <1>1, <1>2, <4>1
      <4>3. sub \in SubDef
        BY <4>2
      <4> QED
        BY <4>3 DEF SubDef
    <3> QED
      BY <1>5, <3>2, <3>5, <3>6
  <2> QED
    BY <1>1, <1>4, <2>1, <2>2, <2>3
<1> QED
  BY <1>6, <1>7

\* The order of the file stands while the file and its cut do.
LEMMA FileStays ==
  ASSUME UNCHANGED <<file, cut>>
  PROVE  /\ Subs' = Subs
         /\ \A r : IsRecord(r)' <=> IsRecord(r)
         /\ \A p, q : ComesAfter(p, q)' <=> ComesAfter(p, q)
         /\ \A k : SubsAt(k)' = SubsAt(k)
<1>1. Subs' = Subs
  BY DEF Subs
<1>2. \A k : SubsAt(k)' = SubsAt(k)
  BY DEF SubsAt, StageAt
<1>3. \A p : Sub(p)' = Sub(p)
  BY DEF Sub
<1>4. \A p : WantedBy(p)' = WantedBy(p)
  BY <1>1 DEF WantedBy, Sub
<1>5. \A s : TargetsOf(s)' = TargetsOf(s)
  BY DEF TargetsOf
<1>6. \A k : Carries(k)' = Carries(k)
  BY DEF Carries, SubsAt, StageAt
<1>7. \A p, q : ComesAfter(p, q)' <=> ComesAfter(p, q)
  BY DEF ComesAfter, Sub
<1>8. \A r : IsRecord(r)' <=> IsRecord(r)
  BY DEF IsRecord, Subs, Sub, WantedBy, TargetsOf, Carries, SubsAt, StageAt
<1> QED
  BY <1>1, <1>2, <1>7, <1>8

\* A substage of the stage has advanced when it has run.
LEMMA AdvancedAre ==
  ASSUME FileTypeOK, Validate(file), RanRight, place \in DOMAIN file.stages, NEW q \in Subs, q[1] = place
  PROVE  q \in Ats <=> Sub(q).name \in Advanced(place)
<1>1. PICK k \in DOMAIN file.stages : k = place
  OBVIOUS
<1>2. StageAt(k) = k /\ file.stages[k].subs \in Seq(SubDef) /\ OneEach(file.stages[k].subs)
  BY StageIs DEF StageHolds
<1>3. Advanced(k) = {ran[i].name : i \in {i \in DOMAIN ran : ran[i].at[1] = k}}
  BY <1>2 DEF Advanced
<1>4. q = <<k, q[2]>> /\ q[2] \in DOMAIN file.stages[k].subs /\ Sub(q) = file.stages[k].subs[q[2]]
  BY <1>1, SubsAre
<1>5. ASSUME q \in Ats PROVE Sub(q).name \in Advanced(k)
  <2>1. PICK i \in DOMAIN ran : ran[i].at = q
    BY <1>5 DEF Ats
  <2>2. ran[i].name = Sub(q).name /\ ran[i].at[1] = k
    BY <1>1, <2>1 DEF RanRight, IsRecord
  <2> QED
    BY <1>3, <2>1, <2>2
<1>6. ASSUME Sub(q).name \in Advanced(k) PROVE q \in Ats
  <2>1. PICK i \in DOMAIN ran : ran[i].at[1] = k /\ ran[i].name = Sub(q).name
    BY <1>3, <1>6
  <2>2. PICK p \in Subs : p = ran[i].at /\ ran[i].name = Sub(p).name
    BY <2>1 DEF RanRight, IsRecord
  <2>3. p = <<k, p[2]>> /\ p[2] \in DOMAIN file.stages[k].subs /\ Sub(p) = file.stages[k].subs[p[2]]
    BY <2>1, <2>2, SubsAre
  <2>4. file.stages[k].subs[p[2]].name = file.stages[k].subs[q[2]].name
    BY <1>4, <2>1, <2>2, <2>3
  <2>5. p[2] = q[2]
    BY <1>2, <1>4, <2>3, <2>4 DEF OneEach
  <2> QED
    BY <1>4, <2>1, <2>2, <2>3, <2>5 DEF Ats
<1> QED
  BY <1>1, <1>5, <1>6

\* The record of a substage is what the file asks for.
LEMMA RecordIs ==
  ASSUME FileTypeOK, Validate(file), RanRight, RanSoFar, NEW j \in DOMAIN file.stages[place].subs
  PROVE  Record(j) \in RunRecord /\ Record(j).at = <<place, j>> /\ IsRecord(Record(j))
<1>1. PICK k \in DOMAIN file.stages : k = place
  BY DEF RanSoFar
<1>2. /\ StageAt(k) = k /\ SubsAt(k) = file.stages[k].subs /\ file.stages[k].name \in STRING
      /\ file.stages[k].subs \in Seq(SubDef) /\ DOMAIN file.stages = 1 .. Len(file.stages)
  BY StageIs
<1>3. PICK sub \in SubDef : sub = file.stages[k].subs[j]
  BY <1>1, <1>2
<1>4. Record(j) = [at |-> <<k, j>>, stage |-> file.stages[k].name, name |-> sub.name,
                   targets |-> TargetsOf(sub), carried |-> Carried(k)]
  BY <1>1, <1>2, <1>3 DEF Record
<1>5. TargetsOf(sub) \in Seq(Seq(STRING))
  BY <1>1, <1>3, TargetsAreRun
<1>6. Carried(k) \subseteq Records
  BY DEF Carried
<1>7. Records \subseteq STRING \X STRING
  <2>1. ASSUME NEW i \in DOMAIN ran PROVE <<ran[i].stage, ran[i].name>> \in STRING \X STRING
    <3>1. ran[i] \in RunRecord
      BY DEF FileTypeOK
    <3> QED
      BY <3>1 DEF RunRecord
  <2> QED
    BY <2>1 DEF Records
<1>8. k \in Nat \ {0} /\ j \in Nat \ {0}
  BY <1>1, <1>2
<1>9. sub.name \in STRING
  BY DEF SubDef
<1>10. Record(j) \in RunRecord
  BY <1>2, <1>4, <1>5, <1>6, <1>7, <1>8, <1>9 DEF RunRecord
<1>11. <<k, j>> \in Subs /\ Sub(<<k, j>>) = sub
  BY <1>1, <1>3, SubsAre DEF Sub
<1>12. Carries(k) => WantedBy(<<k, j>>) \subseteq Carried(k)
  BY <1>1, WantedIsBrought
<1>13. IsRecord(Record(j))
  BY <1>4, <1>11, <1>12 DEF IsRecord
<1> QED
  BY <1>1, <1>4, <1>10, <1>13

\* Substages that did not run yet, and whose needs did, run and are recorded.
LEMMA RunStep ==
  ASSUME FileTypeOK, Validate(file), RanRight, RanSoFar, state = "running",
         NEW go \in Seq(DOMAIN file.stages[place].subs), NoRepeat(go),
         \A i \in DOMAIN go : <<place, go[i]>> \notin Ats,
         \A i \in DOMAIN go : file.stages[place].subs[go[i]].needs \subseteq Advanced(place),
         RunThese(go), UNCHANGED <<file, edits, cut, place>>
  PROVE  /\ UNCHANGED state /\ ran' \in Seq(RunRecord) /\ RanRight'
         /\ Ats' = Ats \cup {<<place, go[i]>> : i \in DOMAIN go}
<1>1. PICK k \in DOMAIN file.stages : k = place
  BY DEF RanSoFar
<1>2. PICK m \in Nat : m = Len(go) /\ DOMAIN go = 1 .. m
  OBVIOUS
<1>3. PICK n \in Nat : n = Len(ran) /\ DOMAIN ran = 1 .. n
  BY DEF FileTypeOK
<1>4. SubsAt(k) = file.stages[k].subs
  BY StageIs
<1>5. \A i \in 1 .. m : go[i] \in DOMAIN file.stages[k].subs
  BY <1>1, <1>2
<1>6. \A i \in 1 .. m : Resolves(SubsAt(place)[go[i]])
  BY <1>1, <1>4, <1>5, LookupsHold
<1>7. PICK recs : recs = [i \in 1 .. m |-> Record(go[i])]
  OBVIOUS
<1>8. UNCHANGED state /\ ran' = ran \o recs
  BY <1>2, <1>6, <1>7 DEF RunThese
<1>9. \A i \in 1 .. m : /\ recs[i] \in RunRecord /\ recs[i].at = <<k, go[i]>> /\ IsRecord(recs[i])
  <2>1. ASSUME NEW i \in 1 .. m
        PROVE  Record(go[i]) \in RunRecord /\ Record(go[i]).at = <<k, go[i]>> /\ IsRecord(Record(go[i]))
    BY <1>1, <1>5, RecordIs
  <2> QED
    BY <1>7, <2>1
<1>10. PICK now : now = ran \o recs
  OBVIOUS
<1>11. recs \in [1 .. m -> RunRecord]
  BY <1>7, <1>9
<1>12. recs \in Seq(RunRecord) /\ Len(recs) = m
  BY <1>11, IsASequence
<1>13. ran \in Seq(RunRecord)
  BY DEF FileTypeOK
<1>14. /\ now \in Seq(RunRecord) /\ DOMAIN now = 1 .. n + m
       /\ \A i \in 1 .. n : now[i] = ran[i]
       /\ \A i \in 1 .. m : now[n + i] = recs[i]
  BY <1>3, <1>10, <1>12, <1>13
<1>15. \A i \in 1 .. n + m : i \in 1 .. n \/ i - n \in 1 .. m
  OBVIOUS
<1>16. \A i \in DOMAIN now : IsRecord(now[i]) /\ now[i].at[1] <= place
  <2>1. ASSUME NEW i \in 1 .. n PROVE IsRecord(now[i]) /\ now[i].at[1] <= place
    BY <1>3, <1>14 DEF RanRight
  <2>2. ASSUME NEW i \in 1 .. m PROVE IsRecord(now[n + i]) /\ now[n + i].at[1] <= place
    <3>1. IsRecord(recs[i]) /\ recs[i].at[1] = k /\ k \in Nat
      BY <1>1, <1>9 DEF FileTypeOK
    <3>2. now[n + i] = recs[i]
      BY <1>14
    <3> QED
      BY <1>1, <3>1, <3>2
  <2>3. ASSUME NEW i \in DOMAIN now PROVE IsRecord(now[i]) /\ now[i].at[1] <= place
    <3>1. CASE i \in 1 .. n
      BY <2>1, <3>1
    <3>2. CASE i - n \in 1 .. m
      <4>1. i = n + (i - n)
        BY <1>14
      <4>2. PICK j \in 1 .. m : i = n + j
        BY <3>2, <4>1
      <4> QED
        BY <2>2, <4>2
    <3> QED
      BY <1>14, <1>15, <3>1, <3>2
  <2> QED
    BY <2>3
<1>17. \A i \in DOMAIN now : \/ i \in 1 .. n /\ now[i] = ran[i]
                             \/ \E j \in 1 .. m : i = n + j /\ now[i] = recs[j]
  <2>1. ASSUME NEW i \in DOMAIN now, i \notin 1 .. n
        PROVE  \E j \in 1 .. m : i = n + j /\ now[i] = recs[j]
    <3>1. i - n \in 1 .. m /\ i = n + (i - n)
      BY <1>14, <1>15, <2>1
    <3>2. PICK j \in 1 .. m : i = n + j
      BY <3>1
    <3> QED
      BY <1>14, <3>2
  <2> QED
    BY <1>14, <2>1
<1>18. \A i, h \in DOMAIN now : now[i].at = now[h].at => i = h
  <2>1. \A i \in 1 .. n : \A j \in 1 .. m : ran[i].at # recs[j].at
    BY <1>1, <1>2, <1>3, <1>9 DEF Ats
  <2>2. ASSUME NEW i \in 1 .. m, NEW j \in 1 .. m, recs[i].at = recs[j].at PROVE i = j
    <3>1. go[i] = go[j]
      BY <1>9, <2>2
    <3> QED
      BY <1>2, <3>1 DEF NoRepeat
  <2>3. \A i, h \in 1 .. n : ran[i].at = ran[h].at => i = h
    BY <1>3 DEF RanRight
  <2>4. ASSUME NEW i \in DOMAIN now, NEW h \in DOMAIN now, now[i].at = now[h].at PROVE i = h
    <3>1. CASE i \in 1 .. n /\ now[i] = ran[i]
      <4>1. CASE h \in 1 .. n /\ now[h] = ran[h]
        BY <2>3, <2>4, <3>1, <4>1
      <4>2. CASE \E j \in 1 .. m : h = n + j /\ now[h] = recs[j]
        BY <2>1, <2>4, <3>1, <4>2
      <4> QED
        BY <1>17, <4>1, <4>2
    <3>2. CASE \E j \in 1 .. m : i = n + j /\ now[i] = recs[j]
      <4>1. PICK j \in 1 .. m : i = n + j /\ now[i] = recs[j]
        BY <3>2
      <4>2. CASE h \in 1 .. n /\ now[h] = ran[h]
        <5>1. ran[h].at = recs[j].at
          BY <2>4, <4>1, <4>2
        <5> QED
          BY <2>1, <4>2, <5>1
      <4>3. CASE \E l \in 1 .. m : h = n + l /\ now[h] = recs[l]
        <5>1. PICK l \in 1 .. m : h = n + l /\ now[h] = recs[l]
          BY <4>3
        <5>2. j = l
          BY <2>2, <2>4, <4>1, <5>1
        <5> QED
          BY <4>1, <5>1, <5>2
      <4> QED
        BY <1>17, <4>2, <4>3
    <3> QED
      BY <1>17, <3>1, <3>2
  <2> QED
    BY <2>4
<1>19. ASSUME NEW i \in DOMAIN now, NEW q \in Subs, ComesAfter(now[i].at, q)
       PROVE  \E h \in 1 .. i - 1 : now[h].at = q
  <2>1. CASE i \in 1 .. n
    <3>1. now[i] = ran[i]
      BY <1>14, <2>1
    <3>2. PICK h \in 1 .. i - 1 : ran[h].at = q
      BY <1>3, <1>19, <2>1, <3>1 DEF RanRight
    <3>3. h \in 1 .. n
      BY <2>1
    <3> QED
      BY <1>14, <3>2, <3>3
  <2>2. CASE \E j \in 1 .. m : i = n + j
    <3>1. PICK j \in 1 .. m : i = n + j /\ now[i] = recs[j]
      BY <1>14, <2>2
    <3>2. now[i].at = <<k, go[j]>> /\ Sub(<<k, go[j]>>) = file.stages[k].subs[go[j]]
      BY <1>9, <3>1 DEF Sub
    <3>3. q \in Ats
      <4>1. CASE q[1] < place
        BY <4>1 DEF RanSoFar
      <4>2. CASE q[1] = place /\ Sub(q).name \in Sub(now[i].at).needs
        <5>1. Sub(now[i].at).needs \subseteq Advanced(place)
          BY <1>1, <1>2, <3>2
        <5>2. Sub(q).name \in Advanced(place)
          BY <4>2, <5>1
        <5> QED
          BY <1>1, <4>2, <5>2, AdvancedAre
      <4>3. q[1] < place \/ (q[1] = place /\ Sub(q).name \in Sub(now[i].at).needs)
        <5>1. now[i].at[1] = k
          BY <3>2
        <5> QED
          BY <1>1, <1>19, <5>1 DEF ComesAfter
      <4> QED
        BY <4>1, <4>2, <4>3
    <3>4. PICK h \in 1 .. n : ran[h].at = q
      BY <1>3, <3>3 DEF Ats
    <3>5. h \in 1 .. i - 1 /\ now[h] = ran[h]
      BY <1>14, <3>1
    <3> QED
      BY <3>4, <3>5
  <2> QED
    BY <1>17, <2>1, <2>2
<1>20. {now[i].at : i \in DOMAIN now} = Ats \cup {<<place, go[i]>> : i \in DOMAIN go}
  <2>1. ASSUME NEW i \in DOMAIN now PROVE now[i].at \in Ats \cup {<<place, go[j]>> : j \in DOMAIN go}
    <3>1. CASE i \in 1 .. n /\ now[i] = ran[i]
      BY <1>3, <3>1 DEF Ats
    <3>2. CASE \E j \in 1 .. m : i = n + j /\ now[i] = recs[j]
      BY <1>1, <1>2, <1>9, <3>2
    <3> QED
      BY <1>17, <3>1, <3>2
  <2>2. ASSUME NEW i \in DOMAIN ran PROVE ran[i].at \in {now[h].at : h \in DOMAIN now}
    BY <1>3, <1>14
  <2>3. ASSUME NEW i \in DOMAIN go PROVE <<place, go[i]>> \in {now[h].at : h \in DOMAIN now}
    <3>1. n + i \in DOMAIN now /\ now[n + i] = recs[i]
      BY <1>2, <1>14
    <3>2. now[n + i].at = <<place, go[i]>>
      BY <1>1, <1>2, <1>9, <3>1
    <3> QED
      BY <3>1, <3>2
  <2> QED
    BY <2>1, <2>2, <2>3 DEF Ats
<1>21. ran' = now
  BY <1>8, <1>10
<1>22. Ats' = Ats \cup {<<place, go[i]>> : i \in DOMAIN go}
  <2>1. Ats' = {now[i].at : i \in DOMAIN now}
    BY <1>21 DEF Ats
  <2> QED
    BY <1>20, <2>1
<1>23. RanRight'
  <2>1. \A i \in DOMAIN now : \A q \in Subs : ComesAfter(now[i].at, q) => \E h \in 1 .. i - 1 : now[h].at = q
    BY <1>19
  <2>2. /\ Subs' = Subs
        /\ \A r : IsRecord(r)' <=> IsRecord(r)
        /\ \A p, q : ComesAfter(p, q)' <=> ComesAfter(p, q)
    BY FileStays
  <2>3. place' = place
    OBVIOUS
  <2>4. (\A i \in DOMAIN ran : IsRecord(ran[i]) /\ ran[i].at[1] <= place)'
    BY <1>16, <1>21, <2>2, <2>3
  <2>5. (\A i, h \in DOMAIN ran : ran[i].at = ran[h].at => i = h)'
    BY <1>18, <1>21
  <2>6. (\A i \in DOMAIN ran : \A q \in Subs :
       ComesAfter(ran[i].at, q) => \E h \in 1 .. i - 1 : ran[h].at = q)'
    BY <1>21, <2>1, <2>2
  <2> QED
    BY <2>4, <2>5, <2>6 DEF RanRight
<1> QED
  BY <1>8, <1>14, <1>21, <1>22, <1>23

\* A wave runs whole: nobody in it is held.
LEMMA WaveRuns ==
  ASSUME FileInv, RunWave
  PROVE  FileInv'
<1>1. /\ FileTypeOK /\ state = "running" /\ cut # "substage" /\ Validate(file) /\ RanRight /\ RanSoFar
      /\ UNCHANGED <<file, edits, cut, place>> /\ round' = round + 1
  BY DEF FileInv, RunWave
<1>2. PICK k \in DOMAIN file.stages : k = place
  BY <1>1 DEF RanSoFar
<1>3. PICK subs \in Seq(SubDef) : subs = file.stages[k].subs
  BY <1>1, StageIs
<1>4. PICK w : w = SubWaves(subs)
  OBVIOUS
<1>5. SubsAt(k) = subs /\ subs # <<>> /\ OneEach(subs) /\ Ordered(subs)
      /\ \A j \in DOMAIN subs : subs[j].needs \subseteq NamesIn(subs) \ {subs[j].name}
  BY <1>1, <1>3, StageIs DEF StageHolds, SubHolds
<1>6. GoesOnce(w, subs)
  BY <1>4, <1>5, SubWavesGoOnce
<1>7. PICK r \in Nat \ {0} : r = round
  BY <1>1 DEF FileTypeOK
<1>8. r \in DOMAIN w /\ DOMAIN w = 1 .. Len(w) /\ Len(w) \in Nat
  <2>1. w \in Seq(Seq(STRING))
    BY <1>6 DEF GoesOnce
  <2>2. r <= Len(w)
    BY <1>2, <1>4, <1>5, <1>7 DEF RunWave
  <2> QED
    BY <2>1, <2>2
<1>9. PICK names \in Seq(STRING) : names = w[r] /\ NoRepeat(names) /\ Names(names) \subseteq NamesIn(subs)
  <2>1. w \in Seq(Seq(STRING))
    BY <1>6 DEF GoesOnce
  <2>2. w[r] \in Seq(STRING)
    BY <1>8, <2>1
  <2> QED
    BY <1>6, <1>8, <2>2 DEF GoesOnce
<1>10. PICK n \in Nat : n = Len(names) /\ DOMAIN names = 1 .. n
  OBVIOUS
<1>11. PICK picks : picks = [i \in DOMAIN names |-> Final(subs, names[i])]
  OBVIOUS
<1>12. \A i \in 1 .. n : Final(subs, names[i]) \in DOMAIN subs /\ subs[Final(subs, names[i])].name = names[i]
  <2>1. ASSUME NEW i \in 1 .. n
        PROVE  Final(subs, names[i]) \in DOMAIN subs /\ subs[Final(subs, names[i])].name = names[i]
    <3>1. names[i] \in NamesIn(subs)
      BY <1>9, <1>10 DEF Names
    <3>2. PICK j \in DOMAIN subs : subs[j].name = names[i]
      BY <3>1 DEF NamesIn
    <3>3. Final(subs, names[i]) = j
      BY <1>5, <3>2, OneOfAName
    <3> QED
      BY <3>2, <3>3
  <2> QED
    BY <2>1
<1>13. picks \in [1 .. n -> DOMAIN subs] /\ \A i \in 1 .. n : subs[picks[i]].name = names[i]
  BY <1>10, <1>11, <1>12
<1>14. picks \in Seq(DOMAIN subs) /\ DOMAIN picks = 1 .. n
  BY <1>13, IsASequence
<1>15. NoRepeat(picks)
  BY <1>9, <1>10, <1>13, <1>14 DEF NoRepeat
<1>16. \A j \in DOMAIN subs :
         /\ <<k, j>> \in Subs /\ Sub(<<k, j>>) = subs[j]
         /\ <<k, j>> \in Ats <=> subs[j].name \in Advanced(k)
         /\ <<k, j>> \in Ats <=> \E l \in 1 .. r - 1 : subs[j].name \in Names(w[l])
  <2>1. ASSUME NEW j \in DOMAIN subs
        PROVE  /\ <<k, j>> \in Subs /\ Sub(<<k, j>>) = subs[j]
               /\ <<k, j>> \in Ats <=> subs[j].name \in Advanced(k)
               /\ <<k, j>> \in Ats <=> \E l \in 1 .. r - 1 : subs[j].name \in Names(w[l])
    <3>1. <<k, j>> \in Subs /\ Sub(<<k, j>>) = subs[j]
      BY <1>1, <1>3, SubsAre DEF Sub
    <3>2. <<k, j>> \in Ats <=> subs[j].name \in Advanced(k)
      BY <1>1, <1>2, <3>1, AdvancedAre
    <3>3. <<k, j>> \in Ats <=> \E l \in 1 .. r - 1 : Sub(<<k, j>>).name \in Names(w[l])
      BY <1>1, <1>2, <1>4, <1>5, <1>7, <3>1 DEF RanSoFar
    <3> QED
      BY <3>1, <3>2, <3>3
  <2> QED
    BY <2>1
<1>17. \A j \in DOMAIN subs, l \in DOMAIN w : <<k, j>> \in Ats /\ subs[j].name \in Names(w[l]) => l < r
  <2>1. ASSUME NEW j \in DOMAIN subs, NEW l \in DOMAIN w, <<k, j>> \in Ats, subs[j].name \in Names(w[l])
        PROVE  l < r
    <3>1. PICK o \in 1 .. r - 1 : subs[j].name \in Names(w[o])
      BY <1>16, <2>1
    <3>2. o \in DOMAIN w
      BY <1>8
    <3>3. o = l
      BY <1>6, <2>1, <3>1, <3>2 DEF GoesOnce
    <3> QED
      BY <3>3
  <2> QED
    BY <2>1
<1>18. \A i \in 1 .. n : <<k, picks[i]>> \notin Ats
  <2>1. ASSUME NEW i \in 1 .. n PROVE <<k, picks[i]>> \notin Ats
    <3>1. subs[picks[i]].name \in Names(w[r]) /\ picks[i] \in DOMAIN subs
      BY <1>9, <1>10, <1>13 DEF Names
    <3> QED
      BY <1>8, <1>17, <3>1
  <2> QED
    BY <2>1
<1>19. \A i \in 1 .. n : subs[picks[i]].needs \subseteq Advanced(k)
  <2>1. ASSUME NEW i \in 1 .. n, NEW a \in subs[picks[i]].needs PROVE a \in Advanced(k)
    <3>1. subs[picks[i]].name \in Names(w[r]) /\ picks[i] \in DOMAIN subs
      BY <1>9, <1>10, <1>13 DEF Names
    <3>2. PICK l \in DOMAIN w : l < r /\ a \in Names(w[l])
      <4>1. PICK me \in DOMAIN subs : me = picks[i] /\ a \in subs[me].needs /\ subs[me].name \in Names(w[r])
        BY <2>1, <3>1
      <4>2. \A j \in DOMAIN subs : \A l \in DOMAIN w : \A b \in subs[j].needs :
              subs[j].name \in Names(w[l]) => \E o \in DOMAIN w : o < l /\ b \in Names(w[o])
        BY <1>6 DEF GoesOnce
      <4> QED
        BY <1>8, <4>1, <4>2
    <3>3. PICK j \in DOMAIN subs : subs[j].name = a
      BY <1>5, <2>1, <3>1 DEF NamesIn
    <3>4. l \in 1 .. r - 1
      BY <1>8, <3>2
    <3> QED
      BY <1>16, <3>2, <3>3, <3>4
  <2> QED
    BY <2>1
<1>20. PICK free : free = {j \in DOMAIN subs : ~ IsHeld(k, subs[j])}
  OBVIOUS
<1>21. Names(picks) \subseteq free
  BY <1>13, <1>14, <1>19, <1>20 DEF Names, IsHeld
<1>22. Those(picks, free) = picks
  BY <1>14, <1>21, ThoseAll
<1>23. RunThese(picks)
  <2>1. RunThese(Those([i \in DOMAIN names |-> Final(subs, names[i])], {j \in DOMAIN subs : ~ IsHeld(k, subs[j])}))
    BY <1>2, <1>4, <1>5, <1>7, <1>9 DEF RunWave
  <2> QED
    BY <1>11, <1>20, <1>22, <2>1
<1>24. /\ UNCHANGED state /\ ran' \in Seq(RunRecord) /\ RanRight'
       /\ Ats' = Ats \cup {<<place, picks[i]>> : i \in DOMAIN picks}
  BY <1>1, <1>2, <1>3, <1>14, <1>15, <1>18, <1>19, <1>23, RunStep
<1>25. ASSUME NEW j \in DOMAIN subs
       PROVE  <<k, j>> \in Ats' <=> \E l \in 1 .. r : subs[j].name \in Names(w[l])
  <2>1. ASSUME <<k, j>> \in Ats' PROVE \E l \in 1 .. r : subs[j].name \in Names(w[l])
    <3>1. CASE <<k, j>> \in Ats
      <4>1. PICK l \in 1 .. r - 1 : subs[j].name \in Names(w[l])
        BY <1>16, <3>1
      <4>2. l \in 1 .. r
        BY <1>7
      <4> QED
        BY <4>1, <4>2
    <3>2. CASE \E i \in 1 .. n : j = picks[i]
      <4>1. PICK i \in 1 .. n : j = picks[i]
        BY <3>2
      <4>2. subs[j].name \in Names(w[r])
        BY <1>9, <1>10, <1>13, <4>1 DEF Names
      <4> QED
        BY <4>2
    <3>3. <<k, j>> \in Ats \/ \E i \in 1 .. n : j = picks[i]
      BY <1>14, <1>24, <2>1
    <3> QED
      BY <3>1, <3>2, <3>3
  <2>2. ASSUME NEW l \in 1 .. r, subs[j].name \in Names(w[l]) PROVE <<k, j>> \in Ats'
    <3>1. CASE l = r
      <4>1. PICK i \in 1 .. n : names[i] = subs[j].name
        BY <1>9, <1>10, <2>2, <3>1 DEF Names
      <4>2. picks[i] = j
        BY <1>5, <1>13, <4>1 DEF OneEach
      <4> QED
        BY <1>2, <1>14, <1>24, <4>2
    <3>2. CASE l # r
      <4>1. l \in 1 .. r - 1
        BY <3>2
      <4> QED
        BY <1>16, <1>24, <2>2, <4>1
    <3> QED
      BY <3>1, <3>2
  <2> QED
    BY <2>1, <2>2
<1>26. ASSUME NEW q \in Subs, q[1] = k
       PROVE  q \in Ats' <=> \E l \in 1 .. r : Sub(q).name \in Names(w[l])
  <2>1. q = <<k, q[2]>> /\ q[2] \in DOMAIN subs /\ Sub(q) = subs[q[2]]
    BY <1>1, <1>3, <1>26, SubsAre
  <2>2. <<k, q[2]>> \in Ats' <=> \E l \in 1 .. r : subs[q[2]].name \in Names(w[l])
    BY <1>25, <2>1
  <2> QED
    BY <2>1, <2>2
<1>27. (Subs' = Subs) /\ (\A q : Sub(q)' = Sub(q)) /\ (SubsAt(place)' = subs) /\ (SubWaves(subs)' = w)
  BY <1>1, <1>2, <1>4, <1>5 DEF Subs, Sub, SubsAt, StageAt
<1>28. RanSoFar'
  <2>1. (place \in DOMAIN file.stages)'
    BY <1>1, <1>2
  <2>2. (\A q \in Subs : q[1] < place \/ state = "done" => q \in Ats)'
    BY <1>1, <1>24, <1>27 DEF RanSoFar
  <2>3. r + 1 <= Len(w) + 1 /\ (r + 1) - 1 = r
    BY <1>8
  <2>4. (round <= Len(SubWaves(SubsAt(place))) + 1)'
    BY <1>1, <1>2, <1>4, <1>5, <1>7, <2>3 DEF SubsAt, StageAt
  <2>5. (\A q \in Subs : q[1] = place =>
            (q \in Ats <=> \E l \in 1 .. round - 1 : Sub(q).name \in Names(SubWaves(SubsAt(place))[l])))'
    <3>1. (SubWaves(SubsAt(place)))' = w
      BY <1>1, <1>2, <1>4, <1>5 DEF SubsAt, StageAt
    <3>2. (round - 1)' = r
      BY <1>1, <1>7, <2>3
    <3> QED
      BY <1>1, <1>2, <1>26, <1>27, <3>1, <3>2
  <2> QED
    BY <2>1, <2>2, <2>4, <2>5 DEF RanSoFar
<1>29. FileTypeOK'
  BY <1>1, <1>7, <1>24 DEF FileTypeOK
<1> QED
  BY <1>1, <1>24, <1>28, <1>29 DEF FileInv

\* A substage has its job once the jobs of those it needs are done.
LEMMA JobRuns ==
  ASSUME FileInv, RunJob
  PROVE  FileInv'
<1>1. /\ FileTypeOK /\ state = "running" /\ cut = "substage" /\ Validate(file) /\ RanRight /\ RanSoFar
      /\ UNCHANGED <<file, edits, cut, place, round>>
  BY DEF FileInv, RunJob
<1>2. PICK k \in DOMAIN file.stages : k = place
  BY <1>1 DEF RanSoFar
<1>3. PICK subs \in Seq(SubDef) : subs = file.stages[k].subs
  BY <1>1, StageIs
<1>4. SubsAt(k) = subs /\ OneEach(subs)
      /\ \A j \in DOMAIN subs : subs[j].needs \subseteq NamesIn(subs) \ {subs[j].name}
  BY <1>1, <1>3, StageIs DEF StageHolds, SubHolds
<1>5. PICK a \in NamesIn(subs) \ Advanced(k) :
        subs[First(subs, a)].needs \subseteq Advanced(k) /\ RunThese(<<First(subs, a)>>)
  BY <1>2, <1>4 DEF RunJob
<1>6. PICK j \in DOMAIN subs : subs[j].name = a
  BY <1>5 DEF NamesIn
<1>7. First(subs, a) = j
  BY <1>4, <1>6, OneOfAName
<1>8. <<k, j>> \in Subs /\ Sub(<<k, j>>) = subs[j]
  BY <1>1, <1>3, SubsAre DEF Sub
<1>9. <<k, j>> \notin Ats
  BY <1>1, <1>2, <1>5, <1>6, <1>8, AdvancedAre
<1>10. PICK go : go = <<j>>
  OBVIOUS
<1>11. go \in Seq(DOMAIN subs) /\ DOMAIN go = {1} /\ go[1] = j /\ NoRepeat(go)
  BY <1>10 DEF NoRepeat
<1>12. subs[j].needs \subseteq Advanced(k)
  BY <1>5, <1>7
<1>13. RunThese(go)
  BY <1>5, <1>7, <1>10
<1>14. /\ UNCHANGED state /\ ran' \in Seq(RunRecord) /\ RanRight'
       /\ Ats' = Ats \cup {<<place, go[i]>> : i \in DOMAIN go}
  BY <1>1, <1>2, <1>3, <1>9, <1>11, <1>12, <1>13, RunStep
<1>15. Subs' = Subs
  BY <1>1 DEF Subs
<1>16. RanSoFar'
  BY <1>1, <1>14, <1>15 DEF RanSoFar
<1>17. FileTypeOK'
  BY <1>1, <1>14 DEF FileTypeOK
<1> QED
  BY <1>1, <1>14, <1>16, <1>17 DEF FileInv

\* A stage that is over has run whole.
LEMMA OverIsWhole ==
  ASSUME FileInv, state = "running", StageIsOver
  PROVE  \A j \in DOMAIN file.stages[place].subs : <<place, j>> \in Ats
<1>1. FileTypeOK /\ Validate(file) /\ RanRight /\ RanSoFar
  BY DEF FileInv
<1>2. PICK k \in DOMAIN file.stages : k = place
  BY <1>1 DEF RanSoFar
<1>3. PICK subs \in Seq(SubDef) : subs = file.stages[k].subs
  BY <1>1, StageIs
<1>4. SubsAt(k) = subs /\ subs # <<>> /\ OneEach(subs) /\ Ordered(subs)
      /\ \A j \in DOMAIN subs : subs[j].needs \subseteq NamesIn(subs) \ {subs[j].name}
  BY <1>1, <1>3, StageIs DEF StageHolds, SubHolds
<1>5. ASSUME NEW j \in DOMAIN subs PROVE <<k, j>> \in Ats
  <2>1. <<k, j>> \in Subs /\ Sub(<<k, j>>) = subs[j] /\ subs[j].name \in NamesIn(subs)
    BY <1>1, <1>3, SubsAre DEF Sub, NamesIn
  <2>2. CASE cut = "substage"
    <3>1. NamesIn(subs) \subseteq Advanced(k)
      BY <1>2, <1>4, <2>2 DEF StageIsOver
    <3> QED
      BY <1>1, <1>2, <2>1, <3>1, AdvancedAre
  <2>3. CASE cut # "substage"
    <3>1. PICK w : w = SubWaves(subs)
      OBVIOUS
    <3>2. GoesOnce(w, subs)
      BY <1>4, <3>1, SubWavesGoOnce
    <3>3. w \in Seq(Seq(STRING))
      BY <3>2 DEF GoesOnce
    <3>4. PICK l \in DOMAIN w : subs[j].name \in Names(w[l])
      BY <2>1, <3>2 DEF GoesOnce
    <3>5. ~ (round <= Len(w)) /\ round \in Nat
      BY <1>1, <1>2, <1>4, <2>3, <3>1, <3>3 DEF StageIsOver, FileTypeOK
    <3>6. l \in 1 .. round - 1
      BY <3>3, <3>4, <3>5
    <3>7. <<k, j>> \in Ats <=> \E o \in 1 .. round - 1 : Sub(<<k, j>>).name \in Names(w[o])
      BY <1>1, <1>2, <1>4, <2>1, <2>3, <3>1 DEF RanSoFar
    <3> QED
      BY <2>1, <3>4, <3>6, <3>7
  <2> QED
    BY <2>2, <2>3
<1> QED
  BY <1>2, <1>3, <1>5

\* Its promotion finds every record, and the walk goes on.
LEMMA PromotionHolds ==
  ASSUME FileInv, Promote
  PROVE  FileInv'
<1>1. /\ FileTypeOK /\ state = "running" /\ Validate(file) /\ RanRight /\ RanSoFar
      /\ StageIsOver /\ UNCHANGED <<file, edits, cut, ran>>
  BY DEF FileInv, Promote
<1>2. PICK k \in DOMAIN file.stages : k = place
  BY <1>1 DEF RanSoFar
<1>3. /\ StageAt(k) = k /\ StageHolds(file, k)
      /\ DOMAIN file.stages = 1 .. Len(file.stages) /\ Len(file.stages) \in Nat
  BY <1>1, StageIs
<1>4. PICK stage : stage = file.stages[k]
  OBVIOUS
<1>5. \A j \in DOMAIN stage.subs : <<k, j>> \in Ats
  BY <1>1, <1>2, <1>4, OverIsWhole
<1>6. stage.promotion = "" \/ HasPort(file, stage.promotion, "promotion")
  BY <1>3, <1>4 DEF StageHolds
<1>7. {stage.name} \X NamesIn(stage.subs) \subseteq Records
  <2>1. ASSUME NEW j \in DOMAIN stage.subs PROVE <<stage.name, stage.subs[j].name>> \in Records
    <3>1. PICK h \in DOMAIN ran : ran[h].at = <<k, j>>
      BY <1>5 DEF Ats
    <3>2. ran[h].stage = stage.name /\ ran[h].name = stage.subs[j].name
      BY <1>1, <1>4, <3>1 DEF RanRight, IsRecord, Sub
    <3> QED
      BY <3>1, <3>2 DEF Records
  <2> QED
    BY <2>1 DEF NamesIn
<1>8. IF place < Len(file.stages)
      THEN place' = place + 1 /\ round' = 1 /\ UNCHANGED state
      ELSE state' = "done" /\ UNCHANGED <<place, round>>
  BY <1>2, <1>3, <1>4, <1>6, <1>7 DEF Promote
<1>9. Subs' = Subs /\ Ats' = Ats /\ (\A q : Sub(q)' = Sub(q))
  BY <1>1 DEF Subs, Ats, Sub
<1>10. \A q \in Subs : q[1] <= k => q \in Ats
  <2>1. ASSUME NEW q \in Subs, q[1] <= k PROVE q \in Ats
    <3>1. q = <<q[1], q[2]>> /\ q[1] \in DOMAIN file.stages /\ q[2] \in DOMAIN file.stages[q[1]].subs
      BY <1>1, SubsAre
    <3>2. CASE q[1] = k
      BY <1>4, <1>5, <3>1, <3>2
    <3>3. CASE q[1] # k
      <4>1. q[1] < place
        BY <1>2, <1>3, <2>1, <3>1, <3>3
      <4> QED
        BY <1>1, <4>1 DEF RanSoFar
    <3> QED
      BY <3>2, <3>3
  <2> QED
    BY <2>1
<1>11. k \in Nat \ {0} /\ k <= Len(file.stages)
  BY <1>3
<1>12. place' \in Nat \ {0} /\ place <= place' /\ place' <= Len(file.stages)
  BY <1>2, <1>8, <1>11
<1>13. RanRight'
  <2>1. /\ Subs' = Subs
        /\ \A r : IsRecord(r)' <=> IsRecord(r)
        /\ \A p, q : ComesAfter(p, q)' <=> ComesAfter(p, q)
    BY <1>1, FileStays
  <2>2. ASSUME NEW i \in DOMAIN ran PROVE IsRecord(ran[i])' /\ ran[i].at[1] <= place'
    <3>1. PICK r : r = ran[i] /\ r = ran'[i]
      BY <1>1
    <3>2. IsRecord(r) /\ r.at[1] <= place
      BY <1>1, <3>1 DEF RanRight
    <3>3. r.at[1] \in DOMAIN file.stages
      BY <1>1, <3>2, SubsAre DEF IsRecord
    <3>4. r.at[1] <= place'
      BY <1>2, <1>3, <1>12, <3>2, <3>3
    <3> QED
      BY <1>1, <2>1, <3>1, <3>2, <3>4
  <2>3. (\A i \in DOMAIN ran : IsRecord(ran[i]) /\ ran[i].at[1] <= place)'
    BY <1>1, <2>2
  <2>4. (\A i, h \in DOMAIN ran : ran[i].at = ran[h].at => i = h)'
    BY <1>1 DEF RanRight
  <2>5. (\A i \in DOMAIN ran : \A q \in Subs :
       ComesAfter(ran[i].at, q) => \E h \in 1 .. i - 1 : ran[h].at = q)'
    BY <1>1, <2>1 DEF RanRight
  <2> QED
    BY <2>3, <2>4, <2>5 DEF RanRight
<1>14. (place \in DOMAIN file.stages)'
  BY <1>1, <1>3, <1>12
<1>15. CASE place < Len(file.stages)
  <2>1. place' = k + 1 /\ round' = 1 /\ UNCHANGED state
    BY <1>2, <1>8, <1>15
  <2>2. \A q \in Subs : q[1] < k + 1 => q \in Ats
    <3>1. ASSUME NEW q \in Subs, q[1] < k + 1 PROVE q \in Ats
      <4>1. q[1] \in 1 .. Len(file.stages)
        BY <1>1, <1>3, SubsAre
      <4>2. q[1] <= k
        BY <1>11, <3>1, <4>1
      <4> QED
        BY <1>10, <4>2
    <3> QED
      BY <3>1
  <2>3. \A q \in Subs : q[1] = k + 1 => q \notin Ats
    <3>1. ASSUME NEW q \in Subs, q[1] = k + 1, q \in Ats PROVE FALSE
      <4>1. PICK h \in DOMAIN ran : ran[h].at = q
        BY <3>1 DEF Ats
      <4>2. q[1] <= k
        BY <1>1, <1>2, <4>1 DEF RanRight
      <4> QED
        BY <1>11, <3>1, <4>2
    <3> QED
      BY <3>1
  <2>4. (\A q \in Subs : q[1] < place \/ state = "done" => q \in Ats)'
    BY <1>1, <1>9, <2>1, <2>2
  <2>5. PICK w : w = SubWaves(SubsAt(place))'
    OBVIOUS
  <2>6. w \in Seq(Seq(STRING))
    <3>1. PICK o \in DOMAIN file.stages : o = k + 1
      BY <1>3, <1>11, <1>15, <1>2
    <3>2. PICK subs \in Seq(SubDef) : subs = file.stages[o].subs
      BY <1>1, StageIs
    <3>3. SubsAt(o) = subs /\ subs # <<>> /\ OneEach(subs) /\ Ordered(subs)
          /\ \A j \in DOMAIN subs : subs[j].needs \subseteq NamesIn(subs) \ {subs[j].name}
      BY <1>1, <3>2, StageIs DEF StageHolds, SubHolds
    <3>4. GoesOnce(SubWaves(subs), subs)
      BY <3>3, SubWavesGoOnce
    <3>5. SubsAt(place)' = subs
      BY <1>1, <2>1, <3>1, <3>3 DEF SubsAt, StageAt
    <3>6. w = SubWaves(subs)
      BY <2>5, <3>5
    <3> QED
      BY <3>4, <3>6 DEF GoesOnce
  <2>7. (LET waves == SubWaves(SubsAt(place)) IN
         /\ round <= Len(waves) + 1
         /\ \A q \in Subs : q[1] = place =>
              (q \in Ats <=> \E l \in 1 .. round - 1 : Sub(q).name \in Names(waves[l])))'
    <3>1. 1 <= Len(w) + 1 /\ 1 .. 1 - 1 = {}
      BY <2>6
    <3>2. (round <= Len(SubWaves(SubsAt(place))) + 1)'
      BY <2>1, <2>5, <3>1
    <3>3. (\A q \in Subs : q[1] = place =>
              (q \in Ats <=> \E l \in 1 .. round - 1 : Sub(q).name \in Names(SubWaves(SubsAt(place))[l])))'
      BY <1>9, <2>1, <2>3, <3>1
    <3> QED
      BY <3>2, <3>3
  <2>8. RanSoFar'
    BY <1>14, <2>4, <2>7 DEF RanSoFar
  <2>9. FileTypeOK'
    BY <1>1, <1>12, <2>1 DEF FileTypeOK
  <2> QED
    BY <1>1, <1>13, <2>1, <2>8, <2>9 DEF FileInv
<1>16. CASE ~ (place < Len(file.stages))
  <2>1. state' = "done" /\ UNCHANGED <<place, round>>
    BY <1>8, <1>16
  <2>2. \A q \in Subs : q \in Ats
    <3>1. ASSUME NEW q \in Subs PROVE q \in Ats
      <4>1. q[1] \in 1 .. Len(file.stages)
        BY <1>1, <1>3, SubsAre
      <4>2. q[1] <= k
        BY <1>2, <1>11, <1>16, <4>1
      <4> QED
        BY <1>10, <4>2
    <3> QED
      BY <3>1
  <2>3. RanSoFar'
    BY <1>9, <1>14, <2>1, <2>2 DEF RanSoFar
  <2>4. FileTypeOK'
    BY <1>1, <2>1 DEF FileTypeOK
  <2> QED
    BY <1>1, <1>13, <2>1, <2>3, <2>4 DEF FileInv
<1> QED
  BY <1>15, <1>16

\* A file that is accepted finds its engines, and its walk begins with nothing run.
LEMMA LoadHolds ==
  ASSUME FileInv, Load
  PROVE  FileInv'
<1>1. /\ FileTypeOK /\ ran = <<>> /\ place = 1 /\ round = 1 /\ state = "edited"
      /\ UNCHANGED <<file, edits, place, round, ran>>
  BY DEF FileInv, Load
<1>2. CASE ~ Validate(file)
  <2>1. state' = "refused" /\ UNCHANGED cut
    BY <1>2 DEF Load
  <2>2. FileTypeOK'
    BY <1>1, <2>1 DEF FileTypeOK
  <2> QED
    BY <2>1, <2>2 DEF FileInv
<1>3. CASE Validate(file)
  <2>1. LookupsResolve
    BY <1>3 DEF Validate, EnginesHold, LookupsResolve
  <2>2. state' = "running" /\ cut' \in {"whole", "stage", "substage"}
    BY <1>3, <2>1 DEF Load
  <2>3. FileTypeOK'
    BY <1>1, <2>2 DEF FileTypeOK
  <2>4. RanRight'
    BY <1>1 DEF RanRight
  <2>5. file.stages \in Seq(StageDef) /\ file.stages # <<>>
    BY <1>1, <1>3 DEF FileTypeOK, Files, Validate
  <2>6. 1 \in DOMAIN file.stages /\ DOMAIN file.stages = 1 .. Len(file.stages)
    BY <2>5
  <2>7. (Subs' = Subs) /\ (Ats' = {}) /\ Validate(file)' /\ (\A q \in Subs : ~ (q[1] < 1))
    <3>1. \A q \in Subs : q[1] \in DOMAIN file.stages
      BY <1>1, <1>3, SubsAre
    <3> QED
      BY <1>1, <1>3, <2>6, <3>1 DEF Ats, Subs
  <2>8. PICK w : w = SubWaves(SubsAt(place))'
    OBVIOUS
  <2>9. w \in Seq(Seq(STRING))
    <3>1. PICK o \in DOMAIN file.stages : o = 1
      BY <2>6
    <3>2. PICK subs \in Seq(SubDef) : subs = file.stages[o].subs
      BY <1>1, <1>3, StageIs
    <3>3. subs # <<>> /\ OneEach(subs) /\ Ordered(subs)
          /\ \A j \in DOMAIN subs : subs[j].needs \subseteq NamesIn(subs) \ {subs[j].name}
      BY <1>1, <1>3, <3>2, StageIs DEF StageHolds, SubHolds
    <3>4. GoesOnce(SubWaves(subs), subs)
      BY <3>3, SubWavesGoOnce
    <3>5. Final(file.stages, file.stages[o].name) = o
      BY <1>3, <2>5, OneOfAName DEF Validate
    <3>6. SubsAt(place)' = subs
      BY <1>1, <3>1, <3>2, <3>5 DEF SubsAt, StageAt
    <3>7. w = SubWaves(subs)
      BY <2>8, <3>6
    <3> QED
      BY <3>4, <3>7 DEF GoesOnce
  <2>10. (LET waves == SubWaves(SubsAt(place)) IN
         /\ round <= Len(waves) + 1
         /\ \A q \in Subs : q[1] = place =>
              (q \in Ats <=> \E l \in 1 .. round - 1 : Sub(q).name \in Names(waves[l])))'
    <3>1. 1 <= Len(w) + 1 /\ 1 .. 1 - 1 = {}
      BY <2>9
    <3>2. (round <= Len(SubWaves(SubsAt(place))) + 1)'
      BY <1>1, <2>8, <3>1
    <3>3. (\A q \in Subs : q[1] = place =>
              (q \in Ats <=> \E l \in 1 .. round - 1 : Sub(q).name \in Names(SubWaves(SubsAt(place))[l])))'
      BY <1>1, <2>7, <3>1
    <3> QED
      BY <3>2, <3>3
  <2>11. RanSoFar'
    <3>1. (place \in DOMAIN file.stages)'
      BY <1>1, <2>6
    <3>2. (\A q \in Subs : q[1] < place \/ state = "done" => q \in Ats)'
      BY <1>1, <2>2, <2>7
    <3> QED
      BY <2>10, <3>1, <3>2 DEF RanSoFar
  <2> QED
    BY <1>1, <2>2, <2>3, <2>4, <2>7, <2>11 DEF FileInv
<1> QED
  BY <1>2, <1>3

\* When the walk is over every substage ran as the file declares it.
LEMMA DoneAsDeclared ==
  ASSUME FileInv
  PROVE  NothingIsSkipped
<1>1. ASSUME state = "done", NEW p \in Subs PROVE RanAsDeclared(p)
  <2>1. FileTypeOK /\ Validate(file) /\ RanRight /\ RanSoFar
    BY <1>1 DEF FileInv
  <2>2. PICK i \in DOMAIN ran : ran[i].at = p
    BY <1>1, <2>1 DEF RanSoFar, Ats
  <2>3. RunOf(p) = {i}
    BY <2>1, <2>2 DEF RunOf, RanRight
  <2>4. /\ p[1] \in DOMAIN file.stages /\ p[2] \in DOMAIN file.stages[p[1]].subs
        /\ Sub(p) = file.stages[p[1]].subs[p[2]]
    BY <2>1, SubsAre
  <2>5. ran[i].targets = TargetsOf(Sub(p)) /\ (Carries(p[1]) => WantedBy(p) \subseteq ran[i].carried)
    BY <2>1, <2>2 DEF RanRight, IsRecord
  <2>6. /\ Len(ran[i].targets) = Len(Sub(p).targets)
        /\ \A t \in DOMAIN ran[i].targets :
            /\ Names(ran[i].targets[t]) \subseteq NamesIn(file.repos)
            /\ \E d \in DOMAIN file.targets :
                 file.targets[d].name = Sub(p).targets[t] /\ file.targets[d].in = ran[i].targets[t]
    <3>1. PICK k \in DOMAIN file.stages : k = p[1]
      BY <2>4
    <3>2. PICK j \in DOMAIN file.stages[k].subs : j = p[2]
      BY <2>4, <3>1
    <3>3. PICK sub : sub = file.stages[k].subs[j] /\ sub = Sub(p)
      BY <2>4, <3>1, <3>2
    <3>4. PICK told : told = TargetsOf(sub) /\ told = ran[i].targets
      BY <2>5, <3>3
    <3>5. /\ Len(told) = Len(sub.targets)
          /\ \A t \in DOMAIN told :
               /\ Names(told[t]) \subseteq NamesIn(file.repos)
               /\ \E d \in DOMAIN file.targets :
                    file.targets[d].name = sub.targets[t] /\ file.targets[d].in = told[t]
      <4>1. LET s == file.stages[k].subs[j] IN
            /\ Len(TargetsOf(s)) = Len(s.targets)
            /\ \A t \in DOMAIN TargetsOf(s) :
                 /\ Names(TargetsOf(s)[t]) \subseteq NamesIn(file.repos)
                 /\ \E d \in DOMAIN file.targets :
                      file.targets[d].name = s.targets[t] /\ file.targets[d].in = TargetsOf(s)[t]
        BY <2>1, TargetsAreRun
      <4> QED
        BY <3>3, <3>4, <4>1
    <3> QED
      BY <3>3, <3>4, <3>5
  <2>7. \A q \in Subs :
          q[1] < p[1] \/ (q[1] = p[1] /\ Sub(q).name \in Sub(p).needs)
            => \E h \in 1 .. (i - 1) : ran[h].at = q
    BY <2>1, <2>2 DEF RanRight, ComesAfter
  <2> QED
    BY <2>3, <2>5, <2>6, <2>7 DEF RanAsDeclared
<1> QED
  BY <1>1 DEF FileInv, NothingIsSkipped

\* A list with one of its entries changed, or without it.
LEMMA ListWith ==
  ASSUME NEW X, NEW list \in Seq(X)
  PROVE  /\ \A i \in DOMAIN list, x \in X : [list EXCEPT ![i] = x] \in Seq(X)
         /\ Dropped(list) \subseteq Seq(X)
<1>1. PICK n \in Nat : n = Len(list) /\ DOMAIN list = 1 .. n /\ \A i \in 1 .. n : list[i] \in X
  OBVIOUS
<1>2. ASSUME NEW i \in DOMAIN list, NEW x \in X PROVE [list EXCEPT ![i] = x] \in Seq(X)
  OBVIOUS
<1>3. ASSUME NEW i \in DOMAIN list
      PROVE  [k \in 1 .. (Len(list) - 1) |-> list[IF k < i THEN k ELSE k + 1]] \in Seq(X)
  <2>1. PICK g : g = [k \in 1 .. n - 1 |-> list[IF k < i THEN k ELSE k + 1]]
    OBVIOUS
  <2>2. n - 1 \in Nat /\ i \in 1 .. n
    BY <1>1
  <2>3. g \in [1 .. n - 1 -> X]
    BY <1>1, <2>1, <2>2
  <2>4. g \in Seq(X)
    BY <2>2, <2>3, IsASequence
  <2> QED
    BY <1>1, <2>1, <2>4
<1> QED
  BY <1>2, <1>3 DEF Dropped

\* A file with one of its fields changed.
LEMMA FileWith ==
  ASSUME NEW f \in Files
  PROVE  /\ \A l \in Seq(RepoDef) : [f EXCEPT !.repos = l] \in Files
         /\ \A l \in Seq([name : STRING]) : [f EXCEPT !.managers = l] \in Files
         /\ \A l \in Seq(EngineDef) : [f EXCEPT !.engines = l] \in Files
         /\ \A n \in STRING : [f EXCEPT !.state = n] \in Files /\ [f EXCEPT !.triggers = {n}] \in Files
         /\ \A l \in Seq(TargetDef) : [f EXCEPT !.targets = l] \in Files
         /\ \A l \in Seq(StageDef) : [f EXCEPT !.stages = l] \in Files
<1>1. /\ f.repos \in Seq(RepoDef) /\ f.managers \in Seq([name : STRING]) /\ f.engines \in Seq(EngineDef)
      /\ f.state \in STRING /\ f.triggers \in SUBSET STRING
      /\ f.targets \in Seq(TargetDef) /\ f.stages \in Seq(StageDef)
  BY DEF Files
<1>2. \A l \in Seq(RepoDef) : [f EXCEPT !.repos = l] \in Files
  BY DEF Files
<1>3. \A l \in Seq([name : STRING]) : [f EXCEPT !.managers = l] \in Files
  BY DEF Files
<1>4. \A l \in Seq(EngineDef) : [f EXCEPT !.engines = l] \in Files
  BY DEF Files
<1>5. \A n \in STRING : [f EXCEPT !.state = n] \in Files /\ [f EXCEPT !.triggers = {n}] \in Files
  BY DEF Files
<1>6. \A l \in Seq(TargetDef) : [f EXCEPT !.targets = l] \in Files
  BY DEF Files
<1>7. \A l \in Seq(StageDef) : [f EXCEPT !.stages = l] \in Files
  BY DEF Files
<1> QED
  BY <1>2, <1>3, <1>4, <1>5, <1>6, <1>7

\* What a person writes is a file.
LEMMA EditedIsAFile ==
  ASSUME file \in Files
  PROVE  Edited \subseteq Files
<1>1. /\ file.repos \in Seq(RepoDef) /\ file.managers \in Seq([name : STRING])
      /\ file.engines \in Seq(EngineDef)
      /\ file.targets \in Seq(TargetDef) /\ file.stages \in Seq(StageDef)
  BY DEF Files
<1>2. /\ RepoName \subseteq STRING /\ EngineName \subseteq STRING
      /\ TargetName \subseteq STRING /\ StageName \subseteq STRING
  BY FileAssumption
<1>3. EditRepos \subseteq Files
  <2>1. ASSUME NEW i \in DOMAIN file.repos
        PROVE  /\ \A n \in RepoName : [file EXCEPT !.repos[i].name = n] \in Files
               /\ \A n \in SUBSET RepoName : [file EXCEPT !.repos[i].needs = n] \in Files
    <3>1. file.repos[i] \in RepoDef
      BY <1>1
    <3>2. ASSUME NEW r \in RepoDef PROVE [file EXCEPT !.repos = [file.repos EXCEPT ![i] = r]] \in Files
      BY <1>1, FileWith, ListWith
    <3>3. \A n \in RepoName : [file.repos[i] EXCEPT !.name = n] \in RepoDef
      BY <1>2, <3>1 DEF RepoDef
    <3>4. \A n \in SUBSET RepoName : [file.repos[i] EXCEPT !.needs = n] \in RepoDef
      BY <1>2, <3>1 DEF RepoDef
    <3> QED
      BY <3>2, <3>3, <3>4
  <2>2. \A l \in Dropped(file.repos) : [file EXCEPT !.repos = l] \in Files
    BY <1>1, FileWith, ListWith
  <2> QED
    BY <2>1, <2>2 DEF EditRepos
<1>4. EditEngines \subseteq Files
  <2>1. ASSUME NEW i \in DOMAIN file.engines
        PROVE  /\ \A n \in EngineName : [file EXCEPT !.engines[i].name = n] \in Files
               /\ \A j \in DOMAIN file.engines : [file EXCEPT !.engines[i].port = file.engines[j].port] \in Files
               /\ \A n \in RepoName : [file EXCEPT !.engines[i].ignored = {n}] \in Files
    <3>1. file.engines[i] \in EngineDef
      BY <1>1
    <3>2. ASSUME NEW r \in EngineDef PROVE [file EXCEPT !.engines = [file.engines EXCEPT ![i] = r]] \in Files
      BY <1>1, FileWith, ListWith
    <3>3. \A n \in EngineName : [file.engines[i] EXCEPT !.name = n] \in EngineDef
      BY <1>2, <3>1 DEF EngineDef
    <3>4. \A j \in DOMAIN file.engines : [file.engines[i] EXCEPT !.port = file.engines[j].port] \in EngineDef
      <4>1. ASSUME NEW j \in DOMAIN file.engines PROVE file.engines[j].port \in STRING
        <5>1. file.engines[j] \in EngineDef
          BY <1>1
        <5> QED
          BY <5>1 DEF EngineDef
      <4> QED
        BY <3>1, <4>1 DEF EngineDef
    <3>5. \A n \in RepoName : [file.engines[i] EXCEPT !.ignored = {n}] \in EngineDef
      BY <1>2, <3>1 DEF EngineDef
    <3> QED
      BY <3>2, <3>3, <3>4, <3>5
  <2>2. /\ \A l \in Dropped(file.engines) : [file EXCEPT !.engines = l] \in Files
        /\ \A l \in Dropped(file.managers) : [file EXCEPT !.managers = l] \in Files
    BY <1>1, FileWith, ListWith
  <2>3. \A n \in EngineName : [file EXCEPT !.state = n] \in Files /\ [file EXCEPT !.triggers = {n}] \in Files
    BY <1>2, FileWith
  <2>4. {[file EXCEPT !.engines[i].name = n] : i \in DOMAIN file.engines, n \in EngineName} \subseteq Files
    BY <2>1
  <2>5. {[file EXCEPT !.engines[i].port = file.engines[j].port] : i, j \in DOMAIN file.engines} \subseteq Files
    BY <2>1
  <2>6. {[file EXCEPT !.engines[i].ignored = {n}] : i \in DOMAIN file.engines, n \in RepoName} \subseteq Files
    BY <2>1
  <2>7. /\ {[file EXCEPT !.engines = l] : l \in Dropped(file.engines)} \subseteq Files
        /\ {[file EXCEPT !.managers = l] : l \in Dropped(file.managers)} \subseteq Files
    BY <2>2
  <2>8. /\ {[file EXCEPT !.state = n] : n \in EngineName} \subseteq Files
        /\ {[file EXCEPT !.triggers = {n}] : n \in EngineName} \subseteq Files
    BY <2>3
  <2> QED
    BY <2>4, <2>5, <2>6, <2>7, <2>8 DEF EditEngines
<1>5. EditTargets \subseteq Files
  <2>1. ASSUME NEW i \in DOMAIN file.targets
        PROVE  /\ \A n \in TargetName : [file EXCEPT !.targets[i].name = n] \in Files
               /\ \A n \in RepoName : [file EXCEPT !.targets[i].in = <<n>>] \in Files
    <3>1. file.targets[i] \in TargetDef
      BY <1>1
    <3>2. ASSUME NEW r \in TargetDef PROVE [file EXCEPT !.targets = [file.targets EXCEPT ![i] = r]] \in Files
      BY <1>1, FileWith, ListWith
    <3>3. \A n \in TargetName : [file.targets[i] EXCEPT !.name = n] \in TargetDef
      BY <1>2, <3>1 DEF TargetDef
    <3>4. \A n \in RepoName : [file.targets[i] EXCEPT !.in = <<n>>] \in TargetDef
      <4>1. \A n \in STRING : <<n>> \in Seq(STRING)
        OBVIOUS
      <4>2. \A l \in Seq(STRING) : [file.targets[i] EXCEPT !.in = l] \in TargetDef
        BY <3>1 DEF TargetDef
      <4> QED
        BY <1>2, <4>1, <4>2
    <3> QED
      BY <3>2, <3>3, <3>4
  <2>2. \A l \in Dropped(file.targets) : [file EXCEPT !.targets = l] \in Files
    BY <1>1, FileWith, ListWith
  <2> QED
    BY <2>1, <2>2 DEF EditTargets
<1>6. \A l \in Dropped(file.stages) : [file EXCEPT !.stages = l] \in Files
  BY <1>1, FileWith, ListWith
<1>7. ASSUME NEW i \in DOMAIN file.stages
      PROVE  EditStage(i) \subseteq Files /\ \A j \in DOMAIN file.stages[i].subs : EditSub(i, j) \subseteq Files
  <2>1. file.stages[i] \in StageDef
    BY <1>1
  <2>2. file.stages[i].subs \in Seq(SubDef)
    BY <2>1 DEF StageDef
  <2>3. ASSUME NEW r \in StageDef PROVE [file EXCEPT !.stages = [file.stages EXCEPT ![i] = r]] \in Files
    BY <1>1, FileWith, ListWith
  <2>4. \A l \in Seq(SubDef) : [file.stages[i] EXCEPT !.subs = l] \in StageDef
    BY <2>1 DEF StageDef
  <2>5. EditStage(i) \subseteq Files
    <3>1. \A n \in StageName : [file.stages[i] EXCEPT !.name = n] \in StageDef
      BY <1>2, <2>1 DEF StageDef
    <3>2. \A n \in EngineName : [file.stages[i] EXCEPT !.promotion = n] \in StageDef
      BY <1>2, <2>1 DEF StageDef
    <3>3. \A l \in Dropped(file.stages[i].subs) : [file.stages[i] EXCEPT !.subs = l] \in StageDef
      BY <2>2, <2>4, ListWith
    <3> QED
      BY <2>3, <3>1, <3>2, <3>3 DEF EditStage
  <2>6. ASSUME NEW j \in DOMAIN file.stages[i].subs PROVE EditSub(i, j) \subseteq Files
    <3>1. file.stages[i].subs[j] \in SubDef
      BY <2>2
    <3>2. ASSUME NEW r \in SubDef
          PROVE  [file EXCEPT !.stages = [file.stages EXCEPT ![i] = [file.stages[i] EXCEPT
                    !.subs = [file.stages[i].subs EXCEPT ![j] = r]]]] \in Files
      BY <2>2, <2>3, <2>4, ListWith
    <3>3. \A n \in StageName : [file.stages[i].subs[j] EXCEPT !.name = n] \in SubDef
      BY <1>2, <3>1 DEF SubDef
    <3>4. \A n \in EngineName : [file.stages[i].subs[j] EXCEPT !.engine = n] \in SubDef
      BY <1>2, <3>1 DEF SubDef
    <3>5. \A n \in EngineName : [file.stages[i].subs[j] EXCEPT !.gates = {n}] \in SubDef
      BY <1>2, <3>1 DEF SubDef
    <3>6. \A l \in Seq(STRING) : [file.stages[i].subs[j] EXCEPT !.targets = l] \in SubDef
      BY <3>1 DEF SubDef
    <3>7. {<<>>} \cup {<<t>> : t \in TargetName} \subseteq Seq(STRING)
      <4>1. <<>> \in Seq(STRING) /\ \A n \in STRING : <<n>> \in Seq(STRING)
        OBVIOUS
      <4> QED
        BY <1>2, <4>1
    <3>8. \A l \in SUBSET STRING : [file.stages[i].subs[j] EXCEPT !.needs = l] \in SubDef
      BY <3>1 DEF SubDef
    <3>9. {{}} \cup {{n} : n \in StageName} \subseteq SUBSET STRING
      BY <1>2
    <3>10. \A u \in StageName \X StageName : [file.stages[i].subs[j] EXCEPT !.uses = {u}] \in SubDef
      BY <1>2, <3>1 DEF SubDef
    <3>11. [file.stages[i].subs[j] EXCEPT !.sync = ~@] \in SubDef
      BY <3>1 DEF SubDef
    <3>12. {[file EXCEPT !.stages[i].subs[j].name = n] : n \in StageName} \subseteq Files
      BY <3>2, <3>3
    <3>13. {[file EXCEPT !.stages[i].subs[j].engine = n] : n \in EngineName} \subseteq Files
      BY <3>2, <3>4
    <3>14. {[file EXCEPT !.stages[i].subs[j].gates = {n}] : n \in EngineName} \subseteq Files
      BY <3>2, <3>5
    <3>15. {[file EXCEPT !.stages[i].subs[j].targets = l] : l \in {<<>>} \cup {<<t>> : t \in TargetName}}
             \subseteq Files
      BY <3>2, <3>6, <3>7
    <3>16. {[file EXCEPT !.stages[i].subs[j].needs = l] : l \in {{}} \cup {{n} : n \in StageName}}
             \subseteq Files
      BY <3>2, <3>8, <3>9
    <3>17. {[file EXCEPT !.stages[i].subs[j].uses = {u}] : u \in StageName \X StageName} \subseteq Files
      BY <3>2, <3>10
    <3>18. {[file EXCEPT !.stages[i].subs[j].sync = ~@]} \subseteq Files
      BY <3>2, <3>11
    <3> QED
      BY <3>12, <3>13, <3>14, <3>15, <3>16, <3>17, <3>18 DEF EditSub
  <2> QED
    BY <2>5, <2>6
<1> QED
  BY <1>3, <1>4, <1>5, <1>6, <1>7 DEF Edited

\* The invariant holds of a walk, whatever a person wrote.
LEMMA FileHolds == FileSpec => []FileInv
<1>1. FileInit => FileInv
  <2> SUFFICES ASSUME FileInit PROVE FileInv
    OBVIOUS
  <2>1. ran \in Seq(RunRecord)
    BY DEF FileInit
  <2>2. FileTypeOK
    BY <2>1, FileAssumption DEF FileInit, FileTypeOK
  <2> QED
    BY <2>2 DEF FileInit, FileInv
<1>2. FileInv /\ [FileNext]_fileVars => FileInv'
  <2> SUFFICES ASSUME FileInv, [FileNext]_fileVars PROVE FileInv'
    OBVIOUS
  <2>1. CASE Edit
    <3>1. /\ FileTypeOK /\ state = "edited" /\ file' \in Edited /\ edits < MaxEdits /\ edits' = edits + 1
          /\ UNCHANGED <<cut, state, place, round, ran>>
      BY <2>1 DEF FileInv, Edit
    <3>2. file' \in Files
      BY <3>1, EditedIsAFile DEF FileTypeOK
    <3>3. edits' \in 0 .. MaxEdits
      BY <3>1, FileAssumption DEF FileTypeOK
    <3>4. FileTypeOK'
      BY <3>1, <3>2, <3>3 DEF FileTypeOK
    <3> QED
      BY <3>1, <3>4 DEF FileInv
  <2>2. CASE Load
    BY <2>2, LoadHolds
  <2>3. CASE RunWave
    BY <2>3, WaveRuns
  <2>4. CASE RunJob
    BY <2>4, JobRuns
  <2>5. CASE Promote
    BY <2>5, PromotionHolds
  <2>6. CASE UNCHANGED fileVars
    <3>1. UNCHANGED <<file, edits, cut, state, place, round, ran>>
      BY <2>6 DEF fileVars
    <3>2. FileTypeOK'
      BY <3>1 DEF FileInv, FileTypeOK
    <3>3. ASSUME RanRight PROVE RanRight'
      <4>1. /\ Subs' = Subs
            /\ \A r : IsRecord(r)' <=> IsRecord(r)
            /\ \A p, q : ComesAfter(p, q)' <=> ComesAfter(p, q)
        BY <3>1, FileStays
      <4> QED
        BY <3>1, <3>3, <4>1 DEF RanRight
    <3>4. ASSUME RanSoFar PROVE RanSoFar'
      <4>1. Subs' = Subs /\ Ats' = Ats /\ (\A q : Sub(q)' = Sub(q)) /\ SubsAt(place)' = SubsAt(place)
        BY <3>1 DEF Subs, Ats, Sub, SubsAt, StageAt
      <4> QED
        BY <3>1, <3>4, <4>1 DEF RanSoFar
    <3> QED
      BY <3>1, <3>2, <3>3, <3>4 DEF FileInv
  <2> QED
    BY <2>1, <2>2, <2>3, <2>4, <2>5, <2>6 DEF FileNext
<1> QED
  BY <1>1, <1>2, PTL DEF FileSpec

\* The file stays one the parser could have made, and a walk keeps its types:
\* for any file as first written and any edits of it.
THEOREM FileTypeCorrect == FileSpec => []FileTypeOK
<1>1. FileInv => FileTypeOK
  BY DEF FileInv
<1> QED
  BY <1>1, FileHolds, PTL

\* A file that config.Validate accepts is run as it reads, whole or in jobs: no
\* lookup comes to nothing in the middle of an apply, no substage is held for
\* ever or left out, each runs once, after those it needs and the stages in
\* front, in every directory of its targets, with all it uses brought to it.
THEOREM AcceptedIsRun == FileSpec => []NothingIsSkipped
<1>1. FileInv => NothingIsSkipped
  BY DoneAsDeclared
<1> QED
  BY <1>1, FileHolds, PTL
=============================================================================
