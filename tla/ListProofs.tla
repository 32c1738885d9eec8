------------------------------- MODULE ListProofs ------------------------------
(***************************************************************************)
(* What the loops of ListFolds compute, for every list. A fold is a        *)
(* recursive function of sets of places: FoldExists gives one for any      *)
(* step, NatInduction a walk through it, from WFMin, which takes no        *)
(* operator and so can be cited.                                           *)
(***************************************************************************)
EXTENDS ListFolds, FiniteSetTheorems, SequenceTheorems, WellFoundedInduction, TLAPS

\* A set that holds 0, and with each number the next, holds them all.
LEMMA SetInduction ==
    ASSUME NEW S, 0 \in S, \A n \in Nat : n \in S => n + 1 \in S
    PROVE  \A n \in Nat : n \in S
<1> DEFINE R == OpToRel(<, Nat)
           T == Nat \ S
<1> SUFFICES ASSUME T # {} PROVE FALSE
  OBVIOUS
<1>1. IsWellFoundedOn(R, Nat)
  BY NatLessThanWellFounded
<1>2. \A m, n \in Nat : m < n => <<m, n>> \in R
  BY DEF OpToRel
<1>3. T \subseteq Nat
  OBVIOUS
<1> HIDE DEF R
<1>4. PICK n \in T : \A m \in T : <<m, n>> \notin R
  BY <1>1, <1>3, WFMin
<1>5. n \in Nat /\ n - 1 \in Nat /\ n - 1 < n /\ (n - 1) + 1 = n
  OBVIOUS
<1> HIDE DEF T
<1>6. n - 1 \notin T
  BY <1>2, <1>4, <1>5
<1> QED BY <1>4, <1>5, <1>6 DEF T

\* The same up to a bound.
LEMMA SetInductionUpTo ==
    ASSUME NEW L \in Nat, NEW S, 0 \in S, \A n \in 1..L : n - 1 \in S => n \in S
    PROVE  \A n \in 0..L : n \in S
<1> DEFINE T == {n \in Nat : n <= L => n \in S}
<1>1. 0 \in T
  OBVIOUS
<1>2. ASSUME NEW n \in Nat, n \in T PROVE n + 1 \in T
  <2>1. CASE n + 1 <= L
    <3>1. n + 1 \in 1..L /\ (n + 1) - 1 = n /\ n <= L
      BY <2>1
    <3>2. n \in S
      BY <1>2, <3>1
    <3>3. n + 1 \in S
      <4> DEFINE m == n + 1
      <4>1. m \in 1..L /\ m - 1 \in S
        BY <3>1, <3>2
      <4> HIDE DEF m
      <4>2. m \in S
        BY <4>1
      <4> QED BY <4>2 DEF m
    <3> QED BY <3>3
  <2> QED BY <2>1
<1> HIDE DEF T
<1>3. \A n \in Nat : n \in T
  BY <1>1, <1>2, SetInduction
<1> QED BY <1>3 DEF T

\* How a fold takes its items, one of those that are left.
Picks(pick, D) == \A s \in SUBSET D : s # {} => pick[s] \in s

\* What it computes for the parts of a set.
IsFold(g, D, base, pick, step) ==
    \A s \in SUBSET D :
        g[s] = IF s = {} THEN base ELSE step[pick[s]][g[s \ {pick[s]}]]

\* A fold over a finite set, whatever is picked first and whatever is done with it.
LEMMA FoldExists ==
    ASSUME NEW D, IsFiniteSet(D), NEW A, NEW base \in A,
           NEW pick, Picks(pick, D),
           NEW step \in [D -> [A -> A]]
    PROVE  \E g \in [SUBSET D -> A] : IsFold(g, D, base, pick, step)
<1> DEFINE Value(g, s) == IF s = {} THEN base ELSE step[pick[s]][g[s \ {pick[s]}]]
           Good(g, n) == \A s \in SUBSET D : Cardinality(s) <= n => g[s] = Value(g, s)
           N == {n \in Nat : \E g \in [SUBSET D -> A] : Good(g, n)}
<1>1. \A s \in SUBSET D : IsFiniteSet(s) /\ Cardinality(s) \in Nat
  BY FS_Subset, FS_CardinalityType
<1>2. \A s \in SUBSET D : Cardinality(s) <= 0 => s = {}
  BY <1>1, FS_EmptySet
<1>3. \A s \in SUBSET D : s # {} =>
          /\ pick[s] \in D /\ s \ {pick[s]} \in SUBSET D
          /\ Cardinality(s \ {pick[s]}) = Cardinality(s) - 1
  BY <1>1, FS_RemoveElement DEF Picks
<1>4. ASSUME NEW g \in [SUBSET D -> A], NEW s \in SUBSET D PROVE Value(g, s) \in A
  <2>1. CASE s # {}
    <3>1. pick[s] \in D /\ g[s \ {pick[s]}] \in A
      BY <1>3, <2>1
    <3>2. step[pick[s]][g[s \ {pick[s]}]] \in A
      BY <3>1
    <3> QED BY <2>1, <3>2
  <2> QED BY <2>1
<1>5. 0 \in N
  <2> DEFINE g == [s \in SUBSET D |-> base]
  <2>1. g \in [SUBSET D -> A] /\ Good(g, 0)
    BY <1>2
  <2> QED BY <2>1
<1>6. ASSUME NEW n \in Nat, n \in N PROVE n + 1 \in N
  <2>1. PICK g \in [SUBSET D -> A] : Good(g, n)
    BY <1>6
  <2> DEFINE h == [s \in SUBSET D |-> IF Cardinality(s) <= n THEN g[s] ELSE Value(g, s)]
  <2>2. h \in [SUBSET D -> A]
    BY <1>4
  <2>3. ASSUME NEW s \in SUBSET D, Cardinality(s) <= n + 1 PROVE h[s] = Value(h, s)
    <3>1. CASE s = {}
      <4>1. h[s] = g[s] \/ h[s] = base
        BY <3>1
      <4>2. Cardinality(s) <= n
        BY <3>1, FS_EmptySet
      <4>3. g[s] = base
        BY <2>1, <3>1, <4>2
      <4> QED BY <3>1, <4>1, <4>3
    <3>2. CASE s # {}
      <4> DEFINE rest == s \ {pick[s]}
      <4>1. rest \in SUBSET D /\ Cardinality(rest) <= n
        BY <1>1, <1>3, <2>3, <3>2
      <4>2. h[rest] = g[rest]
        BY <4>1
      <4>3. h[s] = Value(g, s)
        BY <2>1
      <4> QED BY <3>2, <4>2, <4>3
    <3> QED BY <3>1, <3>2
  <2> HIDE DEF h, Value
  <2> QED BY <2>2, <2>3
<1> HIDE DEF N
<1>7. \A n \in Nat : n \in N
  BY <1>5, <1>6, SetInduction
<1>8. Cardinality(D) \in N
  BY <1>1, <1>7
<1>9. \A s \in SUBSET D : Cardinality(s) <= Cardinality(D)
  BY FS_Subset
<1> HIDE DEF Value
<1>10. \E g \in [SUBSET D -> A] : \A s \in SUBSET D : g[s] = Value(g, s)
  BY <1>8, <1>9 DEF N
<1> QED BY <1>10 DEF Value, IsFold

-----------------------------------------------------------------------------
(* The ends of a set of places.                                            *)

LEMMA LastPlace ==
    ASSUME NEW L \in Nat, NEW s \in SUBSET (1..L), s # {}
    PROVE  Max(s) \in s /\ \A x \in s : Max(s) >= x
<1> DEFINE N == {n \in Nat : \A t \in SUBSET (1..n) :
                                 t # {} => \E m \in t : \A x \in t : m >= x}
<1>1. 0 \in N
  <2>1. 1..0 = {}
    OBVIOUS
  <2> QED BY <2>1
<1>2. ASSUME NEW n \in Nat, n \in N PROVE n + 1 \in N
  <2> SUFFICES ASSUME NEW t \in SUBSET (1..n + 1), t # {}
               PROVE  \E m \in t : \A x \in t : m >= x
    OBVIOUS
  <2>1. CASE n + 1 \in t
    <3>1. \A x \in t : n + 1 >= x
      OBVIOUS
    <3> QED BY <2>1, <3>1
  <2>2. CASE n + 1 \notin t
    <3>1. t \in SUBSET (1..n)
      BY <2>2
    <3> QED BY <1>2, <3>1
  <2> QED BY <2>1, <2>2
<1> HIDE DEF N
<1>3. L \in N
  BY <1>1, <1>2, SetInduction
<1>4. \E m \in s : \A x \in s : m >= x
  BY <1>3 DEF N
<1> QED BY <1>4 DEF Max

LEMMA FirstPlace ==
    ASSUME NEW L \in Nat, NEW s \in SUBSET (1..L), s # {}
    PROVE  Min(s) \in s /\ \A x \in s : Min(s) <= x
<1> DEFINE t == {L + 1 - x : x \in s}
<1>1. t \in SUBSET (1..L) /\ t # {}
  <2>1. \A x \in s : L + 1 - x \in 1..L
    OBVIOUS
  <2> QED BY <2>1
<1>2. Max(t) \in t /\ \A y \in t : Max(t) >= y
  <2> HIDE DEF t
  <2> QED BY <1>1, LastPlace
<1>3. PICK m \in s : Max(t) = L + 1 - m
  BY <1>2
<1>4. \A x \in s : L + 1 - x \in t
  OBVIOUS
<1>5. \A x \in s : L + 1 - m >= L + 1 - x
  BY <1>2, <1>3, <1>4
<1>6. \A x \in s : m <= x
  <2> TAKE x \in s
  <2>1. m \in Int /\ x \in Int
    OBVIOUS
  <2> QED BY <1>5, <2>1
<1> QED BY <1>6 DEF Min

LEMMA UpTo ==
    ASSUME NEW n \in Nat, n > 0
    PROVE  Max(1..n) = n /\ (1..n) \ {n} = 1..n - 1
<1>1. 1..n \in SUBSET (1..n) /\ 1..n # {}
  OBVIOUS
<1>2. Max(1..n) \in 1..n /\ \A x \in 1..n : Max(1..n) >= x
  BY <1>1, LastPlace
<1> QED BY <1>2

LEMMA FromOn ==
    ASSUME NEW L \in Nat, NEW n \in 1..L
    PROVE  Min(n..L) = n /\ (n..L) \ {n} = n + 1..L
<1>1. n..L \in SUBSET (1..L) /\ n..L # {}
  OBVIOUS
<1>2. Min(n..L) \in n..L /\ \A x \in n..L : Min(n..L) <= x
  BY <1>1, FirstPlace
<1> QED BY <1>2

\* What a fold holds after each item, from the left or from the right.
IsWalk(r, L, base, step) == r[0] = base /\ \A n \in 1..L : r[n] = step[n][r[n - 1]]

Steps(h, L, A, base, step) ==
    h[0] = base /\ \A n \in 1..L : h[n - 1] \in A => h[n] = step[n][h[n - 1]]

LEMMA WalkExists ==
    ASSUME NEW L \in Nat, NEW A, NEW base \in A, NEW step \in [1..L -> [A -> A]],
           NEW h, Steps(h, L, A, base, step)
    PROVE  \E r \in [0..L -> A] : r[L] = h[L] /\ IsWalk(r, L, base, step)
<1> DEFINE T == {n \in 0..L : h[n] \in A}
           r == [n \in 0..L |-> h[n]]
<1>1. 0 \in T
  BY DEF Steps
<1>2. ASSUME NEW n \in 1..L, n - 1 \in T PROVE n \in T
  <2>1. h[n - 1] \in A /\ n \in 0..L
    BY <1>2
  <2>2. h[n] \in A
    BY <2>1 DEF Steps
  <2> QED BY <2>1, <2>2
<1> HIDE DEF T
<1>3. \A n \in 0..L : n \in T
  BY <1>1, <1>2, SetInductionUpTo
<1>4. r \in [0..L -> A]
  BY <1>3 DEF T
<1>5. \A n \in 1..L : n \in 0..L /\ n - 1 \in 0..L /\ h[n - 1] \in A
  BY <1>3 DEF T
<1>6. 0 \in 0..L /\ L \in 0..L
  OBVIOUS
<1>7. r[L] = h[L] /\ IsWalk(r, L, base, step)
  BY <1>5, <1>6 DEF IsWalk, Steps
<1> HIDE DEF r
<1> QED BY <1>4, <1>7

\* A fold from the left walks up; fold is what MapThenFoldSet defines.
FoldsLeft(fold, L, A, base, step) ==
    /\ fold[{}] = base
    /\ \A s \in SUBSET (1..L) :
          s # {} /\ fold[s \ {Max(s)}] \in A => fold[s] = step[Max(s)][fold[s \ {Max(s)}]]

LEMMA LeftWalk ==
    ASSUME NEW L \in Nat, NEW A, NEW base \in A, NEW step \in [1..L -> [A -> A]],
           NEW fold, FoldsLeft(fold, L, A, base, step)
    PROVE  \E r \in [0..L -> A] : r[L] = fold[1..L] /\ IsWalk(r, L, base, step)
<1> DEFINE h == [n \in 0..L |-> fold[1..n]]
<1>1. h[0] = base /\ h[L] = fold[1..L]
  <2>1. 1..0 = {} /\ 0 \in 0..L /\ L \in 0..L
    OBVIOUS
  <2> QED BY <2>1 DEF FoldsLeft
<1>2. ASSUME NEW n \in 1..L, h[n - 1] \in A PROVE h[n] = step[n][h[n - 1]]
  <2>1. n \in Nat /\ n > 0 /\ n \in 0..L /\ n - 1 \in 0..L
    OBVIOUS
  <2>2. n \in 1..n /\ \A i \in 1..n : i \in 1..L
    BY <2>1
  <2>3. 1..n # {} /\ 1..n \in SUBSET (1..L)
    BY ONLY <2>2
  <2>4. Max(1..n) = n /\ (1..n) \ {n} = 1..n - 1
    BY <2>1, UpTo
  <2>5. h[n] = fold[1..n] /\ h[n - 1] = fold[1..n - 1]
    BY <2>1
  <2> HIDE DEF h
  <2>6. fold[1..n] = step[Max(1..n)][fold[(1..n) \ {Max(1..n)}]]
    BY <1>2, <2>3, <2>4, <2>5 DEF FoldsLeft
  <2> QED BY <2>4, <2>5, <2>6
<1>3. Steps(h, L, A, base, step)
  BY <1>1, <1>2 DEF Steps
<1> HIDE DEF h
<1> QED BY <1>1, <1>3, WalkExists

\* A fold from the right walks down.
FoldsRight(fold, L, A, base, step) ==
    /\ fold[{}] = base
    /\ \A s \in SUBSET (1..L) :
          s # {} /\ fold[s \ {Min(s)}] \in A => fold[s] = step[Min(s)][fold[s \ {Min(s)}]]

Downward(step, L) == [n \in 1..L |-> step[L + 1 - n]]

LEMMA RightWalk ==
    ASSUME NEW L \in Nat, NEW A, NEW base \in A, NEW step \in [1..L -> [A -> A]],
           NEW fold, FoldsRight(fold, L, A, base, step)
    PROVE  \E r \in [0..L -> A] :
              /\ r[L] = fold[1..L]
              /\ IsWalk(r, L, base, Downward(step, L))
<1> DEFINE h == [n \in 0..L |-> fold[L + 1 - n..L]]
           down == Downward(step, L)
<1>1. h[0] = base /\ h[L] = fold[1..L]
  <2>1. L + 1 - 0..L = {} /\ 0 \in 0..L /\ L \in 0..L /\ L + 1 - L = 1
    OBVIOUS
  <2> QED BY <2>1 DEF FoldsRight
<1>2. ASSUME NEW n \in 1..L, h[n - 1] \in A PROVE h[n] = down[n][h[n - 1]]
  <2> DEFINE i == L + 1 - n
  <2>1. /\ i \in 1..L /\ n \in 0..L /\ n - 1 \in 0..L /\ i + 1 = L + 1 - (n - 1)
    OBVIOUS
  <2>a. h[n] = fold[i..L] /\ h[n - 1] = fold[i + 1..L] /\ down[n] = step[i]
    BY <2>1 DEF Downward
  <2> HIDE DEF i, h, down
  <2>2. i \in i..L /\ \A j \in i..L : j \in 1..L
    BY <2>1
  <2>3. i..L # {} /\ i..L \in SUBSET (1..L)
    BY ONLY <2>2
  <2>4. Min(i..L) = i /\ (i..L) \ {i} = i + 1..L
    BY <2>1, FromOn
  <2>5. fold[i..L] = step[Min(i..L)][fold[(i..L) \ {Min(i..L)}]]
    BY <1>2, <2>a, <2>3, <2>4 DEF FoldsRight
  <2> QED BY <2>a, <2>4, <2>5
<1>3. down \in [1..L -> [A -> A]]
  BY DEF Downward
<1> HIDE DEF h, down
<1>a. Steps(h, L, A, base, down)
  BY <1>1, <1>2 DEF Steps
<1>4. \E r \in [0..L -> A] : r[L] = h[L] /\ IsWalk(r, L, base, down)
  BY <1>a, <1>3, WalkExists
<1> QED BY <1>1, <1>4 DEF down

-----------------------------------------------------------------------------
(* The folds of ListFolds, item after item.                                *)

LEMMA LeftFold ==
    ASSUME NEW L \in Nat, NEW A, NEW base \in A, NEW step \in [1..L -> [A -> A]]
    PROVE  \E g \in [SUBSET (1..L) -> A] :
              IsFold(g, 1..L, base, [s \in SUBSET (1..L) |-> Max(s)], step)
<1> DEFINE pick == [s \in SUBSET (1..L) |-> Max(s)]
           D == 1..L
<1>1. Picks(pick, D)
  BY LastPlace DEF Picks
<1>2. IsFiniteSet(D)
  BY FS_Interval
<1>3. step \in [D -> [A -> A]]
  OBVIOUS
<1> HIDE DEF pick, D
<1>4. \E g \in [SUBSET D -> A] : IsFold(g, D, base, pick, step)
  BY <1>1, <1>2, <1>3, FoldExists
<1> QED BY <1>4 DEF pick, D

LEMMA RightFold ==
    ASSUME NEW L \in Nat, NEW A, NEW base \in A, NEW step \in [1..L -> [A -> A]]
    PROVE  \E g \in [SUBSET (1..L) -> A] :
              IsFold(g, 1..L, base, [s \in SUBSET (1..L) |-> Min(s)], step)
<1> DEFINE pick == [s \in SUBSET (1..L) |-> Min(s)]
           D == 1..L
<1>1. Picks(pick, D)
  BY FirstPlace DEF Picks
<1>2. IsFiniteSet(D)
  BY FS_Interval
<1>3. step \in [D -> [A -> A]]
  OBVIOUS
<1> HIDE DEF pick, D
<1>4. \E g \in [SUBSET D -> A] : IsFold(g, D, base, pick, step)
  BY <1>1, <1>2, <1>3, FoldExists
<1> QED BY <1>4 DEF pick, D

\* What has been taken after each item.
Taking(r, S, list, some) ==
    /\ r \in [0..Len(list) -> Seq(S)] /\ r[0] = <<>>
    /\ \A n \in 1..Len(list) :
           r[n] = IF list[n] \in some THEN Append(r[n - 1], list[n]) ELSE r[n - 1]

LEMMA OnlyUnfolds ==
    ASSUME NEW S, NEW list \in Seq(S), NEW some
    PROVE  \E r : Taking(r, S, list, some) /\ Only(list, some) = r[Len(list)]
<1> DEFINE L == Len(list)
           A == Seq(S)
           Op(kept, x) == IF x \in some THEN Append(kept, x) ELSE kept
           F(it) == [s \in SUBSET (1..L) |->
                        IF s = {} THEN <<>> ELSE Op(it[s \ {Max(s)}], list[Max(s)])]
           step == [i \in 1..L |-> [kept \in A |-> Op(kept, list[i])]]
<1>1. DOMAIN list = 1..L /\ L \in Nat /\ <<>> \in A
  OBVIOUS
<1>2. \A i \in 1..L, kept \in A : Op(kept, list[i]) \in A
  OBVIOUS
<1>3. Only(list, some) = (CHOOSE it : it = F(it))[1..L]
  BY <1>1 DEF Only, FoldLeft, MapThenFoldSet
<1> HIDE DEF L, A, Op
<1>4. step \in [1..L -> [A -> A]]
  BY <1>2
<1>5. PICK g \in [SUBSET (1..L) -> A] :
          IsFold(g, 1..L, <<>>, [s \in SUBSET (1..L) |-> Max(s)], step)
  <2> HIDE DEF step
  <2> QED BY <1>1, <1>4, LeftFold
<1>6. g = F(g)
  <2>1. ASSUME NEW s \in SUBSET (1..L), s # {}
        PROVE  g[s] = Op(g[s \ {Max(s)}], list[Max(s)])
    <3>1. Max(s) \in 1..L /\ g[s \ {Max(s)}] \in A
      BY <1>1, <2>1, LastPlace
    <3>2. g[s] = step[Max(s)][g[s \ {Max(s)}]]
      BY <1>5, <2>1 DEF IsFold
    <3> QED BY <3>1, <3>2
  <2>2. \A s \in SUBSET (1..L) : g[s] = IF s = {} THEN <<>> ELSE Op(g[s \ {Max(s)}], list[Max(s)])
    BY <1>5, <2>1 DEF IsFold
  <2> QED BY <2>2
<1> DEFINE h == CHOOSE it : it = F(it)
<1>7. h = F(h)
  <2> HIDE DEF F
  <2> QED BY <1>6
<1>8. h[{}] = <<>>
  BY <1>7
<1>9. ASSUME NEW s \in SUBSET (1..L), s # {}, h[s \ {Max(s)}] \in A
      PROVE  h[s] = step[Max(s)][h[s \ {Max(s)}]]
  <2>1. Max(s) \in 1..L
    BY <1>1, <1>9, LastPlace
  <2>2. h[s] = Op(h[s \ {Max(s)}], list[Max(s)])
    BY <1>7, <1>9
  <2> QED BY <1>9, <2>1, <2>2
<1>10. \A n \in 1..L, kept \in A : step[n][kept] = Op(kept, list[n])
  OBVIOUS
<1> HIDE DEF h, step
<1>a. FoldsLeft(h, L, A, <<>>, step)
  BY <1>8, <1>9 DEF FoldsLeft
<1>11. PICK r \in [0..L -> A] : r[L] = h[1..L] /\ IsWalk(r, L, <<>>, step)
  BY <1>1, <1>4, <1>a, LeftWalk
<1>12. \A n \in 1..L : r[n - 1] \in A
  BY <1>1
<1>13. \A n \in 1..L : r[n] = Op(r[n - 1], list[n])
  BY <1>10, <1>11, <1>12 DEF IsWalk
<1>14. r[0] = <<>> /\ r[L] = Only(list, some)
  BY <1>3, <1>11 DEF IsWalk, h
<1> QED BY <1>13, <1>14 DEF L, A, Op, Taking

\* The running sum of a list of sizes.
Sums(p, sizes) ==
    /\ p \in [0..Len(sizes) -> Int] /\ p[0] = 0
    /\ \A n \in 1..Len(sizes) : p[n] = p[n - 1] + sizes[n]

LEMMA TotalUnfolds ==
    ASSUME NEW sizes \in Seq(Int)
    PROVE  \E p : Sums(p, sizes) /\ Total(sizes) = p[Len(sizes)]
<1> DEFINE L == Len(sizes)
           A == Int
           F(it) == [s \in SUBSET (1..L) |->
                        IF s = {} THEN 0 ELSE it[s \ {Max(s)}] + sizes[Max(s)]]
           step == [i \in 1..L |-> [sum \in A |-> sum + sizes[i]]]
<1>1. DOMAIN sizes = 1..L /\ L \in Nat /\ 0 \in A
  OBVIOUS
<1>a. \A i \in 1..L, sum \in A : sum + sizes[i] \in A
  OBVIOUS
<1>2. Total(sizes) = (CHOOSE it : it = F(it))[1..L]
  BY <1>1 DEF Total, FoldLeft, MapThenFoldSet
<1> HIDE DEF L, A
<1>3. step \in [1..L -> [A -> A]]
  BY <1>a
<1>4. PICK g \in [SUBSET (1..L) -> A] :
          IsFold(g, 1..L, 0, [s \in SUBSET (1..L) |-> Max(s)], step)
  <2> HIDE DEF step
  <2> QED BY <1>1, <1>3, LeftFold
<1>5. g = F(g)
  <2>1. ASSUME NEW s \in SUBSET (1..L), s # {}
        PROVE  g[s] = g[s \ {Max(s)}] + sizes[Max(s)]
    <3>1. Max(s) \in 1..L /\ g[s \ {Max(s)}] \in A
      BY <1>1, <2>1, LastPlace
    <3>2. g[s] = step[Max(s)][g[s \ {Max(s)}]]
      BY <1>4, <2>1 DEF IsFold
    <3> QED BY <3>1, <3>2
  <2>2. \A s \in SUBSET (1..L) : g[s] = IF s = {} THEN 0 ELSE g[s \ {Max(s)}] + sizes[Max(s)]
    BY <1>4, <2>1 DEF IsFold
  <2> QED BY <2>2
<1> DEFINE h == CHOOSE it : it = F(it)
<1>6. h = F(h)
  <2> HIDE DEF F
  <2> QED BY <1>5
<1>7. h[{}] = 0
  BY <1>6
<1>8. ASSUME NEW s \in SUBSET (1..L), s # {}, h[s \ {Max(s)}] \in A
      PROVE  h[s] = step[Max(s)][h[s \ {Max(s)}]]
  <2>1. Max(s) \in 1..L
    BY <1>1, <1>8, LastPlace
  <2>2. h[s] = h[s \ {Max(s)}] + sizes[Max(s)]
    BY <1>6, <1>8
  <2> QED BY <1>8, <2>1, <2>2
<1>9. \A n \in 1..L, sum \in A : step[n][sum] = sum + sizes[n]
  OBVIOUS
<1> HIDE DEF h, step
<1>10. FoldsLeft(h, L, A, 0, step)
  BY <1>7, <1>8 DEF FoldsLeft
<1>11. PICK r \in [0..L -> A] : r[L] = h[1..L] /\ IsWalk(r, L, 0, step)
  BY <1>1, <1>3, <1>10, LeftWalk
<1>12. \A n \in 1..L : r[n - 1] \in A
  BY <1>1
<1>13. \A n \in 1..L : r[n] = r[n - 1] + sizes[n]
  BY <1>9, <1>11, <1>12 DEF IsWalk
<1>14. r[0] = 0 /\ r[L] = Total(sizes)
  BY <1>2, <1>11 DEF IsWalk, h
<1> QED BY <1>13, <1>14 DEF L, A, Sums

-----------------------------------------------------------------------------
(* What follows of Total and Only.                                         *)

LEMMA TotalType == ASSUME NEW sizes \in Seq(Int) PROVE Total(sizes) \in Int
<1>1. PICK p : Sums(p, sizes) /\ Total(sizes) = p[Len(sizes)]
  BY TotalUnfolds
<1>2. Len(sizes) \in 0..Len(sizes)
  OBVIOUS
<1> QED BY <1>1, <1>2 DEF Sums

\* The total of a part of a list is the difference of two sums.
LEMMA TotalOfPart ==
    ASSUME NEW sizes \in Seq(Int), NEW p, Sums(p, sizes),
           NEW i \in Nat, NEW j \in Nat, i <= j, j <= Len(sizes)
    PROVE  Total(SubSeq(sizes, i + 1, j)) = p[j] - p[i]
<1> DEFINE part == SubSeq(sizes, i + 1, j)
           m == j - i
<1>1. /\ m \in Nat /\ part \in Seq(Int) /\ Len(part) = m
      /\ \A n \in 1..m : part[n] = sizes[i + n] /\ i + n \in 1..Len(sizes)
  OBVIOUS
<1> HIDE DEF part
<1>b. PICK r : Sums(r, part) /\ Total(part) = r[Len(part)]
  BY <1>1, TotalUnfolds
<1>2. /\ r \in [0..m -> Int] /\ r[0] = 0 /\ Total(part) = r[m]
      /\ \A n \in 1..m : r[n] = r[n - 1] + part[n]
  BY <1>1, <1>b DEF Sums
<1> DEFINE T == {n \in Nat : n <= m => r[n] = p[i + n] - p[i]}
<1>a. p \in [0..Len(sizes) -> Int]
  BY DEF Sums
<1>3. 0 \in T
  <2>1. i \in 0..Len(sizes) /\ i + 0 = i
    OBVIOUS
  <2>2. p[i] \in Int
    BY <1>a, <2>1
  <2>3. r[0] = p[i + 0] - p[i]
    BY <1>2, <2>1, <2>2
  <2> QED BY <2>3
<1>4. ASSUME NEW n \in 1..m, n - 1 \in T PROVE n \in T
  <2>1. r[n - 1] = p[i + (n - 1)] - p[i] /\ n \in Nat
    BY <1>1, <1>4
  <2>2. r[n] = r[n - 1] + sizes[i + n] /\ i + n \in 1..Len(sizes)
    BY <1>1, <1>2
  <2>3. p[i + n] = p[(i + n) - 1] + sizes[i + n]
    BY <2>2 DEF Sums
  <2>4. (i + n) - 1 = i + (n - 1) /\ sizes[i + n] \in Int
    BY <2>2
  <2>5. i + (n - 1) \in 0..Len(sizes) /\ i \in 0..Len(sizes)
    BY <1>1
  <2>6. p[i + (n - 1)] \in Int /\ p[i] \in Int
    BY <1>a, <2>5
  <2>7. r[n] = p[i + n] - p[i]
    BY <2>1, <2>2, <2>3, <2>4, <2>6
  <2> QED BY <2>1, <2>7
<1> HIDE DEF T
<1>5. \A n \in 0..m : n \in T
  BY <1>1, <1>3, <1>4, SetInductionUpTo
<1>6. m \in 0..m /\ i + m = j
  BY <1>1
<1>7. r[m] = p[j] - p[i]
  BY <1>5, <1>6 DEF T
<1> QED BY <1>2, <1>7 DEF part

LEMMA ToSetOfAppend ==
    ASSUME NEW S, NEW s \in Seq(S), NEW x \in S
    PROVE  ToSet(Append(s, x)) = ToSet(s) \cup {x}
<1> DEFINE t == Append(s, x)
           n == Len(s)
<1>1. n \in Nat /\ DOMAIN s = 1..n /\ DOMAIN t = 1..n + 1 /\ t[n + 1] = x
  OBVIOUS
<1>2. \A i \in 1..n : t[i] = s[i]
  OBVIOUS
<1> HIDE DEF t, n
<1>3. 1..n + 1 = (1..n) \cup {n + 1}
  BY <1>1
<1> HIDE DEF t
<1>4. ToSet(t) = ToSet(s) \cup {x}
  BY <1>1, <1>2, <1>3 DEF ToSet
<1> QED BY <1>4 DEF t

\* Only takes items of the list, and all of those asked for.
LEMMA OnlyType ==
    ASSUME NEW S, NEW list \in Seq(S), NEW some
    PROVE  /\ Only(list, some) \in Seq(S) /\ Len(Only(list, some)) <= Len(list)
           /\ ToSet(Only(list, some)) = ToSet(list) \cap some
<1> DEFINE L == Len(list)
           Part(n) == {list[i] : i \in 1..n} \cap some
<1>1. PICK r : Taking(r, S, list, some) /\ Only(list, some) = r[L]
  BY OnlyUnfolds
<1> DEFINE T == {n \in Nat : n <= L => Len(r[n]) <= n /\ ToSet(r[n]) = Part(n)}
<1>2. L \in Nat /\ DOMAIN list = 1..L
  OBVIOUS
<1>a. r \in [0..L -> Seq(S)] /\ r[0] = <<>>
  BY <1>1 DEF Taking
<1>3. 0 \in T
  BY <1>a DEF ToSet
<1>4. ASSUME NEW n \in 1..L, n - 1 \in T PROVE n \in T
  <2>1. n - 1 \in Nat /\ n \in Nat /\ n - 1 <= L /\ n - 1 \in 0..L
    BY <1>2
  <2>2. Len(r[n - 1]) <= n - 1 /\ ToSet(r[n - 1]) = Part(n - 1)
    BY <1>4, <2>1
  <2>3. 1..n = (1..n - 1) \cup {n}
    BY <2>1
  <2>a. Part(n) = Part(n - 1) \cup ({list[n]} \cap some)
    BY <2>3
  <2> HIDE DEF Part
  <2>b. r[n - 1] \in Seq(S) /\ list[n] \in S
    BY <1>a, <2>1
  <2>c. r[n] = IF list[n] \in some THEN Append(r[n - 1], list[n]) ELSE r[n - 1]
    BY <1>1 DEF Taking
  <2>4. CASE list[n] \in some
    <3>1. ToSet(r[n]) = ToSet(r[n - 1]) \cup {list[n]}
      BY <2>b, <2>c, <2>4, ToSetOfAppend
    <3>2. Len(r[n]) = Len(r[n - 1]) + 1 /\ Len(r[n - 1]) \in Nat
      BY <2>b, <2>c, <2>4
    <3>3. ToSet(r[n]) = Part(n)
      BY <2>2, <2>a, <2>4, <3>1
    <3>4. Len(r[n]) <= n
      BY <2>1, <2>2, <3>2
    <3> QED BY <2>1, <3>3, <3>4
  <2>5. CASE list[n] \notin some
    <3>1. r[n] = r[n - 1] /\ Len(r[n - 1]) \in Nat
      BY <2>b, <2>c, <2>5
    <3>2. ToSet(r[n]) = Part(n)
      BY <2>2, <2>a, <2>5, <3>1
    <3> QED BY <2>1, <2>2, <3>1, <3>2
  <2> QED BY <2>4, <2>5
<1> HIDE DEF T
<1>5. \A n \in 0..L : n \in T
  BY <1>2, <1>3, <1>4, SetInductionUpTo
<1>6. Len(r[L]) <= L /\ ToSet(r[L]) = Part(L)
  <2>1. L \in 0..L /\ L <= L
    BY <1>2
  <2> HIDE DEF L, Part
  <2> QED BY <1>5, <2>1 DEF T
<1>7. ToSet(list) = {list[i] : i \in 1..L}
  BY <1>2 DEF ToSet
<1>8. r[L] \in Seq(S)
  BY <1>2, <1>a
<1> QED BY <1>1, <1>6, <1>7, <1>8

-----------------------------------------------------------------------------
(* Parts of a list.                                                        *)

LEMMA PartPrefixed ==
    ASSUME NEW S, NEW s \in Seq(S), NEW i \in 1..Len(s)
    PROVE  <<s[i]>> \o SubSeq(s, i + 1, Len(s)) = SubSeq(s, i, Len(s))
<1> DEFINE L == Len(s)
           rest == SubSeq(s, i + 1, L)
           part == SubSeq(s, i, L)
<1>1. L \in Nat /\ i \in Nat /\ s[i] \in S
  OBVIOUS
<1>2. rest \in Seq(S) /\ Len(rest) = L - i /\ \A j \in 1..L - i : rest[j] = s[i + j]
  BY <1>1
<1>3. part \in Seq(S) /\ Len(part) = L - i + 1 /\ \A j \in 1..L - i + 1 : part[j] = s[i + j - 1]
  BY <1>1
<1> HIDE DEF rest, part
<1> DEFINE u == <<s[i]>> \o rest
<1>4. /\ u \in Seq(S) /\ Len(u) = L - i + 1 /\ u[1] = s[i]
      /\ \A j \in 2..L - i + 1 : u[j] = rest[j - 1]
  BY <1>1, <1>2
<1> HIDE DEF u
<1>5. \A j \in 1..L - i + 1 : u[j] = part[j]
  <2> TAKE j \in 1..L - i + 1
  <2>1. CASE j = 1
    BY <1>1, <1>3, <1>4, <2>1
  <2>2. CASE j # 1
    <3>1. j \in 2..L - i + 1 /\ j - 1 \in 1..L - i /\ i + (j - 1) = i + j - 1
      BY <1>1, <2>2
    <3> QED BY <1>2, <1>3, <1>4, <3>1
  <2> QED BY <2>1, <2>2
<1> HIDE DEF L
<1>6. u = part
  BY <1>3, <1>4, <1>5
<1> QED BY <1>6 DEF u, rest, part, L

LEMMA PartIsSuffix ==
    ASSUME NEW S, NEW s \in Seq(S), NEW i \in 0..Len(s)
    PROVE  IsSuffix(SubSeq(s, i + 1, Len(s)), s) /\ Len(SubSeq(s, i + 1, Len(s))) = Len(s) - i
<1> DEFINE L == Len(s)
           part == SubSeq(s, i + 1, L)
           m == L - i
<1>1. L \in Nat /\ i \in Nat /\ m \in Nat /\ m <= L
  OBVIOUS
<1>2. part \in Seq(S) /\ Len(part) = m /\ \A j \in 1..m : part[j] = s[i + j]
  BY <1>1
<1>3. s = [j \in 1..L |-> s[j]] /\ \A j \in 1..L : s[j] \in S
  BY <1>1
<1> HIDE DEF part
<1>4. Reverse(part) \in Seq(S) /\ Len(Reverse(part)) = m
      /\ \A j \in 1..m : Reverse(part)[j] = s[i + (m - j + 1)]
  <2>1. \A j \in 1..m : m - j + 1 \in 1..m
    BY <1>1
  <2>a. \A w \in 1..m : part[w] = s[i + w] /\ part[w] \in S
    <3> TAKE w \in 1..m
    <3>1. i + w \in 1..L
      BY <1>1
    <3> QED BY <1>2, <1>3, <3>1
  <2>2. \A j \in 1..m : part[m - j + 1] = s[i + (m - j + 1)] /\ part[m - j + 1] \in S
    <3> TAKE j \in 1..m
    <3> DEFINE w == m - j + 1
    <3>1. w \in 1..m
      BY <2>1
    <3> HIDE DEF w
    <3>2. part[w] = s[i + w] /\ part[w] \in S
      BY <2>a, <3>1
    <3> QED BY <3>2 DEF w
  <2> HIDE DEF m
  <2> QED BY <1>1, <1>2, <2>2 DEF Reverse
<1>5. Reverse(s) \in Seq(S) /\ Len(Reverse(s)) = L
      /\ \A j \in 1..L : Reverse(s)[j] = s[L - j + 1]
  <2>1. \A j \in 1..L : L - j + 1 \in 1..L
    BY <1>1
  <2> HIDE DEF L
  <2> QED BY <1>1, <1>3, <2>1 DEF Reverse, L
<1>6. \A j \in 1..m : i + (m - j + 1) = L - j + 1 /\ j \in 1..L
  BY <1>1
<1>7. \A j \in 1..m : Reverse(part)[j] = Reverse(s)[j]
  BY <1>4, <1>5, <1>6
<1> DEFINE a == Reverse(part)
           b == Reverse(s)
<1> HIDE DEF a, b, L, m
<1>8. SubSeq(a, 1, m) = SubSeq(b, 1, m)
  <2>1. a \in Seq(S) /\ b \in Seq(S) /\ Len(a) = m /\ Len(b) = L /\ \A j \in 1..m : a[j] = b[j]
    BY <1>4, <1>5, <1>7 DEF a, b
  <2>2. SubSeq(a, 1, m) = [j \in 1..m |-> a[j]]
    BY <1>1, <2>1
  <2>3. SubSeq(b, 1, m) = [j \in 1..m |-> b[j]]
    BY <1>1, <2>1
  <2> QED BY <2>1, <2>2, <2>3
<1>9. IsPrefix(a, b)
  BY <1>1, <1>4, <1>5, <1>8 DEF IsPrefix, a, b
<1> QED BY <1>2, <1>9 DEF IsSuffix, part, L, m, a, b

LEMMA PartAppended ==
    ASSUME NEW S, NEW s \in Seq(S), NEW n \in 1..Len(s)
    PROVE  Append(SubSeq(s, 1, n - 1), s[n]) = SubSeq(s, 1, n)
<1> DEFINE a == SubSeq(s, 1, n - 1)
           b == SubSeq(s, 1, n)
           u == Append(a, s[n])
<1>1. Len(s) \in Nat /\ n \in Nat /\ n - 1 \in Nat /\ s[n] \in S
  OBVIOUS
<1>2. a \in Seq(S) /\ Len(a) = n - 1 /\ \A j \in 1..n - 1 : a[j] = s[j]
  BY <1>1
<1>3. b \in Seq(S) /\ Len(b) = n /\ \A j \in 1..n : b[j] = s[j]
  BY <1>1
<1> HIDE DEF a, b
<1>4. u \in Seq(S) /\ Len(u) = n /\ u[n] = s[n] /\ \A j \in 1..n - 1 : u[j] = a[j]
  BY <1>1, <1>2
<1> HIDE DEF u
<1>5. \A j \in 1..n : u[j] = b[j]
  <2> TAKE j \in 1..n
  <2>1. j = n \/ j \in 1..n - 1
    BY <1>1
  <2> QED BY <1>2, <1>3, <1>4, <2>1
<1>6. u = b
  BY <1>1, <1>3, <1>4, <1>5
<1> QED BY <1>6 DEF u, a, b

\* Who asks for all items gets the list.
LEMMA OnlyAll ==
    ASSUME NEW S, NEW list \in Seq(S), NEW some, ToSet(list) \subseteq some
    PROVE  Only(list, some) = list
<1> DEFINE L == Len(list)
<1>1. PICK r : Taking(r, S, list, some) /\ Only(list, some) = r[L]
  BY OnlyUnfolds
<1> DEFINE T == {n \in Nat : n <= L => r[n] = SubSeq(list, 1, n)}
<1>2. L \in Nat /\ DOMAIN list = 1..L /\ \A n \in 1..L : list[n] \in some
  BY DEF ToSet
<1>3. 0 \in T
  <2>1. SubSeq(list, 1, 0) = <<>>
    OBVIOUS
  <2> QED BY <1>1, <2>1 DEF Taking
<1>4. ASSUME NEW n \in 1..L, n - 1 \in T PROVE n \in T
  <2>1. n \in Nat /\ r[n - 1] = SubSeq(list, 1, n - 1)
    BY <1>2, <1>4
  <2>2. r[n] = Append(r[n - 1], list[n])
    BY <1>1, <1>2 DEF Taking
  <2>3. r[n] = SubSeq(list, 1, n)
    BY <2>1, <2>2, PartAppended
  <2> QED BY <2>1, <2>3
<1> HIDE DEF T
<1>5. \A n \in 0..L : n \in T
  BY <1>2, <1>3, <1>4, SetInductionUpTo
<1>6. r[L] = SubSeq(list, 1, L)
  <2>1. L \in 0..L /\ L <= L
    BY <1>2
  <2> HIDE DEF L
  <2> QED BY <1>5, <2>1 DEF T
<1>7. SubSeq(list, 1, L) = list
  OBVIOUS
<1> QED BY <1>1, <1>6, <1>7

\* Who asks for none of them gets nothing.
LEMMA OnlyNone ==
    ASSUME NEW S, NEW list \in Seq(S), NEW some, ToSet(list) \cap some = {}
    PROVE  Only(list, some) = <<>>
<1> DEFINE kept == Only(list, some)
<1>1. kept \in Seq(S) /\ ToSet(kept) = {}
  BY OnlyType
<1> HIDE DEF kept
<1>2. Len(kept) \in Nat /\ DOMAIN kept = 1..Len(kept)
  BY <1>1
<1>3. Len(kept) = 0
  <2> SUFFICES ASSUME Len(kept) # 0 PROVE FALSE
    OBVIOUS
  <2>1. kept[1] \in ToSet(kept)
    BY <1>2 DEF ToSet
  <2> QED BY <1>1, <2>1
<1>4. kept = <<>>
  BY <1>1, <1>3, EmptySeq
<1> QED BY <1>4 DEF kept

AppendsToSecond(a, b, x) == Append(a \o b, x) = a \o Append(b, x)

LEMMA AppendJoined ==
    ASSUME NEW S, NEW a \in Seq(S), NEW b \in Seq(S), NEW x \in S
    PROVE  AppendsToSecond(a, b, x)
<1> DEFINE u == Append(a \o b, x)
           v == a \o Append(b, x)
           c == a \o b
           d == Append(b, x)
           m == Len(a)
           n == Len(b)
<1>1. m \in Nat /\ n \in Nat
  OBVIOUS
<1>2. /\ c \in Seq(S) /\ Len(c) = m + n
      /\ \A i \in 1..m + n : c[i] = IF i <= m THEN a[i] ELSE b[i - m]
  BY <1>1
<1>3. d \in Seq(S) /\ Len(d) = n + 1 /\ \A i \in 1..n + 1 : d[i] = IF i = n + 1 THEN x ELSE b[i]
  BY <1>1
<1> HIDE DEF c, d
<1>4. /\ u \in Seq(S) /\ Len(u) = m + n + 1
      /\ \A i \in 1..m + n + 1 : u[i] = IF i = m + n + 1 THEN x ELSE c[i]
  <2>1. u = Append(c, x)
    BY DEF c
  <2> HIDE DEF u
  <2> QED BY <1>1, <1>2, <2>1
<1>5. /\ v \in Seq(S) /\ Len(v) = m + n + 1
      /\ \A i \in 1..m + n + 1 : v[i] = IF i <= m THEN a[i] ELSE d[i - m]
  <2>1. v = a \o d
    BY DEF d
  <2>2. a \in Seq(S) /\ Len(a) = m
    OBVIOUS
  <2> HIDE DEF v, m, n
  <2>3. /\ v \in Seq(S) /\ Len(v) = m + (n + 1)
        /\ \A i \in 1..m + (n + 1) : v[i] = IF i <= m THEN a[i] ELSE d[i - m]
    BY <1>3, <2>1, <2>2, ConcatProperties
  <2> QED BY <1>1, <2>3
<1> HIDE DEF u, v, m, n
<1>6. \A i \in 1..m + n + 1 : u[i] = v[i]
  <2> TAKE i \in 1..m + n + 1
  <2>1. CASE i <= m
    BY <1>1, <1>2, <1>4, <1>5, <2>1
  <2>2. CASE i = m + n + 1
    <3>1. i - m = n + 1 /\ ~ (i <= m)
      BY <1>1, <2>2
    <3>2. v[i] = d[n + 1] /\ d[n + 1] = x
      BY <1>1, <1>3, <1>5, <3>1
    <3> QED BY <1>4, <2>2, <3>2
  <2>3. CASE m < i /\ i < m + n + 1
    <3>1. i - m \in 1..n + 1 /\ i - m # n + 1 /\ ~ (i <= m) /\ i \in 1..m + n
      BY <1>1, <2>3
    <3>2. v[i] = d[i - m] /\ d[i - m] = b[i - m]
      BY <1>3, <1>5, <3>1
    <3>3. u[i] = c[i] /\ c[i] = b[i - m]
      BY <1>2, <1>4, <2>3, <3>1
    <3> QED BY <3>2, <3>3
  <2> QED BY <1>1, <2>1, <2>2, <2>3
<1>7. u = v
  BY <1>1, <1>4, <1>5, <1>6
<1> QED BY <1>7 DEF u, v, AppendsToSecond

\* What is taken of two lists is taken of one and then of the other.
LEMMA OnlyJoined ==
    ASSUME NEW S, NEW s \in Seq(S), NEW t \in Seq(S), NEW some
    PROVE  Only(s \o t, some) = Only(s, some) \o Only(t, some)
<1> DEFINE u == s \o t
           m == Len(s)
           L == Len(t)
<1>1. /\ m \in Nat /\ L \in Nat /\ u \in Seq(S) /\ Len(u) = m + L
      /\ \A i \in 1..m : u[i] = s[i]
      /\ \A i \in 1..L : u[m + i] = t[i] /\ t[i] \in S
  OBVIOUS
<1> HIDE DEF u
<1>2. PICK r : Taking(r, S, u, some) /\ Only(u, some) = r[m + L]
  <2>1. PICK r : Taking(r, S, u, some) /\ Only(u, some) = r[Len(u)]
    BY ONLY <1>1, OnlyUnfolds
  <2> QED BY ONLY <1>1, <2>1
<1>3. PICK p : Taking(p, S, s, some) /\ Only(s, some) = p[m]
  BY OnlyUnfolds
<1>4. PICK q : Taking(q, S, t, some) /\ Only(t, some) = q[L]
  BY OnlyUnfolds
<1> HIDE DEF m, L
<1>5. /\ r[0] = <<>> /\ p[0] = <<>> /\ q[0] = <<>>
      /\ p \in [0..m -> Seq(S)] /\ q \in [0..L -> Seq(S)]
  BY <1>2, <1>3, <1>4 DEF Taking, m, L
<1>6. /\ \A n \in 1..m + L : r[n] = IF u[n] \in some THEN Append(r[n - 1], u[n]) ELSE r[n - 1]
      /\ \A n \in 1..m : p[n] = IF s[n] \in some THEN Append(p[n - 1], s[n]) ELSE p[n - 1]
      /\ \A n \in 1..L : q[n] = IF t[n] \in some THEN Append(q[n - 1], t[n]) ELSE q[n - 1]
  BY <1>1, <1>2, <1>3, <1>4 DEF Taking, m, L
<1> DEFINE T == {n \in Nat : n <= m => r[n] = p[n]}
<1>7. \A n \in 0..m : n \in T
  <2>1. 0 \in T
    BY <1>5
  <2>2. ASSUME NEW n \in 1..m, n - 1 \in T PROVE n \in T
    <3>1. r[n - 1] = p[n - 1] /\ n \in 1..m + L /\ n \in Nat
      BY <1>1, <2>2
    <3> QED BY <1>1, <1>6, <3>1
  <2> HIDE DEF T
  <2> QED BY <1>1, <2>1, <2>2, SetInductionUpTo
<1>8. r[m] = p[m] /\ p[m] \in Seq(S)
  <2>1. m \in 0..m
    BY <1>1
  <2> QED BY <1>1, <1>5, <1>7, <2>1
<1> DEFINE U == {n \in Nat : n <= L => r[m + n] = p[m] \o q[n]}
<1>9. \A n \in 0..L : n \in U
  <2>1. 0 \in U
    <3>1. p[m] \o <<>> = p[m]
      BY <1>8
    <3>2. r[m + 0] = p[m] \o q[0]
      BY <1>1, <1>5, <1>8, <3>1
    <3> QED BY <3>2
  <2>2. ASSUME NEW n \in 1..L, n - 1 \in U PROVE n \in U
    <3>1. n \in Nat /\ n - 1 \in 0..L /\ m + n \in 1..m + L /\ (m + n) - 1 = m + (n - 1)
      BY <1>1
    <3>a. q[n - 1] \in Seq(S)
      BY <1>5, <3>1
    <3>b. n - 1 <= L
      BY <1>1
    <3>2. r[m + (n - 1)] = p[m] \o q[n - 1] /\ q[n - 1] \in Seq(S)
      BY <2>2, <3>a, <3>b
    <3>3. r[m + n] = IF t[n] \in some THEN Append(r[m + (n - 1)], t[n]) ELSE r[m + (n - 1)]
      BY <1>1, <1>6, <3>1
    <3>4. t[n] \in S
      BY <1>1
    <3>5. Append(p[m] \o q[n - 1], t[n]) = p[m] \o Append(q[n - 1], t[n])
      <4>1. AppendsToSecond(p[m], q[n - 1], t[n])
        BY <1>8, <3>a, <3>4, AppendJoined
      <4> QED BY <4>1 DEF AppendsToSecond
    <3>6. r[m + n] = p[m] \o q[n]
      BY <1>6, <3>2, <3>3, <3>5
    <3> QED BY <3>1, <3>6
  <2> HIDE DEF U
  <2> QED BY <1>1, <2>1, <2>2, SetInductionUpTo
<1>10. r[m + L] = p[m] \o q[L]
  <2>1. L \in 0..L /\ L <= L
    BY <1>1
  <2>2. L \in U
    BY <1>9, <2>1
  <2> QED BY <2>1, <2>2
<1> QED BY <1>2, <1>3, <1>4, <1>10 DEF u

\* Of a list without repetitions it takes each item asked for once.
LEMMA OnlyLength ==
    ASSUME NEW S, NEW list \in Seq(S), IsInjective(list), NEW some
    PROVE  /\ IsFiniteSet(ToSet(list) \cap some)
           /\ Len(Only(list, some)) = Cardinality(ToSet(list) \cap some)
<1> DEFINE L == Len(list)
           Part(n) == {list[i] : i \in 1..n} \cap some
<1>1. PICK r : Taking(r, S, list, some) /\ Only(list, some) = r[L]
  BY OnlyUnfolds
<1> DEFINE T == {n \in Nat : n <= L =>
                     /\ IsFiniteSet(Part(n)) /\ Len(r[n]) = Cardinality(Part(n))}
<1>2. L \in Nat /\ DOMAIN list = 1..L /\ r \in [0..L -> Seq(S)] /\ r[0] = <<>>
  BY <1>1 DEF Taking
<1>3. 0 \in T
  <2>1. Part(0) = {} /\ Len(r[0]) = 0
    BY <1>2
  <2> HIDE DEF Part
  <2> QED BY <2>1, FS_EmptySet
<1>4. ASSUME NEW n \in 1..L, n - 1 \in T PROVE n \in T
  <2>1. n - 1 \in Nat /\ n \in Nat /\ n - 1 <= L /\ n - 1 \in 0..L
    BY <1>2
  <2>2. IsFiniteSet(Part(n - 1)) /\ Len(r[n - 1]) = Cardinality(Part(n - 1))
    BY <1>4, <2>1
  <2>3. 1..n = (1..n - 1) \cup {n} /\ n \notin 1..n - 1
    BY <2>1
  <2>4. Part(n) = Part(n - 1) \cup ({list[n]} \cap some)
    BY <2>3
  <2>5. list[n] \notin Part(n - 1)
    BY <1>2, <2>3 DEF IsInjective
  <2> HIDE DEF Part
  <2>6. r[n - 1] \in Seq(S) /\ list[n] \in S
    BY <1>2, <2>1
  <2>7. r[n] = IF list[n] \in some THEN Append(r[n - 1], list[n]) ELSE r[n - 1]
    BY <1>1 DEF Taking
  <2>8. CASE list[n] \in some
    <3>1. Part(n) = Part(n - 1) \cup {list[n]}
      BY <2>4, <2>8
    <3>2. IsFiniteSet(Part(n)) /\ Cardinality(Part(n)) = Cardinality(Part(n - 1)) + 1
      <4> DEFINE a == Part(n - 1)
                 x == list[n]
      <4>1. IsFiniteSet(a) /\ x \notin a /\ Part(n) = a \cup {x}
        BY <2>2, <2>5, <3>1
      <4> HIDE DEF a, x
      <4>2. IsFiniteSet(a \cup {x}) /\ Cardinality(a \cup {x}) = Cardinality(a) + 1
        BY <4>1, FS_AddElement
      <4> QED BY <4>1, <4>2 DEF a
    <3>3. Len(r[n]) = Len(r[n - 1]) + 1
      BY <2>6, <2>7, <2>8
    <3> QED BY <2>1, <2>2, <3>2, <3>3
  <2>9. CASE list[n] \notin some
    BY <2>1, <2>2, <2>4, <2>7, <2>9
  <2> QED BY <2>8, <2>9
<1> HIDE DEF T
<1>5. \A n \in 0..L : n \in T
  BY <1>2, <1>3, <1>4, SetInductionUpTo
<1>6. IsFiniteSet(Part(L)) /\ Len(r[L]) = Cardinality(Part(L))
  <2>1. L \in 0..L /\ L <= L
    BY <1>2
  <2> HIDE DEF L, Part
  <2> QED BY <1>5, <2>1 DEF T
<1>7. ToSet(list) = {list[i] : i \in 1..L}
  BY <1>2 DEF ToSet
<1> QED BY <1>1, <1>6, <1>7

\* An injective list stays so when some of its items are taken.
LEMMA OnlyKeepsApart ==
    ASSUME NEW S, NEW list \in Seq(S), IsInjective(list), NEW some
    PROVE  IsInjective(Only(list, some))
<1> DEFINE kept == Only(list, some)
           n == Len(kept)
           K == ToSet(kept)
<1>1. kept \in Seq(S) /\ K = ToSet(list) \cap some
  BY OnlyType
<1>2. n = Cardinality(K)
  BY <1>1, OnlyLength
<1>k. K = ToSet(kept)
  OBVIOUS
<1> HIDE DEF kept, K
<1>3. n \in Nat /\ DOMAIN kept = 1..n /\ kept = [i \in 1..n |-> kept[i]]
  BY <1>1
<1> HIDE DEF n
<1>4. kept \in Surjection(1..n, K)
  BY <1>3, <1>k DEF Surjection, ToSet
<1>5. IsFiniteSet(1..n) /\ Cardinality(1..n) = n
  BY <1>3, FS_Interval
<1>6. kept \in Injection(1..n, K)
  BY <1>2, <1>4, <1>5, FS_Surjection
<1>7. IsInjective(kept)
  BY <1>3, <1>6 DEF Injection, IsInjective
<1> QED BY <1>7 DEF kept

\* The first items of a list.
LEMMA PartIsPrefix ==
    ASSUME NEW S, NEW s \in Seq(S), NEW m \in 0..Len(s)
    PROVE  /\ SubSeq(s, 1, m) \in Seq(S) /\ Len(SubSeq(s, 1, m)) = m
           /\ IsPrefix(SubSeq(s, 1, m), s)
           /\ ToSet(SubSeq(s, 1, m)) \subseteq ToSet(s)
<1> DEFINE a == SubSeq(s, 1, m)
<1>1. m \in Nat /\ Len(s) \in Nat /\ m <= Len(s) /\ DOMAIN s = 1..Len(s)
  OBVIOUS
<1>2. a \in Seq(S) /\ Len(a) = m /\ DOMAIN a = 1..m /\ \A j \in 1..m : a[j] = s[j]
  BY <1>1
<1>3. SubSeq(a, 1, m) = a
  <2> HIDE DEF a
  <2> QED BY <1>2
<1>4. IsPrefix(a, s)
  BY <1>1, <1>2, <1>3 DEF IsPrefix
<1> HIDE DEF a
<1>5. ToSet(a) \subseteq ToSet(s)
  BY <1>1, <1>2 DEF ToSet
<1> QED BY <1>2, <1>4, <1>5 DEF a

LEMMA ToSetJoined ==
    ASSUME NEW S, NEW s \in Seq(S), NEW t \in Seq(S)
    PROVE  ToSet(s \o t) = ToSet(s) \cup ToSet(t)
<1> DEFINE u == s \o t
           m == Len(s)
           n == Len(t)
<1>1. /\ m \in Nat /\ n \in Nat /\ DOMAIN s = 1..m /\ DOMAIN t = 1..n /\ DOMAIN u = 1..m + n
      /\ \A i \in 1..m : u[i] = s[i]
      /\ \A i \in 1..n : u[m + i] = t[i]
  OBVIOUS
<1> HIDE DEF u, m, n
<1>2. ToSet(s) \subseteq ToSet(u)
  <2>1. \A i \in 1..m : i \in 1..m + n
    BY <1>1
  <2> QED BY <1>1, <2>1 DEF ToSet
<1>3. ToSet(t) \subseteq ToSet(u)
  <2>1. \A i \in 1..n : m + i \in 1..m + n
    BY <1>1
  <2> QED BY <1>1, <2>1 DEF ToSet
<1>4. ToSet(u) \subseteq ToSet(s) \cup ToSet(t)
  <2>1. \A i \in 1..m + n : i \in 1..m \/ (i - m \in 1..n /\ m + (i - m) = i)
    BY <1>1
  <2>2. \A i \in 1..m + n : u[i] \in ToSet(s) \cup ToSet(t)
    <3> TAKE i \in 1..m + n
    <3>1. CASE i \in 1..m
      BY <1>1, <3>1 DEF ToSet
    <3>2. CASE i - m \in 1..n /\ m + (i - m) = i
      <4>1. u[i] = t[i - m]
        BY <1>1, <3>2
      <4> QED BY <1>1, <3>2, <4>1 DEF ToSet
    <3> QED BY <2>1, <3>1, <3>2
  <2> QED BY <1>1, <2>2 DEF ToSet
<1> QED BY <1>2, <1>3, <1>4 DEF u

-----------------------------------------------------------------------------
(* What follows of Flat.                                                   *)

\* The provers find a lemma about joined lists only if it is said by name.
Associates(s, t, u) == (s \o t) \o u = s \o (t \o u)

LEMMA JoinAssociates ==
    ASSUME NEW S, NEW s \in Seq(S), NEW t \in Seq(S), NEW u \in Seq(S)
    PROVE  Associates(s, t, u)
BY ConcatAssociative DEF Associates

\* What has been joined after each list.
Joining(r, S, lists) ==
    /\ r \in [0..Len(lists) -> Seq(S)] /\ r[0] = <<>>
    /\ \A n \in 1..Len(lists) : r[n] = r[n - 1] \o lists[n]

LEMMA FlatUnfolds ==
    ASSUME NEW S, NEW lists \in Seq(Seq(S))
    PROVE  \E r : Joining(r, S, lists) /\ Flat(lists) = r[Len(lists)]
<1> DEFINE L == Len(lists)
           A == Seq(S)
           F(it) == [s \in SUBSET (1..L) |->
                        IF s = {} THEN <<>> ELSE it[s \ {Max(s)}] \o lists[Max(s)]]
           step == [i \in 1..L |-> [joined \in A |-> joined \o lists[i]]]
<1>1. DOMAIN lists = 1..L /\ L \in Nat /\ <<>> \in A
  OBVIOUS
<1>2. \A i \in 1..L, joined \in A : joined \o lists[i] \in A
  <2> TAKE i \in 1..L, joined \in A
  <2>1. lists[i] \in Seq(S)
    OBVIOUS
  <2> QED BY <2>1, ConcatProperties
<1>3. Flat(lists) = (CHOOSE it : it = F(it))[1..L]
  BY <1>1 DEF Flat, FoldLeft, MapThenFoldSet
<1> HIDE DEF L, A
<1>4. step \in [1..L -> [A -> A]]
  BY <1>2
<1>5. PICK g \in [SUBSET (1..L) -> A] :
          IsFold(g, 1..L, <<>>, [s \in SUBSET (1..L) |-> Max(s)], step)
  <2> HIDE DEF step
  <2> QED BY <1>1, <1>4, LeftFold
<1>6. g = F(g)
  <2>1. ASSUME NEW s \in SUBSET (1..L), s # {}
        PROVE  g[s] = g[s \ {Max(s)}] \o lists[Max(s)]
    <3>1. Max(s) \in 1..L /\ g[s \ {Max(s)}] \in A
      BY <1>1, <2>1, LastPlace
    <3>2. g[s] = step[Max(s)][g[s \ {Max(s)}]]
      BY <1>5, <2>1 DEF IsFold
    <3> QED BY <3>1, <3>2
  <2>2. \A s \in SUBSET (1..L) : g[s] = IF s = {} THEN <<>> ELSE g[s \ {Max(s)}] \o lists[Max(s)]
    BY <1>5, <2>1 DEF IsFold
  <2> QED BY <2>2
<1> DEFINE h == CHOOSE it : it = F(it)
<1>7. h = F(h)
  <2> HIDE DEF F
  <2> QED BY <1>6
<1>8. h[{}] = <<>>
  BY <1>7
<1>10. \A n \in 1..L, joined \in A : step[n][joined] = joined \o lists[n]
  OBVIOUS
<1>9. ASSUME NEW s \in SUBSET (1..L), s # {}, h[s \ {Max(s)}] \in A
      PROVE  h[s] = step[Max(s)][h[s \ {Max(s)}]]
  <2>1. Max(s) \in 1..L
    BY <1>1, <1>9, LastPlace
  <2>2. h[s] = h[s \ {Max(s)}] \o lists[Max(s)]
    BY <1>7, <1>9
  <2> HIDE DEF h, step
  <2> QED BY <1>9, <1>10, <2>1, <2>2
<1> HIDE DEF h, step
<1>a. FoldsLeft(h, L, A, <<>>, step)
  BY <1>8, <1>9 DEF FoldsLeft
<1>11. PICK r \in [0..L -> A] : r[L] = h[1..L] /\ IsWalk(r, L, <<>>, step)
  BY <1>1, <1>4, <1>a, LeftWalk
<1>12. \A n \in 1..L : r[n - 1] \in A
  BY <1>1
<1>13. \A n \in 1..L : r[n] = r[n - 1] \o lists[n]
  BY <1>10, <1>11, <1>12 DEF IsWalk
<1>14. r[0] = <<>> /\ r[L] = Flat(lists)
  BY <1>3, <1>11 DEF IsWalk, h
<1> QED BY <1>13, <1>14 DEF L, A, Joining

LEMMA FlatType == ASSUME NEW S, NEW lists \in Seq(Seq(S)) PROVE Flat(lists) \in Seq(S)
<1>1. PICK r : Joining(r, S, lists) /\ Flat(lists) = r[Len(lists)]
  BY FlatUnfolds
<1>2. Len(lists) \in 0..Len(lists)
  OBVIOUS
<1> QED BY <1>1, <1>2 DEF Joining

\* The lists of two lists, joined, are those of one and then those of the other.
LEMMA FlatJoined ==
    ASSUME NEW S, NEW s \in Seq(Seq(S)), NEW t \in Seq(Seq(S))
    PROVE  Flat(s \o t) = Flat(s) \o Flat(t)
<1> DEFINE u == s \o t
           m == Len(s)
           L == Len(t)
<1>1. /\ m \in Nat /\ L \in Nat /\ u \in Seq(Seq(S)) /\ Len(u) = m + L
      /\ \A i \in 1..m : u[i] = s[i]
      /\ \A i \in 1..L : u[m + i] = t[i] /\ t[i] \in Seq(S)
  OBVIOUS
<1> HIDE DEF u
<1>2. PICK r : Joining(r, S, u) /\ Flat(u) = r[m + L]
  BY <1>1, FlatUnfolds
<1>3. PICK p : Joining(p, S, s) /\ Flat(s) = p[m]
  BY FlatUnfolds
<1>4. PICK q : Joining(q, S, t) /\ Flat(t) = q[L]
  BY FlatUnfolds
<1> HIDE DEF m, L
<1>5. /\ r[0] = <<>> /\ p[0] = <<>> /\ q[0] = <<>>
      /\ p \in [0..m -> Seq(S)] /\ q \in [0..L -> Seq(S)]
  BY <1>2, <1>3, <1>4 DEF Joining, m, L
<1>6. /\ \A n \in 1..m + L : r[n] = r[n - 1] \o u[n]
      /\ \A n \in 1..m : p[n] = p[n - 1] \o s[n]
      /\ \A n \in 1..L : q[n] = q[n - 1] \o t[n]
  BY <1>1, <1>2, <1>3, <1>4 DEF Joining, m, L
<1> DEFINE T == {n \in Nat : n <= m => r[n] = p[n]}
<1>7. \A n \in 0..m : n \in T
  <2>1. 0 \in T
    BY <1>5
  <2>2. ASSUME NEW n \in 1..m, n - 1 \in T PROVE n \in T
    <3>1. r[n - 1] = p[n - 1] /\ n \in 1..m + L /\ n \in Nat
      BY <1>1, <2>2
    <3> QED BY <1>1, <1>6, <3>1
  <2> HIDE DEF T
  <2> QED BY <1>1, <2>1, <2>2, SetInductionUpTo
<1>8. r[m] = p[m] /\ p[m] \in Seq(S)
  <2>1. m \in 0..m
    BY <1>1
  <2> QED BY <1>1, <1>5, <1>7, <2>1
<1> DEFINE U == {n \in Nat : n <= L => r[m + n] = p[m] \o q[n]}
<1>9. \A n \in 0..L : n \in U
  <2>1. 0 \in U
    <3>1. p[m] \o <<>> = p[m]
      BY <1>8
    <3>2. r[m + 0] = p[m] \o q[0]
      BY <1>1, <1>5, <1>8, <3>1
    <3> QED BY <3>2
  <2>2. ASSUME NEW n \in 1..L, n - 1 \in U PROVE n \in U
    <3>1. n \in Nat /\ n - 1 \in 0..L /\ m + n \in 1..m + L /\ (m + n) - 1 = m + (n - 1)
      BY <1>1
    <3>a. q[n - 1] \in Seq(S)
      BY <1>5, <3>1
    <3>b. n - 1 <= L
      BY <1>1
    <3>2. r[m + (n - 1)] = p[m] \o q[n - 1]
      BY <2>2, <3>1, <3>b
    <3>3. r[m + n] = r[m + (n - 1)] \o t[n]
      BY <1>1, <1>6, <3>1
    <3>4. t[n] \in Seq(S)
      BY <1>1
    <3>5. (p[m] \o q[n - 1]) \o t[n] = p[m] \o (q[n - 1] \o t[n])
      <4> DEFINE a == p[m]
                 b == q[n - 1]
                 c == t[n]
      <4>1. a \in Seq(S) /\ b \in Seq(S) /\ c \in Seq(S)
        BY <1>8, <3>a, <3>4
      <4> HIDE DEF a, b, c
      <4>2. (a \o b) \o c = a \o (b \o c)
        <5>1. Associates(a, b, c)
          BY <4>1, JoinAssociates
        <5> QED BY <5>1 DEF Associates
      <4> QED BY <4>2 DEF a, b, c
    <3>6. r[m + n] = p[m] \o q[n]
      BY <1>6, <3>2, <3>3, <3>5
    <3> QED BY <3>1, <3>6
  <2> HIDE DEF U
  <2> QED BY <1>1, <2>1, <2>2, SetInductionUpTo
<1>10. r[m + L] = p[m] \o q[L]
  <2>1. L \in 0..L /\ L <= L
    BY <1>1
  <2>2. L \in U
    BY <1>9, <2>1
  <2> QED BY <2>1, <2>2
<1> QED BY <1>2, <1>3, <1>4, <1>10 DEF u

LEMMA FlatOne ==
    ASSUME NEW S, NEW x \in Seq(S)
    PROVE  Flat(<<x>>) = x /\ Flat(<<>>) = <<>>
<1> DEFINE one == <<x>>
<1>1. one \in Seq(Seq(S)) /\ Len(one) = 1 /\ one[1] = x
  OBVIOUS
<1> HIDE DEF one
<1>2. PICK r : Joining(r, S, one) /\ Flat(one) = r[1]
  BY <1>1, FlatUnfolds
<1>3. r[0] = <<>> /\ r[1] = r[1 - 1] \o one[1]
  BY <1>1, <1>2 DEF Joining
<1>a. r[1 - 1] = <<>>
  BY <1>3
<1>4. r[1] = <<>> \o x
  BY <1>1, <1>3, <1>a
<1>5. <<>> \o x = x
  OBVIOUS
<1>6. Flat(<<>>) = <<>>
  <2> DEFINE none == <<>>
  <2>1. none \in Seq(Seq(S)) /\ Len(none) = 0
    OBVIOUS
  <2> HIDE DEF none
  <2>2. PICK p : Joining(p, S, none) /\ Flat(none) = p[0]
    BY <2>1, FlatUnfolds
  <2> QED BY <2>2 DEF Joining, none
<1> QED BY <1>2, <1>4, <1>5, <1>6 DEF one

-----------------------------------------------------------------------------
(* What a function makes of each item, joined.                             *)

Each(f, s) == [i \in DOMAIN s |-> f[s[i]]]

Gathered(f, s) == Flat(Each(f, s))

EachOfBoth(f, s, t) == Each(f, s \o t) = Each(f, s) \o Each(f, t)

GatheredOfBoth(f, s, t) == Gathered(f, s \o t) = Gathered(f, s) \o Gathered(f, t)

LEMMA EachType ==
    ASSUME NEW S, NEW T, NEW f \in [S -> T], NEW s \in Seq(S)
    PROVE  Each(f, s) \in Seq(T) /\ Len(Each(f, s)) = Len(s)
<1>1. \A i \in DOMAIN s : s[i] \in S
  OBVIOUS
<1> QED BY <1>1 DEF Each

LEMMA EachJoined ==
    ASSUME NEW S, NEW T, NEW f \in [S -> T], NEW s \in Seq(S), NEW t \in Seq(S)
    PROVE  EachOfBoth(f, s, t)
<1> DEFINE u == s \o t
           m == Len(s)
           n == Len(t)
           a == Each(f, s)
           b == Each(f, t)
           c == Each(f, u)
<1>1. /\ m \in Nat /\ n \in Nat /\ u \in Seq(S) /\ Len(u) = m + n
      /\ \A i \in 1..m + n : u[i] = IF i <= m THEN s[i] ELSE t[i - m]
  OBVIOUS
<1> HIDE DEF u
<1>2. a \in Seq(T) /\ Len(a) = m /\ \A i \in 1..m : a[i] = f[s[i]]
  BY EachType DEF Each
<1>3. b \in Seq(T) /\ Len(b) = n /\ \A i \in 1..n : b[i] = f[t[i]]
  BY EachType DEF Each
<1>4. c \in Seq(T) /\ Len(c) = m + n /\ \A i \in 1..m + n : c[i] = f[u[i]]
  BY <1>1, EachType DEF Each
<1> HIDE DEF a, b, c, m, n
<1> DEFINE d == a \o b
<1>5. /\ d \in Seq(T) /\ Len(d) = m + n
      /\ \A i \in 1..m + n : d[i] = IF i <= m THEN a[i] ELSE b[i - m]
  BY <1>1, <1>2, <1>3
<1> HIDE DEF d
<1>6. \A i \in 1..m + n : c[i] = d[i]
  <2> TAKE i \in 1..m + n
  <2>1. CASE i <= m
    <3>1. i \in 1..m
      BY <1>1, <2>1
    <3>2. c[i] = f[u[i]] /\ u[i] = s[i] /\ d[i] = a[i] /\ a[i] = f[s[i]]
      BY <1>1, <1>2, <1>4, <1>5, <2>1, <3>1
    <3> QED BY <3>2
  <2>2. CASE ~ (i <= m)
    <3>1. i - m \in 1..n
      BY <1>1, <2>2
    <3>2. c[i] = f[u[i]] /\ u[i] = t[i - m] /\ d[i] = b[i - m] /\ b[i - m] = f[t[i - m]]
      BY <1>1, <1>3, <1>4, <1>5, <2>2, <3>1
    <3> QED BY ONLY <3>2
  <2> QED BY <2>1, <2>2
<1>7. c = d
  BY ONLY <1>1, <1>4, <1>5, <1>6, SeqEqual
<1> QED BY <1>7 DEF c, d, a, b, u, EachOfBoth

LEMMA GatheredType ==
    ASSUME NEW S, NEW T, NEW f \in [S -> Seq(T)], NEW s \in Seq(S)
    PROVE  Gathered(f, s) \in Seq(T)
<1>1. Each(f, s) \in Seq(Seq(T))
  BY EachType
<1> QED BY <1>1, FlatType DEF Gathered

LEMMA GatheredJoined ==
    ASSUME NEW S, NEW T, NEW f \in [S -> Seq(T)], NEW s \in Seq(S), NEW t \in Seq(S)
    PROVE  GatheredOfBoth(f, s, t)
<1>1. Each(f, s) \in Seq(Seq(T)) /\ Each(f, t) \in Seq(Seq(T))
  BY EachType
<1>2. EachOfBoth(f, s, t)
  BY EachJoined
<1>3. Flat(Each(f, s) \o Each(f, t)) = Flat(Each(f, s)) \o Flat(Each(f, t))
  BY <1>1, FlatJoined
<1> QED BY <1>2, <1>3 DEF Gathered, EachOfBoth, GatheredOfBoth

LEMMA GatheredOne ==
    ASSUME NEW S, NEW T, NEW f \in [S -> Seq(T)], NEW x \in S
    PROVE  Gathered(f, <<x>>) = f[x] /\ Gathered(f, <<>>) = <<>>
<1>1. Each(f, <<x>>) = <<f[x]>> /\ Each(f, <<>>) = <<>>
  BY DEF Each
<1>2. f[x] \in Seq(T)
  OBVIOUS
<1> QED BY <1>1, <1>2, FlatOne DEF Gathered

LEMMA GatheredAppended ==
    ASSUME NEW S, NEW T, NEW f \in [S -> Seq(T)], NEW s \in Seq(S), NEW x \in S
    PROVE  Gathered(f, Append(s, x)) = Gathered(f, s) \o f[x]
<1>1. Append(s, x) = s \o <<x>>
  BY AppendIsConcat
<1> DEFINE one == <<x>>
<1>2. one \in Seq(S)
  OBVIOUS
<1>3. Gathered(f, one) = f[x]
  BY GatheredOne
<1> HIDE DEF one
<1>4. GatheredOfBoth(f, s, one)
  BY <1>2, GatheredJoined
<1> QED BY <1>1, <1>3, <1>4 DEF one, GatheredOfBoth

-----------------------------------------------------------------------------
(* What follows of Total.                                                  *)

LEMMA TotalAppended ==
    ASSUME NEW sizes \in Seq(Int), NEW x \in Int
    PROVE  Total(Append(sizes, x)) = Total(sizes) + x
<1> DEFINE all == Append(sizes, x)
           n == Len(sizes)
<1>1. /\ n \in Nat /\ all \in Seq(Int) /\ Len(all) = n + 1 /\ all[n + 1] = x
      /\ SubSeq(all, 1, n) = sizes
  OBVIOUS
<1> HIDE DEF all, n
<1>2. PICK p : Sums(p, all) /\ Total(all) = p[n + 1]
  BY <1>1, TotalUnfolds
<1>3. Total(SubSeq(all, 0 + 1, n)) = p[n] - p[0]
  BY <1>1, <1>2, TotalOfPart
<1>4. p[0] = 0 /\ p[n] \in Int /\ p[n + 1] = p[n] + all[n + 1]
  <2>1. n + 1 \in 1..Len(all) /\ (n + 1) - 1 = n /\ n \in 0..Len(all)
    BY <1>1
  <2>2. p[n] \in Int
    BY <1>2, <2>1 DEF Sums
  <2> DEFINE m == n + 1
  <2>3. m \in 1..Len(all) /\ m - 1 = n
    BY <2>1
  <2> HIDE DEF m
  <2>4. p[m] = p[m - 1] + all[m]
    BY <1>2, <2>3 DEF Sums
  <2> QED BY <1>2, <2>2, <2>3, <2>4 DEF Sums, m
<1>5. Total(sizes) = p[n]
  <2>1. 0 + 1 = 1 /\ p[n] - 0 = p[n]
    BY <1>4
  <2> QED BY ONLY <1>1, <1>3, <1>4, <2>1
<1> QED BY <1>1, <1>2, <1>4, <1>5 DEF all

LEMMA TotalOfNats ==
    ASSUME NEW sizes \in Seq(Nat)
    PROVE  Total(sizes) \in Nat /\ \A k \in DOMAIN sizes : sizes[k] <= Total(sizes)
<1> DEFINE L == Len(sizes)
<1>1. L \in Nat /\ sizes \in Seq(Int) /\ DOMAIN sizes = 1..L
  OBVIOUS
<1>2. PICK p : Sums(p, sizes) /\ Total(sizes) = p[L]
  BY <1>1, TotalUnfolds
<1> DEFINE T == {n \in Nat : n <= L => p[n] \in Nat /\ \A k \in 1..n : sizes[k] <= p[n]}
<1>3. 0 \in T
  BY <1>2 DEF Sums
<1>4. ASSUME NEW n \in 1..L, n - 1 \in T PROVE n \in T
  <2>1. n \in Nat /\ n - 1 \in Nat /\ n - 1 <= L /\ sizes[n] \in Nat
    BY <1>1
  <2>2. p[n - 1] \in Nat /\ \A k \in 1..n - 1 : sizes[k] <= p[n - 1]
    BY <1>4, <2>1
  <2>3. p[n] = p[n - 1] + sizes[n]
    BY <1>2 DEF Sums
  <2>4. \A k \in 1..n : k = n \/ k \in 1..n - 1
    BY <2>1
  <2>5. \A k \in 1..n : sizes[k] <= p[n]
    <3> TAKE k \in 1..n
    <3>1. CASE k = n
      BY <2>1, <2>2, <2>3, <3>1
    <3>2. CASE k \in 1..n - 1
      <4>1. sizes[k] <= p[n - 1] /\ sizes[k] \in Nat
        BY <1>1, <2>2, <3>2
      <4> QED BY <2>1, <2>2, <2>3, <4>1
    <3> QED BY <2>4, <3>1, <3>2
  <2> QED BY <2>1, <2>2, <2>3, <2>5
<1> HIDE DEF T
<1>5. \A n \in 0..L : n \in T
  BY <1>1, <1>3, <1>4, SetInductionUpTo
<1>6. L \in 0..L /\ L <= L
  BY <1>1
<1> QED BY <1>1, <1>2, <1>5, <1>6 DEF T

-----------------------------------------------------------------------------
(* A list whose first one begins with something more.                      *)

LEMMA FlatHeaded ==
    ASSUME NEW S, NEW head \in Seq(S), NEW s \in Seq(Seq(S)), NEW t \in Seq(Seq(S)),
           Len(s) = Len(t), Len(t) > 0,
           s[1] = head \o t[1], \A k \in 2..Len(t) : s[k] = t[k]
    PROVE  Flat(s) = head \o Flat(t)
<1> DEFINE L == Len(t)
<1>1. L \in Nat /\ \A k \in 1..L : t[k] \in Seq(S)
  OBVIOUS
<1>2. PICK p : Joining(p, S, s) /\ Flat(s) = p[L]
  BY FlatUnfolds
<1>3. PICK q : Joining(q, S, t) /\ Flat(t) = q[L]
  BY FlatUnfolds
<1>4. /\ p[0] = <<>> /\ q[0] = <<>> /\ q \in [0..L -> Seq(S)]
      /\ \A n \in 1..L : p[n] = p[n - 1] \o s[n]
      /\ \A n \in 1..L : q[n] = q[n - 1] \o t[n]
  BY <1>2, <1>3 DEF Joining
<1> HIDE DEF L
<1> DEFINE T == {n \in Nat : n <= L => n = 0 \/ p[n] = head \o q[n]}
<1>5. 0 \in T
  OBVIOUS
<1>6. ASSUME NEW n \in 1..L, n - 1 \in T PROVE n \in T
  <2>1. n \in Nat /\ n - 1 \in 0..L /\ n - 1 <= L
    BY <1>1
  <2>2. CASE n = 1
    <3>1. p[1] = p[0] \o s[1] /\ q[1] = q[0] \o t[1]
      <4>1. 1 \in 1..L /\ 1 - 1 = 0
        BY <2>2
      <4> QED BY <1>4, <4>1
    <3>2. t[1] \in Seq(S) /\ head \o t[1] \in Seq(S)
      <4>1. t[1] \in Seq(S)
        BY <1>1, <2>2
      <4> QED BY <4>1, ConcatProperties
    <3>3. <<>> \o s[1] = s[1] /\ <<>> \o t[1] = t[1]
      BY <3>2
    <3>4. p[1] = head \o q[1]
      BY <1>4, <3>1, <3>3
    <3> QED BY <2>1, <2>2, <3>4
  <2>3. CASE n # 1
    <3>1. n \in 2..L
      BY <1>1, <2>3
    <3>a. s[n] = t[n]
      BY <3>1 DEF L
    <3>2. p[n - 1] = head \o q[n - 1]
      BY <1>6, <2>1, <2>3
    <3>3. p[n] = p[n - 1] \o t[n] /\ q[n] = q[n - 1] \o t[n]
      BY <1>4, <3>a
    <3> DEFINE a == q[n - 1]
               b == t[n]
    <3>4. a \in Seq(S) /\ b \in Seq(S)
      BY <1>1, <1>4, <2>1
    <3> HIDE DEF a, b
    <3>5. Associates(head, a, b)
      BY <3>4, JoinAssociates
    <3>6. (head \o a) \o b = head \o (a \o b)
      BY <3>5 DEF Associates
    <3>7. p[n] = head \o q[n]
      BY <3>2, <3>3, <3>6 DEF a, b
    <3> QED BY <2>1, <3>7
  <2> QED BY <2>2, <2>3
<1> HIDE DEF T
<1>7. \A n \in 0..L : n \in T
  BY <1>1, <1>5, <1>6, SetInductionUpTo
<1>8. L \in 0..L /\ L <= L /\ L # 0
  BY <1>1 DEF L
<1>9. p[L] = head \o q[L]
  BY <1>7, <1>8 DEF T
<1> QED BY <1>2, <1>3, <1>9

LEMMA WiderSeq == ASSUME NEW S, NEW T, S \subseteq T, NEW s \in Seq(S) PROVE s \in Seq(T)
<1>1. \A k \in 1..Len(s) : s[k] \in T
  OBVIOUS
<1> QED BY <1>1

LEMMA IsPair == ASSUME NEW S, NEW a \in Seq(S), Len(a) = 2 PROVE a = <<a[1], a[2]>>
OBVIOUS

LEMMA PairAppended ==
    ASSUME NEW S, NEW x \in S, NEW y \in S
    PROVE  Append(<<x>>, y) = <<x, y>>
<1>1. <<x>> \in Seq(S) /\ Len(<<x>>) = 1 /\ <<x>>[1] = x
  OBVIOUS
<1>2. ASSUME NEW s \in Seq(S), Len(s) = 1 PROVE Append(s, y) = <<s[1], y>>
  <2>1. /\ Append(s, y) \in Seq(S) /\ Len(Append(s, y)) = Len(s) + 1
        /\ Append(s, y)[Len(s) + 1] = y
    BY AppendProperties
  <2>2. Append(s, y)[1] = s[1]
    BY <1>2
  <2>3. 2 = Len(s) + 1
    BY <1>2
  <2>4. Len(Append(s, y)) = 2 /\ Append(s, y)[2] = y
    BY ONLY <2>1, <2>3
  <2>5. Append(s, y) = <<Append(s, y)[1], Append(s, y)[2]>>
    BY <2>1, <2>4, IsPair
  <2> QED BY <2>2, <2>4, <2>5
<1> QED BY <1>1, <1>2

\* A function over 1..n is a list of what it gives.
LEMMA ListOf ==
    ASSUME NEW S, NEW n \in Nat, NEW f, DOMAIN f = 1..n, f = [k \in 1..n |-> f[k]],
           \A k \in 1..n : f[k] \in S
    PROVE  f \in Seq(S) /\ Len(f) = n /\ (n > 0 => f # <<>>)
<1>1. f \in Seq(S) /\ Len(f) = n
  OBVIOUS
<1>2. n > 0 => f # <<>>
  BY <1>1
<1> QED BY <1>1, <1>2

\* A list is a list over whatever holds its items.
LEMMA SeqOver ==
    ASSUME NEW S, NEW s \in Seq(S)
    PROVE  /\ ToSet(s) \subseteq S /\ \A k \in 1..Len(s) : s[k] \in ToSet(s)
           /\ \A T : ToSet(s) \subseteq T => s \in Seq(T)
<1>1. \A k \in 1..Len(s) : s[k] \in ToSet(s)
  BY DEF ToSet
<1>2. ASSUME NEW T, ToSet(s) \subseteq T PROVE s \in Seq(T)
  <2>1. \A k \in 1..Len(s) : s[k] \in T
    BY <1>1, <1>2
  <2> QED BY <2>1
<1>3. ToSet(s) \subseteq S
  BY DEF ToSet
<1> QED BY <1>1, <1>2, <1>3
===============================================================================
