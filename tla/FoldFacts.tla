------------------------------ MODULE FoldFacts ------------------------------
(***************************************************************************)
(* What FoldLeft makes of a sequence, for any operator: nothing of the     *)
(* empty one, one application more of a sequence with one element more,    *)
(* and whatever every application keeps.  A module that folds takes an     *)
(* instance with its own operator and predicate; env is whatever else the  *)
(* operator depends on, about whatever else the predicate does.  All of    *)
(* it rests on induction over the natural numbers, as a fact about a set.  *)
(***************************************************************************)
EXTENDS Naturals, SequencesExt, WellFoundedInduction, TLAPS

CONSTANTS
    Op(_, _, _),      \* what is folded
    Holds(_, _, _)    \* what holds, by what it is about, of how many elements and their fold

Fold(env, base, seq) == FoldLeft(LAMBDA r, x : Op(env, r, x), base, seq)

---------------------------------------------------------------------------
\* Induction up to N: the least number outside T would have a predecessor in T.
LEMMA UpTo ==
  ASSUME NEW N \in Nat, NEW T, 0 \in T, \A i \in 0 .. N - 1 : i \in T => i + 1 \in T
  PROVE  0 .. N \subseteq T
<1> DEFINE Bad == {i \in 0 .. N : i \notin T}
<1>1. SUFFICES ASSUME Bad # {} PROVE FALSE
  OBVIOUS
<1>2. IsWellFoundedOn(OpToRel(<, Nat), Nat)
  BY NatLessThanWellFounded
<1>3. Bad \subseteq Nat
  OBVIOUS
<1>4. PICK m \in Bad : \A y \in Bad : ~ (<<y, m>> \in OpToRel(<, Nat))
  BY <1>1, <1>2, <1>3, WFMin
<1>5. \A y \in Bad : ~(y < m)
  BY <1>4, <1>3 DEF OpToRel
<1>6. m \in 1 .. N /\ m - 1 \in 0 .. N - 1
  <2>1. m # 0
    OBVIOUS
  <2> QED
    BY <2>1
<1>7. m - 1 \in T
  BY <1>5, <1>6
<1>8. (m - 1) + 1 \in T
  BY <1>6, <1>7
<1> QED
  BY <1>6, <1>8

\* What a fold over the first n elements is made of.
Iterates(env, base, seq, n, h) ==
    h = [s \in SUBSET (1 .. n) |->
            IF s = {} THEN base ELSE Op(env, h[s \ {Max(s)}], seq[Max(s)])]

\* The last of the first n positions.
LEMMA MaxIs ==
  ASSUME NEW n \in Nat, NEW s \in SUBSET (1 .. n), n \in s
  PROVE  Max(s) = n
<1>1. \A y \in s : n >= y
  OBVIOUS
<1>2. \A x \in s : (\A y \in s : x >= y) => x = n
  OBVIOUS
<1> QED
  BY <1>1, <1>2 DEF Max

\* The recursion that FoldLeft is defined by has a solution.
LEMMA IteratesExists ==
  ASSUME NEW env, NEW base, NEW seq, NEW N \in Nat
  PROVE  \E h : Iterates(env, base, seq, N, h)
<1> DEFINE T == {n \in 0 .. N : \E h : Iterates(env, base, seq, n, h)}
<1>1. 0 \in T
  <2> DEFINE h == [s \in SUBSET (1 .. 0) |-> base]
  <2>1. \A s \in SUBSET (1 .. 0) : s = {}
    OBVIOUS
  <2>2. h = [s \in SUBSET (1 .. 0) |->
            IF s = {} THEN base ELSE Op(env, h[s \ {Max(s)}], seq[Max(s)])]
    BY <2>1
  <2> QED
    BY <2>2 DEF Iterates
<1>2. ASSUME NEW n \in 0 .. N - 1, n \in T PROVE n + 1 \in T
  <2>1. PICK h : Iterates(env, base, seq, n, h)
    BY <1>2
  <2> DEFINE k == [s \in SUBSET (1 .. n + 1) |->
                     IF n + 1 \in s THEN Op(env, h[s \ {n + 1}], seq[n + 1]) ELSE h[s]]
  <2>2. ASSUME NEW s \in SUBSET (1 .. n + 1)
        PROVE  k[s] = IF s = {} THEN base ELSE Op(env, k[s \ {Max(s)}], seq[Max(s)])
    <3>1. CASE n + 1 \in s
      <4>1. Max(s) = n + 1
        BY <3>1, MaxIs
      <4>2. s \ {n + 1} \in SUBSET (1 .. n + 1) /\ n + 1 \notin s \ {n + 1}
        OBVIOUS
      <4>3. k[s \ {n + 1}] = h[s \ {n + 1}]
        BY <4>2
      <4> QED
        BY <3>1, <4>1, <4>3
    <3>2. CASE n + 1 \notin s
      <4>1. \A i \in s : i \in 1 .. n
        BY <3>2
      <4>2. s \in SUBSET (1 .. n) /\ s \ {Max(s)} \in SUBSET (1 .. n)
        BY <4>1
      <4>3. h[s] = IF s = {} THEN base ELSE Op(env, h[s \ {Max(s)}], seq[Max(s)])
        BY <2>1, <4>2 DEF Iterates
      <4>4. k[s] = h[s]
        BY <3>2
      <4>5. k[s \ {Max(s)}] = h[s \ {Max(s)}]
        BY <4>2
      <4> QED
        BY <4>3, <4>4, <4>5
    <3> QED
      BY <3>1, <3>2
  <2>3. k = [s \in SUBSET (1 .. n + 1) |-> k[s]]
    OBVIOUS
  <2> HIDE DEF k
  <2>4. Iterates(env, base, seq, n + 1, k)
    BY <2>2, <2>3 DEF Iterates
  <2> QED
    BY <2>4
<1> HIDE DEF T
<1>3. 0 .. N \subseteq T
  BY <1>1, <1>2, UpTo
<1>4. N \in T
  BY <1>3
<1> QED
  BY <1>4 DEF T

\* It is the value of the fold.
LEMMA FoldIs ==
  ASSUME NEW env, NEW base, NEW seq, NEW n \in Nat, DOMAIN seq = 1 .. n
  PROVE  \E h : Iterates(env, base, seq, n, h) /\ Fold(env, base, seq) = h[1 .. n]
<1> DEFINE h == CHOOSE h : Iterates(env, base, seq, n, h)
<1>1. Iterates(env, base, seq, n, h)
  BY IteratesExists
<1>2. Fold(env, base, seq) = h[1 .. n]
  BY DEF Fold, FoldLeft, MapThenFoldSet, Iterates
<1> QED
  BY <1>1, <1>2
---------------------------------------------------------------------------
\* The fold of no element.
LEMMA FoldEmpty ==
  ASSUME NEW env, NEW base, NEW seq, DOMAIN seq = {}
  PROVE  Fold(env, base, seq) = base
<1>1. PICK h : Iterates(env, base, seq, 0, h) /\ Fold(env, base, seq) = h[1 .. 0]
  BY FoldIs
<1>2. 1 .. 0 = {}
  OBVIOUS
<1> QED
  BY <1>1, <1>2 DEF Iterates

\* Two folds agree on the positions where their sequences do.
LEMMA FoldAgrees ==
  ASSUME NEW env, NEW base, NEW seq, NEW more, NEW n \in Nat, NEW m \in Nat, n <= m,
         \A i \in 1 .. n : seq[i] = more[i],
         NEW h, Iterates(env, base, seq, n, h), NEW k, Iterates(env, base, more, m, k)
  PROVE  h[1 .. n] = k[1 .. n]
<1> DEFINE T == {i \in 0 .. n : \A s \in SUBSET (1 .. i) : h[s] = k[s]}
<1>1. 0 \in T
  BY DEF Iterates
<1>2. ASSUME NEW i \in 0 .. n - 1, i \in T PROVE i + 1 \in T
  <2>1. SUFFICES ASSUME NEW s \in SUBSET (1 .. i + 1), s \notin SUBSET (1 .. i) PROVE h[s] = k[s]
    BY <1>2
  <2>2. i + 1 \in s
    BY <2>1
  <2>3. Max(s) = i + 1
    BY <2>2, MaxIs
  <2>4. s \ {i + 1} \in SUBSET (1 .. i)
    OBVIOUS
  <2>5. h[s \ {i + 1}] = k[s \ {i + 1}]
    BY <1>2, <2>4
  <2>6. s \in SUBSET (1 .. n) /\ s \in SUBSET (1 .. m) /\ i + 1 \in 1 .. n
    OBVIOUS
  <2>7. h[s] = Op(env, h[s \ {i + 1}], seq[i + 1])
    BY <2>2, <2>3, <2>6 DEF Iterates
  <2>8. k[s] = Op(env, k[s \ {i + 1}], more[i + 1])
    BY <2>2, <2>3, <2>6 DEF Iterates
  <2> QED
    BY <2>5, <2>6, <2>7, <2>8
<1> HIDE DEF T
<1>3. 0 .. n \subseteq T
  BY <1>1, <1>2, UpTo
<1>4. n \in T
  BY <1>3
<1> QED
  BY <1>4 DEF T

\* The fold of one element more.
LEMMA FoldAppend ==
  ASSUME NEW env, NEW base, NEW S, NEW seq \in Seq(S), NEW x
  PROVE  Fold(env, base, Append(seq, x)) = Op(env, Fold(env, base, seq), x)
<1> DEFINE n == Len(seq)
<1> DEFINE more == Append(seq, x)
<1>1. n \in Nat /\ DOMAIN seq = 1 .. n /\ DOMAIN more = 1 .. n + 1
  OBVIOUS
<1>2. (\A i \in 1 .. n : seq[i] = more[i]) /\ more[n + 1] = x
  OBVIOUS
<1> HIDE DEF n, more
<1>3. PICK h : Iterates(env, base, seq, n, h) /\ Fold(env, base, seq) = h[1 .. n]
  BY <1>1, FoldIs
<1>4. PICK k : Iterates(env, base, more, n + 1, k) /\ Fold(env, base, more) = k[1 .. n + 1]
  BY <1>1, FoldIs
<1>5. h[1 .. n] = k[1 .. n]
  BY <1>1, <1>2, <1>3, <1>4, FoldAgrees
<1>6. Max(1 .. n + 1) = n + 1 /\ (1 .. n + 1) \ {n + 1} = 1 .. n
  BY <1>1, MaxIs
<1>7. 1 .. n + 1 # {} /\ 1 .. n + 1 \in SUBSET (1 .. n + 1)
  <2>1. n + 1 \in 1 .. n + 1
    BY <1>1
  <2> QED
    BY <2>1
<1>8. k[1 .. n + 1] = Op(env, k[(1 .. n + 1) \ {n + 1}], more[n + 1])
  BY <1>4, <1>6, <1>7 DEF Iterates
<1> QED
  BY <1>2, <1>3, <1>4, <1>5, <1>6, <1>8 DEF more
---------------------------------------------------------------------------
\* What holds of the base and is kept by every application.
Kept(about, env, base, seq, n) ==
    /\ Holds(about, 0, base)
    /\ \A i \in 1 .. n : \A r : Holds(about, i - 1, r) => Holds(about, i, Op(env, r, seq[i]))

\* The recursion up to n for a shorter sequence of the same elements.
LEMMA IterateNext ==
  ASSUME NEW env, NEW base, NEW seq, NEW n \in Nat, NEW h, Iterates(env, base, seq, n, h),
         NEW i \in 0 .. n - 1
  PROVE  h[1 .. i + 1] = Op(env, h[1 .. i], seq[i + 1])
<1>1. 1 .. i + 1 \in SUBSET (1 .. n) /\ i + 1 \in 1 .. i + 1 /\ i + 1 \in Nat /\ i + 1 \in 1 .. n
  OBVIOUS
<1>2. Max(1 .. i + 1) = i + 1 /\ (1 .. i + 1) \ {i + 1} = 1 .. i
  BY <1>1, MaxIs
<1> QED
  BY <1>1, <1>2 DEF Iterates

LEMMA IterateFirst ==
  ASSUME NEW env, NEW base, NEW seq, NEW n \in Nat, NEW h, Iterates(env, base, seq, n, h)
  PROVE  h[1 .. 0] = base
<1>1. 1 .. 0 = {} /\ {} \in SUBSET (1 .. n)
  OBVIOUS
<1> QED
  BY <1>1 DEF Iterates

\* A fold keeps what every application keeps.
LEMMA IteratesKeep ==
  ASSUME NEW about, NEW env, NEW base, NEW seq, NEW n \in Nat, NEW h, Iterates(env, base, seq, n, h),
         Kept(about, env, base, seq, n), NEW k \in 0 .. n
  PROVE  Holds(about, k, h[1 .. k])
<1> DEFINE T == {i \in 0 .. n : Holds(about, i, h[1 .. i])}
<1>1. 0 \in T
  BY IterateFirst DEF Kept
<1>2. ASSUME NEW i \in 0 .. n - 1, i \in T PROVE i + 1 \in T
  <2>1. i + 1 \in 1 .. n /\ (i + 1) - 1 = i
    OBVIOUS
  <2>2. Holds(about, i, h[1 .. i])
    BY <1>2
  <2>3. \A r : Holds(about, (i + 1) - 1, r) => Holds(about, i + 1, Op(env, r, seq[i + 1]))
    BY <2>1 DEF Kept
  <2>4. Holds(about, i + 1, Op(env, h[1 .. i], seq[i + 1]))
    BY <2>1, <2>2, <2>3
  <2> QED
    BY <2>1, <2>4, IterateNext
<1> HIDE DEF T
<1>3. 0 .. n \subseteq T
  BY <1>1, <1>2, UpTo
<1>4. k \in T
  BY <1>3
<1> QED
  BY <1>4 DEF T

LEMMA FoldKeeps ==
  ASSUME NEW about, NEW env, NEW base, NEW seq, NEW n \in Nat, DOMAIN seq = 1 .. n,
         Kept(about, env, base, seq, n)
  PROVE  Holds(about, n, Fold(env, base, seq))
<1>1. PICK h : Iterates(env, base, seq, n, h) /\ Fold(env, base, seq) = h[1 .. n]
  BY FoldIs
<1>2. n \in 0 .. n
  OBVIOUS
<1> QED
  BY <1>1, <1>2, IteratesKeep

\* Folds that differ in what no application looks at are equal.
LEMMA FoldIgnores ==
  ASSUME NEW about, NEW env, NEW other, NEW base, NEW seq, NEW n \in Nat, DOMAIN seq = 1 .. n,
         Kept(about, env, base, seq, n),
         \A i \in 1 .. n : \A r : Holds(about, i - 1, r) => Op(env, r, seq[i]) = Op(other, r, seq[i])
  PROVE  Fold(env, base, seq) = Fold(other, base, seq)
<1>1. PICK h : Iterates(env, base, seq, n, h) /\ Fold(env, base, seq) = h[1 .. n]
  BY FoldIs
<1>2. PICK k : Iterates(other, base, seq, n, k) /\ Fold(other, base, seq) = k[1 .. n]
  BY FoldIs
<1> DEFINE T == {i \in 0 .. n : h[1 .. i] = k[1 .. i]}
<1>3. 0 \in T
  BY <1>1, <1>2, IterateFirst
<1>4. ASSUME NEW i \in 0 .. n - 1, i \in T PROVE i + 1 \in T
  <2>1. i + 1 \in 1 .. n /\ (i + 1) - 1 = i /\ i \in 0 .. n
    OBVIOUS
  <2>2. Holds(about, i, h[1 .. i])
    BY <1>1, <2>1, IteratesKeep
  <2>3. \A r : Holds(about, (i + 1) - 1, r) => Op(env, r, seq[i + 1]) = Op(other, r, seq[i + 1])
    BY <2>1
  <2>4. Op(env, h[1 .. i], seq[i + 1]) = Op(other, h[1 .. i], seq[i + 1])
    BY <2>1, <2>2, <2>3
  <2>5. h[1 .. i + 1] = Op(env, h[1 .. i], seq[i + 1])
    <3>1. Iterates(env, base, seq, n, h)
      BY <1>1
    <3> QED
      BY <3>1, IterateNext
  <2>6. k[1 .. i + 1] = Op(other, k[1 .. i], seq[i + 1])
    BY <1>2, IterateNext
  <2> QED
    BY <1>4, <2>1, <2>4, <2>5, <2>6
<1> HIDE DEF T
<1>5. 0 .. n \subseteq T
  BY <1>3, <1>4, UpTo
<1>6. n \in T
  BY <1>5
<1> QED
  BY <1>1, <1>2, <1>6 DEF T
==============================================================================
