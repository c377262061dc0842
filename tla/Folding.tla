------------------------------ MODULE Folding ------------------------------
(***************************************************************************)
(* Induction over what is folded.  The provers cannot instantiate a fact   *)
(* that has an operator for a parameter, but they can use the facts of an  *)
(* instance: the operator is a constant of this module, and a module that  *)
(* folds a sequence makes an instance with its own.  What it does may      *)
(* depend on something that is given beforehand.                           *)
(***************************************************************************)
EXTENDS Integers, SequencesExt, WellFoundedInduction, TLAPS

CONSTANTS
    Op(_, _, _),        \* what is done with each element
    Base(_),            \* what is there before the first
    Holds(_, _, _, _)   \* Holds(given, v, seq, n): v is right after n elements of seq

\* What is there after the last.
Fold(given, seq) == FoldLeft(LAMBDA v, e : Op(given, v, e), Base(given), seq)

\* A nonempty set of natural numbers has a least element.
LEMMA NatMin ==
  ASSUME NEW T, T \subseteq Nat, T # {}
  PROVE  \E x \in T : \A y \in T : x <= y
<1> DEFINE R == {p \in Nat \X Nat : p[1] < p[2]}
<1>1. IsWellFoundedOn(R, Nat)
  BY NatLessThanWellFounded DEF OpToRel
<1>2. PICK x \in T : \A y \in T : ~ (<<y, x>> \in R)
  <2> HIDE DEF R
  <2> QED BY <1>1, WFMin
<1>3. ASSUME NEW y \in T PROVE x <= y
  <2>1. x \in Nat /\ y \in Nat
    OBVIOUS
  <2>2. ~(y < x)
    BY <1>2, <2>1
  <2> QED BY <2>1, <2>2
<1> QED BY <1>3

\* A nonempty subset of 1 .. n + 1 has a greatest element, and without it is one of 1 .. n.
LEMMA MaxOfSome ==
  ASSUME NEW n \in Nat, NEW s \in SUBSET (1 .. n + 1), s # {}
  PROVE  /\ Max(s) \in s
         /\ \A y \in s : y <= Max(s)
         /\ s \ {Max(s)} \in SUBSET (1 .. n)
<1> DEFINE T == {k \in Nat : \A y \in s : y <= k}
<1>1. n + 1 \in T
  OBVIOUS
<1>2. PICK x \in T : \A k \in T : x <= k
  <2>1. T \subseteq Nat /\ T # {}
    BY <1>1
  <2> HIDE DEF T
  <2> QED BY <2>1, NatMin
<1>3. x \in s
  <2> SUFFICES ASSUME x \notin s PROVE FALSE
    OBVIOUS
  <2>1. PICK z \in s : TRUE
    OBVIOUS
  <2>2. x \in Nat /\ z \in Nat /\ z <= x /\ z >= 1 /\ x # z
    BY <2>1
  <2>3. x - 1 \in Nat /\ \A y \in s : y <= x - 1
    <3> SUFFICES ASSUME NEW y \in s PROVE x - 1 \in Nat /\ y <= x - 1
      BY <2>2
    <3>1. y <= x /\ y # x /\ y \in Nat
      OBVIOUS
    <3> QED BY <2>2, <3>1
  <2>4. x <= x - 1
    BY <1>2, <2>3
  <2> QED BY <2>2, <2>4
<1>4. Max(s) \in s /\ \A y \in s : Max(s) >= y
  BY <1>3 DEF Max
<1>5. \A y \in s : y <= Max(s) /\ y \in 1 .. n + 1
  BY <1>4
<1>6. ASSUME NEW y \in s, y # Max(s) PROVE y \in 1 .. n
  <2>1. Max(s) \in 1 .. n + 1 /\ y \in 1 .. n + 1 /\ y <= Max(s)
    BY <1>4, <1>5, <1>6
  <2> DEFINE m == Max(s)
  <2>2. m \in 1 .. n + 1 /\ y \in 1 .. n + 1 /\ y <= m /\ y # m
    BY <1>6, <2>1
  <2> HIDE DEF m
  <2> QED BY <2>2
<1> QED BY <1>4, <1>5, <1>6

-----------------------------------------------------------------------------
(* FoldLeft is defined by a recursive function on the subsets of the domain. *)

Recursion(given, g, n, seq) ==
    g = [s \in SUBSET (1 .. n) |-> IF s = {} THEN Base(given) ELSE Op(given, g[s \ {Max(s)}], seq[Max(s)])]

LEMMA RecursionExists ==
  ASSUME NEW given, NEW seq
  PROVE  \A n \in Nat : \E g : Recursion(given, g, n, seq)
<1> SUFFICES ASSUME NEW m \in Nat, ~ \E g : Recursion(given, g, m, seq) PROVE FALSE
  OBVIOUS
<1> DEFINE T == {k \in Nat : ~ \E g : Recursion(given, g, k, seq)}
<1>1. PICK x \in T : \A y \in T : x <= y
  <2>1. T \subseteq Nat /\ T # {}
    OBVIOUS
  <2> HIDE DEF T
  <2> QED BY <2>1, NatMin
<1>2. x # 0
  <2>1. 1 .. 0 = {}
    OBVIOUS
  <2> DEFINE g0 == [s \in SUBSET (1 .. 0) |-> Base(given)]
  <2>2. Recursion(given, g0, 0, seq)
    BY <2>1 DEF Recursion
  <2> QED BY <2>2
<1> DEFINE n == x - 1
<1>3. n \in Nat /\ x = n + 1 /\ n \notin T
  BY <1>1, <1>2
<1>4. PICK g : Recursion(given, g, n, seq)
  BY <1>3
<1> DEFINE h == [s \in SUBSET (1 .. n + 1) |-> IF s = {} THEN Base(given) ELSE Op(given, g[s \ {Max(s)}], seq[Max(s)])]
<1> HIDE DEF n
<1>5. ASSUME NEW t \in SUBSET (1 .. n) PROVE h[t] = g[t]
  <2>1. t \in SUBSET (1 .. n + 1)
    BY <1>3
  <2> QED BY <1>4, <2>1 DEF Recursion
<1>6. ASSUME NEW s \in SUBSET (1 .. n + 1), s # {} PROVE h[s \ {Max(s)}] = g[s \ {Max(s)}]
  BY <1>3, <1>5, <1>6, MaxOfSome
<1>7. Recursion(given, h, n + 1, seq)
  BY <1>6 DEF Recursion
<1> QED BY <1>3, <1>7

LEMMA FoldIsRecursion ==
  ASSUME NEW given, NEW S, NEW seq \in Seq(S)
  PROVE  \E g : Recursion(given, g, Len(seq), seq) /\ Fold(given, seq) = g[1 .. Len(seq)]
<1> DEFINE g == CHOOSE f : Recursion(given, f, Len(seq), seq)
<1>1. Recursion(given, g, Len(seq), seq)
  BY RecursionExists
<1>2. DOMAIN seq = 1 .. Len(seq)
  OBVIOUS
<1>3. Fold(given, seq) = g[1 .. Len(seq)]
  BY <1>2 DEF Fold, FoldLeft, MapThenFoldSet, Recursion
<1> QED BY <1>1, <1>3

\* A fold goes through its sequence from the first element to the last.
LEMMA FoldRuns ==
  ASSUME NEW given, NEW S, NEW seq \in Seq(S)
  PROVE  \E run : /\ run[0] = Base(given)
                  /\ \A n \in 1 .. Len(seq) : run[n] = Op(given, run[n - 1], seq[n])
                  /\ Fold(given, seq) = run[Len(seq)]
<1> DEFINE N == Len(seq)
<1>0. N \in Nat
  OBVIOUS
<1>1. PICK g : Recursion(given, g, N, seq) /\ Fold(given, seq) = g[1 .. N]
  BY FoldIsRecursion
<1> DEFINE run == [n \in 0 .. N |-> g[1 .. n]]
<1> HIDE DEF N
<1>2. run[0] = Base(given)
  <2>1. 1 .. 0 = {} /\ 0 \in 0 .. N
    BY <1>0
  <2>2. {} \in SUBSET (1 .. N)
    OBVIOUS
  <2>3. g[{}] = Base(given)
    BY <1>1, <2>2 DEF Recursion
  <2> QED BY <2>1, <2>3
<1>3. ASSUME NEW n \in 1 .. N PROVE run[n] = Op(given, run[n - 1], seq[n])
  <2>1. n \in 0 .. N /\ n - 1 \in 0 .. N /\ n - 1 \in Nat /\ n = (n - 1) + 1
    BY <1>0
  <2>2. 1 .. n \in SUBSET (1 .. N) /\ n \in 1 .. n /\ 1 .. n # {}
    BY <1>0
  <2>3. Max(1 .. n) = n
    <3>1. Max(1 .. n) \in 1 .. n /\ n <= Max(1 .. n)
      BY <2>1, <2>2, MaxOfSome
    <3> QED BY <3>1
  <2>4. (1 .. n) \ {n} = 1 .. n - 1
    BY <2>1
  <2>5. g[1 .. n] = Op(given, g[(1 .. n) \ {Max(1 .. n)}], seq[Max(1 .. n)])
    BY <1>1, <2>2 DEF Recursion
  <2>6. g[1 .. n] = Op(given, g[1 .. n - 1], seq[n])
    BY <2>3, <2>4, <2>5
  <2> QED BY <2>1, <2>6
<1>4. Fold(given, seq) = run[N]
  BY <1>0, <1>1
<1> HIDE DEF run
<1> QED BY <1>2, <1>3, <1>4 DEF N

\* What holds of the base, and after every element if it did before, holds of the fold.
THEOREM FoldInduction ==
  ASSUME NEW given, NEW S, NEW seq \in Seq(S),
         Holds(given, Base(given), seq, 0),
         \A v : \A n \in 1 .. Len(seq) : Holds(given, v, seq, n - 1) => Holds(given, Op(given, v, seq[n]), seq, n)
  PROVE  Holds(given, Fold(given, seq), seq, Len(seq))
<1>1. PICK run : /\ run[0] = Base(given)
                 /\ \A n \in 1 .. Len(seq) : run[n] = Op(given, run[n - 1], seq[n])
                 /\ Fold(given, seq) = run[Len(seq)]
  BY FoldRuns
<1> SUFFICES ASSUME ~ Holds(given, run[Len(seq)], seq, Len(seq)) PROVE FALSE
  BY <1>1
<1> DEFINE T == {n \in 0 .. Len(seq) : ~ Holds(given, run[n], seq, n)}
<1>2. PICK x \in T : \A y \in T : x <= y
  <2>1. Len(seq) \in T /\ T \subseteq Nat
    OBVIOUS
  <2> HIDE DEF T
  <2> QED BY <2>1, NatMin
<1>3. x # 0
  BY <1>1
<1>4. x \in 1 .. Len(seq) /\ x - 1 \in 0 .. Len(seq) /\ ~ (x <= x - 1)
  BY <1>3
<1>5. Holds(given, run[x - 1], seq, x - 1)
  BY <1>2, <1>4
<1>6. Holds(given, run[x], seq, x)
  BY <1>1, <1>4, <1>5
<1> QED BY <1>6

\* The fold of nothing is the base, and one more element is one more step.
THEOREM FoldAppend ==
  ASSUME NEW given, NEW S, NEW seq \in Seq(S), NEW e \in S
  PROVE  /\ Fold(given, <<>>) = Base(given)
         /\ Fold(given, Append(seq, e)) = Op(given, Fold(given, seq), e)
<1>1. Fold(given, <<>>) = Base(given)
  <2>1. <<>> \in Seq(S) /\ Len(<<>>) = 0
    OBVIOUS
  <2> QED BY <2>1, FoldRuns
<1> DEFINE more == Append(seq, e)
           N    == Len(seq)
<1>2. more \in Seq(S) /\ Len(more) = N + 1 /\ more[N + 1] = e /\ \A n \in 1 .. N : more[n] = seq[n]
  OBVIOUS
<1>3. PICK short : /\ short[0] = Base(given)
                   /\ \A n \in 1 .. N : short[n] = Op(given, short[n - 1], seq[n])
                   /\ Fold(given, seq) = short[N]
  BY FoldRuns
<1>4. PICK long : /\ long[0] = Base(given)
                  /\ \A n \in 1 .. Len(more) : long[n] = Op(given, long[n - 1], more[n])
                  /\ Fold(given, more) = long[Len(more)]
  <2> HIDE DEF more
  <2> QED BY <1>2, FoldRuns
<1>0. N \in Nat
  OBVIOUS
<1> HIDE DEF more, N
<1>5. long[N] = short[N]
  <2> SUFFICES ASSUME long[N] # short[N] PROVE FALSE
    OBVIOUS
  <2> DEFINE T == {n \in 0 .. N : long[n] # short[n]}
  <2>1. PICK x \in T : \A y \in T : x <= y
    <3>1. T \subseteq Nat /\ N \in T
      BY <1>0
    <3> HIDE DEF T
    <3> QED BY <3>1, NatMin
  <2>2. x # 0
    BY <1>3, <1>4
  <2>3. x \in 1 .. N /\ x \in 1 .. N + 1 /\ x - 1 \in 0 .. N /\ ~ (x <= x - 1)
    BY <1>0, <2>2
  <2>4. long[x - 1] = short[x - 1]
    BY <2>1, <2>3
  <2>5. long[x] = short[x]
    BY <1>2, <1>3, <1>4, <2>3, <2>4
  <2> QED BY <2>5
<1>6. long[N + 1] = Op(given, long[N], e)
  BY <1>0, <1>2, <1>4
<1> QED BY <1>1, <1>2, <1>3, <1>4, <1>5, <1>6 DEF more
=============================================================================
