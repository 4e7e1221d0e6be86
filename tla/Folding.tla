------------------------------- MODULE Folding -------------------------------
(***************************************************************************)
(* What holds of a loop over a list when every turn of it keeps it.        *)
(*                                                                         *)
(* Step(ctx, at, acc, x) is one turn: from what was built so far and the   *)
(* next item to what is built then, with two parameters of the whole loop. *)
(* Good(old, acc) is what the turns keep; old is where the loop began, or  *)
(* any other value to compare with.  A module that folds with an operator  *)
(* of its own instantiates both and cites WalkKeeps: the induction over    *)
(* the length of the list is here, by a least counterexample, once for all *)
(* loops.                                                                  *)
(***************************************************************************)
EXTENDS Naturals, FiniteSetsExt, WellFoundedInduction, TLAPS

CONSTANTS Step(_, _, _, _), Good(_, _)

\* g folds the first k items of seq, the last of a set of positions last: the
\* function that FoldLeft defines by recursion over the sets of positions.
Folds(g, ctx, at, base, seq, k) ==
  g = [s \in SUBSET (1 .. k) |->
         IF s = {} THEN base ELSE Step(ctx, at, g[s \ {Max(s)}], seq[Max(s)])]

\* Every set of natural numbers that is not empty has a least element.
LEMMA LeastNat ==
  ASSUME NEW T \in SUBSET Nat, T # {}
  PROVE  \E n \in T : \A m \in T : n <= m
<1>1. IsWellFoundedOn(OpToRel(<, Nat), Nat)
  BY NatLessThanWellFounded
<1>2. PICK n \in T : \A m \in T : ~(<<m, n>> \in OpToRel(<, Nat))
  BY <1>1, WFMin
<1>3. \A m \in T : ~(m < n)
  BY <1>2 DEF OpToRel
<1> QED
  BY <1>3

\* The greatest of some positions up to k exists, and it is k if k is among them.
LEMMA MaxOf ==
  ASSUME NEW k \in Nat, NEW s \in SUBSET (1 .. k), s # {}
  PROVE  Max(s) \in s /\ \A i \in s : Max(s) >= i
<1> DEFINE T == {n \in Nat : \A i \in s : n >= i}
<1>1. k \in T
  OBVIOUS
<1>2. PICK n \in T : \A m \in T : n <= m
  BY <1>1, LeastNat
<1>3. n \in s
  <2> SUFFICES ASSUME n \notin s PROVE FALSE
    OBVIOUS
  <2>1. PICK i \in s : TRUE
    OBVIOUS
  <2>2. n > i /\ i \in Nat /\ n \in Nat
    BY <1>2, <2>1
  <2>3. \A j \in s : j \in Nat /\ n >= j /\ n # j
    BY <1>2
  <2>4. \A j \in s : n - 1 >= j
    BY <2>2, <2>3
  <2>5. n - 1 \in T
    BY <2>2, <2>4
  <2> QED
    BY <1>2, <2>2, <2>5
<1> QED
  BY <1>2, <1>3, ZenonT(10) DEF Max

LEMMA MaxIs ==
  ASSUME NEW k \in Nat, NEW s \in SUBSET (1 .. k), k \in s
  PROVE  Max(s) = k
<1> DEFINE m == Max(s)
<1>1. m \in s /\ m >= k
  BY MaxOf
<1>2. m \in 1 .. k /\ m >= k
  BY <1>1
<1> HIDE DEF m
<1>3. m = k
  BY <1>2
<1> QED
  BY <1>3 DEF m

\* The recursive definition has a solution, for every length of the list.
LEMMA FoldExists ==
  ASSUME NEW ctx, NEW at, NEW base, NEW seq, NEW n \in Nat
  PROVE  \E g : Folds(g, ctx, at, base, seq, n)
<1> SUFFICES ASSUME ~\E g : Folds(g, ctx, at, base, seq, n) PROVE FALSE
  OBVIOUS
<1> DEFINE T == {k \in Nat : ~\E g : Folds(g, ctx, at, base, seq, k)}
<1>1. PICK k \in T : \A m \in T : k <= m
  BY LeastNat
<1>2. k # 0
  <2>1. Folds([s \in SUBSET (1 .. 0) |-> base], ctx, at, base, seq, 0)
    BY DEF Folds
  <2> QED
    BY <1>1, <2>1
<1>3. k - 1 \in Nat /\ k - 1 \notin T
  BY <1>1, <1>2
<1>4. PICK g : Folds(g, ctx, at, base, seq, k - 1)
  BY <1>3
<1> DEFINE h == [s \in SUBSET (1 .. k) |->
                   IF k \in s THEN Step(ctx, at, g[s \ {k}], seq[k]) ELSE g[s]]
<1>5. ASSUME NEW s \in SUBSET (1 .. k)
      PROVE  h[s] = IF s = {} THEN base ELSE Step(ctx, at, h[s \ {Max(s)}], seq[Max(s)])
  <2>1. CASE k \in s
    <3>1. Max(s) = k
      BY <1>1, <2>1, MaxIs
    <3>2. s \ {k} \in SUBSET (1 .. k) /\ k \notin s \ {k} /\ s # {}
      BY <2>1
    <3>3. h[s \ {k}] = g[s \ {k}]
      BY <3>2
    <3>4. h[s] = Step(ctx, at, g[s \ {k}], seq[k])
      BY <2>1
    <3> QED
      BY <3>1, <3>2, <3>3, <3>4
  <2>2. CASE k \notin s
    <3>1. s \in SUBSET (1 .. (k - 1))
      BY <1>3, <2>2
    <3>2. h[s] = g[s] /\ \A x : h[s \ {x}] = g[s \ {x}]
      BY <2>2
    <3> QED
      BY <1>4, <3>1, <3>2 DEF Folds
  <2> QED
    BY <2>1, <2>2
<1>6. Folds(h, ctx, at, base, seq, k)
  BY <1>5 DEF Folds
<1> QED
  BY <1>1, <1>6

LEMMA FirstItems ==
  ASSUME NEW n \in Nat, NEW k \in 1 .. n
  PROVE  /\ k \in Nat /\ k \in 1 .. k
         /\ 1 .. k \in SUBSET (1 .. n) /\ 1 .. k # {}
         /\ (1 .. k) \ {k} = 1 .. (k - 1)
<1>1. k \in Nat /\ k \in 1 .. k
  OBVIOUS
<1>2. 1 .. k \in SUBSET (1 .. n)
  OBVIOUS
<1>3. \A i : i \in (1 .. k) \ {k} <=> i \in 1 .. (k - 1)
  BY <1>1
<1>4. (1 .. k) \ {k} = 1 .. (k - 1)
  BY <1>3, Zenon
<1> QED
  BY <1>1, <1>2, <1>4

LEMMA FoldKeeps ==
  ASSUME NEW old, NEW ctx, NEW at, NEW base, NEW seq, NEW n \in Nat,
         NEW g, Folds(g, ctx, at, base, seq, n),
         Good(old, base),
         \A acc : \A i \in 1 .. n : Good(old, acc) => Good(old, Step(ctx, at, acc, seq[i]))
  PROVE  Good(old, g[1 .. n])
<1> SUFFICES ASSUME ~Good(old, g[1 .. n]) PROVE FALSE
  OBVIOUS
<1> DEFINE T == {k \in 0 .. n : ~Good(old, g[1 .. k])}
<1>1. T \in SUBSET Nat /\ n \in T
  OBVIOUS
<1>2. PICK k \in T : \A m \in T : k <= m
  BY <1>1, LeastNat
<1>3. k # 0
  <2>1. 1 .. 0 = {} /\ {} \in SUBSET (1 .. n)
    OBVIOUS
  <2>2. g[{}] = base
    BY <2>1 DEF Folds
  <2> QED
    BY <1>2, <2>1, <2>2
<1>4. Good(old, g[1 .. (k - 1)])
  <2>1. k \in 0 .. n /\ k - 1 \in 0 .. n /\ ~(k <= k - 1)
    BY <1>2, <1>3
  <2> QED
    BY <1>2, <2>1
<1>5. k \in 1 .. n /\ ~Good(old, g[1 .. k])
  BY <1>2, <1>3
<1>6. g[1 .. k] = Step(ctx, at, g[1 .. (k - 1)], seq[k])
  <2>1. k \in Nat /\ 1 .. k \in SUBSET (1 .. k) /\ Max(1 .. k) = k
    BY <1>5, FirstItems, MaxIs
  <2>2. 1 .. k \in SUBSET (1 .. n) /\ 1 .. k # {} /\ (1 .. k) \ {k} = 1 .. (k - 1)
    BY <1>5, FirstItems
  <2> QED
    BY <2>1, <2>2 DEF Folds
<1> QED
  BY <1>4, <1>5, <1>6

\* What every turn keeps holds at the end of the loop.
LEMMA WalkKeeps ==
  ASSUME NEW old, NEW ctx, NEW at, NEW base, NEW seq, NEW n \in Nat,
         Good(old, base),
         \A acc : \A i \in 1 .. n : Good(old, acc) => Good(old, Step(ctx, at, acc, seq[i]))
  PROVE  Good(old, (CHOOSE g : Folds(g, ctx, at, base, seq, n))[1 .. n])
<1> DEFINE g == CHOOSE h : Folds(h, ctx, at, base, seq, n)
<1>1. Folds(g, ctx, at, base, seq, n)
  BY FoldExists
<1> QED
  BY <1>1, FoldKeeps
=============================================================================
