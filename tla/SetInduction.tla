---------------------------- MODULE SetInduction ----------------------------
(***************************************************************************)
(* Induction for the proofs of this project: over numbers and over the     *)
(* subsets of a finite set, and what follows for the folds of the          *)
(* community modules, with which the models go through their data one by   *)
(* one (the code's for loops).                                             *)
(*                                                                         *)
(* A lemma cannot take a predicate, so an induction is over the set of the *)
(* cases proved: it holds zero and the successors of its members           *)
(* (Counting), or the empty set and every set one member larger (BySize).  *)
(***************************************************************************)
EXTENDS Integers, FiniteSets, FiniteSetsExt, FiniteSetTheorems, WellFoundedInduction, TLAPS

-----------------------------------------------------------------------------
(* Induction.                                                              *)

\* Every set of naturals with a member has a least one.
LEMMA LeastOf ==
  ASSUME NEW S \in SUBSET Nat, S # {}
  PROVE  \E m \in S : \A n \in S : m <= n
<1>1. PICK m \in S : \A n \in S : ~ (<<n, m>> \in OpToRel(<, Nat))
  BY NatLessThanWellFounded, WFMin, Zenon
<1>2. ASSUME NEW n \in S PROVE m <= n
  <2>1. <<n, m>> \notin {ss \in Nat \X Nat : ss[1] < ss[2]}
    BY <1>1, Zenon DEF OpToRel
  <2> QED
    BY <2>1
<1> QED
  BY <1>2

\* A set that has zero and the successors of its members has every number.
LEMMA Counting ==
  ASSUME NEW P \in SUBSET Nat, 0 \in P, \A n \in P : n + 1 \in P
  PROVE  P = Nat
<1> SUFFICES ASSUME Nat \ P # {} PROVE FALSE
  OBVIOUS
<1>1. PICK m \in Nat \ P : \A n \in Nat \ P : m <= n
  BY LeastOf
<1>2. m # 0 /\ m - 1 \in Nat /\ m - 1 + 1 = m
  BY <1>1
<1>3. m - 1 \in P
  BY <1>1, <1>2
<1> QED
  BY <1>1, <1>2, <1>3

\* A family of subsets of a finite set that has the empty set, and a set
\* whenever it has those with one member less, has every subset.
LEMMA BySize ==
  ASSUME NEW S, IsFiniteSet(S), NEW P \in SUBSET (SUBSET S), {} \in P,
         \A s \in (SUBSET S) \ {{}} : (\A x \in s : s \ {x} \in P) => s \in P
  PROVE  P = SUBSET S
<1> DEFINE Good == {n \in Nat : \A s \in SUBSET S : Cardinality(s) = n => s \in P}
<1>f. \A s \in SUBSET S : IsFiniteSet(s) /\ Cardinality(s) \in Nat
  BY FS_Subset, FS_CardinalityType
<1>1. 0 \in Good
  BY <1>f, FS_EmptySet
<1>2. ASSUME NEW n \in Good PROVE n + 1 \in Good
  <2>n. n \in Nat /\ \A s \in SUBSET S : Cardinality(s) = n => s \in P
    OBVIOUS
  <2>1. ASSUME NEW s \in SUBSET S, Cardinality(s) = n + 1 PROVE s \in P
    <3> HIDE DEF Good
    <3>1. s # {}
      <4>1. Cardinality({}) = 0
        BY FS_EmptySet
      <4>2. n + 1 # 0
        BY <2>n
      <4> QED
        BY <2>1, <4>1, <4>2, Zenon
    <3>2. ASSUME NEW x \in s PROVE s \ {x} \in P
      <4>1. Cardinality(s \ {x}) = n
        BY <1>f, <2>n, <2>1, FS_RemoveElement
      <4> QED
        BY <2>n, <4>1
    <3> QED
      BY <3>1, <3>2
  <2> QED
    BY <2>n, <2>1
<1>3. Good = Nat
  <2> HIDE DEF Good
  <2>1. Good \in SUBSET Nat
    BY DEF Good
  <2> QED
    BY <1>1, <1>2, <2>1, Counting
<1> QED
  BY <1>f, <1>3

\* R puts the members of S in one order.
Orders(R, S) ==
    /\ \A p, q \in S : p # q => <<p, q>> \in R \/ <<q, p>> \in R
    /\ \A p, q, r \in S : <<p, q>> \in R /\ <<q, r>> \in R => <<p, r>> \in R

\* What is finite and ordered has a last member.
LEMMA LastOf ==
  ASSUME NEW S, IsFiniteSet(S), NEW R, Orders(R, S), NEW s \in (SUBSET S) \ {{}}
  PROVE  \E w \in s : \A q \in s \ {w} : <<q, w>> \in R
<1> DEFINE HasLast(t) == \E w \in t : \A q \in t \ {w} : <<q, w>> \in R
           P == {t \in SUBSET S : t # {} => HasLast(t)}
<1>1. ASSUME NEW t \in (SUBSET S) \ {{}}, \A x \in t : t \ {x} \in P
      PROVE  t \in P
  <2>1. PICK x \in t : TRUE
    OBVIOUS
  <2>2. CASE t = {x}
    BY <2>2
  <2>3. CASE t # {x}
    <3>1. HasLast(t \ {x})
      BY <1>1, <2>3
    <3>2. PICK w \in t \ {x} : \A q \in (t \ {x}) \ {w} : <<q, w>> \in R
      BY <3>1
    <3>3. CASE <<x, w>> \in R
      <4>1. \A q \in t \ {w} : <<q, w>> \in R
        BY <3>2, <3>3
      <4> QED
        BY <3>2, <4>1
    <3>4. CASE <<w, x>> \in R
      <4>1. \A q \in t \ {x} : <<q, x>> \in R
        BY <2>1, <3>2, <3>4 DEF Orders
      <4> QED
        BY <2>1, <4>1
    <3> QED
      BY <2>1, <3>2, <3>3, <3>4 DEF Orders
  <2> QED
    BY <2>2, <2>3
<1>2. P = SUBSET S
  <2> HIDE DEF P
  <2>1. P \in SUBSET (SUBSET S) /\ {} \in P
    BY DEF P
  <2> QED
    BY <1>1, <2>1, BySize
<1> QED
  BY <1>2

-----------------------------------------------------------------------------
(* Folds.                                                                  *)

\* ch takes a member of each set, which a fold over S puts last; the results
\* of the folds over its subsets, as MapThenFoldSet forms them, of a step that
\* keeps to T.
Takes(ch, S) == \A s \in (SUBSET S) \ {{}} : ch[s] \in s

IsFold(h, S, ch, step, b) ==
    /\ h[{}] = b
    /\ \A s \in (SUBSET S) \ {{}} : h[s] = step[<<h[s \ {ch[s]}], ch[s]>>]

\* The same as long as the results are in T.
Follows(h, S, ch, step, T) ==
    \A s \in (SUBSET S) \ {{}} :
        h[s \ {ch[s]}] \in T => h[s] = step[<<h[s \ {ch[s]}], ch[s]>>]

LEMMA FoldExists ==
  ASSUME NEW S, IsFiniteSet(S), NEW ch, Takes(ch, S),
         NEW T, NEW b \in T, NEW step \in [T \X S -> T]
  PROVE  \E h \in [SUBSET S -> T] : IsFold(h, S, ch, step, b)
<1>f. \A s \in SUBSET S : IsFiniteSet(s) /\ Cardinality(s) \in Nat
  BY FS_Subset, FS_CardinalityType
<1> DEFINE Small(n) == {s \in SUBSET S : Cardinality(s) <= n}
           Folds(n) == {h \in [Small(n) -> T] :
                          /\ h[{}] = b
                          /\ \A s \in Small(n) \ {{}} : h[s] = step[<<h[s \ {ch[s]}], ch[s]>>]}
           Good == {n \in Nat : Folds(n) # {}}
<1>1. 0 \in Good
  <2>1. Small(0) = {{}}
    BY <1>f, FS_EmptySet
  <2>2. [s \in Small(0) |-> b] \in Folds(0)
    BY <2>1
  <2> QED
    BY <2>2
<1>2. ASSUME NEW n \in Good PROVE n + 1 \in Good
  <2>1. PICK h \in Folds(n) : TRUE
    OBVIOUS
  <2>2. {} \in Small(n) /\ Small(n) \subseteq Small(n + 1)
    BY <1>f, FS_EmptySet
  <2>3. ASSUME NEW s \in Small(n + 1), s # {}
        PROVE  ch[s] \in S /\ s \ {ch[s]} \in Small(n)
    <3>1. ch[s] \in s
      BY <2>3 DEF Takes
    <3>2. Cardinality(s \ {ch[s]}) = Cardinality(s) - 1
      BY <1>f, <3>1, FS_RemoveElement
    <3> QED
      BY <1>f, <3>1, <3>2
  <2> DEFINE g == [s \in Small(n + 1) |->
                      IF s = {} THEN b ELSE step[<<h[s \ {ch[s]}], ch[s]>>]]
  <2> HIDE DEF Small
  <2>4. \A s \in Small(n) : g[s] = h[s]
    BY <2>1, <2>2
  <2>5. g \in [Small(n + 1) -> T]
    BY <2>1, <2>3
  <2>6. g[{}] = b
    BY <2>2
  <2>7. \A s \in Small(n + 1) \ {{}} : g[s] = step[<<g[s \ {ch[s]}], ch[s]>>]
    BY <2>3, <2>4
  <2> HIDE DEF g
  <2>8. g \in Folds(n + 1)
    BY <2>5, <2>6, <2>7
  <2>n. n \in Nat
    OBVIOUS
  <2>9. n + 1 \in Nat /\ Folds(n + 1) # {}
    <3> HIDE DEF Folds
    <3> QED
      BY <2>n, <2>8
  <2> HIDE DEF Folds
  <2> QED
    BY <2>9
<1>3. Good = Nat
  <2> HIDE DEF Good
  <2>1. Good \in SUBSET Nat
    BY DEF Good
  <2> QED
    BY <1>1, <1>2, <2>1, Counting
<1>4. Folds(Cardinality(S)) # {}
  BY <1>f, <1>3
<1>5. Small(Cardinality(S)) = SUBSET S
  BY FS_Subset
<1> QED
  BY <1>4, <1>5 DEF IsFold

\* Whatever follows the step as long as its results are in T is that fold.
LEMMA FoldIs ==
  ASSUME NEW S, IsFiniteSet(S), NEW ch, Takes(ch, S),
         NEW T, NEW b \in T, NEW step \in [T \X S -> T],
         NEW i, i[{}] = b, Follows(i, S, ch, step, T)
  PROVE  IsFold(i, S, ch, step, b) /\ \A s \in SUBSET S : i[s] \in T
<1> DEFINE P == {s \in SUBSET S : i[s] \in T}
<1>1. {} \in P
  OBVIOUS
<1>2. ASSUME NEW s \in (SUBSET S) \ {{}}, \A x \in s : s \ {x} \in P
      PROVE  s \in P
  <2>1. ch[s] \in s /\ ch[s] \in S
    BY DEF Takes
  <2>2. i[s \ {ch[s]}] \in T
    BY <1>2, <2>1
  <2>3. i[s] = step[<<i[s \ {ch[s]}], ch[s]>>]
    BY <2>2 DEF Follows
  <2> QED
    BY <2>1, <2>2, <2>3
<1>3. P = SUBSET S
  <2> HIDE DEF P
  <2>1. P \in SUBSET (SUBSET S)
    BY DEF P
  <2> QED
    BY <1>1, <1>2, <2>1, BySize
<1>4. \A s \in SUBSET S : i[s] \in T
  BY <1>3
<1>5. \A s \in (SUBSET S) \ {{}} : i[s] = step[<<i[s \ {ch[s]}], ch[s]>>]
  <2>1. \A s \in (SUBSET S) \ {{}} : s \ {ch[s]} \in SUBSET S
    OBVIOUS
  <2> QED
    BY <1>4, <2>1 DEF Follows
<1> QED
  BY <1>4, <1>5 DEF IsFold

\* The last of the first n numbers.
LEMMA MaxUpTo ==
  ASSUME NEW n \in Nat
  PROVE  /\ \A s \in (SUBSET (1 .. n)) \ {{}} : Max(s) \in s
         /\ n # 0 => Max(1 .. n) = n
<1>1. ASSUME NEW s \in (SUBSET (1 .. n)) \ {{}} PROVE \E x \in s : \A y \in s : x >= y
  <2> DEFINE U == {m \in Nat : \A y \in s : y <= m}
  <2>1. n \in U
    OBVIOUS
  <2>2. PICK m \in U : \A k \in U : m <= k
    <3>1. U \in SUBSET Nat /\ U # {}
      BY <2>1
    <3> HIDE DEF U
    <3> QED
      BY <3>1, LeastOf
  <2>3. CASE m \in s
    BY <2>2, <2>3
  <2>4. CASE m \notin s
    <3>1. m # 0 /\ \A y \in s : y <= m - 1
      BY <2>2, <2>4
    <3>2. m - 1 \in U
      BY <2>2, <3>1
    <3> QED
      BY <2>2, <3>2
  <2> QED
    BY <2>3, <2>4
<1>2. \A s \in (SUBSET (1 .. n)) \ {{}} : Max(s) \in s
  BY <1>1 DEF Max
<1>3. ASSUME n # 0 PROVE Max(1 .. n) = n
  <2>1. n \in 1 .. n /\ \A y \in 1 .. n : n >= y
    BY <1>3
  <2>2. Max(1 .. n) \in 1 .. n /\ \A y \in 1 .. n : Max(1 .. n) >= y
    BY <2>1 DEF Max
  <2> QED
    BY <2>1, <2>2
<1> QED
  BY <1>2, <1>3

\* A fold over a sequence, step by step.
InTurn(i, n, step, T) ==
    \A s \in (SUBSET (1 .. n)) \ {{}} :
        i[s \ {Max(s)}] \in T => i[s] = step[<<i[s \ {Max(s)}], Max(s)>>]

\* Its results in that order.
Runs(F, n, step, b, last) ==
    /\ F[0] = b /\ F[n] = last
    /\ \A k \in 1 .. n : F[k] = step[<<F[k - 1], k>>]

LEMMA FoldSteps ==
  ASSUME NEW n \in Nat, NEW T, NEW b \in T, NEW step \in [T \X (1 .. n) -> T],
         NEW i, i[{}] = b, InTurn(i, n, step, T)
  PROVE  \E F \in [0 .. n -> T] : Runs(F, n, step, b, i[1 .. n])
<1> DEFINE S == 1 .. n
           ch == [s \in (SUBSET S) \ {{}} |-> Max(s)]
<1>1. Takes(ch, S) /\ \A s \in (SUBSET S) \ {{}} : ch[s] = Max(s)
  BY MaxUpTo DEF Takes
<1>2. IsFiniteSet(S)
  BY FS_Interval
<1> HIDE DEF ch
<1>3. IsFold(i, S, ch, step, b) /\ \A s \in SUBSET S : i[s] \in T
  <2>1. Follows(i, S, ch, step, T)
    BY <1>1 DEF Follows, InTurn
  <2>2. step \in [T \X S -> T]
    OBVIOUS
  <2> HIDE DEF S
  <2> QED
    BY <1>1, <1>2, <2>1, <2>2, FoldIs
<1> DEFINE F == [k \in 0 .. n |-> i[1 .. k]]
<1>4. F \in [0 .. n -> T]
  <2>1. ASSUME NEW k \in 0 .. n PROVE 1 .. k \in SUBSET S
    OBVIOUS
  <2> QED
    BY <1>3, <2>1
<1>5. F[0] = b /\ F[n] = i[1 .. n]
  <2>1. 1 .. 0 = {}
    OBVIOUS
  <2> QED
    BY <2>1
<1>6. ASSUME NEW k \in 1 .. n PROVE F[k] = step[<<F[k - 1], k>>]
  <2>1. 1 .. k \in (SUBSET S) \ {{}}
    OBVIOUS
  <2>2. ch[1 .. k] = k
    <3>1. Max(1 .. k) = k
      BY MaxUpTo
    <3> QED
      BY <1>1, <2>1, <3>1
  <2>3. (1 .. k) \ {k} = 1 .. (k - 1)
    OBVIOUS
  <2>4. i[1 .. k] = step[<<i[(1 .. k) \ {ch[1 .. k]}], ch[1 .. k]>>]
    BY <1>3, <2>1 DEF IsFold
  <2>5. F[k] = i[1 .. k] /\ F[k - 1] = i[1 .. (k - 1)]
    OBVIOUS
  <2> HIDE DEF F
  <2> QED
    BY <2>2, <2>3, <2>4, <2>5
<1> QED
  BY <1>4, <1>5, <1>6 DEF Runs

=============================================================================
