--------------------------- MODULE RevenueProofs ---------------------------
(***************************************************************************)
(* The money of a contract: what its revenue periods add up to, for every  *)
(* number of months, stations, lines and weights and all amounts.          *)
(*                                                                         *)
(* The first half is about SumFunction, which takes the values of a        *)
(* function in an order of its own choice: that a sum exists, and that it  *)
(* may be taken in any order.                                              *)
(***************************************************************************)
EXTENDS Revenue, SetInduction, TLAPS

-----------------------------------------------------------------------------
(* Sums.                                                                   *)

Pick(s) == CHOOSE x \in s : TRUE

\* The partial sums of f over the subsets of S, as SumFunction forms them.
IsSum(h, f, S) ==
    /\ h \in [SUBSET S -> Int]
    /\ h[{}] = 0
    /\ \A s \in (SUBSET S) \ {{}} : h[s] = f[Pick(s)] + h[s \ {Pick(s)}]

LEMMA PickIn == \A s : s # {} => Pick(s) \in s
BY DEF Pick

LEMMA SumExists ==
  ASSUME NEW S, IsFiniteSet(S), NEW f, \A x \in S : f[x] \in Int
  PROVE  \E h : IsSum(h, f, S)
<1>f. \A s \in SUBSET S : IsFiniteSet(s) /\ Cardinality(s) \in Nat
  BY FS_Subset, FS_CardinalityType
<1> DEFINE Small(n) == {s \in SUBSET S : Cardinality(s) <= n}
           Sums(n) == {h \in [Small(n) -> Int] :
                         /\ h[{}] = 0
                         /\ \A s \in Small(n) \ {{}} : h[s] = f[Pick(s)] + h[s \ {Pick(s)}]}
           Good == {n \in Nat : Sums(n) # {}}
<1>1. 0 \in Good
  <2>1. Small(0) = {{}}
    BY <1>f, FS_EmptySet
  <2>2. [s \in Small(0) |-> 0] \in Sums(0)
    BY <2>1
  <2> QED
    BY <2>2
<1>2. ASSUME NEW n \in Good PROVE n + 1 \in Good
  <2>1. PICK h \in Sums(n) : TRUE
    OBVIOUS
  <2>2. {} \in Small(n) /\ Small(n) \subseteq Small(n + 1)
    BY <1>f, FS_EmptySet
  <2>3. ASSUME NEW s \in Small(n + 1), s # {}
        PROVE  Pick(s) \in S /\ s \ {Pick(s)} \in Small(n)
    <3>1. Pick(s) \in s
      BY <2>3, PickIn
    <3>2. Cardinality(s \ {Pick(s)}) = Cardinality(s) - 1
      BY <1>f, <3>1, FS_RemoveElement
    <3> QED
      BY <1>f, <3>1, <3>2
  <2> DEFINE g == [s \in Small(n + 1) |->
                      IF s = {} THEN 0 ELSE f[Pick(s)] + h[s \ {Pick(s)}]]
  <2> HIDE DEF Small
  <2>4. \A s \in Small(n) : g[s] = h[s]
    BY <2>1, <2>2
  <2>5. g \in [Small(n + 1) -> Int]
    BY <2>1, <2>3
  <2>6. g[{}] = 0
    BY <2>2
  <2>7. \A s \in Small(n + 1) \ {{}} : g[s] = f[Pick(s)] + g[s \ {Pick(s)}]
    BY <2>3, <2>4
  <2> HIDE DEF g
  <2>8. g \in Sums(n + 1)
    BY <2>5, <2>6, <2>7
  <2>n. n \in Nat
    OBVIOUS
  <2>9. n + 1 \in Nat /\ Sums(n + 1) # {}
    <3> HIDE DEF Sums
    <3> QED
      BY <2>n, <2>8
  <2> HIDE DEF Sums
  <2> QED
    BY <2>9
<1>3. Good = Nat
  <2> HIDE DEF Good
  <2>1. Good \in SUBSET Nat
    BY DEF Good
  <2> QED
    BY <1>1, <1>2, <2>1, Counting
<1>4. Sums(Cardinality(S)) # {}
  BY <1>f, <1>3
<1>5. Small(Cardinality(S)) = SUBSET S
  BY FS_Subset
<1> QED
  BY <1>4, <1>5 DEF IsSum

LEMMA SumsAgree ==
  ASSUME NEW S, IsFiniteSet(S), NEW f, NEW h, IsSum(h, f, S),
         NEW T, IsFiniteSet(T), NEW e, NEW g, IsSum(g, e, T),
         NEW R, R \subseteq S, R \subseteq T, \A x \in R : f[x] = e[x]
  PROVE  h[R] = g[R]
<1> DEFINE P == {s \in SUBSET R : h[s] = g[s]}
<1>f. IsFiniteSet(R)
  BY FS_Subset
<1>1. {} \in P
  BY DEF IsSum
<1>2. ASSUME NEW s \in (SUBSET R) \ {{}}, \A x \in s : s \ {x} \in P
      PROVE  s \in P
  <2>1. Pick(s) \in s
    BY PickIn
  <2>2. h[s \ {Pick(s)}] = g[s \ {Pick(s)}]
    BY <1>2, <2>1
  <2>3. h[s] = f[Pick(s)] + h[s \ {Pick(s)}] /\ g[s] = e[Pick(s)] + g[s \ {Pick(s)}]
    BY DEF IsSum
  <2>4. f[Pick(s)] = e[Pick(s)]
    BY <2>1
  <2> QED
    BY <2>2, <2>3, <2>4
<1>3. P = SUBSET R
  <2> HIDE DEF P
  <2>1. P \in SUBSET (SUBSET R)
    BY DEF P
  <2> QED
    BY <1>f, <1>1, <1>2, <2>1, BySize
<1> QED
  BY <1>3

\* Any member may be taken first.
LEMMA AnyFirst ==
  ASSUME NEW S, IsFiniteSet(S), NEW f, \A x \in S : f[x] \in Int,
         NEW h, IsSum(h, f, S), NEW y \in S
  PROVE  h[S] = f[y] + h[S \ {y}]
<1> DEFINE P == {s \in SUBSET S : \A x \in s : h[s] = f[x] + h[s \ {x}]}
<1>1. {} \in P
  OBVIOUS
<1>2. ASSUME NEW s \in (SUBSET S) \ {{}}, \A x \in s : s \ {x} \in P
      PROVE  s \in P
  <2> SUFFICES ASSUME NEW x \in s PROVE h[s] = f[x] + h[s \ {x}]
    OBVIOUS
  <2> DEFINE p == Pick(s)
  <2>1. p \in s
    BY PickIn
  <2>2. h[s] = f[p] + h[s \ {p}]
    BY DEF IsSum
  <2>3. CASE x = p
    BY <2>2, <2>3
  <2>4. CASE x # p
    <3>1. h[s \ {p}] = f[x] + h[(s \ {p}) \ {x}]
      BY <1>2, <2>1, <2>4
    <3>2. h[s \ {x}] = f[p] + h[(s \ {x}) \ {p}]
      BY <1>2, <2>1, <2>4
    <3>3. (s \ {p}) \ {x} = (s \ {x}) \ {p}
      OBVIOUS
    <3>4. f[x] \in Int /\ f[p] \in Int /\ h[(s \ {x}) \ {p}] \in Int
      BY <2>1 DEF IsSum
    <3>5. ASSUME NEW a \in Int, NEW b \in Int, NEW c \in Int
          PROVE  a + (b + c) = b + (a + c)
      OBVIOUS
    <3>6. f[p] + (f[x] + h[(s \ {x}) \ {p}]) = f[x] + (f[p] + h[(s \ {x}) \ {p}])
      BY <3>4, <3>5, Zenon
    <3> HIDE DEF p
    <3> QED
      BY <2>2, <3>1, <3>2, <3>3, <3>6, Zenon
  <2> QED
    BY <2>3, <2>4
<1>3. P = SUBSET S
  <2> HIDE DEF P
  <2>1. P \in SUBSET (SUBSET S)
    BY DEF P
  <2> QED
    BY <1>1, <1>2, <2>1, BySize
<1> QED
  BY <1>3

\* SumFunction is the partial sum over the whole domain.
LEMMA SumIs ==
  ASSUME NEW S, IsFiniteSet(S), NEW f, DOMAIN f = S, \A x \in S : f[x] \in Int
  PROVE  \E h : IsSum(h, f, S) /\ SumFunction(f) = h[S]
<1> DEFINE Step(h) == [s \in SUBSET S |-> IF s = {} THEN 0
                        ELSE f[CHOOSE x \in s : TRUE] + h[s \ {CHOOSE x \in s : TRUE}]]
           i == CHOOSE h : h = Step(h)
<1>1. PICK h : IsSum(h, f, S)
  BY SumExists
<1>2. h = Step(h)
  <2>1. h = [s \in SUBSET S |-> h[s]]
    BY <1>1 DEF IsSum
  <2>2. \A s \in SUBSET S : h[s] = Step(h)[s]
    BY <1>1 DEF IsSum, Pick
  <2> QED
    BY <2>1, <2>2
<1>3. i = Step(i)
  <2> HIDE DEF Step
  <2> QED
    BY <1>2
<1>4. SumFunction(f) = i[S]
  BY DEF SumFunction, SumFunctionOnSet, FoldFunctionOnSet, MapThenFoldSet
<1> HIDE DEF i
<1>5. /\ i[{}] = 0 
      /\ \A s \in (SUBSET S) \ {{}} : i[s] = f[Pick(s)] + i[s \ {Pick(s)}]
  BY <1>3 DEF Pick
<1> DEFINE P == {s \in SUBSET S : i[s] = h[s]}
<1>6. {} \in P
  BY <1>1, <1>5 DEF IsSum
<1>7. ASSUME NEW s \in (SUBSET S) \ {{}}, \A x \in s : s \ {x} \in P
      PROVE  s \in P
  <2>1. Pick(s) \in s
    BY PickIn
  <2>2. i[s \ {Pick(s)}] = h[s \ {Pick(s)}]
    BY <1>7, <2>1
  <2> QED
    BY <1>1, <1>5, <2>2 DEF IsSum
<1>8. P = SUBSET S
  <2> HIDE DEF P
  <2>1. P \in SUBSET (SUBSET S)
    BY DEF P
  <2> QED
    BY <1>6, <1>7, <2>1, BySize
<1> QED
  BY <1>1, <1>4, <1>8

\* A sum of whole numbers is a whole number.
LEMMA SumInt ==
  ASSUME NEW S, IsFiniteSet(S), NEW f, DOMAIN f = S, \A x \in S : f[x] \in Int
  PROVE  SumFunction(f) \in Int
<1>1. PICK h : IsSum(h, f, S) /\ SumFunction(f) = h[S]
  BY SumIs
<1> QED
  BY <1>1 DEF IsSum

LEMMA SumEmpty == \A f : DOMAIN f = {} => SumFunction(f) = 0
<1> SUFFICES ASSUME NEW f, DOMAIN f = {} PROVE SumFunction(f) = 0
  OBVIOUS
<1>1. PICK h : IsSum(h, f, {}) /\ SumFunction(f) = h[{}]
  BY FS_EmptySet, SumIs
<1> QED
  BY <1>1 DEF IsSum

\* A sum is any one of its values and the sum of the others.
LEMMA SumOne ==
  ASSUME NEW S, IsFiniteSet(S), NEW f, DOMAIN f = S, \A x \in S : f[x] \in Int,
         NEW y \in S
  PROVE  SumFunction(f) = f[y] + SumFunction([x \in S \ {y} |-> f[x]])
<1> DEFINE R == S \ {y}
           e == [x \in R |-> f[x]]
<1>f. IsFiniteSet(R)
  BY FS_Subset
<1>1. PICK h : IsSum(h, f, S) /\ SumFunction(f) = h[S]
  BY SumIs
<1>2. PICK g : IsSum(g, e, R) /\ SumFunction(e) = g[R]
  <2>1. DOMAIN e = R /\ \A x \in R : e[x] \in Int
    OBVIOUS
  <2> HIDE DEF e, R
  <2> QED
    BY <1>f, <2>1, SumIs
<1>3. h[S] = f[y] + h[R]
  BY <1>1, AnyFirst
<1>4. h[R] = g[R]
  <2>1. \A x \in R : f[x] = e[x]
    OBVIOUS
  <2>2. R \subseteq S
    OBVIOUS
  <2> HIDE DEF e, R
  <2> QED
    BY <1>f, <1>1, <1>2, <2>1, <2>2, SumsAgree
<1> QED
  BY <1>1, <1>2, <1>3, <1>4

\* The same for the sums over the subsets of the domain.
LEMMA SumStep ==
  ASSUME NEW S, IsFiniteSet(S), NEW f \in [S -> Int]
  PROVE  /\ SumFunction(Restrict(f, S)) = SumFunction(f)
         /\ SumFunction(Restrict(f, {})) = 0
         /\ \A s \in SUBSET S : SumFunction(Restrict(f, s)) \in Int
         /\ \A s \in SUBSET S : \A x \in s :
               SumFunction(Restrict(f, s)) = f[x] + SumFunction(Restrict(f, s \ {x}))
<1>1. Restrict(f, S) = f
  BY DEF Restrict
<1>2. DOMAIN Restrict(f, {}) = {}
  BY DEF Restrict
<1>3. ASSUME NEW s \in SUBSET S
      PROVE  /\ SumFunction(Restrict(f, s)) \in Int
             /\ \A x \in s : SumFunction(Restrict(f, s)) = f[x] + SumFunction(Restrict(f, s \ {x}))
  <2> DEFINE e == Restrict(f, s)
  <2>1. DOMAIN e = s /\ \A x \in s : e[x] \in Int /\ e[x] = f[x]
    BY DEF Restrict
  <2>2. IsFiniteSet(s)
    BY FS_Subset
  <2>3. ASSUME NEW x \in s PROVE [y \in s \ {x} |-> e[y]] = Restrict(f, s \ {x})
    BY DEF Restrict
  <2> HIDE DEF e
  <2>4. SumFunction(e) \in Int
    BY <2>1, <2>2, SumInt
  <2>5. ASSUME NEW x \in s PROVE SumFunction(e) = f[x] + SumFunction(Restrict(f, s \ {x}))
    <3>1. SumFunction(e) = e[x] + SumFunction([y \in s \ {x} |-> e[y]])
      BY <2>1, <2>2, SumOne
    <3> QED
      BY <2>1, <2>3, <3>1
  <2> QED
    BY <2>4, <2>5 DEF e
<1> QED
  BY <1>1, <1>2, <1>3, SumEmpty

LEMMA SumFirst ==
  ASSUME NEW S, IsFiniteSet(S), NEW f \in [S -> Int], NEW s \in SUBSET S, NEW x \in s
  PROVE  SumFunction(Restrict(f, s)) = f[x] + SumFunction(Restrict(f, s \ {x}))
BY SumStep

\* The sum of sums.
LEMMA SumAdd ==
  ASSUME NEW S, IsFiniteSet(S), NEW f \in [S -> Int], NEW g \in [S -> Int]
  PROVE  SumFunction([x \in S |-> f[x] + g[x]]) = SumFunction(f) + SumFunction(g)
<1> DEFINE e == [x \in S |-> f[x] + g[x]]
           P == {s \in SUBSET S : SumFunction(Restrict(e, s))
                                    = SumFunction(Restrict(f, s)) + SumFunction(Restrict(g, s))}
<1>0. e \in [S -> Int] /\ \A x \in S : e[x] = f[x] + g[x]
  OBVIOUS
<1> HIDE DEF e
<1>1. {} \in P
  BY <1>0, SumStep
<1>2. ASSUME NEW s \in (SUBSET S) \ {{}}, \A x \in s : s \ {x} \in P
      PROVE  s \in P
  <2>1. PICK x : x \in s
    OBVIOUS
  <2> DEFINE r == s \ {x}
             a == SumFunction(Restrict(f, r))
             b == SumFunction(Restrict(g, r))
  <2>2. SumFunction(Restrict(e, r)) = a + b /\ r \in SUBSET S
    BY <1>2, <2>1
  <2>3. a \in Int /\ b \in Int
    BY <2>2, SumStep
  <2>4. /\ SumFunction(Restrict(e, s)) = e[x] + SumFunction(Restrict(e, r))
        /\ SumFunction(Restrict(f, s)) = f[x] + a
        /\ SumFunction(Restrict(g, s)) = g[x] + b
    <3>1. SumFunction(Restrict(e, s)) = e[x] + SumFunction(Restrict(e, r))
      BY <1>0, <2>1, SumFirst
    <3>2. SumFunction(Restrict(f, s)) = f[x] + a
      BY <2>1, SumFirst
    <3>3. SumFunction(Restrict(g, s)) = g[x] + b
      BY <2>1, SumFirst
    <3> QED
      BY <3>1, <3>2, <3>3
  <2>5. f[x] \in Int /\ g[x] \in Int /\ e[x] = f[x] + g[x]
    BY <1>0, <2>1
  <2> HIDE DEF a, b, r
  <2>6. SumFunction(Restrict(e, s)) = SumFunction(Restrict(f, s)) + SumFunction(Restrict(g, s))
    BY <2>2, <2>3, <2>4, <2>5
  <2> QED
    BY <2>6
<1>3. P = SUBSET S
  <2> HIDE DEF P
  <2>1. P \in SUBSET (SUBSET S)
    BY DEF P
  <2> QED
    BY <1>1, <1>2, <2>1, BySize
<1>4. SumFunction(Restrict(e, S)) = SumFunction(Restrict(f, S)) + SumFunction(Restrict(g, S))
  BY <1>3
<1>5. /\ SumFunction(Restrict(e, S)) = SumFunction(e)
      /\ SumFunction(Restrict(f, S)) = SumFunction(f)
      /\ SumFunction(Restrict(g, S)) = SumFunction(g)
  BY <1>0, SumStep
<1> QED
  BY <1>4, <1>5 DEF e

\* A common factor.
LEMMA SumScale ==
  ASSUME NEW S, IsFiniteSet(S), NEW f \in [S -> Int], NEW c \in Int
  PROVE  SumFunction([x \in S |-> c * f[x]]) = c * SumFunction(f)
<1> DEFINE e == [x \in S |-> c * f[x]]
           P == {s \in SUBSET S : SumFunction(Restrict(e, s)) = c * SumFunction(Restrict(f, s))}
<1>0. e \in [S -> Int] /\ \A x \in S : e[x] = c * f[x]
  OBVIOUS
<1> HIDE DEF e
<1>1. {} \in P
  BY <1>0, SumStep
<1>2. ASSUME NEW s \in (SUBSET S) \ {{}}, \A x \in s : s \ {x} \in P
      PROVE  s \in P
  <2>1. PICK x : x \in s
    OBVIOUS
  <2> DEFINE r == s \ {x}
             a == SumFunction(Restrict(f, r))
  <2>2. SumFunction(Restrict(e, r)) = c * a /\ r \in SUBSET S
    BY <1>2, <2>1
  <2>3. a \in Int
    BY <2>2, SumStep
  <2>4. /\ SumFunction(Restrict(e, s)) = e[x] + SumFunction(Restrict(e, r))
        /\ SumFunction(Restrict(f, s)) = f[x] + a
    <3>1. SumFunction(Restrict(e, s)) = e[x] + SumFunction(Restrict(e, r))
      BY <1>0, <2>1, SumFirst
    <3>2. SumFunction(Restrict(f, s)) = f[x] + a
      BY <2>1, SumFirst
    <3> QED
      BY <3>1, <3>2
  <2>5. f[x] \in Int /\ e[x] = c * f[x]
    BY <1>0, <2>1
  <2>6. \A y, z \in Int : c * (y + z) = c * y + c * z
    OBVIOUS
  <2> HIDE DEF a, r
  <2>7. SumFunction(Restrict(e, s)) = c * SumFunction(Restrict(f, s))
    BY <2>2, <2>3, <2>4, <2>5, <2>6
  <2> QED
    BY <2>7
<1>3. P = SUBSET S
  <2> HIDE DEF P
  <2>1. P \in SUBSET (SUBSET S)
    BY DEF P
  <2> QED
    BY <1>1, <1>2, <2>1, BySize
<1>4. SumFunction(Restrict(e, S)) = c * SumFunction(Restrict(f, S))
  BY <1>3
<1>5. /\ SumFunction(Restrict(e, S)) = SumFunction(e)
      /\ SumFunction(Restrict(f, S)) = SumFunction(f)
  BY <1>0, SumStep
<1> QED
  BY <1>4, <1>5 DEF e

\* Larger values, larger sum.
LEMMA SumLeq ==
  ASSUME NEW S, IsFiniteSet(S), NEW f \in [S -> Int], NEW g \in [S -> Int],
         \A x \in S : f[x] <= g[x]
  PROVE  SumFunction(f) <= SumFunction(g)
<1> DEFINE P == {s \in SUBSET S : SumFunction(Restrict(f, s)) <= SumFunction(Restrict(g, s))}
<1>1. {} \in P
  BY SumStep
<1>2. ASSUME NEW s \in (SUBSET S) \ {{}}, \A x \in s : s \ {x} \in P
      PROVE  s \in P
  <2>1. PICK x : x \in s
    OBVIOUS
  <2> DEFINE r == s \ {x}
             a == SumFunction(Restrict(f, r))
             b == SumFunction(Restrict(g, r))
  <2>2. a <= b /\ r \in SUBSET S
    BY <1>2, <2>1
  <2>3. a \in Int /\ b \in Int
    BY <2>2, SumStep
  <2>4. /\ SumFunction(Restrict(f, s)) = f[x] + a
        /\ SumFunction(Restrict(g, s)) = g[x] + b
    <3>1. SumFunction(Restrict(f, s)) = f[x] + a
      BY <2>1, SumFirst
    <3>2. SumFunction(Restrict(g, s)) = g[x] + b
      BY <2>1, SumFirst
    <3> QED
      BY <3>1, <3>2
  <2>5. f[x] \in Int /\ g[x] \in Int /\ f[x] <= g[x]
    BY <2>1
  <2> HIDE DEF a, b, r
  <2>6. SumFunction(Restrict(f, s)) <= SumFunction(Restrict(g, s))
    BY <2>2, <2>3, <2>4, <2>5
  <2> QED
    BY <2>6
<1>3. P = SUBSET S
  <2> HIDE DEF P
  <2>1. P \in SUBSET (SUBSET S)
    BY DEF P
  <2> QED
    BY <1>1, <1>2, <2>1, BySize
<1>4. SumFunction(Restrict(f, S)) <= SumFunction(Restrict(g, S))
  BY <1>3
<1>5. /\ SumFunction(Restrict(f, S)) = SumFunction(f)
      /\ SumFunction(Restrict(g, S)) = SumFunction(g)
  BY SumStep
<1> QED
  BY <1>4, <1>5

\* The same value everywhere.
LEMMA SumConst ==
  ASSUME NEW S, IsFiniteSet(S), NEW c \in Int
  PROVE  SumFunction([x \in S |-> c]) = Cardinality(S) * c
<1> DEFINE e == [x \in S |-> c]
           P == {s \in SUBSET S : SumFunction(Restrict(e, s)) = Cardinality(s) * c}
<1>0. e \in [S -> Int] /\ \A x \in S : e[x] = c
  OBVIOUS
<1> HIDE DEF e
<1>1. {} \in P
  BY <1>0, SumStep, FS_EmptySet
<1>2. ASSUME NEW s \in (SUBSET S) \ {{}}, \A x \in s : s \ {x} \in P
      PROVE  s \in P
  <2>1. PICK x : x \in s
    OBVIOUS
  <2> DEFINE r == s \ {x}
             n == Cardinality(r)
  <2>2. SumFunction(Restrict(e, r)) = n * c
    BY <1>2, <2>1
  <2>3. n \in Nat /\ Cardinality(s) = n + 1
    BY <2>1, FS_Subset, FS_CardinalityType, FS_RemoveElement
  <2>4. SumFunction(Restrict(e, s)) = c + SumFunction(Restrict(e, r))
    BY <1>0, <2>1, SumStep
  <2>5. c + n * c = (n + 1) * c
    BY <2>3
  <2> HIDE DEF n, r
  <2>6. SumFunction(Restrict(e, s)) = Cardinality(s) * c
    BY <2>2, <2>3, <2>4, <2>5
  <2> QED
    BY <2>6
<1>3. P = SUBSET S
  <2> HIDE DEF P
  <2>1. P \in SUBSET (SUBSET S)
    BY DEF P
  <2> QED
    BY <1>1, <1>2, <2>1, BySize
<1>4. SumFunction(Restrict(e, S)) = Cardinality(S) * c
  BY <1>3
<1>5. SumFunction(Restrict(e, S)) = SumFunction(e)
  BY <1>0, SumStep
<1> QED
  BY <1>4, <1>5 DEF e

\* Zeros do not count.
LEMMA SumExtend ==
  ASSUME NEW S, IsFiniteSet(S), NEW f \in [S -> Int],
         NEW R \in SUBSET S, \A x \in S \ R : f[x] = 0
  PROVE  SumFunction(f) = SumFunction(Restrict(f, R))
<1> DEFINE P == {s \in SUBSET S : SumFunction(Restrict(f, s)) = SumFunction(Restrict(f, s \cap R))}
<1>1. {} \in P
  OBVIOUS
<1>2. ASSUME NEW s \in (SUBSET S) \ {{}}, \A x \in s : s \ {x} \in P
      PROVE  s \in P
  <2>1. PICK x : x \in s
    OBVIOUS
  <2> DEFINE r == s \ {x}
  <2>2. SumFunction(Restrict(f, r)) = SumFunction(Restrict(f, r \cap R))
    BY <1>2, <2>1
  <2>3. SumFunction(Restrict(f, s)) = f[x] + SumFunction(Restrict(f, r))
    BY <2>1, SumStep
  <2>4. SumFunction(Restrict(f, r)) \in Int
    BY SumStep
  <2>5. CASE x \in R
    <3>1. (s \cap R) \ {x} = r \cap R
      OBVIOUS
    <3>2. s \cap R \in SUBSET S /\ x \in s \cap R
      BY <2>1, <2>5
    <3>3. SumFunction(Restrict(f, s \cap R)) = f[x] + SumFunction(Restrict(f, (s \cap R) \ {x}))
      BY <3>2, SumStep
    <3> QED
      BY <2>2, <2>3, <3>1, <3>3
  <2>6. CASE x \notin R
    <3>1. s \cap R = r \cap R
      BY <2>6
    <3>2. f[x] = 0
      BY <2>1, <2>6
    <3>3. 0 + SumFunction(Restrict(f, r)) = SumFunction(Restrict(f, r))
      BY <2>4
    <3> HIDE DEF r
    <3>4. SumFunction(Restrict(f, s)) = SumFunction(Restrict(f, s \cap R))
      BY <2>2, <2>3, <3>1, <3>2, <3>3, Zenon
    <3> QED
      BY <3>4
  <2> QED
    BY <2>5, <2>6
<1>3. P = SUBSET S
  <2> HIDE DEF P
  <2>1. P \in SUBSET (SUBSET S)
    BY DEF P
  <2> QED
    BY <1>1, <1>2, <2>1, BySize
<1>4. SumFunction(Restrict(f, S)) = SumFunction(Restrict(f, S \cap R)) /\ S \cap R = R
  BY <1>3
<1> QED
  BY <1>4, SumStep

\* Sums of counts are counts, and none of the counts exceeds the sum.
LEMMA SumNat ==
  ASSUME NEW S, IsFiniteSet(S), NEW f \in [S -> Nat]
  PROVE  /\ SumFunction(f) \in Nat
         /\ \A x \in S : f[x] <= SumFunction(f)
<1>1. f \in [S -> Int] /\ \A x \in S : f[x] \in Nat
  OBVIOUS
<1> DEFINE P == {s \in SUBSET S : SumFunction(Restrict(f, s)) \in Nat}
<1>2. {} \in P
  BY <1>1, SumStep
<1>3. ASSUME NEW s \in (SUBSET S) \ {{}}, \A x \in s : s \ {x} \in P
      PROVE  s \in P
  <2>1. PICK x : x \in s
    OBVIOUS
  <2>2. SumFunction(Restrict(f, s \ {x})) \in Nat
    BY <1>3, <2>1
  <2>3. SumFunction(Restrict(f, s)) = f[x] + SumFunction(Restrict(f, s \ {x}))
    BY <1>1, <2>1, SumFirst
  <2>4. SumFunction(Restrict(f, s)) \in Nat
    BY <1>1, <2>1, <2>2, <2>3
  <2> QED
    BY <2>4
<1>4. P = SUBSET S
  <2> HIDE DEF P
  <2>1. P \in SUBSET (SUBSET S)
    BY DEF P
  <2> QED
    BY <1>2, <1>3, <2>1, BySize
<1>5. Restrict(f, S) = f
  BY DEF Restrict
<1>6. SumFunction(f) \in Nat
  BY <1>4, <1>5
<1>7. ASSUME NEW x \in S PROVE f[x] <= SumFunction(f)
  <2>1. SumFunction(Restrict(f, S \ {x})) \in Nat
    BY <1>4
  <2>2. SumFunction(f) = f[x] + SumFunction(Restrict(f, S \ {x}))
    BY <1>1, <1>5, SumFirst
  <2>3. f[x] \in Nat
    BY <1>1
  <2> QED
    BY <2>1, <2>2, <2>3
<1> QED
  BY <1>6, <1>7

\* A table has the same sum by rows and by columns.
LEMMA SumSwap ==
  ASSUME NEW A, IsFiniteSet(A), NEW B, IsFiniteSet(B), NEW g \in [A -> [B -> Int]]
  PROVE  SumFunction([b \in B |-> SumFunction([i \in A |-> g[i][b]])])
            = SumFunction([i \in A |-> SumFunction(g[i])])
<1> DEFINE Col(b) == [i \in A |-> g[i][b]]
           Row == [i \in A |-> SumFunction(g[i])]
           Cols(s) == [b \in B |-> SumFunction(Restrict(Col(b), s))]
           P == {s \in SUBSET A : SumFunction(Cols(s)) = SumFunction(Restrict(Row, s))}
<1>0. \A i \in A : g[i] \in [B -> Int]
  OBVIOUS
<1>r. Row \in [A -> Int] /\ \A i \in A : Row[i] = SumFunction(g[i])
  <2>1. \A i \in A : SumFunction(g[i]) \in Int
    BY <1>0, SumInt
  <2> QED
    BY <2>1
<1>c. \A b \in B : Col(b) \in [A -> Int]
  BY <1>0
<1>k. \A s : DOMAIN Cols(s) = B /\ \A b \in B : Cols(s)[b] = SumFunction(Restrict(Col(b), s))
  OBVIOUS
<1>t. \A s \in SUBSET A : Cols(s) \in [B -> Int]
  <2> HIDE DEF Col
  <2>1. \A b \in B : \A s \in SUBSET A : SumFunction(Restrict(Col(b), s)) \in Int
    BY <1>c, SumStep
  <2> QED
    BY <2>1
<1>1. {} \in P
  <2>1. \A b \in B : SumFunction(Restrict(Col(b), {})) = 0
    <3> HIDE DEF Col
    <3> QED
      BY <1>c, SumStep
  <2>2. Cols({}) = [b \in B |-> 0]
    BY <2>1
  <2>3. SumFunction(Cols({})) = Cardinality(B) * 0
    <3>1. 0 \in Int
      OBVIOUS
    <3>2. SumFunction([b \in B |-> 0]) = Cardinality(B) * 0
      BY <3>1, SumConst, Zenon
    <3> QED
      BY <2>2, <3>2
  <2>4. Cardinality(B) * 0 = 0
    BY FS_CardinalityType
  <2>5. SumFunction(Restrict(Row, {})) = 0
    <3> HIDE DEF Row
    <3> QED
      BY <1>r, SumStep
  <2> QED
    BY <2>3, <2>4, <2>5
<1>2. ASSUME NEW s \in (SUBSET A) \ {{}}, \A x \in s : s \ {x} \in P
      PROVE  s \in P
  <2>1. PICK x : x \in s
    OBVIOUS
  <2> DEFINE r == s \ {x}
  <2>2. SumFunction(Cols(r)) = SumFunction(Restrict(Row, r)) /\ r \in SUBSET A
    BY <1>2, <2>1
  <2>3. ASSUME NEW b \in B
        PROVE  Cols(s)[b] = g[x][b] + Cols(r)[b]
    <3>1. Col(b)[x] = g[x][b]
      BY <2>1
    <3> HIDE DEF Col
    <3>2. SumFunction(Restrict(Col(b), s)) = Col(b)[x] + SumFunction(Restrict(Col(b), s \ {x}))
      BY <1>c, <2>1, SumFirst
    <3> QED
      BY <3>1, <3>2
  <2>4. g[x] \in [B -> Int]
    BY <1>0, <2>1
  <2>5. Cols(r) \in [B -> Int]
    BY <1>t, <2>2
  <2>6. Cols(s) = [b \in B |-> g[x][b] + Cols(r)[b]]
    BY <2>3
  <2>7. SumFunction(Cols(s)) = SumFunction(g[x]) + SumFunction(Cols(r))
    <3> HIDE DEF Cols, r
    <3> QED
      BY <2>4, <2>5, <2>6, SumAdd
  <2>8. SumFunction(Restrict(Row, s)) = SumFunction(g[x]) + SumFunction(Restrict(Row, r))
    <3> HIDE DEF Row
    <3>1. SumFunction(Restrict(Row, s)) = Row[x] + SumFunction(Restrict(Row, s \ {x}))
      BY <1>r, <2>1, SumFirst
    <3> QED
      BY <1>r, <2>1, <3>1
  <2>9. SumFunction(Cols(s)) = SumFunction(Restrict(Row, s))
    <3> HIDE DEF Cols, Row, r
    <3> QED
      BY <2>2, <2>7, <2>8
  <2> QED
    BY <2>9
<1>3. P = SUBSET A
  <2> HIDE DEF P
  <2>1. P \in SUBSET (SUBSET A)
    BY DEF P
  <2> QED
    BY <1>1, <1>2, <2>1, BySize
<1>4. SumFunction(Cols(A)) = SumFunction(Restrict(Row, A))
  BY <1>3
<1>5. Restrict(Row, A) = Row /\ Cols(A) = [b \in B |-> SumFunction(Col(b))]
  BY DEF Restrict
<1> QED
  BY <1>4, <1>5

\* Summing over the slots of one station is summing over the months.
LEMMA SumColumn ==
  ASSUME NEW D, IsFiniteSet(D), NEW c, NEW f \in [D \X {c} -> Int],
         NEW e \in [D -> Int], \A m \in D : e[m] = f[<<m, c>>]
  PROVE  SumFunction(f) = SumFunction(e)
<1> DEFINE T == D \X {c}
           P == {s \in SUBSET D : SumFunction(Restrict(f, s \X {c})) = SumFunction(Restrict(e, s))}
<1>f. IsFiniteSet(T)
  BY FS_Product, FS_Singleton
<1>1. {} \in P
  <2>1. {} \X {c} = {}
    OBVIOUS
  <2>2. SumFunction(Restrict(f, {})) = 0 /\ SumFunction(Restrict(e, {})) = 0
    BY <1>f, SumStep
  <2> QED
    BY <2>1, <2>2
<1>2. ASSUME NEW s \in (SUBSET D) \ {{}}, \A x \in s : s \ {x} \in P
      PROVE  s \in P
  <2>1. PICK x : x \in s
    OBVIOUS
  <2>2. SumFunction(Restrict(f, (s \ {x}) \X {c})) = SumFunction(Restrict(e, s \ {x}))
    BY <1>2, <2>1
  <2>3. SumFunction(Restrict(e, s)) = e[x] + SumFunction(Restrict(e, s \ {x}))
    BY <2>1, SumFirst
  <2>4. (s \X {c}) \ {<<x, c>>} = (s \ {x}) \X {c}
    OBVIOUS
  <2>5. s \X {c} \in SUBSET T /\ <<x, c>> \in s \X {c}
    BY <2>1
  <2>6. SumFunction(Restrict(f, s \X {c}))
          = f[<<x, c>>] + SumFunction(Restrict(f, (s \X {c}) \ {<<x, c>>}))
    <3> HIDE DEF T
    <3>1. f \in [T -> Int]
      BY DEF T
    <3> QED
      BY <1>f, <2>5, <3>1, SumFirst
  <2> QED
    BY <2>1, <2>2, <2>3, <2>4, <2>6
<1>3. P = SUBSET D
  <2> HIDE DEF P
  <2>1. P \in SUBSET (SUBSET D)
    BY DEF P
  <2> QED
    BY <1>1, <1>2, <2>1, BySize
<1>4. SumFunction(Restrict(f, D \X {c})) = SumFunction(Restrict(e, D))
  BY <1>3
<1>5. Restrict(f, D \X {c}) = f /\ Restrict(e, D) = e
  BY DEF Restrict
<1> QED
  BY <1>4, <1>5

\* Values within half a unit of others: so are the sums, per value.
LEMMA SumNear ==
  ASSUME NEW S, IsFiniteSet(S), NEW f \in [S -> Int], NEW g \in [S -> Int],
         NEW u \in Int, NEW c \in Int, NEW d \in Int,
         \A x \in S : c * f[x] + d * g[x] <= u
  PROVE  c * SumFunction(f) + d * SumFunction(g) <= Cardinality(S) * u
<1> DEFINE p == [x \in S |-> c * f[x]]
           q == [x \in S |-> d * g[x]]
           e == [x \in S |-> p[x] + q[x]]
           k == [x \in S |-> u]
<1>1. SumFunction(p) = c * SumFunction(f) /\ SumFunction(q) = d * SumFunction(g)
  BY SumScale
<1>2. p \in [S -> Int] /\ q \in [S -> Int]
  OBVIOUS
<1>3. SumFunction(e) = SumFunction(p) + SumFunction(q)
  <2> HIDE DEF p, q
  <2> QED
    BY <1>2, SumAdd
<1>4. SumFunction(e) <= SumFunction(k)
  <2>1. e \in [S -> Int] /\ k \in [S -> Int] /\ \A x \in S : e[x] <= k[x]
    OBVIOUS
  <2> HIDE DEF e, k
  <2> QED
    BY <2>1, SumLeq
<1>5. SumFunction(k) = Cardinality(S) * u
  BY SumConst, Zenon
<1> HIDE DEF p, q, e, k
<1> QED
  BY <1>1, <1>3, <1>4, <1>5

-----------------------------------------------------------------------------
(* Slots and weights.                                                      *)

\* Periods are ordered: a contract that has any has a last one.
LEMMA HasLast ==
  ASSUME NEW S, IsFiniteSet(S), S \subseteq Nat \X Nat, S # {}
  PROVE  LastSlot(S) \in S
<1> DEFINE R == {x \in S \X S : After(x[2], x[1])}
<1>1. Orders(R, S)
  <2>1. \A a \in S : a = <<a[1], a[2]>> /\ a[1] \in Nat /\ a[2] \in Nat
    OBVIOUS
  <2>2. \A a, b \in S : a # b => After(b, a) \/ After(a, b)
    BY <2>1 DEF After
  <2>3. \A a, b, c \in S : After(b, a) /\ After(c, b) => After(c, a)
    BY <2>1 DEF After
  <2> QED
    BY <2>2, <2>3 DEF Orders
<1> HIDE DEF R
<1>2. \E b \in S : \A a \in S \ {b} : <<a, b>> \in R
  BY <1>1, LastOf
<1>3. \E b \in S : \A a \in S \ {b} : After(b, a)
  BY <1>2 DEF R
<1> QED
  BY <1>3 DEF LastSlot

\* The lines that are spread.
Dated == {l \in Line : l.first # NoDate}

\* A line is spread over one month at least, whatever its last day and its
\* entries, with weights that do not add up to zero.
LEMMA WeightedShape ==
  ASSUME NEW l \in Dated
  PROVE  /\ DOMAIN Weighted(l) \in SUBSET Month
         /\ IsFiniteSet(DOMAIN Weighted(l))
         /\ Weighted(l) \in [DOMAIN Weighted(l) -> Nat]
         /\ SumFunction(Weighted(l)) \in Nat \ {0}
<1> DEFINE F == Flight(l)
           listed == {m \in F : l.weight[m] # NoEntry}
           months == IF F = {} THEN {l.first} ELSE IF listed = {} THEN F ELSE listed
           even == \A m \in months : l.weight[m] \in {0, NoEntry}
           w == Weighted(l)
<1>1. /\ l.first \in Month /\ l.last \in Month /\ Months \in Nat
      /\ l.weight \in [Month -> Nat \cup {NoEntry}]
  BY RevenueAssumption DEF Dated, Line, Entries
<1>2. F \in SUBSET Month
  BY <1>1 DEF Flight, Month
<1> HIDE DEF F
<1>3. months \in SUBSET Month /\ months # {}
  BY <1>1, <1>2
<1>4. w = [m \in months |-> IF even \/ F = {} THEN 1 ELSE l.weight[m]]
  BY DEF Weighted, F
<1>5. ASSUME ~ (even \/ F = {})
      PROVE  /\ \A m \in months : l.weight[m] \in Nat
             /\ \E m \in months : l.weight[m] > 0
  <2>1. PICK m \in months : l.weight[m] \notin {0, NoEntry}
    BY <1>5
  <2>2. l.weight[m] \in Nat /\ l.weight[m] > 0
    BY <1>1, <1>3, <2>1
  <2>3. months = listed
    BY <1>5, <2>1
  <2>4. \A n \in months : l.weight[n] \in Nat
    BY <1>1, <1>2, <2>3
  <2> QED
    BY <2>2, <2>4
<1>6. DOMAIN w = months /\ w \in [months -> Nat] /\ \E m \in months : w[m] > 0
  <2> HIDE DEF months, even, w
  <2>1. CASE even \/ F = {}
    <3>1. w = [m \in months |-> 1]
      BY <1>4, <2>1
    <3> QED
      BY <1>3, <3>1
  <2>2. CASE ~ (even \/ F = {})
    <3>1. w = [m \in months |-> l.weight[m]]
      BY <1>4, <2>2
    <3> QED
      BY <1>5, <2>2, <3>1
  <2> QED
    BY <2>1, <2>2
<1>7. IsFiniteSet(months)
  <2> HIDE DEF months
  <2>1. IsFiniteSet(Month)
    BY <1>1, FS_Interval DEF Month
  <2> QED
    BY <1>3, <2>1, FS_Subset
<1> HIDE DEF months, w
<1>8. SumFunction(w) \in Nat /\ \A m \in months : w[m] <= SumFunction(w)
  BY <1>6, <1>7, SumNat
<1>9. SumFunction(w) # 0
  BY <1>6, <1>8
<1> QED
  BY <1>3, <1>6, <1>7, <1>8, <1>9 DEF w

LEMMA DivBelow ==
  ASSUME NEW x \in Nat, NEW w \in Nat \ {0}
  PROVE  x \div w \in Nat /\ w * (x \div w) <= x
OBVIOUS

LEMMA HasLastMonth ==
  ASSUME NEW M \in SUBSET Month, M # {}
  PROVE  LastMonth(M) \in M
<1> DEFINE R == {x \in M \X M : x[1] <= x[2]}
<1>1. \A m \in M : m \in Nat
  BY RevenueAssumption DEF Month
<1>2. Orders(R, M)
  BY <1>1 DEF Orders
<1>3. IsFiniteSet(M)
  <2>1. IsFiniteSet(Month)
    BY RevenueAssumption, FS_Interval DEF Month
  <2> QED
    BY <2>1, FS_Subset
<1>4. \E z \in M : \A m \in M \ {z} : <<m, z>> \in R
  <2> HIDE DEF R
  <2> QED
    BY <1>2, <1>3, LastOf
<1>5. PICK z \in M : \A m \in M \ {z} : <<m, z>> \in R
  BY <1>4
<1>6. \A m \in M : m <= z
  <2>1. \A m \in M \ {z} : m <= z
    BY <1>5
  <2>2. z <= z
    BY <1>1
  <2> QED
    BY <2>1, <2>2
<1> QED
  BY <1>6 DEF LastMonth

\* The last period takes what the others leave.
LEMMA RestTakes ==
  ASSUME NEW D, IsFiniteSet(D), NEW z \in D, NEW t \in Int,
         NEW part \in [D \ {z} -> Int], NEW am, DOMAIN am = D,
         \A b \in D \ {z} : am[b] = part[b], am[z] = t - SumFunction(part)
  PROVE  SumFunction(am) = t /\ \A b \in D : am[b] \in Int
<1>1. IsFiniteSet(D \ {z})
  BY FS_Subset
<1>2. SumFunction(part) \in Int
  BY <1>1, SumInt
<1>3. \A b \in D : am[b] \in Int
  BY <1>2
<1>4. SumFunction(am) = am[z] + SumFunction([b \in D \ {z} |-> am[b]])
  BY <1>3, SumOne
<1>5. [b \in D \ {z} |-> am[b]] = part
  OBVIOUS
<1> QED
  BY <1>2, <1>3, <1>4, <1>5

\* The months of a line get what it states: the parts cut off leave the last
\* month something, and it takes the rest.
LEMMA MonthsWhole ==
  ASSUME NEW l \in Dated
  PROVE  /\ Shares(l) \in [DOMAIN Weighted(l) -> Nat]
         /\ SumFunction(Shares(l)) = Unit * l.amount
<1> DEFINE w == Weighted(l)
           W == SumFunction(w)
           D == DOMAIN w
           z == LastMonth(D)
           H == D \ {z}
           t == l.amount * Unit
           part == [m \in H |-> (t * w[m]) \div W]
           am == [m \in D |-> IF m = z THEN t - SumFunction(part) ELSE part[m]]
<1>1. /\ IsFiniteSet(D) /\ D \in SUBSET Month /\ w \in [D -> Nat] /\ W \in Nat \ {0}
      /\ l.amount \in Nat /\ Unit \in Nat \ {0}
  BY WeightedShape, RevenueAssumption DEF Dated, Line
<1>2. t \in Nat /\ t = Unit * l.amount
  BY <1>1
<1>3. D # {}
  BY <1>1, SumEmpty
<1>4. Shares(l) = am
  BY DEF Shares
<1> HIDE DEF w, W, t
<1>5. z \in D
  BY <1>1, <1>3, HasLastMonth
<1>6. IsFiniteSet(H)
  BY <1>1, FS_Subset
<1>7. \A m \in H : part[m] \in Nat /\ W * part[m] <= t * w[m]
  <2> SUFFICES ASSUME NEW m \in H PROVE part[m] \in Nat /\ W * part[m] <= t * w[m]
    OBVIOUS
  <2>1. t * w[m] \in Nat
    BY <1>1, <1>2
  <2> QED
    BY <1>1, <2>1, DivBelow
<1> HIDE DEF D, z
<1>8. part \in [H -> Nat] /\ part \in [H -> Int]
  BY <1>7
<1>9. SumFunction(part) \in Nat
  <2> HIDE DEF part, H
  <2> QED
    BY <1>6, <1>8, SumNat
<1>10. SumFunction(part) <= t
  <2> DEFINE v == [m \in H |-> w[m]]
             p == [m \in H |-> W * part[m]]
             q == [m \in H |-> t * v[m]]
  <2>1. W = w[z] + SumFunction(v) /\ w[z] \in Nat /\ SumFunction(v) \in Nat
    <3>1. \A m \in D : w[m] \in Int
      BY <1>1
    <3>2. W = w[z] + SumFunction(v)
      BY <1>1, <1>5, <3>1, SumOne DEF W, D
    <3>3. v \in [H -> Nat]
      BY <1>1
    <3> HIDE DEF v, H
    <3> QED
      BY <1>1, <1>5, <1>6, <3>2, <3>3, SumNat
  <2>2. p \in [H -> Int] /\ q \in [H -> Int] /\ \A m \in H : p[m] <= q[m]
    BY <1>1, <1>2, <1>7
  <2>3. SumFunction(p) <= SumFunction(q)
    <3> HIDE DEF p, q, H
    <3> QED
      BY <1>6, <2>2, SumLeq
  <2>4. SumFunction(p) = W * SumFunction(part)
    <3>1. W \in Int
      BY <1>1
    <3> HIDE DEF part, H
    <3> QED
      BY <1>6, <1>8, <3>1, SumScale
  <2>5. SumFunction(q) = t * SumFunction(v)
    <3>1. v \in [H -> Int] /\ t \in Int
      BY <1>1, <1>2
    <3> HIDE DEF v, H
    <3> QED
      BY <1>6, <3>1, SumScale
  <2> DEFINE a == SumFunction(part)
             b == SumFunction(v)
             c == w[z]
  <2>6. /\ a \in Nat /\ b \in Nat /\ c \in Nat /\ W = c + b
        /\ W * a <= t * b
    BY <1>9, <2>1, <2>3, <2>4, <2>5
  <2> HIDE DEF a, b, c
  <2>7. t * b <= t * W
    BY <1>1, <1>2, <2>6
  <2>8. W * a <= W * t
    BY <1>1, <1>2, <2>6, <2>7
  <2>s. ASSUME NEW x \in Int, NEW y \in Int, W * x <= W * y PROVE x <= y
    BY <1>1, <2>s
  <2>9. a <= t
    BY <1>2, <2>6, <2>8, <2>s
  <2> QED
    BY <2>9 DEF a
<1>11. am \in [D -> Nat]
  <2>1. t - SumFunction(part) \in Nat
    BY <1>2, <1>9, <1>10
  <2> HIDE DEF part
  <2> QED
    BY <1>8, <2>1
<1>12. SumFunction(am) = t
  <2>1. DOMAIN am = D /\ am[z] = t - SumFunction(part)
    BY <1>5
  <2>2. \A m \in D \ {z} : am[m] = part[m]
    OBVIOUS
  <2>3. t \in Int
    BY <1>2
  <2> HIDE DEF am, part
  <2> QED
    BY <1>1, <1>5, <1>8, <2>1, <2>2, <2>3, RestTakes DEF D
<1> QED
  BY <1>2, <1>4, <1>11, <1>12 DEF D, w

\* What a line puts into its periods is what it states.
LEMMA LineWhole ==
  ASSUME NEW l \in Dated, NEW S \in SUBSET Slot, IsFiniteSet(S),
         (DOMAIN Weighted(l)) \X {l.station} \subseteq S
  PROVE  /\ [b \in S |-> Share(l, b)] \in [S -> Nat]
         /\ SumFunction([b \in S |-> Share(l, b)]) = Unit * l.amount
<1> DEFINE D == DOMAIN Weighted(l)
           R == D \X {l.station}
           f == [b \in S |-> Share(l, b)]
           c == Shares(l)
<1>1. IsFiniteSet(D) /\ c \in [D -> Nat] /\ SumFunction(c) = Unit * l.amount
  BY WeightedShape, MonthsWhole
<1>2. ASSUME NEW b \in S PROVE f[b] = IF b \in R THEN c[b[1]] ELSE 0
  BY DEF Share, Slot
<1>3. R \subseteq S
  OBVIOUS
<1> HIDE DEF D, c
<1>4. f \in [S -> Nat]
  <2>1. \A b \in S : f[b] \in Nat
    BY <1>1, <1>2
  <2> QED
    BY <2>1
<1>5. SumFunction(f) = SumFunction(Restrict(f, R))
  <2>1. f \in [S -> Int] /\ R \in SUBSET S
    BY <1>3, <1>4
  <2> HIDE DEF f, R
  <2>2. \A b \in S \ R : f[b] = 0
    BY <1>2
  <2> QED
    BY <2>1, <2>2, SumExtend
<1>6. SumFunction(Restrict(f, R)) = SumFunction(c)
  <2> DEFINE g == Restrict(f, R)
             st == l.station
  <2>1. \A b \in R : g[b] = c[b[1]] /\ b[1] \in D
    BY <1>2, <1>3 DEF Restrict
  <2>2. DOMAIN g = R /\ g = [b \in R |-> g[b]]
    BY DEF Restrict
  <2> HIDE DEF g
  <2>3. \A b \in R : g[b] \in Int
    BY <1>1, <2>1
  <2>4. g \in [D \X {st} -> Int]
    <3>1. g \in [R -> Int]
      <4> HIDE DEF R
      <4> QED
        BY <2>2, <2>3
    <3> QED
      BY <3>1
  <2>5. c \in [D -> Int] /\ \A m \in D : c[m] = g[<<m, st>>]
    BY <1>1, <2>1
  <2>6. IsFiniteSet(D)
    BY <1>1
  <2> HIDE DEF st, f, R
  <2>7. SumFunction(g) = SumFunction(c)
    <3>1. \A e \in [D -> Int] : (\A m \in D : e[m] = g[<<m, st>>]) => SumFunction(g) = SumFunction(e)
      BY <2>4, <2>6, SumColumn
    <3> QED
      BY <2>5, <3>1
  <2> QED
    BY <2>7 DEF g
<1> QED
  BY <1>1, <1>4, <1>5, <1>6

-----------------------------------------------------------------------------
(* The periods of a contract.                                              *)

LEMMA SlotPairs == Slot \subseteq Nat \X Nat
<1>1. Month \subseteq Nat
  BY RevenueAssumption DEF Month
<1>2. Stations \subseteq Nat
  BY RevenueAssumption
<1> QED
  BY <1>1, <1>2 DEF Slot

\* The slots are finitely many months of stations.
LEMMA SlotsFinite ==
  ASSUME lines \in Seq(Line)
  PROVE  /\ IsFiniteSet(Used) /\ Used \subseteq DOMAIN lines
         /\ \A i \in Used : lines[i] \in Dated
         /\ Slots \in SUBSET Slot /\ IsFiniteSet(Slots)
         /\ \A i \in Used : (DOMAIN Weighted(lines[i])) \X {lines[i].station} \subseteq Slots
<1> DEFINE Mine(i) == (DOMAIN Weighted(lines[i])) \X {lines[i].station}
           P == {s \in SUBSET Used : IsFiniteSet(UNION {Mine(i) : i \in s})}
<1>1. Len(lines) \in Nat /\ DOMAIN lines = 1 .. Len(lines)
  OBVIOUS
<1>2. IsFiniteSet(DOMAIN lines)
  BY <1>1, FS_Interval
<1>3. IsFiniteSet(Used) /\ Used \subseteq DOMAIN lines
  <2>1. Used \subseteq DOMAIN lines
    BY DEF Used
  <2> QED
    BY <1>2, <2>1, FS_Subset
<1>4. \A i \in Used : lines[i] \in Dated
  BY <1>1, <1>3 DEF Used, Dated
<1>5. ASSUME NEW i \in Used
      PROVE  IsFiniteSet(Mine(i)) /\ Mine(i) \in SUBSET Slot
  <2>1. lines[i] \in Dated
    BY <1>4
  <2>2. DOMAIN Weighted(lines[i]) \in SUBSET Month /\ IsFiniteSet(DOMAIN Weighted(lines[i]))
    BY <2>1, WeightedShape
  <2>3. lines[i].station \in Stations
    BY <2>1 DEF Dated, Line
  <2>4. IsFiniteSet(Mine(i))
    BY <2>2, FS_Product, FS_Singleton
  <2>5. Mine(i) \in SUBSET Slot
    BY <2>2, <2>3 DEF Slot
  <2> QED
    BY <2>4, <2>5
<1> HIDE DEF Mine
<1>6. {} \in P
  <2>1. UNION {Mine(i) : i \in {}} = {}
    OBVIOUS
  <2> QED
    BY <2>1, FS_EmptySet
<1>7. ASSUME NEW s \in (SUBSET Used) \ {{}}, \A x \in s : s \ {x} \in P
      PROVE  s \in P
  <2>1. PICK x : x \in s
    OBVIOUS
  <2>2. IsFiniteSet(UNION {Mine(i) : i \in s \ {x}})
    BY <1>7, <2>1
  <2>3. UNION {Mine(i) : i \in s} = (UNION {Mine(i) : i \in s \ {x}}) \cup Mine(x)
    BY <2>1
  <2>4. IsFiniteSet(Mine(x))
    BY <1>5, <2>1
  <2>5. IsFiniteSet((UNION {Mine(i) : i \in s \ {x}}) \cup Mine(x))
    BY <2>2, <2>4, FS_Union
  <2>6. IsFiniteSet(UNION {Mine(i) : i \in s})
    BY <2>3, <2>5, Zenon
  <2> QED
    BY <2>6
<1>8. P = SUBSET Used
  <2> HIDE DEF P
  <2>1. P \in SUBSET (SUBSET Used)
    BY DEF P
  <2> QED
    BY <1>3, <1>6, <1>7, <2>1, BySize
<1>9. Slots = UNION {Mine(i) : i \in Used}
  BY DEF Slots, Mine
<1>10. IsFiniteSet(Slots)
  BY <1>8, <1>9
<1>11. Slots \in SUBSET Slot
  BY <1>5, <1>9
<1>12. \A i \in Used : Mine(i) \subseteq Slots
  BY <1>9
<1> QED
  BY <1>3, <1>4, <1>10, <1>11, <1>12 DEF Mine

LEMMA ShareNat ==
  ASSUME NEW l \in Dated, NEW b
  PROVE  Share(l, b) \in Nat
<1> DEFINE D == DOMAIN Weighted(l)
           c == Shares(l)
<1>1. c \in [D -> Nat]
  BY MonthsWhole
<1>2. Share(l, b) = IF b[2] = l.station /\ b[1] \in D THEN c[b[1]] ELSE 0
  BY DEF Share
<1> HIDE DEF D, c
<1> QED
  BY <1>1, <1>2

LEMMA ExactNat ==
  ASSUME lines \in Seq(Line)
  PROVE  Exact \in [Slots -> Nat]
<1>1. ASSUME NEW b \in Slots PROVE SumFunction([i \in Used |-> Share(lines[i], b)]) \in Nat
  <2> DEFINE f == [i \in Used |-> Share(lines[i], b)]
  <2>1. f \in [Used -> Nat]
    BY SlotsFinite, ShareNat
  <2> HIDE DEF f
  <2>2. SumFunction(f) \in Nat
    BY <2>1, SlotsFinite, SumNat
  <2> QED
    BY <2>2 DEF f
<1> QED
  BY <1>1 DEF Exact

\* Before rounding, the periods add up to the lines.
LEMMA SpreadWhole ==
  ASSUME lines \in Seq(Line)
  PROVE  /\ SumFunction([i \in Used |-> lines[i].amount]) \in Nat
         /\ SumFunction(Exact) = Unit * SumFunction([i \in Used |-> lines[i].amount])
<1> DEFINE g == [i \in Used |-> [b \in Slots |-> Share(lines[i], b)]]
           a == [i \in Used |-> lines[i].amount]
           e == [i \in Used |-> Unit * a[i]]
<1>1. \A i \in Used : /\ lines[i] \in Dated
                      /\ [b \in Slots |-> Share(lines[i], b)] \in [Slots -> Nat]
                      /\ SumFunction([b \in Slots |-> Share(lines[i], b)]) = Unit * lines[i].amount
  BY SlotsFinite, LineWhole
<1>2. g \in [Used -> [Slots -> Int]]
  <2>1. \A i \in Used : \A b \in Slots : Share(lines[i], b) \in Int
    BY SlotsFinite, ShareNat
  <2> QED
    BY <2>1
<1>3. a \in [Used -> Nat] /\ Unit \in Int
  <2>1. \A l \in Dated : l.amount \in Nat
    BY RevenueAssumption DEF Dated, Line
  <2>2. \A i \in Used : lines[i].amount \in Nat
    BY <1>1, <2>1
  <2> QED
    BY <2>2, RevenueAssumption
<1>4. Exact = [b \in Slots |-> SumFunction([i \in Used |-> g[i][b]])]
  <2>1. \A b \in Slots : [i \in Used |-> Share(lines[i], b)] = [i \in Used |-> g[i][b]]
    OBVIOUS
  <2> HIDE DEF g
  <2> QED
    BY <2>1 DEF Exact
<1>5. \A i \in Used : SumFunction(g[i]) = e[i]
  <2>1. \A i \in Used : g[i] = [b \in Slots |-> Share(lines[i], b)]
    OBVIOUS
  <2>2. \A i \in Used : e[i] = Unit * lines[i].amount
    OBVIOUS
  <2> HIDE DEF g, e
  <2> QED
    BY <1>1, <2>1, <2>2
<1>6. [i \in Used |-> SumFunction(g[i])] = e
  <2> HIDE DEF g
  <2> QED
    BY <1>5
<1>7. SumFunction(Exact) = SumFunction([i \in Used |-> SumFunction(g[i])])
  <2> HIDE DEF g
  <2> QED
    BY <1>2, <1>4, SlotsFinite, SumSwap
<1>8. SumFunction(e) = Unit * SumFunction(a)
  <2> HIDE DEF a
  <2>1. a \in [Used -> Int]
    BY <1>3
  <2> QED
    BY <1>3, <2>1, SlotsFinite, SumScale
<1>9. SumFunction(a) \in Nat
  <2> HIDE DEF a
  <2> QED
    BY <1>3, SlotsFinite, SumNat
<1> HIDE DEF e, g
<1> QED
  BY <1>6, <1>7, <1>8, <1>9

\* The contract's total; when it is nothing, no line has an amount.
LEMMA StatedNat ==
  ASSUME lines \in Seq(Line), total \in Nat
  PROVE  Stated \in Nat /\ (Stated = 0 => Slots = {})
<1> DEFINE a == [i \in DOMAIN lines |-> lines[i].amount]
<1>1. IsFiniteSet(DOMAIN lines)
  BY FS_Interval
<1>2. a \in [DOMAIN lines -> Nat]
  <2>1. \A l \in Line : l.amount \in Nat
    BY RevenueAssumption DEF Line
  <2>2. \A i \in DOMAIN lines : lines[i].amount \in Nat
    BY <2>1
  <2> QED
    BY <2>2
<1>3. SumFunction(a) \in Nat /\ \A i \in DOMAIN lines : a[i] <= SumFunction(a)
  <2> HIDE DEF a
  <2> QED
    BY <1>1, <1>2, SumNat
<1>4. Stated \in Nat
  BY <1>3 DEF Stated
<1>5. ASSUME Stated = 0 PROVE Slots = {}
  <2>1. SumFunction(a) = 0
    BY <1>5 DEF Stated
  <2>2. \A i \in DOMAIN lines : a[i] = 0
    <3> HIDE DEF a
    <3> QED
      BY <1>2, <1>3, <2>1
  <2>3. Used = {}
    BY <2>2 DEF Used
  <2> QED
    BY <2>3 DEF Slots
<1> QED
  BY <1>4, <1>5

-----------------------------------------------------------------------------
(* The invariant: what rounding leaves, until the next contract.           *)

Rounds ==
    /\ rounded \in [Slots -> Nat]
    /\ \A b \in Slots : Nearest(rounded[b], Exact[b], Unit)

RevInv ==
    /\ RevTypeOK
    /\ phase = "rounded" => lines # <<>>
    /\ phase \in {"rounded", "done"} /\ lines # <<>> => Rounds
    /\ lines = <<>> => DOMAIN rounded = {}
    /\ phase = "done" /\ lines # <<>> /\ ~ Excessive => amounts = rounded
    /\ NeverOverbooked

LEMMA TotalNat == RevTypeOK => total \in Nat /\ lines \in Seq(Line)
BY RevenueAssumption DEF RevTypeOK

\* Rounding is within half a cent of each period.
LEMMA RoundsKept ==
  ASSUME RevInv, RoundSlots
  PROVE  RevInv'
<1>1. /\ lines \in Seq(Line) /\ lines # <<>> /\ lines' = lines /\ total' = total
      /\ amounts' = amounts /\ phase' = "rounded"
  BY TotalNat DEF RevInv, RoundSlots
<1>2. Slots' = Slots /\ Exact' = Exact
  BY <1>1 DEF Slots, Used, Exact
<1>3. PICK up \in [Slots -> 0 .. 1] :
        /\ \A b \in Slots : Nearest(Exact[b] \div Unit + up[b], Exact[b], Unit)
        /\ rounded' = [b \in Slots |-> Exact[b] \div Unit + up[b]]
  BY DEF RoundSlots
<1>4. \A b \in Slots : Exact[b] \div Unit + up[b] \in Nat
  <2> SUFFICES ASSUME NEW b \in Slots PROVE Exact[b] \div Unit + up[b] \in Nat
    OBVIOUS
  <2>1. Exact[b] \in Nat /\ Unit \in Nat \ {0} /\ up[b] \in 0 .. 1
    BY <1>1, ExactNat, RevenueAssumption
  <2>2. Exact[b] \div Unit \in Nat
    BY <2>1
  <2> QED
    BY <2>1, <2>2
<1>5. rounded' \in [Slots -> Nat]
  BY <1>3, <1>4
<1>6. Rounds'
  BY <1>2, <1>3, <1>5 DEF Rounds, Nearest
<1>7. RevTypeOK'
  <2>1. Slots \subseteq Slot
    BY <1>1, SlotsFinite
  <2> QED
    BY <1>1, <1>5, <2>1 DEF RevInv, RevTypeOK
<1> QED
  BY <1>1, <1>6, <1>7 DEF RevInv, NeverOverbooked

\* Scaling meets the total exactly; without it the periods are not above the
\* total by more than the tolerance.
LEMMA ScaleKept ==
  ASSUME RevInv, Scale
  PROVE  RevInv'
<1> DEFINE D == DOMAIN rounded
           z == LastSlot(D)
           head == D \ {z}
           sum == SumFunction(rounded)
<1>1. /\ lines \in Seq(Line) /\ total \in Nat /\ lines # <<>> /\ Rounds
      /\ lines' = lines /\ total' = total /\ rounded' = rounded /\ phase' = "done"
  BY TotalNat DEF RevInv, Scale
<1>2. /\ Slots' = Slots /\ Exact' = Exact /\ Stated' = Stated
      /\ (Excessive <=> Excessive')
  BY <1>1 DEF Slots, Used, Exact, Stated, Excessive
<1>3. Rounds'
  BY <1>1, <1>2 DEF Rounds, Nearest
<1>4. Stated \in Nat /\ (Stated = 0 => Slots = {})
  BY <1>1, StatedNat
<1>5. /\ D = Slots /\ IsFiniteSet(D) /\ D \subseteq Slot /\ Slot \subseteq Nat \X Nat
      /\ rounded \in [D -> Nat]
  <2>1. D = Slots /\ rounded \in [D -> Nat]
    BY <1>1 DEF Rounds
  <2>2. Slots \subseteq Slot /\ IsFiniteSet(Slots)
    BY <1>1, SlotsFinite
  <2>3. Slot \subseteq Nat \X Nat
    BY SlotPairs
  <2> QED
    BY <2>1, <2>2, <2>3
<1>6. sum \in Nat
  BY <1>5, SumNat
<1>7. CASE ~ Excessive
  <2>1. amounts' = rounded
    BY <1>7 DEF Scale
  <2>2. \A b \in D : rounded[b] \in Int
    BY <1>5
  <2>3. ASSUME Stated = 0 PROVE sum = 0
    <3>1. D = {}
      BY <1>4, <1>5, <2>3
    <3> QED
      BY <3>1, SumEmpty
  <2>4. Stated > 0 => sum <= Stated + Tolerance
    BY <1>4, <1>6, <1>7 DEF Excessive, Tolerance
  <2>5. NeverOverbooked'
    <3>1. SumFunction(amounts)' = sum
      BY <2>1
    <3>2. Mismatch' => sum < Stated
      <4>1. Mismatch' <=> Stated - sum > Tolerance \/ 0 - (Stated - sum) > Tolerance
        BY <1>2, <3>1 DEF Mismatch
      <4> HIDE DEF sum
      <4> QED
        BY <1>4, <1>6, <2>3, <2>4, <4>1 DEF Tolerance
    <3> HIDE DEF sum
    <3> QED
      BY <1>1, <1>2, <1>7, <3>1, <3>2 DEF NeverOverbooked
  <2>6. RevTypeOK'
    BY <1>1, <1>5, <2>1, <2>2 DEF RevInv, RevTypeOK
  <2> QED
    BY <1>1, <1>3, <2>1, <2>5, <2>6 DEF RevInv
<1>8. CASE Excessive
  <2>1. PICK up \in [head -> 0 .. 1] :
          LET part == [b \in head |-> (rounded[b] * Stated) \div sum + up[b]]
          IN  amounts' = [b \in D |-> IF b \in head THEN part[b] ELSE Stated - SumFunction(part)]
    BY <1>8 DEF Scale
  <2> DEFINE part == [b \in head |-> (rounded[b] * Stated) \div sum + up[b]]
  <2>2. sum \in Nat \ {0} /\ D # {}
    <3>1. sum \in Nat \ {0}
      BY <1>4, <1>6, <1>8 DEF Excessive, Tolerance
    <3>2. D # {}
      BY <3>1, SumEmpty
    <3> QED
      BY <3>1, <3>2
  <2>3. z \in D
    BY <1>5, <2>2, HasLast
  <2>4. part \in [head -> Int]
    <3>1. ASSUME NEW b \in head PROVE (rounded[b] * Stated) \div sum + up[b] \in Int
      <4>1. rounded[b] \in Nat /\ up[b] \in Int
        BY <1>5
      <4>2. rounded[b] * Stated \in Nat
        BY <1>4, <4>1
      <4> HIDE DEF sum
      <4>3. (rounded[b] * Stated) \div sum \in Int
        BY <2>2, <4>2
      <4> QED
        BY <4>1, <4>3
    <3> QED
      BY <3>1
  <2>5. amounts' = [b \in D |-> IF b \in head THEN part[b] ELSE Stated - SumFunction(part)]
    BY <2>1
  <2> HIDE DEF part
  <2> DEFINE am == [b \in D |-> IF b \in head THEN part[b] ELSE Stated - SumFunction(part)]
  <2>6. SumFunction(amounts') = Stated /\ \A b \in D : amounts'[b] \in Int
    <3>1. DOMAIN am = D /\ am[z] = Stated - SumFunction(part)
      BY <2>3
    <3>2. \A b \in D \ {z} : am[b] = part[b]
      OBVIOUS
    <3>3. Stated \in Int /\ IsFiniteSet(D) /\ part \in [D \ {z} -> Int]
      BY <1>4, <1>5, <2>4
    <3> HIDE DEF am, head, z, D
    <3>4. SumFunction(am) = Stated /\ \A b \in D : am[b] \in Int
      BY <2>3, <3>1, <3>2, <3>3, RestTakes
    <3> QED
      BY <2>5, <3>4 DEF am
  <2>7. NeverOverbooked'
    <3>1. SumFunction(amounts)' = Stated /\ Stated' = Stated
      BY <1>2, <2>6
    <3>2. ~ Mismatch'
      BY <1>4, <3>1 DEF Mismatch, Tolerance
    <3> QED
      BY <3>1, <3>2 DEF NeverOverbooked
  <2>8. RevTypeOK'
    BY <1>1, <1>5, <2>5, <2>6 DEF RevInv, RevTypeOK
  <2> QED
    BY <1>1, <1>2, <1>3, <1>8, <2>7, <2>8 DEF RevInv
<1> QED
  BY <1>7, <1>8

\* An even split meets the total exactly.
LEMMA SplitKept ==
  ASSUME RevInv, NEW first \in Month \cup {NoDate}, NEW last \in Month \cup {NoDate},
         Split(first, last)
  PROVE  RevInv'
<1> DEFINE flight == (first .. last) \X {0}
           n == last - first + 1
           z == LastSlot(flight)
<1>1. /\ lines = <<>> /\ total \in Nat
      /\ lines' = lines /\ total' = total /\ rounded' = rounded /\ phase' = "done"
  BY TotalNat DEF RevInv, Split
<1>2. Stated' = Stated
  BY <1>1 DEF Stated
<1>3. CASE ~ Splits(first, last)
  <2>1. amounts' = NoPeriods /\ DOMAIN amounts' = {}
    BY <1>3 DEF Split, NoPeriods
  <2>2. SumFunction(amounts') = 0
    BY <2>1, SumEmpty
  <2>3. Stated \in Nat
    BY <1>1, StatedNat
  <2>4. NeverOverbooked'
    <3>1. SumFunction(amounts)' = 0 /\ Stated' \in Nat
      BY <1>2, <2>2, <2>3
    <3>2. Mismatch' => SumFunction(amounts)' < Stated'
      <4>1. Mismatch' <=> Stated' - 0 > Tolerance \/ 0 - (Stated' - 0) > Tolerance
        BY <3>1 DEF Mismatch
      <4>2. \A x \in Nat : (x - 0 > Tolerance => 0 < x) /\ ~ (0 - (x - 0) > Tolerance)
        BY DEF Tolerance
      <4> QED
        BY <3>1, <4>1, <4>2, Zenon
    <3>3. ~ Excessive'
      <4>1. DOMAIN rounded = {}
        BY <1>1, <1>3 DEF RevInv
      <4>2. SumFunction(rounded)' = 0
        BY <1>1, <4>1, SumEmpty
      <4>3. Excessive' => 0 > Stated' + Tolerance
        BY <4>2 DEF Excessive
      <4>4. \A x \in Nat : ~ (0 > x + Tolerance)
        BY DEF Tolerance
      <4> QED
        BY <3>1, <4>3, <4>4, Zenon
    <3> QED
      BY <2>1, <3>2, <3>3 DEF NeverOverbooked
  <2>5. RevTypeOK'
    BY <1>1, <2>1 DEF RevInv, RevTypeOK, NoPeriods
  <2> QED
    BY <1>1, <2>4, <2>5 DEF RevInv
<1>4. CASE Splits(first, last)
  <2>1. PICK each \in Roundings(total, n) :
          amounts' = [b \in flight |-> IF b = z THEN total - (n - 1) * each ELSE each]
    BY <1>4 DEF Split
  <2>2. first \in Nat /\ last \in Nat /\ first <= last /\ n \in Nat \ {0}
    <3>1. first \in Nat /\ last \in Nat
      BY RevenueAssumption DEF Month, NoDate
    <3>2. first <= last
      BY <1>4 DEF Split
    <3> QED
      BY <3>1, <3>2
  <2>3. each \in Int
    <3>1. total \div n \in Int
      BY <1>1, <2>2
    <3> QED
      BY <3>1 DEF Roundings
  <2>4. /\ IsFiniteSet(flight) /\ Cardinality(flight) = n
        /\ flight \subseteq Slot /\ flight # {}
    <3>1. IsFiniteSet(first .. last) /\ Cardinality(first .. last) = n
      BY <2>2, FS_Interval
    <3>2. IsFiniteSet({0}) /\ Cardinality({0}) = 1
      BY FS_Singleton
    <3>3. IsFiniteSet(flight) /\ Cardinality(flight) = n * 1
      BY <3>1, <3>2, FS_Product
    <3>4. flight \subseteq Slot
      <4>1. first .. last \subseteq Month
        BY <1>4, RevenueAssumption DEF Month, Splits, NoDate
      <4>2. 0 \in Stations
        BY RevenueAssumption
      <4> QED
        BY <4>1, <4>2 DEF Slot
    <3>5. <<first, 0>> \in flight
      BY <2>2
    <3> QED
      BY <2>2, <3>3, <3>4, <3>5
  <2>5. z \in flight
    BY <2>4, HasLast, SlotPairs
  <2> DEFINE part == [b \in flight \ {z} |-> each]
             am == [b \in flight |-> IF b = z THEN total - (n - 1) * each ELSE each]
  <2>6. SumFunction(part) = (n - 1) * each
    <3> HIDE DEF flight, z
    <3>1. IsFiniteSet(flight \ {z}) /\ Cardinality(flight \ {z}) = n - 1
      BY <2>4, <2>5, FS_RemoveElement
    <3>2. SumFunction(part) = Cardinality(flight \ {z}) * each
      BY <2>3, <3>1, SumConst
    <3> QED
      BY <3>1, <3>2
  <2>7. SumFunction(am) = total /\ \A b \in flight : am[b] \in Int
    <3>1. DOMAIN am = flight /\ am[z] = total - SumFunction(part)
      BY <2>5, <2>6
    <3>2. \A b \in flight \ {z} : am[b] = part[b]
      OBVIOUS
    <3>3. total \in Int /\ part \in [flight \ {z} -> Int]
      BY <1>1, <2>3
    <3> HIDE DEF am, part, z, flight
    <3> QED
      BY <2>4, <2>5, <3>1, <3>2, <3>3, RestTakes
  <2>8. amounts' = am
    BY <2>1
  <2> HIDE DEF am
  <2>9. NeverOverbooked'
    <3>1. SumFunction(amounts)' = total /\ Stated' = total
      BY <1>1, <1>2, <1>4, <2>7, <2>8 DEF Stated, Splits
    <3>2. ~ Mismatch'
      BY <1>1, <3>1 DEF Mismatch, Tolerance
    <3> QED
      BY <3>1, <3>2 DEF NeverOverbooked
  <2>10. RevTypeOK'
    <3>1. DOMAIN am = flight
      BY DEF am
    <3> HIDE DEF flight
    <3> QED
      BY <1>1, <2>4, <2>7, <2>8, <3>1 DEF RevInv, RevTypeOK
  <2> QED
    BY <1>1, <2>9, <2>10 DEF RevInv
<1> QED
  BY <1>3, <1>4

LEMMA RevInvInit == RevInit => RevInv
<1> SUFFICES ASSUME RevInit PROVE RevInv
  OBVIOUS
<1>1. RevTypeOK
  <2>1. lines \in Seq(Line) /\ Len(lines) = 0
    BY DEF RevInit
  <2> QED
    BY <2>1, RevenueAssumption DEF RevInit, RevTypeOK, NoPeriods
<1> QED
  BY <1>1 DEF RevInit, RevInv, NeverOverbooked, NoPeriods

LEMMA RevInvNext == RevInv /\ [RevNext]_revVars => RevInv'
<1> SUFFICES ASSUME RevInv, [RevNext]_revVars PROVE RevInv'
  OBVIOUS
<1>1. ASSUME NEW t \in Totals, Arrive(t) PROVE RevInv'
  <2>1. RevTypeOK'
    <3>1. lines' \in Seq(Line) /\ Len(lines') = 0
      BY <1>1 DEF Arrive
    <3> QED
      BY <1>1, <3>1, RevenueAssumption DEF RevInv, RevTypeOK, Arrive, NoPeriods
  <2> QED
    BY <1>1, <2>1 DEF Arrive, RevInv, NeverOverbooked, NoPeriods
<1>2. ASSUME phase = "lines", NEW l \in Line, ArriveLine(l) PROVE RevInv'
  <2>1. RevTypeOK'
    <3>1. lines \in Seq(Line) /\ Len(lines) \in Nat /\ Len(lines) < MaxLines
      BY <1>2, TotalNat DEF RevInv, ArriveLine
    <3>2. lines' \in Seq(Line) /\ Len(lines') = Len(lines) + 1
      BY <1>2, <3>1 DEF ArriveLine
    <3>3. Len(lines') <= MaxLines
      BY <3>1, <3>2, RevenueAssumption
    <3> QED
      BY <1>2, <3>2, <3>3 DEF RevInv, RevTypeOK, ArriveLine
  <2> QED
    BY <1>2, <2>1 DEF ArriveLine, RevInv, NeverOverbooked
<1>3. CASE RoundSlots
  BY <1>3, RoundsKept
<1>4. CASE Scale
  BY <1>4, ScaleKept
<1>5. ASSUME NEW s \in Month \cup {NoDate}, NEW e \in Month \cup {NoDate}, Split(s, e)
      PROVE  RevInv'
  BY <1>5, SplitKept
<1>6. ASSUME NEW s \in Month \cup {NoDate}, NEW e \in Month \cup {NoDate}, SplitRaises(s, e)
      PROVE  RevInv'
  BY <1>6 DEF SplitRaises, RevInv, RevTypeOK, NeverOverbooked
<1>7. CASE NextContract
  <2>1. RevTypeOK'
    <3>1. lines' \in Seq(Line) /\ Len(lines') = 0
      BY <1>7 DEF NextContract
    <3> QED
      BY <1>7, <3>1, RevenueAssumption DEF RevInv, RevTypeOK, NextContract, NoPeriods
  <2> QED
    BY <1>7, <2>1 DEF NextContract, RevInv, NeverOverbooked, NoPeriods
<1>8. CASE UNCHANGED revVars
  <2>1. /\ phase' = phase /\ lines' = lines /\ total' = total
        /\ rounded' = rounded /\ amounts' = amounts
    BY <1>8 DEF revVars
  <2>2. Rounds' <=> Rounds
    BY <2>1 DEF Rounds, Nearest, Exact, Slots, Used
  <2>3. NeverOverbooked' <=> NeverOverbooked
    BY <2>1 DEF NeverOverbooked, Mismatch, Excessive, Stated
  <2>4. Excessive' <=> Excessive
    BY <2>1 DEF Excessive, Stated
  <2> QED
    BY <2>1, <2>2, <2>3, <2>4 DEF RevInv, RevTypeOK
<1> QED
  BY <1>1, <1>2, <1>3, <1>4, <1>5, <1>6, <1>7, <1>8 DEF RevNext

LEMMA RevInvariant == RevSpec => []RevInv
BY RevInvInit, RevInvNext, PTL DEF RevSpec

\* The periods of every contract are whole cents in slots of its flight.
THEOREM RevTypes == RevSpec => []RevTypeOK
<1>1. RevInv => RevTypeOK
  BY DEF RevInv
<1> QED
  BY <1>1, RevInvariant, PTL

\* allocate_revenue and _scale_down_to_total: no contract gets more revenue
\* than it states, beyond the tolerance, and what is scaled down or split
\* meets the stated total to the cent.
THEOREM NoContractOverbooked == RevSpec => []NeverOverbooked
<1>1. RevInv => NeverOverbooked
  BY DEF RevInv
<1> QED
  BY <1>1, RevInvariant, PTL

LEMMA RoundsLoseNothing ==
  ASSUME lines \in Seq(Line), Rounds
  PROVE  LET off == SumFunction(rounded) - Money(Used)
             n   == Cardinality(DOMAIN rounded)
         IN  2 * off <= n /\ 0 - 2 * off <= n
<1> DEFINE r == SumFunction(rounded)
           a == SumFunction([i \in Used |-> lines[i].amount])
           e == SumFunction(Exact)
           n == Cardinality(Slots)
           u == Unit
<1>1. /\ IsFiniteSet(Slots) /\ Exact \in [Slots -> Nat] /\ rounded \in [Slots -> Nat]
      /\ u \in Nat \ {0}
  BY SlotsFinite, ExactNat, RevenueAssumption DEF Rounds
<1>2. n \in Nat /\ r \in Nat /\ a \in Nat /\ e = u * a
  BY <1>1, FS_CardinalityType, SumNat, SpreadWhole
<1>3. \A b \in Slots : /\ rounded[b] \in Nat /\ Exact[b] \in Nat
                       /\ 2 * (rounded[b] * u - Exact[b]) <= u
                       /\ 2 * (Exact[b] - rounded[b] * u) <= u
  BY <1>1 DEF Rounds, Nearest
<1>4. (2 * u) * r + (0 - 2) * e <= n * u
  <2>1. \A b \in Slots : (2 * u) * rounded[b] + (0 - 2) * Exact[b] <= u
    BY <1>1, <1>3
  <2>2. rounded \in [Slots -> Int] /\ Exact \in [Slots -> Int]
        /\ 2 * u \in Int /\ 0 - 2 \in Int /\ u \in Int
    BY <1>1
  <2> QED
    BY <1>1, <2>1, <2>2, SumNear
<1>5. (0 - 2 * u) * r + 2 * e <= n * u
  <2>1. \A b \in Slots : (0 - 2 * u) * rounded[b] + 2 * Exact[b] <= u
    BY <1>1, <1>3
  <2>2. rounded \in [Slots -> Int] /\ Exact \in [Slots -> Int]
        /\ 0 - 2 * u \in Int /\ 2 \in Int /\ u \in Int
    BY <1>1
  <2> QED
    BY <1>1, <2>1, <2>2, SumNear
<1>6. DOMAIN rounded = Slots
  BY <1>1
<1> HIDE DEF r, a, e, n, u
<1>7. u * (2 * (r - a)) <= u * n /\ u * (0 - 2 * (r - a)) <= u * n
  BY <1>1, <1>2, <1>4, <1>5
<1>8. ASSUME NEW x \in Int, NEW y \in Int, u * x <= u * y PROVE x <= y
  BY <1>1, <1>8
<1>9. 2 * (r - a) <= n /\ 0 - 2 * (r - a) <= n
  BY <1>2, <1>7, <1>8
<1> QED
  BY <1>6, <1>9 DEF r, a, n, Money

\* The lines of a contract are those that are spread, those without a first
\* day, and those that state nothing.
LEMMA MoneySplits ==
  ASSUME lines \in Seq(Line)
  PROVE  /\ Money(Used) \in Nat /\ Money(Undated) \in Nat
         /\ Money(DOMAIN lines) = Money(Used) + Money(Undated)
<1> DEFINE D == DOMAIN lines
           a == [i \in D |-> lines[i].amount]
           f == [i \in D |-> IF i \in Used THEN a[i] ELSE 0]
           g == [i \in D |-> IF i \in Undated THEN a[i] ELSE 0]
<1>1. IsFiniteSet(D) /\ Used \in SUBSET D /\ Undated \in SUBSET D
  BY FS_Interval DEF Used, Undated
<1>2. a \in [D -> Nat]
  <2>1. \A l \in Line : l.amount \in Nat
    BY RevenueAssumption DEF Line
  <2> QED
    BY <2>1
<1>3. \A i \in D : a[i] = f[i] + g[i]
  BY <1>2 DEF Used, Undated
<1>4. f \in [D -> Nat] /\ g \in [D -> Nat] /\ f \in [D -> Int] /\ g \in [D -> Int]
  BY <1>2
<1>5. Restrict(f, Used) = [i \in Used |-> lines[i].amount]
  BY <1>1 DEF Restrict
<1>6. Restrict(g, Undated) = [i \in Undated |-> lines[i].amount]
  BY <1>1 DEF Restrict
<1>7. /\ \A i \in D \ Used : f[i] = 0
      /\ \A i \in D \ Undated : g[i] = 0
  OBVIOUS
<1>8. a = [i \in D |-> f[i] + g[i]]
  BY <1>3
<1>9. Money(D) = SumFunction(a)
  BY DEF Money
<1> HIDE DEF f, g, a
<1>10. SumFunction(a) = SumFunction(f) + SumFunction(g)
  BY <1>1, <1>4, <1>8, SumAdd
<1> HIDE DEF D
<1>11. SumFunction(f) = SumFunction(Restrict(f, Used))
  BY <1>1, <1>4, <1>7, SumExtend
<1>13. SumFunction(g) = SumFunction(Restrict(g, Undated))
  BY <1>1, <1>4, <1>7, SumExtend
<1>14. SumFunction(f) = Money(Used) /\ SumFunction(g) = Money(Undated)
  BY <1>5, <1>6, <1>11, <1>13 DEF Money
<1>12. SumFunction(f) \in Nat /\ SumFunction(g) \in Nat
  BY <1>1, <1>4, SumNat
<1> QED
  BY <1>9, <1>10, <1>12, <1>14 DEF D

\* allocate_revenue: spreading loses nothing of a line that has a first day,
\* before scaling the periods add up to those lines within half a cent per
\* period; and where the total is that of the lines the operator is warned of
\* the lines without one.
THEOREM NothingIsLost == RevSpec => []NothingLost
<1>1. RevInv => NothingLost
  <2> SUFFICES ASSUME RevInv, phase \in {"rounded", "done"}, lines # <<>>
               PROVE  NothingLost
    BY DEF NothingLost
  <2> DEFINE r == SumFunction(rounded)
             u == Money(Used)
             v == Money(Undated)
             n == Cardinality(DOMAIN rounded)
  <2>1. lines \in Seq(Line) /\ Rounds /\ total \in Nat
    BY TotalNat DEF RevInv
  <2>2. 2 * (r - u) <= n /\ 0 - 2 * (r - u) <= n
    BY <2>1, RoundsLoseNothing
  <2>3. u \in Nat /\ v \in Nat /\ Money(DOMAIN lines) = u + v
    BY <2>1, MoneySplits
  <2>4. r \in Nat /\ n \in Nat
    <3>1. IsFiniteSet(Slots) /\ rounded \in [Slots -> Nat] /\ DOMAIN rounded = Slots
      BY <2>1, SlotsFinite DEF Rounds
    <3> QED
      BY <3>1, SumNat, FS_CardinalityType
  <2>5. ASSUME phase = "done", total = 0, 2 * v > 2 * Tolerance + n
        PROVE  Mismatch
    <3>1. Stated = u + v
      BY <2>3, <2>5 DEF Stated, Money
    <3> HIDE DEF r, u, v, n
    <3>2. Stated \in Nat /\ r < Stated - Tolerance
      BY <2>2, <2>3, <2>4, <2>5, <3>1 DEF Tolerance
    <3>3. ~ Excessive
      BY <2>4, <3>2 DEF Excessive, Tolerance, r
    <3>4. SumFunction(amounts) = r
      BY <2>5, <3>3 DEF RevInv, r
    <3> QED
      BY <2>4, <3>2, <3>4 DEF Mismatch, Tolerance
  <2> QED
    BY <2>2, <2>5 DEF NothingLost
<1> QED
  BY <1>1, RevInvariant, PTL

=============================================================================
