----------------------------- MODULE FoldProofs -----------------------------
(***************************************************************************)
(* What the folds of the community modules compute.  The prover has no     *)
(* induction rule that it could apply to a formula, but it knows that the  *)
(* naturals and the subsets of a finite set have minimal elements: each    *)
(* proof here considers a smallest counterexample.                         *)
(***************************************************************************)
EXTENDS Integers, FiniteSetsExt, FiniteSetTheorems, WellFoundedInduction, TLAPS

\* A non-empty set of naturals has a least element.
LEMMA LeastNatural ==
  ASSUME NEW S, S \subseteq Nat, S # {}
  PROVE  \E i \in S : \A j \in S : i <= j
<1>1. PICK i \in S : \A j \in S : ~ (<<j, i>> \in OpToRel(<, Nat))
  BY NatLessThanWellFounded, WFMin
<1>2. ASSUME NEW j \in S
      PROVE  i <= j
  <2>1. i \in Nat /\ j \in Nat
    OBVIOUS
  <2>2. j < i => <<j, i>> \in OpToRel(<, Nat)
    BY <2>1, Zenon DEF OpToRel
  <2>3. ~ (j < i)
    BY <1>1, <2>2
  <2> QED
    BY <2>1, <2>3
<1> QED
  BY <1>2

\* A non-empty set of subsets of a finite set has a smallest one.
LEMMA SmallestSubset ==
  ASSUME NEW S, IsFiniteSet(S), NEW B \in SUBSET SUBSET S, B # {}
  PROVE  \E t \in B : \A u \in B : u \subseteq t => u = t
<1> DEFINE R == StrictSubsetOrdering(S)
<1>1. IsWellFoundedOn(R, SUBSET S)
  BY FS_StrictSubsetOrderingWellFounded, FS_FiniteSubsetsOfFinite, Zenon
<1> HIDE DEF R
<1>2. PICK t \in B : \A u \in B : ~ (<<u, t>> \in R)
  BY <1>1, WFMin, Zenon
<1>3. ASSUME NEW u \in B, u \subseteq t, u # t
      PROVE  <<u, t>> \in R
  <2>1. <<u, t>> \in (SUBSET S) \X (SUBSET S)
    OBVIOUS
  <2> QED
    BY <1>3, <2>1 DEF StrictSubsetOrdering, R
<1>4. \A u \in B : u \subseteq t => u = t
  BY <1>2, <1>3
<1> QED
  BY <1>4

\* Without one of its elements a finite set has one element less.
LEMMA CardinalityOfRest ==
  ASSUME NEW S, IsFiniteSet(S), NEW x \in S
  PROVE  Cardinality(S \ {x}) = Cardinality(S) - 1 /\ Cardinality(S) \in Nat
BY FS_RemoveElement, FS_CardinalityType

-----------------------------------------------------------------------------
(* Recursion over the subsets of a finite set *)

\* h is what folding does on every subset: to a subset s, it adds what step
\* makes of c[s] and of the result for the rest.
Unfolds(h, S, base, c, step) ==
  \A s \in SUBSET S :
    h[s] = IF s = {} THEN base ELSE step[<< s, h[s \ {c[s]}] >>]

UpTo(h, S, base, c, step, n) ==
  \A s \in SUBSET S : Cardinality(s) <= n =>
    h[s] = IF s = {} THEN base ELSE step[<< s, h[s \ {c[s]}] >>]

\* Such a function exists.
LEMMA FoldExists ==
  ASSUME NEW S, IsFiniteSet(S), NEW A, NEW base \in A, NEW c, 
         NEW step \in [(SUBSET S) \X A -> A],
         \A s \in SUBSET S : s # {} => c[s] \in s
  PROVE  \E h \in [SUBSET S -> A] : Unfolds(h, S, base, c, step)
<1> DEFINE Ok(n) == \E h \in [SUBSET S -> A] : UpTo(h, S, base, c, step, n)
           Bad == {n \in Nat : ~Ok(n)}
<1>1. Ok(0)
  <2> DEFINE h == [s \in SUBSET S |-> base]
  <2>1. h \in [SUBSET S -> A]
    OBVIOUS
  <2>2. \A s \in SUBSET S : Cardinality(s) <= 0 => s = {}
    BY FS_Subset, FS_EmptySet, FS_CardinalityType
  <2>3. \A s \in SUBSET S : Cardinality(s) <= 0 => h[s] = base /\ s = {}
    BY <2>2
  <2> HIDE DEF h
  <2>4. UpTo(h, S, base, c, step, 0)
    BY <2>3, Zenon DEF UpTo
  <2> QED
    BY <2>1, <2>4, Zenon
<1>2. ASSUME NEW n \in Nat, Ok(n)
      PROVE  Ok(n + 1)
  <2>1. PICK h \in [SUBSET S -> A] : UpTo(h, S, base, c, step, n)
    BY <1>2, Zenon
  <2> DEFINE g == [s \in SUBSET S |->
                     IF s = {} THEN base ELSE step[<< s, h[s \ {c[s]}] >>]]
  <2>2. ASSUME NEW s \in SUBSET S
        PROVE  (IF s = {} THEN base ELSE step[<< s, h[s \ {c[s]}] >>]) \in A
    <3>1. s \ {c[s]} \in SUBSET S
      OBVIOUS
    <3>2. h[s \ {c[s]}] \in A
      BY <2>1, <3>1
    <3>3. << s, h[s \ {c[s]}] >> \in (SUBSET S) \X A
      BY <3>2
    <3> QED
      BY <3>3
  <2>3. g \in [SUBSET S -> A]
    BY <2>2
  <2>4. ASSUME NEW s \in SUBSET S, Cardinality(s) <= n
        PROVE  g[s] = h[s]
    BY <2>1, <2>4 DEF UpTo
  <2>5. ASSUME NEW s \in SUBSET S, Cardinality(s) <= n + 1, s # {}
        PROVE  g[s] = step[<< s, g[s \ {c[s]}] >>]
    <3>1. IsFiniteSet(s) /\ c[s] \in s
      BY <2>5, FS_Subset
    <3>2. Cardinality(s \ {c[s]}) = Cardinality(s) - 1 /\ Cardinality(s) \in Nat
      BY <3>1, CardinalityOfRest
    <3>3. s \ {c[s]} \in SUBSET S /\ Cardinality(s \ {c[s]}) <= n
      BY <2>5, <3>2
    <3>4. g[s \ {c[s]}] = h[s \ {c[s]}]
      BY <2>4, <3>3, Zenon
    <3> QED
      BY <2>5, <3>4
  <2>6. \A s \in SUBSET S : s = {} => g[s] = base
    OBVIOUS
  <2> HIDE DEF g
  <2>7. UpTo(g, S, base, c, step, n + 1)
    BY <2>5, <2>6, Zenon DEF UpTo
  <2> QED
    BY <2>3, <2>7, Zenon
<1>3. \A n \in Nat : Ok(n)
  <2> SUFFICES ASSUME Bad # {} PROVE FALSE
    OBVIOUS
  <2> HIDE DEF Ok
  <2>1. PICK n \in Bad : \A m \in Bad : n <= m
    BY LeastNatural
  <2>2. n # 0
    BY <1>1, <2>1
  <2>3. n - 1 \in Nat /\ (n - 1) + 1 = n
    BY <2>1, <2>2
  <2>4. Ok(n - 1)
    BY <2>1, <2>3
  <2> QED
    BY <1>2, <2>1, <2>3, <2>4
<1> DEFINE n == Cardinality(S)
<1>4. n \in Nat
  BY FS_CardinalityType
<1>5. PICK h \in [SUBSET S -> A] : UpTo(h, S, base, c, step, n)
  BY <1>3, <1>4, Zenon
<1>6. \A s \in SUBSET S : Cardinality(s) <= n
  BY FS_Subset
<1> HIDE DEF n
<1>7. Unfolds(h, S, base, c, step)
  BY <1>5, <1>6, Zenon DEF UpTo, Unfolds
<1> QED
  BY <1>7, Zenon
-----------------------------------------------------------------------------
(* Sums of the values of a function over a finite set *)

\* h is what SumFunctionOnSet(f, S) computes on every subset of S.
Sums(h, f, S) ==
  h = [s \in SUBSET S |->
         IF s = {} THEN 0
         ELSE f[CHOOSE x \in s : TRUE] + h[s \ {CHOOSE x \in s : TRUE}]]

IntsOn(f, S) == \A x \in S : f[x] \in Int

\* The community fold over a finite set is such a function's value.
LEMMA SumIsFold ==
  ASSUME NEW f, NEW S, IsFiniteSet(S), IntsOn(f, S)
  PROVE  \E h \in [SUBSET S -> Int] : Sums(h, f, S) /\ SumFunctionOnSet(f, S) = h[S]
<1> DEFINE c == [s \in SUBSET S |-> CHOOSE x \in s : TRUE]
           step == [p \in (SUBSET S) \X Int |->
                      IF p[1] = {} THEN 0 ELSE f[CHOOSE x \in p[1] : TRUE] + p[2]]
<1>1. \A s \in SUBSET S : s # {} => (CHOOSE x \in s : TRUE) \in s
  OBVIOUS
<1>2. \A s \in SUBSET S : s # {} => c[s] \in s
  BY <1>1
<1>3. step \in [(SUBSET S) \X Int -> Int]
  <2>1. ASSUME NEW p \in (SUBSET S) \X Int, p[1] # {}
        PROVE  f[CHOOSE x \in p[1] : TRUE] + p[2] \in Int
    <3>1. (CHOOSE x \in p[1] : TRUE) \in S
      BY <1>1, <2>1
    <3>2. f[CHOOSE x \in p[1] : TRUE] \in Int /\ p[2] \in Int
      BY <3>1 DEF IntsOn
    <3> QED
      BY <3>2
  <2> QED
    BY <2>1
<1> HIDE DEF c, step
<1>4. PICK g \in [SUBSET S -> Int] : Unfolds(g, S, 0, c, step)
  <2>1. 0 \in Int
    OBVIOUS
  <2> QED
    BY <1>2, <1>3, <2>1, FoldExists, Zenon
<1>5. \A s \in SUBSET S : s # {} =>
        step[<< s, g[s \ {c[s]}] >>]
          = f[CHOOSE x \in s : TRUE] + g[s \ {CHOOSE x \in s : TRUE}]
  <2>1. ASSUME NEW s \in SUBSET S, s # {}
        PROVE  step[<< s, g[s \ {c[s]}] >>]
                 = f[CHOOSE x \in s : TRUE] + g[s \ {CHOOSE x \in s : TRUE}]
    <3>1. c[s] = CHOOSE x \in s : TRUE
      BY DEF c
    <3>2. g[s \ {c[s]}] \in Int
      BY <1>4
    <3>3. << s, g[s \ {c[s]}] >> \in (SUBSET S) \X Int
      BY <3>2
    <3>4. step[<< s, g[s \ {c[s]}] >>] = f[CHOOSE x \in s : TRUE] + g[s \ {c[s]}]
      BY <2>1, <3>3 DEF step
    <3> QED
      BY <3>1, <3>4
  <2> QED
    BY <2>1
<1>6. Sums(g, f, S)
  BY <1>4, <1>5 DEF Sums, Unfolds
<1> DEFINE h == CHOOSE k : Sums(k, f, S)
<1>7. Sums(h, f, S)
  BY <1>6, Zenon
<1>8. SumFunctionOnSet(f, S) = h[S]
  BY DEF SumFunctionOnSet, FoldFunctionOnSet, MapThenFoldSet, Sums
<1> HIDE DEF h
<1>9. h \in [SUBSET S -> Int]
  <2> DEFINE Bad == {s \in SUBSET S : h[s] \notin Int}
  <2> SUFFICES ASSUME Bad # {} PROVE FALSE
    BY <1>7 DEF Sums
  <2>b. Bad \in SUBSET SUBSET S
    OBVIOUS
  <2>1. PICK s \in Bad : \A u \in Bad : u \subseteq s => u = s
    <3> HIDE DEF Bad
    <3> QED
      BY <2>b, SmallestSubset
  <2>2. s \in SUBSET S /\ s # {}
    BY <1>7, <2>1 DEF Sums
  <2> DEFINE x == CHOOSE y \in s : TRUE
  <2>3. x \in s
    BY <2>2
  <2>4. h[s] = f[x] + h[s \ {x}]
    BY <1>7, <2>2 DEF Sums
  <2> HIDE DEF x
  <2>5. s \ {x} \in SUBSET S /\ s \ {x} \notin Bad
    BY <2>1, <2>2, <2>3
  <2>6. h[s \ {x}] \in Int /\ f[x] \in Int
    BY <2>2, <2>3, <2>5 DEF IntsOn
  <2> QED
    BY <2>1, <2>4, <2>6
<1> QED
  BY <1>7, <1>8, <1>9, Zenon

\* h is that function, for integers over a finite set.
IsSum(h, f, S) ==
  /\ IsFiniteSet(S) /\ IntsOn(f, S)
  /\ h \in [SUBSET S -> Int] /\ Sums(h, f, S)

\* There is a function with the sum of every subset.
LEMMA SumDefined ==
  ASSUME NEW f, NEW S, IsFiniteSet(S), \A x \in S : f[x] \in Int
  PROVE  \E h : IsSum(h, f, S) /\ SumFunctionOnSet(f, S) = h[S]
<1>1. IntsOn(f, S)
  BY DEF IntsOn
<1>2. PICK h \in [SUBSET S -> Int] : Sums(h, f, S) /\ SumFunctionOnSet(f, S) = h[S]
  BY <1>1, SumIsFold
<1>3. IsSum(h, f, S)
  BY <1>1, <1>2 DEF IsSum
<1> QED
  BY <1>2, <1>3

\* Any element can be the last one added.
LEMMA SumsStep ==
  ASSUME NEW f, NEW S, NEW h, IsSum(h, f, S)
  PROVE  \A s \in SUBSET S : \A x \in s : h[s] = f[x] + h[s \ {x}]
<1> DEFINE Good(s) == \A x \in s : h[s] = f[x] + h[s \ {x}]
           Bad == {s \in SUBSET S : ~Good(s)}
<1> USE DEF IsSum
<1> SUFFICES ASSUME Bad # {} PROVE FALSE
  OBVIOUS
<1> HIDE DEF Good
<1>b. Bad \in SUBSET SUBSET S
  OBVIOUS
<1>1. PICK s \in Bad : \A u \in Bad : u \subseteq s => u = s
  <2> HIDE DEF Bad
  <2> QED
    BY <1>b, SmallestSubset
<1>2. PICK x \in s : h[s] # f[x] + h[s \ {x}]
  BY <1>1 DEF Good
<1> DEFINE y == CHOOSE z \in s : TRUE
<1>3. y \in s /\ s \in SUBSET S
  BY <1>1, <1>2
<1>4. h[s] = f[y] + h[s \ {y}]
  BY <1>2, <1>3 DEF Sums
<1> HIDE DEF y
<1>5. x # y
  BY <1>2, <1>4
<1>6. Good(s \ {x}) /\ Good(s \ {y})
  BY <1>1, <1>2, <1>3
<1>7. h[s \ {x}] = f[y] + h[(s \ {x}) \ {y}]
  BY <1>3, <1>5, <1>6 DEF Good
<1>8. h[s \ {y}] = f[x] + h[(s \ {y}) \ {x}]
  BY <1>2, <1>5, <1>6 DEF Good
<1>9. (s \ {x}) \ {y} = (s \ {y}) \ {x} /\ (s \ {x}) \ {y} \in SUBSET S
  BY <1>3
<1> DEFINE r == h[(s \ {x}) \ {y}]
<1>10. f[x] \in Int /\ f[y] \in Int /\ r \in Int
  BY <1>2, <1>3, <1>9 DEF IntsOn
<1>11. h[s] = f[y] + (f[x] + r) /\ h[s \ {x}] = f[y] + r
  BY <1>4, <1>7, <1>8, <1>9
<1> HIDE DEF r
<1>12. f[y] + (f[x] + r) = f[x] + (f[y] + r)
  BY <1>10
<1> QED
  BY <1>2, <1>11, <1>12

\* Two folds agree where the functions do, whatever sets they were taken over.
LEMMA SumsAgree ==
  ASSUME NEW f, NEW S, NEW h, IsSum(h, f, S),
         NEW g, NEW T, NEW k, IsSum(k, g, T),
         NEW U, U \subseteq S, U \subseteq T, \A x \in U : f[x] = g[x]
  PROVE  h[U] = k[U]
<1> DEFINE Bad == {s \in SUBSET U : h[s] # k[s]}
<1>0. IsFiniteSet(U)
  BY FS_Subset DEF IsSum
<1> SUFFICES ASSUME Bad # {} PROVE FALSE
  OBVIOUS
<1>b. Bad \in SUBSET SUBSET U
  OBVIOUS
<1>1. PICK s \in Bad : \A u \in Bad : u \subseteq s => u = s
  <2> HIDE DEF Bad
  <2> QED
    BY <1>0, <1>b, SmallestSubset
<1>2. s \in SUBSET S /\ s \in SUBSET T /\ s \in SUBSET U
  BY <1>1
<1>3. s # {}
  BY <1>1, <1>2 DEF Sums, IsSum
<1>4. PICK x \in s : TRUE
  BY <1>3
<1>5. h[s] = f[x] + h[s \ {x}]
  BY <1>2, <1>4, SumsStep
<1>6. k[s] = g[x] + k[s \ {x}]
  BY <1>2, <1>4, SumsStep
<1>7. s \ {x} \in SUBSET U /\ s \ {x} \notin Bad
  BY <1>1, <1>2, <1>4
<1>8. h[s \ {x}] = k[s \ {x}] /\ f[x] = g[x]
  BY <1>2, <1>4, <1>7
<1> QED
  BY <1>1, <1>5, <1>6, <1>8

\* The empty sum is zero.
LEMMA SumEmpty ==
  ASSUME NEW f
  PROVE  SumFunctionOnSet(f, {}) = 0
<1>1. IsFiniteSet({})
  BY FS_EmptySet
<1>2. PICK h : IsSum(h, f, {}) /\ SumFunctionOnSet(f, {}) = h[{}]
  BY <1>1, SumDefined
<1> QED
  BY <1>2 DEF Sums, IsSum

\* The sum of integers is one.
LEMMA SumType ==
  ASSUME NEW f, NEW S, IsFiniteSet(S), \A x \in S : f[x] \in Int
  PROVE  SumFunctionOnSet(f, S) \in Int
<1>1. PICK h : IsSum(h, f, S) /\ SumFunctionOnSet(f, S) = h[S]
  BY SumDefined
<1> QED
  BY <1>1 DEF IsSum

\* The sum only depends on the values over the set.
LEMMA SumSame ==
  ASSUME NEW f, NEW g, NEW S, IsFiniteSet(S),
         \A x \in S : f[x] \in Int /\ g[x] = f[x]
  PROVE  SumFunctionOnSet(g, S) = SumFunctionOnSet(f, S)
<1>1. PICK h : IsSum(h, f, S) /\ SumFunctionOnSet(f, S) = h[S]
  BY SumDefined
<1>2. PICK k : IsSum(k, g, S) /\ SumFunctionOnSet(g, S) = k[S]
  BY SumDefined
<1>3. h[S] = k[S]
  BY <1>1, <1>2, SumsAgree
<1> QED
  BY <1>1, <1>2, <1>3

\* Any element can be summed last.
LEMMA SumRemove ==
  ASSUME NEW f, NEW S, IsFiniteSet(S), \A x \in S : f[x] \in Int, NEW x \in S
  PROVE  SumFunctionOnSet(f, S) = f[x] + SumFunctionOnSet(f, S \ {x})
<1> DEFINE T == S \ {x}
<1>0. IsFiniteSet(T) /\ T \subseteq S
  BY FS_Subset
<1>1. PICK h : IsSum(h, f, S) /\ SumFunctionOnSet(f, S) = h[S]
  BY SumDefined
<1>2. PICK k : IsSum(k, f, T) /\ SumFunctionOnSet(f, T) = k[T]
  BY <1>0, SumDefined
<1>3. h[T] = k[T]
  BY <1>0, <1>1, <1>2, SumsAgree
<1>4. h[S] = f[x] + h[T]
  BY <1>1, SumsStep
<1> QED
  BY <1>1, <1>2, <1>3, <1>4

\* Summing over one more element adds its value.
LEMMA SumAdd ==
  ASSUME NEW f, NEW S, IsFiniteSet(S), NEW x, x \notin S,
         \A y \in S \cup {x} : f[y] \in Int
  PROVE  SumFunctionOnSet(f, S \cup {x}) = SumFunctionOnSet(f, S) + f[x]
<1> DEFINE T == S \cup {x}
<1>1. IsFiniteSet(T) /\ T \ {x} = S /\ x \in T
  BY FS_AddElement
<1>2. SumFunctionOnSet(f, T) = f[x] + SumFunctionOnSet(f, T \ {x})
  BY <1>1, SumRemove
<1>3. SumFunctionOnSet(f, S) \in Int /\ f[x] \in Int
  BY SumType
<1>4. SumFunctionOnSet(f, T) = f[x] + SumFunctionOnSet(f, S)
  BY <1>1, <1>2
<1> QED
  BY <1>3, <1>4

\* Changing one value changes the sum by as much.
LEMMA SumUpdate ==
  ASSUME NEW f, NEW g, NEW S, IsFiniteSet(S), NEW x \in S,
         \A y \in S : f[y] \in Int /\ g[y] \in Int,
         \A y \in S \ {x} : g[y] = f[y]
  PROVE  SumFunctionOnSet(g, S) = SumFunctionOnSet(f, S) + (g[x] - f[x])
<1> DEFINE T == S \ {x}
<1>1. IsFiniteSet(T)
  BY FS_Subset
<1>2. SumFunctionOnSet(g, T) = SumFunctionOnSet(f, T)
  BY <1>1, SumSame
<1>3. SumFunctionOnSet(f, S) = f[x] + SumFunctionOnSet(f, T)
  BY SumRemove
<1>4. SumFunctionOnSet(g, S) = g[x] + SumFunctionOnSet(g, T)
  BY SumRemove
<1>5. SumFunctionOnSet(f, T) \in Int /\ f[x] \in Int /\ g[x] \in Int
  BY <1>1, SumType
<1> QED
  BY <1>2, <1>3, <1>4, <1>5

\* A sum of naturals is one.
LEMMA SumNat ==
  ASSUME NEW f, NEW S, IsFiniteSet(S), \A x \in S : f[x] \in Nat
  PROVE  SumFunctionOnSet(f, S) \in Nat
<1> DEFINE Bad == {t \in SUBSET S : SumFunctionOnSet(f, t) \notin Nat}
<1> SUFFICES ASSUME Bad # {} PROVE FALSE
  OBVIOUS
<1>b. Bad \in SUBSET SUBSET S
  OBVIOUS
<1>1. PICK t \in Bad : \A u \in Bad : u \subseteq t => u = t
  <2> HIDE DEF Bad
  <2> QED
    BY <1>b, SmallestSubset
<1>2. t \in SUBSET S /\ IsFiniteSet(t) /\ t # {}
  <2>1. SumFunctionOnSet(f, {}) \in Nat
    BY SumEmpty
  <2>2. t \in SUBSET S /\ t # {}
    BY <1>1, <2>1
  <2> QED
    BY <2>2, FS_Subset
<1>3. PICK x \in t : TRUE
  BY <1>2
<1>4. SumFunctionOnSet(f, t) = f[x] + SumFunctionOnSet(f, t \ {x})
  BY <1>2, <1>3, SumRemove
<1>5. SumFunctionOnSet(f, t \ {x}) \in Nat /\ f[x] \in Nat
  BY <1>1, <1>2, <1>3
<1> QED
  BY <1>1, <1>4, <1>5

\* Nothing adds up to nothing.
LEMMA SumZero ==
  ASSUME NEW f, NEW S, IsFiniteSet(S), \A x \in S : f[x] = 0
  PROVE  SumFunctionOnSet(f, S) = 0
<1> DEFINE Bad == {t \in SUBSET S : SumFunctionOnSet(f, t) # 0}
<1> SUFFICES ASSUME Bad # {} PROVE FALSE
  OBVIOUS
<1>b. Bad \in SUBSET SUBSET S
  OBVIOUS
<1>1. PICK t \in Bad : \A u \in Bad : u \subseteq t => u = t
  <2> HIDE DEF Bad
  <2> QED
    BY <1>b, SmallestSubset
<1>2. t \in SUBSET S /\ IsFiniteSet(t) /\ t # {}
  <2>1. t \in SUBSET S /\ t # {}
    BY <1>1, SumEmpty
  <2> QED
    BY <2>1, FS_Subset
<1>3. PICK x \in t : TRUE
  BY <1>2
<1>4. SumFunctionOnSet(f, t) = f[x] + SumFunctionOnSet(f, t \ {x})
  BY <1>2, <1>3, SumRemove
<1>5. SumFunctionOnSet(f, t \ {x}) = 0 /\ f[x] = 0
  BY <1>1, <1>2, <1>3
<1> QED
  BY <1>1, <1>4, <1>5

\* Smaller values have a smaller sum.
LEMMA SumSmaller ==
  ASSUME NEW f, NEW g, NEW S, IsFiniteSet(S),
         \A x \in S : f[x] \in Int /\ g[x] \in Int /\ g[x] <= f[x]
  PROVE  SumFunctionOnSet(g, S) <= SumFunctionOnSet(f, S)
<1> DEFINE Bad == {t \in SUBSET S :
                     ~(SumFunctionOnSet(g, t) <= SumFunctionOnSet(f, t))}
<1> SUFFICES ASSUME Bad # {} PROVE FALSE
  OBVIOUS
<1>b. Bad \in SUBSET SUBSET S
  OBVIOUS
<1>1. PICK t \in Bad : \A u \in Bad : u \subseteq t => u = t
  <2> HIDE DEF Bad
  <2> QED
    BY <1>b, SmallestSubset
<1>2. t \in SUBSET S /\ IsFiniteSet(t) /\ t # {}
  <2>0. SumFunctionOnSet(f, {}) = 0 /\ SumFunctionOnSet(g, {}) = 0
    BY SumEmpty
  <2>1. SumFunctionOnSet(g, {}) <= SumFunctionOnSet(f, {})
    BY <2>0
  <2>2. t \in SUBSET S /\ t # {}
    BY <1>1, <2>1, Zenon
  <2> QED
    BY <2>2, FS_Subset
<1>3. PICK x \in t : TRUE
  BY <1>2
<1> DEFINE u == t \ {x}
<1>4. /\ SumFunctionOnSet(f, t) = f[x] + SumFunctionOnSet(f, u)
      /\ SumFunctionOnSet(g, t) = g[x] + SumFunctionOnSet(g, u)
  BY <1>2, <1>3, SumRemove
<1>5. SumFunctionOnSet(g, u) <= SumFunctionOnSet(f, u)
  BY <1>1, <1>3
<1>6. /\ SumFunctionOnSet(f, u) \in Int /\ SumFunctionOnSet(g, u) \in Int
      /\ f[x] \in Int /\ g[x] \in Int /\ g[x] <= f[x]
  BY <1>2, <1>3, SumType, FS_Subset
<1> HIDE DEF u
<1> QED
  BY <1>1, <1>4, <1>5, <1>6

\* The indices of a sequence
LEMMA IndicesFinite ==
  ASSUME NEW n \in Nat
  PROVE  IsFiniteSet(1 .. n)
BY FS_Interval

\* The last value changes the total by as much.
LEMMA TotalLast ==
  ASSUME NEW n \in Nat \ {0}, NEW w \in [1 .. n -> Int], NEW v \in [1 .. n -> Int],
         \A i \in 1 .. n - 1 : v[i] = w[i]
  PROVE  SumFunction(v) = SumFunction(w) + (v[n] - w[n])
<1> DEFINE S == 1 .. n
<1>1. IsFiniteSet(S) /\ n \in S
  BY IndicesFinite
<1>2. \A i \in S : w[i] \in Int /\ v[i] \in Int
  OBVIOUS
<1>3. \A i \in S \ {n} : v[i] = w[i]
  OBVIOUS
<1>4. DOMAIN v = S /\ DOMAIN w = S
  OBVIOUS
<1> HIDE DEF S
<1>5. SumFunctionOnSet(v, S) = SumFunctionOnSet(w, S) + (v[n] - w[n])
  BY <1>1, <1>2, <1>3, SumUpdate
<1> QED
  BY <1>4, <1>5 DEF SumFunction

\* One more value adds itself to the total.
LEMMA TotalMore ==
  ASSUME NEW n \in Nat, NEW w \in [1 .. n -> Int], NEW v \in [1 .. n + 1 -> Int],
         \A i \in 1 .. n : v[i] = w[i]
  PROVE  SumFunction(v) = SumFunction(w) + v[n + 1]
<1> DEFINE S == 1 .. n
           x == n + 1
           T == 1 .. n + 1
<1>1. IsFiniteSet(S) /\ x \notin S /\ T = S \cup {x}
  BY IndicesFinite
<1>2. \A i \in S \cup {x} : v[i] \in Int
  BY <1>1
<1>3. \A i \in S : w[i] \in Int /\ v[i] = w[i]
  OBVIOUS
<1>4. DOMAIN v = T /\ DOMAIN w = S
  OBVIOUS
<1> HIDE DEF S, x, T
<1>5. SumFunctionOnSet(v, S \cup {x}) = SumFunctionOnSet(v, S) + v[x]
  BY <1>1, <1>2, SumAdd
<1>6. SumFunctionOnSet(v, S) = SumFunctionOnSet(w, S)
  BY <1>1, <1>3, SumSame
<1>7. SumFunction(v) = SumFunction(w) + v[x]
  BY <1>1, <1>4, <1>5, <1>6 DEF SumFunction
<1> QED
  BY <1>7 DEF x

\* Smaller values have a smaller total.
LEMMA TotalSmaller ==
  ASSUME NEW n \in Nat, NEW w \in [1 .. n -> Int], NEW v \in [1 .. n -> Int],
         \A i \in 1 .. n : v[i] <= w[i]
  PROVE  SumFunction(v) <= SumFunction(w)
<1> DEFINE S == 1 .. n
<1>1. IsFiniteSet(S)
  BY IndicesFinite
<1>2. \A i \in S : w[i] \in Int /\ v[i] \in Int /\ v[i] <= w[i]
  OBVIOUS
<1>3. DOMAIN v = S /\ DOMAIN w = S
  OBVIOUS
<1> HIDE DEF S
<1> QED
  BY <1>1, <1>2, <1>3, SumSmaller DEF SumFunction

\* Naturals have a natural total.
LEMMA TotalNat ==
  ASSUME NEW n \in Nat, NEW w \in [1 .. n -> Nat]
  PROVE  SumFunction(w) \in Nat
BY IndicesFinite, SumNat DEF SumFunction
=============================================================================
