------------------------------ MODULE SumTheorems ------------------------------
(* Sums of integers over a finite set.  The folds of the community modules    *)
(* are recursive functions; Partial is the one that sums a function's values, *)
(* and the theorems of this module say what its value does not depend on.     *)
(* Induction is by a smallest counterexample, which is first-order.           *)
EXTENDS Integers, Functions, FiniteSetTheorems, WellFoundedInduction, TLAPS

(***************************************************************************)
(* Induction.                                                              *)
(***************************************************************************)

\* A family of subsets of a finite set has a member none of whose proper subsets is one.
LEMMA SmallestSubset ==
  ASSUME NEW S, IsFiniteSet(S), NEW B, B \subseteq SUBSET S, B # {}
  PROVE  \E T \in B : \A U \in B : U \subseteq T => U = T
<1>1. B \subseteq FiniteSubsetsOf(S)
  BY FS_Subset DEF FiniteSubsetsOf
<1>2. PICK T \in B : \A U \in B : ~(<<U, T>> \in StrictSubsetOrdering(S))
  BY <1>1, FS_StrictSubsetOrderingWellFounded, WFMin
<1>3. ASSUME NEW U \in B, U \subseteq T, U # T PROVE FALSE
  <2>1. <<U, T>> \in (SUBSET S) \X (SUBSET S)
    OBVIOUS
  <2>2. <<U, T>> \in StrictSubsetOrdering(S)
    BY <1>3, <2>1 DEF StrictSubsetOrdering
  <2> QED BY <1>2, <2>2
<1> QED BY <1>3

\* What holds of {} and of each set with one more element holds of a finite set.
LEMMA SetInduction ==
  ASSUME NEW S, IsFiniteSet(S), NEW A, {} \in A,
         \A T \in SUBSET S : \A x \in S \ T : T \in A => T \cup {x} \in A
  PROVE  S \in A
<1> SUFFICES ASSUME S \notin A PROVE FALSE
  OBVIOUS
<1> DEFINE B == {T \in SUBSET S : T \notin A}
<1>1. PICK T \in B : \A U \in B : U \subseteq T => U = T
  <2>1. S \in B /\ B \subseteq SUBSET S
    OBVIOUS
  <2> HIDE DEF B
  <2> QED BY <2>1, SmallestSubset
<1>2. PICK x \in T : TRUE
  BY <1>1
<1>3. T \ {x} \in A /\ x \in S \ (T \ {x}) /\ (T \ {x}) \cup {x} = T /\ T \ {x} \in SUBSET S
  BY <1>1, <1>2
<1>4. T \ {x} \notin B
  BY <1>1, <1>2
<1>5. (T \ {x}) \cup {x} \in A
  BY <1>3, <1>4
<1> QED BY <1>1, <1>3, <1>5

\* What holds of 0 and of each successor holds of every natural number.
LEMMA NumberInduction ==
  ASSUME NEW A, 0 \in A, \A n \in Nat : n \in A => n + 1 \in A
  PROVE  Nat \subseteq A
<1> SUFFICES ASSUME NEW m \in Nat, m \notin A PROVE FALSE
  OBVIOUS
<1> DEFINE B == {n \in Nat : n \notin A}
<1>1. PICK n \in B : \A k \in B : ~(<<k, n>> \in OpToRel(<, Nat))
  <2>1. m \in B /\ B \subseteq Nat
    OBVIOUS
  <2> QED BY <2>1, NatLessThanWellFounded, WFMin
<1>2. \A k \in B : ~(k < n)
  BY <1>1 DEF OpToRel
<1>3. n - 1 \in Nat /\ n - 1 < n /\ (n - 1) + 1 = n
  <2>1. n # 0 /\ n \in Nat
    OBVIOUS
  <2> HIDE DEF B
  <2> QED BY <2>1
<1>4. n - 1 \in A
  BY <1>2, <1>3
<1> QED BY <1>1, <1>3, <1>4

(***************************************************************************)
(* The fold.                                                               *)
(***************************************************************************)

Pick(s) == CHOOSE x \in s : TRUE

\* h gives every subset of S the sum of g over it, one element after the other.
Folds(S, g, h) ==
  h = [s \in SUBSET S |-> IF s = {} THEN 0 ELSE g[Pick(s)] + h[s \ {Pick(s)}]]

Partial(g) == CHOOSE h : Folds(DOMAIN g, g, h)

LEMMA PickIn ==
  ASSUME NEW s, s # {}
  PROVE  Pick(s) \in s
BY DEF Pick

FoldsSmall(S, g, n) ==
  \E h \in [{s \in SUBSET S : Cardinality(s) <= n} -> Int] :
    h = [s \in {t \in SUBSET S : Cardinality(t) <= n} |->
           IF s = {} THEN 0 ELSE g[Pick(s)] + h[s \ {Pick(s)}]]

\* The fold over the subsets of at most n elements exists.
LEMMA FoldOfSmall ==
  ASSUME NEW S, IsFiniteSet(S), NEW g \in [S -> Int], NEW n \in Nat
  PROVE  FoldsSmall(S, g, n)
<1> DEFINE Small(m) == {s \in SUBSET S : Cardinality(s) <= m}
           Next(m, h) == [s \in Small(m) |-> IF s = {} THEN 0 ELSE g[Pick(s)] + h[s \ {Pick(s)}]]
           A == {m \in Nat : \E h \in [Small(m) -> Int] : h = Next(m, h)}
<1>1. \A s \in SUBSET S : /\ IsFiniteSet(s) /\ Cardinality(s) \in Nat
                          /\ Cardinality(s) = 0 <=> s = {}
                          /\ s # {} => /\ Pick(s) \in s /\ Pick(s) \in S
                                       /\ Cardinality(s \ {Pick(s)}) = Cardinality(s) - 1
  <2> TAKE s \in SUBSET S
  <2>1. IsFiniteSet(s)
    BY FS_Subset
  <2>2. Cardinality(s) \in Nat /\ (Cardinality(s) = 0 <=> s = {})
    BY <2>1, FS_CardinalityType, FS_EmptySet
  <2>3. s # {} => Pick(s) \in s /\ Cardinality(s \ {Pick(s)}) = Cardinality(s) - 1
    BY <2>1, PickIn, FS_RemoveElement
  <2> QED BY <2>1, <2>2, <2>3
<1>2. 0 \in A
  <2> DEFINE h == [s \in Small(0) |-> 0]
  <2>1. Small(0) = {{}}
    <3>1. ASSUME NEW s \in SUBSET S PROVE Cardinality(s) <= 0 <=> s = {}
      <4>1. PICK c \in Nat : c = Cardinality(s) /\ (c = 0 <=> s = {})
        BY <1>1
      <4> QED BY <4>1
    <3>2. {} \in SUBSET S
      OBVIOUS
    <3> QED BY <3>1, <3>2
  <2>2. h \in [Small(0) -> Int] /\ h = Next(0, h)
    BY <2>1
  <2> QED BY <2>2
<1>3. ASSUME NEW m \in Nat, m \in A PROVE m + 1 \in A
  <2>1. PICK h \in [Small(m) -> Int] : h = Next(m, h)
    BY <1>3
  <2> DEFINE k == Next(m + 1, h)
  <2>2. \A s \in Small(m + 1) : s # {} => s \ {Pick(s)} \in Small(m)
    BY <1>1
  <2>3. k \in [Small(m + 1) -> Int]
    <3>1. \A s \in Small(m + 1) : s # {} => g[Pick(s)] \in Int /\ h[s \ {Pick(s)}] \in Int
      <4>1. \A s \in Small(m + 1) : s # {} => Pick(s) \in S
        BY <1>1
      <4> HIDE DEF Small
      <4> QED BY <2>1, <2>2, <4>1
    <3>2. \A s \in Small(m + 1) : (IF s = {} THEN 0 ELSE g[Pick(s)] + h[s \ {Pick(s)}]) \in Int
      BY <3>1
    <3> HIDE DEF Small
    <3> QED BY <3>2
  <2>4. \A s \in Small(m) : s \in Small(m + 1) /\ h[s] = k[s]
    <3>1. \A s \in Small(m) : s \in Small(m + 1)
      <4>1. ASSUME NEW s \in SUBSET S, Cardinality(s) <= m PROVE Cardinality(s) <= m + 1
        <5>1. PICK c \in Nat : c = Cardinality(s)
          BY <1>1
        <5> QED BY <4>1, <5>1
      <4> QED BY <4>1
    <3>2. \A s \in Small(m) : h[s] = IF s = {} THEN 0 ELSE g[Pick(s)] + h[s \ {Pick(s)}]
      BY <2>1
    <3>3. \A s \in Small(m + 1) : k[s] = IF s = {} THEN 0 ELSE g[Pick(s)] + h[s \ {Pick(s)}]
      OBVIOUS
    <3> HIDE DEF k, Small
    <3> QED BY <3>1, <3>2, <3>3
  <2>5. k = Next(m + 1, k)
    <3>1. \A s \in Small(m + 1) : s # {} => h[s \ {Pick(s)}] = k[s \ {Pick(s)}]
      BY <2>2, <2>4
    <3> QED BY <3>1
  <2>6. \E f \in [Small(m + 1) -> Int] : f = Next(m + 1, f)
    BY <2>3, <2>5
  <2>7. m + 1 \in Nat
    OBVIOUS
  <2> HIDE DEF Small, Next
  <2> QED BY <2>6, <2>7
<1>4. n \in A
  <2> HIDE DEF A
  <2> QED BY <1>2, <1>3, NumberInduction
<1> QED BY <1>4 DEF FoldsSmall

\* Folding is well defined, and gives integers.
LEMMA FoldExists ==
  ASSUME NEW S, IsFiniteSet(S), NEW g \in [S -> Int]
  PROVE  \E h \in [SUBSET S -> Int] : Folds(S, g, h)
<1>1. Cardinality(S) \in Nat /\ \A s \in SUBSET S : Cardinality(s) <= Cardinality(S)
  BY FS_Subset, FS_CardinalityType
<1>2. {s \in SUBSET S : Cardinality(s) <= Cardinality(S)} = SUBSET S
  BY <1>1
<1>4. PICK n \in Nat : n = Cardinality(S)
  BY <1>1
<1>3. FoldsSmall(S, g, n)
  BY FoldOfSmall
<1>5. PICK h \in [SUBSET S -> Int] :
        h = [s \in SUBSET S |-> IF s = {} THEN 0 ELSE g[Pick(s)] + h[s \ {Pick(s)}]]
  <2>1. {s \in SUBSET S : Cardinality(s) <= n} = SUBSET S
    BY <1>2, <1>4
  <2> QED BY <1>3, <2>1 DEF FoldsSmall
<1> QED BY <1>5 DEF Folds

\* Two folds that sum the same values agree where both are defined.
LEMMA FoldsAgree ==
  ASSUME NEW S, IsFiniteSet(S), NEW T \in SUBSET S, NEW f, NEW g, NEW h, NEW k,
         \A x \in T : f[x] = g[x], Folds(S, f, h), Folds(T, g, k)
  PROVE  \A s \in SUBSET T : h[s] = k[s]
<1> SUFFICES ASSUME NEW t \in SUBSET T, h[t] # k[t] PROVE FALSE
  OBVIOUS
<1> DEFINE B == {s \in SUBSET T : h[s] # k[s]}
<1>1. PICK s \in B : \A u \in B : u \subseteq s => u = s
  <2>1. t \in B /\ B \subseteq SUBSET T /\ IsFiniteSet(T)
    BY FS_Subset
  <2> HIDE DEF B
  <2> QED BY <2>1, SmallestSubset
<1>2. /\ h[s] = IF s = {} THEN 0 ELSE f[Pick(s)] + h[s \ {Pick(s)}]
      /\ k[s] = IF s = {} THEN 0 ELSE g[Pick(s)] + k[s \ {Pick(s)}]
  BY DEF Folds
<1>3. s # {} => Pick(s) \in s
  BY PickIn
<1>4. s # {} => h[s \ {Pick(s)}] = k[s \ {Pick(s)}]
  BY <1>1, <1>3
<1> QED BY <1>1, <1>2, <1>3, <1>4

LEMMA PartialIs ==
  ASSUME NEW S, IsFiniteSet(S), NEW g \in [S -> Int]
  PROVE  Partial(g) \in [SUBSET S -> Int] /\ Folds(S, g, Partial(g))
<1>1. PICK h \in [SUBSET S -> Int] : Folds(S, g, h)
  BY FoldExists
<1>2. Folds(S, g, Partial(g))
  BY <1>1 DEF Partial
<1>3. \A s \in SUBSET S : Partial(g)[s] = h[s]
  BY <1>1, <1>2, FoldsAgree
<1>4. Partial(g) = [s \in SUBSET S |-> Partial(g)[s]]
  BY <1>2 DEF Folds
<1> QED BY <1>2, <1>3, <1>4

LEMMA SumIsPartial ==
  ASSUME NEW S, IsFiniteSet(S), NEW g \in [S -> Int]
  PROVE  SumFunction(g) = Partial(g)[S]
<1> DEFINE k == CHOOSE k : k = [s \in SUBSET S |->
                      IF s = {} THEN 0 ELSE g[CHOOSE x \in s : TRUE] + k[s \ {CHOOSE x \in s : TRUE}]]
<1>1. SumFunction(g) = k[S]
  BY DEF SumFunction, SumFunctionOnSet, FoldFunctionOnSet, MapThenFoldSet
<1>2. Folds(S, g, k)
  <2>1. PICK h : Folds(S, g, h)
    BY FoldExists
  <2>2. h = [s \in SUBSET S |->
               IF s = {} THEN 0 ELSE g[CHOOSE x \in s : TRUE] + h[s \ {CHOOSE x \in s : TRUE}]]
    BY <2>1 DEF Folds, Pick
  <2>3. k = [s \in SUBSET S |->
               IF s = {} THEN 0 ELSE g[CHOOSE x \in s : TRUE] + k[s \ {CHOOSE x \in s : TRUE}]]
    BY <2>2
  <2> QED BY <2>3 DEF Folds, Pick
<1> HIDE DEF k
<1>3. \A s \in SUBSET S : Partial(g)[s] = k[s]
  <2>1. Folds(S, g, Partial(g))
    BY PartialIs
  <2>2. S \in SUBSET S /\ \A x \in S : g[x] = g[x]
    OBVIOUS
  <2> QED BY <1>2, <2>1, <2>2, FoldsAgree
<1> QED BY <1>1, <1>3

(***************************************************************************)
(* The sum.                                                                *)
(***************************************************************************)

\* g on S alone.
On(g, S) == [x \in S |-> g[x]]

\* The partial sums of a function are the sums of its restrictions.
LEMMA PartialOn ==
  ASSUME NEW S, IsFiniteSet(S), NEW g \in [S -> Int], NEW T \in SUBSET S
  PROVE  Partial(g)[T] = SumFunction(On(g, T))
<1>1. On(g, T) \in [T -> Int] /\ IsFiniteSet(T) /\ \A x \in T : g[x] = On(g, T)[x]
  BY FS_Subset DEF On
<1>2. \A s \in SUBSET T : Partial(g)[s] = Partial(On(g, T))[s]
  <2> HIDE DEF On
  <2>1. Folds(S, g, Partial(g)) /\ Folds(T, On(g, T), Partial(On(g, T)))
    BY <1>1, PartialIs
  <2> QED BY <1>1, <2>1, FoldsAgree
<1>3. SumFunction(On(g, T)) = Partial(On(g, T))[T]
  BY <1>1, SumIsPartial
<1> QED BY <1>2, <1>3

LEMMA SumType ==
  ASSUME NEW S, IsFiniteSet(S), NEW g \in [S -> Int]
  PROVE  SumFunction(g) \in Int
<1>1. Partial(g) \in [SUBSET S -> Int] /\ S \in SUBSET S
  BY PartialIs
<1> QED BY <1>1, SumIsPartial

LEMMA SumEmpty ==
  ASSUME NEW g \in [{} -> Int]
  PROVE  SumFunction(g) = 0
<1>1. g \in [{} -> Int] /\ IsFiniteSet({})
  BY FS_EmptySet
<1>2. Folds({}, g, Partial(g)) /\ SumFunction(g) = Partial(g)[{}]
  BY <1>1, PartialIs, SumIsPartial
<1> QED BY <1>2 DEF Folds

\* Any element may be taken last.
LEMMA SumStep ==
  ASSUME NEW S, IsFiniteSet(S), NEW g \in [S -> Int], NEW x \in S
  PROVE  SumFunction(g) = g[x] + SumFunction(On(g, S \ {x}))
<1> DEFINE h == Partial(g)
           B == {s \in SUBSET S : \E y \in s : h[s] # g[y] + h[s \ {y}]}
<1>1. h \in [SUBSET S -> Int]
      /\ \A s \in SUBSET S : h[s] = IF s = {} THEN 0 ELSE g[Pick(s)] + h[s \ {Pick(s)}]
  <2>1. h \in [SUBSET S -> Int] /\ Folds(S, g, h)
    BY PartialIs
  <2> HIDE DEF h
  <2> QED BY <2>1 DEF Folds
<1> HIDE DEF h
<1>2. B = {}
  <2> SUFFICES ASSUME B # {} PROVE FALSE
    OBVIOUS
  <2>1. PICK s \in B : \A u \in B : u \subseteq s => u = s
    <3>1. B \subseteq SUBSET S
      OBVIOUS
    <3> HIDE DEF B
    <3> QED BY <3>1, SmallestSubset
  <2>2. PICK y \in s : h[s] # g[y] + h[s \ {y}]
    BY <2>1
  <2> DEFINE z == Pick(s)
  <2>3. z \in s /\ h[s] = g[z] + h[s \ {z}]
    BY <1>1, <2>1, PickIn
  <2>4. z # y
    BY <2>2, <2>3
  <2>5. h[s \ {z}] = g[y] + h[(s \ {z}) \ {y}]
    <3>1. s \ {z} \in SUBSET S /\ s \ {z} \notin B /\ y \in s \ {z}
      BY <2>1, <2>2, <2>3, <2>4
    <3> QED BY <3>1
  <2>6. h[s \ {y}] = g[z] + h[(s \ {y}) \ {z}]
    <3>1. s \ {y} \in SUBSET S /\ s \ {y} \notin B /\ z \in s \ {y}
      BY <2>1, <2>2, <2>3, <2>4
    <3> QED BY <3>1
  <2>7. (s \ {y}) \ {z} = (s \ {z}) \ {y} /\ (s \ {z}) \ {y} \in SUBSET S
    BY <2>1
  <2>8. g[y] \in Int /\ g[z] \in Int /\ h[(s \ {z}) \ {y}] \in Int
    BY <1>1, <2>1, <2>2, <2>3, <2>7
  <2> HIDE DEF z, B
  <2> DEFINE r == h[(s \ {z}) \ {y}]
  <2>9. h[s] = g[z] + (g[y] + r) /\ h[s] # g[y] + (g[z] + r) /\ r \in Int
    BY <2>2, <2>3, <2>5, <2>6, <2>7, <2>8
  <2> HIDE DEF r
  <2> QED BY <2>8, <2>9
<1>3. h[S] = g[x] + h[S \ {x}]
  BY <1>2
<1>4. h[S \ {x}] = SumFunction(On(g, S \ {x})) /\ h[S] = SumFunction(g)
  BY PartialOn, SumIsPartial DEF h
<1> QED BY <1>3, <1>4

\* The sum over a part of S grows by what an element outside the part adds.
LEMMA SumNext ==
  ASSUME NEW S, IsFiniteSet(S), NEW g \in [S -> Int], NEW T \in SUBSET S, NEW x \in S \ T
  PROVE  SumFunction(On(g, T \cup {x})) = g[x] + SumFunction(On(g, T))
<1> DEFINE U == T \cup {x}
<1>1. IsFiniteSet(U) /\ On(g, U) \in [U -> Int] /\ x \in U
  BY FS_Subset DEF On
<1>2. On(On(g, U), U \ {x}) = On(g, T) /\ On(g, U)[x] = g[x]
  BY DEF On
<1> HIDE DEF U
<1>3. SumFunction(On(g, U)) = On(g, U)[x] + SumFunction(On(On(g, U), U \ {x}))
  BY <1>1, SumStep
<1> QED BY <1>2, <1>3 DEF U

LEMMA OnType ==
  ASSUME NEW S, IsFiniteSet(S), NEW g \in [S -> Int], NEW T \in SUBSET S
  PROVE  /\ On(g, T) \in [T -> Int]
         /\ IsFiniteSet(T)
         /\ SumFunction(On(g, T)) \in Int
<1>1. On(g, T) \in [T -> Int] /\ IsFiniteSet(T)
  BY FS_Subset DEF On
<1> QED BY <1>1, SumType

LEMMA OnAll ==
  ASSUME NEW S, NEW T, NEW g \in [S -> T]
  PROVE  On(g, S) = g
BY DEF On

LEMMA OnNone ==
  ASSUME NEW g
  PROVE  SumFunction(On(g, {})) = 0
<1>1. On(g, {}) \in [{} -> Int]
  BY DEF On
<1> QED BY <1>1, SumEmpty

\* A sum splits over two parts.
LEMMA SumUnion ==
  ASSUME NEW S, IsFiniteSet(S), NEW g \in [S -> Int],
         NEW T \in SUBSET S, NEW U \in SUBSET S, T \cap U = {}
  PROVE  SumFunction(On(g, T \cup U)) = SumFunction(On(g, T)) + SumFunction(On(g, U))
<1> DEFINE F(W) == SumFunction(On(g, W))
           A == {W \in SUBSET U : F(T \cup W) = F(T) + F(W)}
<1>1. \A W \in SUBSET S : F(W) \in Int
  BY OnType
<1>2. F({}) = 0
  BY OnNone
<1>3. \A W \in SUBSET S : \A x \in S \ W : F(W \cup {x}) = g[x] + F(W)
  BY SumNext
<1>4. IsFiniteSet(U)
  BY FS_Subset
<1> HIDE DEF F
<1>5. {} \in A
  <2>1. T \cup {} = T /\ F(T) \in Int
    BY <1>1
  <2> QED BY <1>2, <2>1
<1>6. ASSUME NEW W \in SUBSET U, NEW x \in U \ W, W \in A PROVE W \cup {x} \in A
  <2>1. F(W \cup {x}) = g[x] + F(W)
    BY <1>3
  <2>2. F((T \cup W) \cup {x}) = g[x] + F(T \cup W)
    <3>1. T \cup W \in SUBSET S /\ x \in S \ (T \cup W)
      OBVIOUS
    <3> QED BY <1>3, <3>1
  <2>3. (T \cup W) \cup {x} = T \cup (W \cup {x})
    OBVIOUS
  <2>4. F(T \cup W) = F(T) + F(W) /\ F(T) \in Int /\ F(W) \in Int /\ g[x] \in Int
    BY <1>1, <1>6
  <2>5. F(T \cup (W \cup {x})) = F(T) + F(W \cup {x})
    <3> DEFINE a == F(T)
               b == F(W)
               c == g[x]
    <3>1. a \in Int /\ b \in Int /\ c \in Int
      BY <2>4
    <3>2. F(T \cup (W \cup {x})) = c + (a + b) /\ F(W \cup {x}) = c + b
      BY <2>1, <2>2, <2>3, <2>4
    <3> HIDE DEF a, b, c
    <3>3. F(T \cup (W \cup {x})) = a + F(W \cup {x})
      BY <3>1, <3>2
    <3> QED BY <3>3 DEF a
  <2> QED BY <2>5
<1>7. U \in A
  <2> HIDE DEF A
  <2> QED BY <1>4, <1>5, <1>6, SetInduction
<1> QED BY <1>7 DEF F

\* The sum of sums.
LEMMA SumPlus ==
  ASSUME NEW S, IsFiniteSet(S), NEW f \in [S -> Int], NEW g \in [S -> Int], NEW h \in [S -> Int],
         \A x \in S : h[x] = f[x] + g[x]
  PROVE  SumFunction(h) = SumFunction(f) + SumFunction(g)
<1> DEFINE F(W) == SumFunction(On(f, W))
           G(W) == SumFunction(On(g, W))
           H(W) == SumFunction(On(h, W))
           A == {W \in SUBSET S : H(W) = F(W) + G(W)}
<1>1. \A W \in SUBSET S : F(W) \in Int /\ G(W) \in Int /\ H(W) \in Int
  BY OnType
<1>2. F({}) = 0 /\ G({}) = 0 /\ H({}) = 0
  BY OnNone
<1>3. \A W \in SUBSET S : \A x \in S \ W :
        /\ F(W \cup {x}) = f[x] + F(W)
        /\ G(W \cup {x}) = g[x] + G(W)
        /\ H(W \cup {x}) = h[x] + H(W)
  <2> TAKE W \in SUBSET S
  <2> TAKE x \in S \ W
  <2>1. F(W \cup {x}) = f[x] + F(W)
    BY SumNext
  <2>2. G(W \cup {x}) = g[x] + G(W)
    BY SumNext
  <2>3. H(W \cup {x}) = h[x] + H(W)
    BY SumNext
  <2> QED BY <2>1, <2>2, <2>3
<1>4. F(S) = SumFunction(f) /\ G(S) = SumFunction(g) /\ H(S) = SumFunction(h)
  BY OnAll
<1> HIDE DEF F, G, H
<1>5. {} \in A
  BY <1>2
<1>6. ASSUME NEW W \in SUBSET S, NEW x \in S \ W, W \in A PROVE W \cup {x} \in A
  <2>1. F(W) \in Int /\ G(W) \in Int /\ H(W) = F(W) + G(W)
    BY <1>1, <1>6
  <2>2. f[x] \in Int /\ g[x] \in Int /\ h[x] = f[x] + g[x]
    OBVIOUS
  <2>3. H(W \cup {x}) = F(W \cup {x}) + G(W \cup {x})
    BY <1>3, <2>1, <2>2
  <2> QED BY <2>3
<1>7. S \in A
  <2> HIDE DEF A
  <2> QED BY <1>5, <1>6, SetInduction
<1> QED BY <1>4, <1>7

\* A sum over a set that is counted by another.
LEMMA SumImage ==
  ASSUME NEW S, IsFiniteSet(S), NEW T, IsFiniteSet(T), NEW e \in [S -> T],
         \A x, y \in S : e[x] = e[y] => x = y, \A z \in T : \E x \in S : e[x] = z,
         NEW f \in [T -> Int], NEW g \in [S -> Int], \A x \in S : g[x] = f[e[x]]
  PROVE  SumFunction(g) = SumFunction(f)
<1> DEFINE F(W) == SumFunction(On(f, W))
           G(W) == SumFunction(On(g, W))
           E(W) == {e[x] : x \in W}
           A == {W \in SUBSET S : G(W) = F(E(W))}
<1>1. \A W \in SUBSET T : \A z \in T \ W : F(W \cup {z}) = f[z] + F(W)
  BY SumNext
<1>2. \A W \in SUBSET S : \A x \in S \ W : G(W \cup {x}) = g[x] + G(W)
  BY SumNext
<1>3. F({}) = 0 /\ G({}) = 0 /\ F(T) = SumFunction(f) /\ G(S) = SumFunction(g)
  BY OnNone, OnAll
<1> HIDE DEF F, G
<1>4. {} \in A
  <2>1. E({}) = {}
    OBVIOUS
  <2> QED BY <1>3, <2>1
<1>5. ASSUME NEW W \in SUBSET S, NEW x \in S \ W, W \in A PROVE W \cup {x} \in A
  <2>1. E(W \cup {x}) = E(W) \cup {e[x]}
    OBVIOUS
  <2>2. E(W) \in SUBSET T /\ e[x] \in T \ E(W)
    OBVIOUS
  <2>3. F(E(W) \cup {e[x]}) = f[e[x]] + F(E(W))
    BY <1>1, <2>2
  <2>4. G(W \cup {x}) = F(E(W \cup {x}))
    <3>1. G(W) = F(E(W)) /\ g[x] = f[e[x]] /\ G(W \cup {x}) = g[x] + G(W)
      BY <1>2, <1>5
    <3> HIDE DEF E
    <3> QED BY <2>1, <2>3, <3>1
  <2> QED BY <2>4
<1>6. S \in A
  <2> HIDE DEF A
  <2> QED BY <1>4, <1>5, SetInduction
<1>7. E(S) = T
  OBVIOUS
<1> QED BY <1>3, <1>6, <1>7

\* What m sends to p.
Fiber(m, p) == {x \in DOMAIN m : m[x] = p}

\* A sum may be taken class by class.
LEMMA SumFibers ==
  ASSUME NEW S, IsFiniteSet(S), NEW P, IsFiniteSet(P), NEW m \in [S -> P],
         NEW f \in [S -> Int], NEW F \in [P -> Int],
         \A p \in P : F[p] = SumFunction(On(f, Fiber(m, p)))
  PROVE  SumFunction(f) = SumFunction(F)
<1> DEFINE G(W) == SumFunction(On(f, W))
           H(Q) == SumFunction(On(F, Q))
           E(Q) == {x \in S : m[x] \in Q}
           A == {Q \in SUBSET P : G(E(Q)) = H(Q)}
<1>1. \A W, V \in SUBSET S : W \cap V = {} => G(W \cup V) = G(W) + G(V)
  BY SumUnion
<1>2. \A Q \in SUBSET P : \A p \in P \ Q : H(Q \cup {p}) = F[p] + H(Q)
  BY SumNext
<1>3. G({}) = 0 /\ H({}) = 0 /\ H(P) = SumFunction(F) /\ G(S) = SumFunction(f)
  BY OnNone, OnAll
<1>4. \A p \in P : F[p] = G(Fiber(m, p)) /\ Fiber(m, p) = {x \in S : m[x] = p}
  BY DEF Fiber
<1>5. \A W \in SUBSET S : G(W) \in Int
  BY OnType
<1> HIDE DEF G, H
<1>6. {} \in A
  <2>1. E({}) = {}
    OBVIOUS
  <2> QED BY <1>3, <2>1
<1>7. ASSUME NEW Q \in SUBSET P, NEW p \in P \ Q, Q \in A PROVE Q \cup {p} \in A
  <2> DEFINE W == E(Q)
             V == Fiber(m, p)
  <2>1. E(Q \cup {p}) = W \cup V /\ W \cap V = {} /\ W \in SUBSET S /\ V \in SUBSET S
    BY <1>4
  <2>2. G(W) = H(Q) /\ G(V) = F[p]
    BY <1>4, <1>7
  <2> HIDE DEF W, V
  <2>3. G(W \cup V) = G(W) + G(V) /\ G(W) \in Int /\ G(V) \in Int
    BY <1>1, <1>5, <2>1
  <2>4. G(E(Q \cup {p})) = H(Q \cup {p})
    <3>1. H(Q \cup {p}) = F[p] + H(Q)
      BY <1>2
    <3> HIDE DEF E
    <3> DEFINE a == G(W)
               b == G(V)
    <3>2. G(E(Q \cup {p})) = a + b /\ H(Q \cup {p}) = b + a /\ a \in Int /\ b \in Int
      BY <2>1, <2>2, <2>3, <3>1
    <3> HIDE DEF a, b
    <3> QED BY <3>2
  <2> QED BY <2>4
<1>8. P \in A
  <2> HIDE DEF A
  <2> QED BY <1>6, <1>7, SetInduction
<1>9. E(P) = S
  OBVIOUS
<1> QED BY <1>3, <1>8, <1>9

\* A sum of natural numbers is one, and is not less than any of them.
LEMMA SumNat ==
  ASSUME NEW S, IsFiniteSet(S), NEW g \in [S -> Nat]
  PROVE  SumFunction(g) \in Nat /\ \A x \in S : g[x] <= SumFunction(g)
<1> DEFINE G(W) == SumFunction(On(g, W))
           A == {W \in SUBSET S : G(W) \in Nat}
<1>0. g \in [S -> Int]
  OBVIOUS
<1>1. \A W \in SUBSET S : \A x \in S \ W : G(W \cup {x}) = g[x] + G(W)
  BY <1>0, SumNext
<1>2. G({}) = 0 /\ G(S) = SumFunction(g)
  BY <1>0, OnNone, OnAll
<1> HIDE DEF G
<1>3. {} \in A
  BY <1>2
<1>4. ASSUME NEW W \in SUBSET S, NEW x \in S, W \in A PROVE W \cup {x} \in A
  <2>1. CASE x \in W
    <3>1. W \cup {x} = W
      BY <2>1
    <3> QED BY <1>4, <3>1
  <2>2. CASE x \notin W
    <3>1. G(W \cup {x}) = g[x] + G(W) /\ g[x] \in Nat /\ G(W) \in Nat
      BY <1>1, <1>4, <2>2
    <3>2. G(W \cup {x}) \in Nat
      BY <3>1
    <3> QED BY <3>2
  <2> QED BY <2>1, <2>2
<1>5. \A W \in SUBSET S : W \in A
  <2> TAKE W \in SUBSET S
  <2>1. IsFiniteSet(W)
    BY FS_Subset
  <2>2. \A T \in SUBSET W : \A x \in W \ T : T \in A => T \cup {x} \in A
    BY <1>4
  <2> HIDE DEF A
  <2> QED BY <1>3, <2>1, <2>2, SetInduction
<1>6. \A x \in S : g[x] <= G(S)
  <2> TAKE x \in S
  <2>1. (S \ {x}) \cup {x} = S /\ S \ {x} \in SUBSET S
    OBVIOUS
  <2>2. G(S) = g[x] + G(S \ {x})
    <3>1. \A y \in S \ (S \ {x}) : G((S \ {x}) \cup {y}) = g[y] + G(S \ {x})
      BY <1>1, <2>1
    <3> QED BY <2>1, <3>1
  <2>3. G(S \ {x}) \in Nat /\ g[x] \in Nat
    BY <1>5
  <2> QED BY <2>2, <2>3
<1>7. S \in A
  BY <1>5
<1> QED BY <1>2, <1>6, <1>7

\* Zeros add nothing.
LEMMA SumZeros ==
  ASSUME NEW S, IsFiniteSet(S), NEW g \in [S -> Int], NEW T \in SUBSET S,
         \A x \in S \ T : g[x] = 0
  PROVE  SumFunction(g) = SumFunction(On(g, T))
<1> DEFINE G(W) == SumFunction(On(g, W))
           A == {W \in SUBSET (S \ T) : G(T \cup W) = G(T)}
<1>1. \A W \in SUBSET S : \A x \in S \ W : G(W \cup {x}) = g[x] + G(W)
  BY SumNext
<1>2. G(S) = SumFunction(g) /\ G(T) \in Int
  BY OnAll, OnType
<1> HIDE DEF G
<1>3. {} \in A
  <2>1. T \cup {} = T
    OBVIOUS
  <2> QED BY <2>1
<1>4. ASSUME NEW W \in SUBSET (S \ T), NEW x \in (S \ T) \ W, W \in A PROVE W \cup {x} \in A
  <2>1. T \cup W \in SUBSET S /\ x \in S \ (T \cup W) /\ (T \cup W) \cup {x} = T \cup (W \cup {x})
    OBVIOUS
  <2>2. G((T \cup W) \cup {x}) = g[x] + G(T \cup W)
    BY <1>1, <2>1
  <2>3. G(T \cup (W \cup {x})) = G(T)
    <3>1. g[x] = 0 /\ G(T \cup W) = G(T)
      BY <1>4
    <3>2. G(T \cup (W \cup {x})) = 0 + G(T)
      BY <2>1, <2>2, <3>1
    <3> QED BY <1>2, <3>2
  <2> QED BY <2>3
<1>5. S \ T \in A
  <2>1. IsFiniteSet(S \ T)
    BY FS_Subset
  <2> HIDE DEF A
  <2> QED BY <1>3, <1>4, <2>1, SetInduction
<1>6. T \cup (S \ T) = S /\ G(T \cup (S \ T)) = G(T)
  BY <1>5
<1>7. G(S) = G(T)
  BY <1>6
<1> QED BY <1>2, <1>7 DEF G

\* A sum over two sets that share nothing.
LEMMA SumParts ==
  ASSUME NEW S, IsFiniteSet(S), NEW T, IsFiniteSet(T), S \cap T = {}, NEW g \in [S \cup T -> Int]
  PROVE  SumFunction(g) = SumFunction(On(g, S)) + SumFunction(On(g, T))
<1>1. IsFiniteSet(S \cup T) /\ S \in SUBSET (S \cup T) /\ T \in SUBSET (S \cup T)
  BY FS_Union
<1>2. SumFunction(On(g, S \cup T)) = SumFunction(On(g, S)) + SumFunction(On(g, T))
  BY <1>1, SumUnion
<1> QED BY <1>2, OnAll

LEMMA SumOne ==
  ASSUME NEW x, NEW g \in [{x} -> Int]
  PROVE  SumFunction(g) = g[x]
<1>1. IsFiniteSet({x}) /\ x \in {x} /\ {x} \ {x} = {}
  BY FS_Singleton
<1>2. SumFunction(g) = g[x] + SumFunction(On(g, {x} \ {x}))
  BY <1>1, SumStep
<1>3. SumFunction(On(g, {x} \ {x})) = 0
  BY <1>1, OnNone
<1> QED BY <1>2, <1>3

================================================================================
