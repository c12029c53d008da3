------------------------- MODULE TensorMessageProofs -------------------------
(***************************************************************************)
(* TensorMessage for all widths, ranks, dimensions, strides and offsets:   *)
(* the checks of both languages are exact, no view reaches beyond its      *)
(* storage, and what is stored is read back.                               *)
(*                                                                         *)
(* What the loops over dimensions compute is proved by induction over the  *)
(* dimensions.  Induct is that induction for a set: the numbers at which a *)
(* claim fails have a least element.  Recursion says that there is a       *)
(* function that a loop unfolds to, so that CHOOSE finds it.               *)
(***************************************************************************)
EXTENDS TensorMessage, WellFoundedInduction, TLAPS

-----------------------------------------------------------------------------
(* Induction and recursion over 0..n.                                      *)

LEMMA HasLeast ==
  ASSUME NEW T \in SUBSET Nat, T # {}
  PROVE  \E n \in T : \A m \in T : n <= m
<1> DEFINE R == OpToRel(<, Nat)
<1>1. IsWellFoundedOn(R, Nat)
  BY NatLessThanWellFounded
<1>2. \A m, n \in Nat : m < n => <<m, n>> \in R
  BY DEF OpToRel
<1> HIDE DEF R
<1>3. PICK n \in T : \A m \in T : ~(<<m, n>> \in R)
  BY <1>1, WFMin
<1>4. n \in Nat /\ \A m \in T : m \in Nat /\ ~(m < n)
  BY <1>2, <1>3
<1>5. \A m \in T : n <= m
  BY <1>4
<1> QED
  BY <1>5

LEMMA Induct ==
  ASSUME NEW n \in Nat, NEW T, 0 \in T, \A k \in 1..n : k - 1 \in T => k \in T
  PROVE  \A k \in 0..n : k \in T
<1> DEFINE Fails == {k \in 0..n : k \notin T}
<1> SUFFICES ASSUME Fails # {} PROVE FALSE
  OBVIOUS
<1>1. Fails \in SUBSET Nat
  OBVIOUS
<1>2. PICK m \in Fails : \A k \in Fails : m <= k
  BY <1>1, HasLeast
<1>3. m \in 1..n /\ m - 1 \in 0..n /\ m - 1 \notin Fails
  BY <1>2
<1> QED
  BY <1>2, <1>3

\* p starts with v, and F[k] takes it from p[k - 1] to p[k].
Unfolds(p, V, v, n, F) ==
  p \in [0..n -> V] /\ p[0] = v /\ \A k \in 1..n : p[k] = F[k][p[k - 1]]

LEMMA Recursion ==
  ASSUME NEW V, NEW v \in V, NEW n \in Nat, NEW F \in [1..n -> [V -> V]]
  PROVE  \E p : Unfolds(p, V, v, n, F)
<1> DEFINE Good(m, p) == \A k \in 0..m : p[k] = IF k = 0 THEN v ELSE F[k][p[k - 1]]
           T == {m \in 0..n : \E p \in [0..m -> V] : Good(m, p)}
<1>1. 0 \in T
  <2> DEFINE q == [k \in 0..0 |-> v]
  <2>1. q \in [0..0 -> V] /\ Good(0, q)
    OBVIOUS
  <2> HIDE DEF q
  <2> QED
    BY <2>1
<1>2. ASSUME NEW m \in 1..n, m - 1 \in T
      PROVE  m \in T
  <2>1. PICK p \in [0..(m - 1) -> V] : Good(m - 1, p)
    BY <1>2
  <2> DEFINE q == [k \in 0..m |-> IF k = m THEN F[m][p[m - 1]] ELSE p[k]]
  <2>2. F[m][p[m - 1]] \in V
    BY <2>1
  <2>3. q \in [0..m -> V]
    BY <2>2
  <2>4. /\ q[m] = F[m][p[m - 1]]
        /\ \A k \in 0..(m - 1) : q[k] = p[k]
    OBVIOUS
  <2> HIDE DEF q
  <2>5. ASSUME NEW k \in 0..m
        PROVE  q[k] = IF k = 0 THEN v ELSE F[k][q[k - 1]]
    <3>1. CASE k = m
      <4>1. q[k - 1] = p[m - 1] /\ k # 0
        BY <3>1, <2>4
      <4> QED
        BY <3>1, <4>1, <2>4
    <3>2. CASE k # m
      <4>1. k \in 0..(m - 1) /\ (k # 0 => k - 1 \in 0..(m - 1))
        BY <3>2
      <4>2. q[k] = p[k] /\ (k # 0 => q[k - 1] = p[k - 1])
        BY <4>1, <2>4
      <4> QED
        BY <4>1, <4>2, <2>1
    <3> QED
      BY <3>1, <3>2
  <2> QED
    BY <2>3, <2>5
<1> HIDE DEF T
<1>3. \A k \in 1..n : k - 1 \in T => k \in T
  BY <1>2
<1>4. \A k \in 0..n : k \in T
  BY <1>1, <1>3, Induct
<1>5. n \in T
  BY <1>4
<1>6. PICK p \in [0..n -> V] : Good(n, p)
  BY <1>5 DEF T
<1>7. Unfolds(p, V, v, n, F)
  BY <1>6 DEF Unfolds
<1> QED
  BY <1>7

LEMMA StaysIn ==
  ASSUME NEW V, NEW n \in Nat, NEW g, g = [k \in 0..n |-> g[k]], g[0] \in V,
         \A k \in 1..n : g[k - 1] \in V => g[k] \in V
  PROVE  g \in [0..n -> V]
<1> DEFINE T == {k \in 0..n : g[k] \in V}
<1>1. 0 \in T /\ \A k \in 1..n : k - 1 \in T => k \in T
  OBVIOUS
<1> HIDE DEF T
<1>2. \A k \in 0..n : k \in T
  BY <1>1, Induct
<1> QED
  BY <1>2 DEF T

-----------------------------------------------------------------------------
(* Arithmetic that throws is exact where it does not throw, and it throws  *)
(* where the result is too great only.                                     *)

OrThrows(max) == (0..max) \cup {Throws}

LEMMA Constants ==
  /\ IntMax \in Nat /\ IntMax >= 1 /\ SizeMax \in Nat /\ SizeMax = 2 * IntMax + 1
  /\ Throws \notin Int /\ Throws \notin Seq(Int)
BY ConstantsOK DEF ConstantsOK, SizeMax

LEMMA DivIsExact ==
  ASSUME NEW a \in Nat, NEW b \in Nat, b > 0, NEW max \in Nat
  PROVE  a > max \div b <=> a * b > max
OBVIOUS

LEMMA TimesIsExact ==
  ASSUME NEW max \in Nat, NEW a \in Nat \cup {Throws}, NEW b \in Nat
  PROVE  /\ Times(a, b, max) \in OrThrows(max)
         /\ Times(a, b, max) # Throws => a # Throws /\ Times(a, b, max) = a * b
         /\ a # Throws /\ a * b <= max => Times(a, b, max) = a * b
<1>1. b # Throws
  BY Constants
<1>2. CASE a = Throws
  BY <1>2 DEF Times, OrThrows
<1>3. CASE a # Throws /\ b = 0
  <2>1. a \in Nat /\ a * b = 0 /\ Times(a, b, max) = a * b
    BY <1>1, <1>3 DEF Times, OrThrows
  <2> QED
    BY <2>1, <1>3, Constants DEF OrThrows
<1>4. CASE a # Throws /\ b # 0
  <2>1. a \in Nat /\ b > 0
    BY <1>4
  <2>2. a > max \div b <=> a * b > max
    BY <2>1, DivIsExact
  <2>3. Times(a, b, max) = IF a * b > max THEN Throws ELSE a * b
    BY <2>1, <2>2, <1>1, <1>4 DEF Times
  <2>4. a * b \in Nat
    BY <2>1
  <2> QED
    BY <1>4, <2>3, <2>4, Constants DEF OrThrows
<1> QED
  BY <1>2, <1>3, <1>4

LEMMA PlusIsExact ==
  ASSUME NEW a \in OrThrows(SizeMax), NEW b \in OrThrows(SizeMax)
  PROVE  /\ Plus(a, b) \in OrThrows(SizeMax)
         /\ Plus(a, b) # Throws => a # Throws /\ b # Throws /\ Plus(a, b) = a + b
         /\ a # Throws /\ b # Throws /\ a + b <= SizeMax => Plus(a, b) = a + b
BY Constants DEF Plus, OrThrows

-----------------------------------------------------------------------------
(* What the recursive functions of the model unfold to, and where their    *)
(* values are.                                                             *)

ProductStep(s, k, x) == x * s[k]

LEMMA ProductsUnfold ==
  ASSUME NEW s \in Seq(Int)
  PROVE  /\ Products(s) \in [0..Len(s) -> Int]
         /\ Products(s)[0] = 1
         /\ \A k \in 1..Len(s) :
              Products(s)[k]
                = ProductStep(s, k, Products(s)[k - 1])
<1> DEFINE n == Len(s)
           V == Int
           v == 1
           G == [k \in 1..n |-> [x \in V |-> ProductStep(s, k, x)]]
           Eq(f) == f = [k \in 0..n |-> IF k = 0 THEN v ELSE ProductStep(s, k, f[k - 1])]
<1>1. n \in Nat /\ v \in V
  BY Constants
<1>2. \A k \in 1..n : \A x \in V : ProductStep(s, k, x) \in V
  BY DEF ProductStep
<1> HIDE DEF n, V, v
<1>3. /\ G \in [1..n -> [V -> V]]
      /\ \A k \in 1..n : \A x \in V : G[k][x] = ProductStep(s, k, x)
  BY <1>2
<1> HIDE DEF G
<1>4. PICK f : Unfolds(f, V, v, n, G)
  BY <1>1, <1>3, Recursion
<1>5. Eq(f)
  <2>1. \A k \in 1..n : f[k - 1] \in V /\ f[k] = G[k][f[k - 1]]
    BY <1>1, <1>4 DEF Unfolds
  <2>2. \A k \in 1..n : f[k] = ProductStep(s, k, f[k - 1])
    BY <1>3, <2>1
  <2>3. f = [k \in 0..n |-> f[k]] /\ f[0] = v
    BY <1>4 DEF Unfolds
  <2>4. \A k \in 0..n : k = 0 \/ k \in 1..n
    BY <1>1
  <2>5. \A k \in 0..n : f[k] = IF k = 0 THEN v ELSE ProductStep(s, k, f[k - 1])
    BY <2>2, <2>3, <2>4
  <2> QED
    BY <2>3, <2>5
<1>6. Products(s) = CHOOSE g : Eq(g)
  BY DEF Products, ProductStep, n, v
<1> HIDE DEF Eq
<1>7. PICK g : g = Products(s) /\ Eq(g)
  BY <1>5, <1>6
<1> USE DEF Eq
<1>8. /\ g = [k \in 0..n |-> g[k]]
      /\ g[0] = v
  BY <1>1, <1>7
<1>9. ASSUME NEW k \in 1..n
      PROVE  g[k] = ProductStep(s, k, g[k - 1])
  BY <1>1, <1>7
<1> HIDE DEF Eq
<1>10. \A k \in 1..n : g[k - 1] \in V => g[k] \in V
  BY <1>2, <1>9
<1>11. g \in [0..n -> V]
  BY <1>1, <1>8, <1>10, StaysIn
<1> QED
  BY <1>7, <1>8, <1>9, <1>11 DEF n, V, v

CheckedStep(s, max, k, x) == IF s[k] < 0 THEN Throws ELSE Times(x, s[k], max)

LEMMA CheckedUnfold ==
  ASSUME NEW s \in Seq(Int), NEW max \in Nat, max >= 1
  PROVE  /\ CheckedProducts(s, max) \in [0..Len(s) -> OrThrows(max)]
         /\ CheckedProducts(s, max)[0] = 1
         /\ \A k \in 1..Len(s) :
              CheckedProducts(s, max)[k]
                = CheckedStep(s, max, k, CheckedProducts(s, max)[k - 1])
<1> DEFINE n == Len(s)
           V == OrThrows(max)
           v == 1
           G == [k \in 1..n |-> [x \in V |-> CheckedStep(s, max, k, x)]]
           Eq(f) == f = [k \in 0..n |-> IF k = 0 THEN v ELSE CheckedStep(s, max, k, f[k - 1])]
<1>1. n \in Nat /\ v \in V
  BY Constants DEF OrThrows
<1>2. \A k \in 1..n : \A x \in V : CheckedStep(s, max, k, x) \in V
  <2> SUFFICES ASSUME NEW k \in 1..n, NEW x \in OrThrows(max)
               PROVE  CheckedStep(s, max, k, x) \in OrThrows(max)
    OBVIOUS
  <2>1. s[k] \in Int /\ Throws \in OrThrows(max)
    BY DEF OrThrows
  <2>2. CASE s[k] >= 0
    BY <2>1, <2>2, TimesIsExact DEF CheckedStep, OrThrows
  <2>3. CASE s[k] < 0
    BY <2>1, <2>3 DEF CheckedStep
  <2> QED
    BY <2>1, <2>2, <2>3
<1> HIDE DEF n, V, v
<1>3. /\ G \in [1..n -> [V -> V]]
      /\ \A k \in 1..n : \A x \in V : G[k][x] = CheckedStep(s, max, k, x)
  BY <1>2
<1> HIDE DEF G
<1>4. PICK f : Unfolds(f, V, v, n, G)
  BY <1>1, <1>3, Recursion
<1>5. Eq(f)
  <2>1. \A k \in 1..n : f[k - 1] \in V /\ f[k] = G[k][f[k - 1]]
    BY <1>1, <1>4 DEF Unfolds
  <2>2. \A k \in 1..n : f[k] = CheckedStep(s, max, k, f[k - 1])
    BY <1>3, <2>1
  <2>3. f = [k \in 0..n |-> f[k]] /\ f[0] = v
    BY <1>4 DEF Unfolds
  <2>4. \A k \in 0..n : k = 0 \/ k \in 1..n
    BY <1>1
  <2>5. \A k \in 0..n : f[k] = IF k = 0 THEN v ELSE CheckedStep(s, max, k, f[k - 1])
    BY <2>2, <2>3, <2>4
  <2> QED
    BY <2>3, <2>5
<1>6. CheckedProducts(s, max) = CHOOSE g : Eq(g)
  BY DEF CheckedProducts, CheckedStep, n, v
<1> HIDE DEF Eq
<1>7. PICK g : g = CheckedProducts(s, max) /\ Eq(g)
  BY <1>5, <1>6
<1> USE DEF Eq
<1>8. /\ g = [k \in 0..n |-> g[k]]
      /\ g[0] = v
  BY <1>1, <1>7
<1>9. ASSUME NEW k \in 1..n
      PROVE  g[k] = CheckedStep(s, max, k, g[k - 1])
  BY <1>1, <1>7
<1> HIDE DEF Eq
<1>10. \A k \in 1..n : g[k - 1] \in V => g[k] \in V
  BY <1>2, <1>9
<1>11. g \in [0..n -> V]
  BY <1>1, <1>8, <1>10, StaysIn
<1> QED
  BY <1>7, <1>8, <1>9, <1>11 DEF n, V, v

SpanStep(shape, strides, k, x) ==
  IF x \in {0, Throws} THEN x
  ELSE IF shape[k] < 0 \/ strides[k] < 0 THEN Throws
  ELSE IF shape[k] = 0 THEN 0
  ELSE Plus(x, Times(shape[k] - 1, strides[k], SizeMax))

LEMMA SpansUnfold ==
  ASSUME NEW shape \in Seq(Int), NEW strides \in Seq(Int), Len(strides) = Len(shape)
  PROVE  /\ Spans(shape, strides) \in [0..Len(shape) -> OrThrows(SizeMax)]
         /\ Spans(shape, strides)[0] = 1
         /\ \A k \in 1..Len(shape) :
              Spans(shape, strides)[k]
                = SpanStep(shape, strides, k, Spans(shape, strides)[k - 1])
<1> DEFINE n == Len(shape)
           V == OrThrows(SizeMax)
           v == 1
           G == [k \in 1..n |-> [x \in V |-> SpanStep(shape, strides, k, x)]]
           Eq(f) == f = [k \in 0..n |-> IF k = 0 THEN v ELSE SpanStep(shape, strides, k, f[k - 1])]
<1>1. n \in Nat /\ v \in V
  BY Constants DEF OrThrows
<1>2. \A k \in 1..n : \A x \in V : SpanStep(shape, strides, k, x) \in V
  <2> SUFFICES ASSUME NEW k \in 1..n, NEW x \in OrThrows(SizeMax)
               PROVE  SpanStep(shape, strides, k, x) \in OrThrows(SizeMax)
    OBVIOUS
  <2>1. /\ shape[k] \in Int /\ strides[k] \in Int
        /\ Throws \in OrThrows(SizeMax) /\ 0 \in OrThrows(SizeMax)
    BY Constants DEF OrThrows
  <2>2. CASE shape[k] >= 1 /\ strides[k] >= 0
    <3>1. shape[k] - 1 \in Nat \cup {Throws} /\ strides[k] \in Nat /\ SizeMax \in Nat
      BY <2>1, <2>2, Constants
    <3>2. Times(shape[k] - 1, strides[k], SizeMax) \in OrThrows(SizeMax)
      BY <3>1, TimesIsExact
    <3>3. Plus(x, Times(shape[k] - 1, strides[k], SizeMax)) \in OrThrows(SizeMax)
      BY <3>2, PlusIsExact
    <3> QED
      BY <2>1, <2>2, <3>3 DEF SpanStep
  <2>3. CASE ~(shape[k] >= 1 /\ strides[k] >= 0)
    BY <2>1, <2>3 DEF SpanStep
  <2> QED
    BY <2>2, <2>3
<1> HIDE DEF n, V, v
<1>3. /\ G \in [1..n -> [V -> V]]
      /\ \A k \in 1..n : \A x \in V : G[k][x] = SpanStep(shape, strides, k, x)
  BY <1>2
<1> HIDE DEF G
<1>4. PICK f : Unfolds(f, V, v, n, G)
  BY <1>1, <1>3, Recursion
<1>5. Eq(f)
  <2>1. \A k \in 1..n : f[k - 1] \in V /\ f[k] = G[k][f[k - 1]]
    BY <1>1, <1>4 DEF Unfolds
  <2>2. \A k \in 1..n : f[k] = SpanStep(shape, strides, k, f[k - 1])
    BY <1>3, <2>1
  <2>3. f = [k \in 0..n |-> f[k]] /\ f[0] = v
    BY <1>4 DEF Unfolds
  <2>4. \A k \in 0..n : k = 0 \/ k \in 1..n
    BY <1>1
  <2>5. \A k \in 0..n : f[k] = IF k = 0 THEN v ELSE SpanStep(shape, strides, k, f[k - 1])
    BY <2>2, <2>3, <2>4
  <2> QED
    BY <2>3, <2>5
<1>6. Spans(shape, strides) = CHOOSE g : Eq(g)
  BY DEF Spans, SpanStep, n, v
<1> HIDE DEF Eq
<1>7. PICK g : g = Spans(shape, strides) /\ Eq(g)
  BY <1>5, <1>6
<1> USE DEF Eq
<1>8. /\ g = [k \in 0..n |-> g[k]]
      /\ g[0] = v
  BY <1>1, <1>7
<1>9. ASSUME NEW k \in 1..n
      PROVE  g[k] = SpanStep(shape, strides, k, g[k - 1])
  BY <1>1, <1>7
<1> HIDE DEF Eq
<1>10. \A k \in 1..n : g[k - 1] \in V => g[k] \in V
  BY <1>2, <1>9
<1>11. g \in [0..n -> V]
  BY <1>1, <1>8, <1>10, StaysIn
<1> QED
  BY <1>7, <1>8, <1>9, <1>11 DEF n, V, v

ReachStep(shape, strides, k, x) == x + (shape[k] - 1) * strides[k]

LEMMA ReachesUnfold ==
  ASSUME NEW shape \in Seq(Int), NEW strides \in Seq(Int), Len(strides) = Len(shape)
  PROVE  /\ Reaches(shape, strides) \in [0..Len(shape) -> Int]
         /\ Reaches(shape, strides)[0] = 1
         /\ \A k \in 1..Len(shape) :
              Reaches(shape, strides)[k]
                = ReachStep(shape, strides, k, Reaches(shape, strides)[k - 1])
<1> DEFINE n == Len(shape)
           V == Int
           v == 1
           G == [k \in 1..n |-> [x \in V |-> ReachStep(shape, strides, k, x)]]
           Eq(f) == f = [k \in 0..n |-> IF k = 0 THEN v ELSE ReachStep(shape, strides, k, f[k - 1])]
<1>1. n \in Nat /\ v \in V
  BY Constants
<1>2. \A k \in 1..n : \A x \in V : ReachStep(shape, strides, k, x) \in V
  BY DEF ReachStep
<1> HIDE DEF n, V, v
<1>3. /\ G \in [1..n -> [V -> V]]
      /\ \A k \in 1..n : \A x \in V : G[k][x] = ReachStep(shape, strides, k, x)
  BY <1>2
<1> HIDE DEF G
<1>4. PICK f : Unfolds(f, V, v, n, G)
  BY <1>1, <1>3, Recursion
<1>5. Eq(f)
  <2>1. \A k \in 1..n : f[k - 1] \in V /\ f[k] = G[k][f[k - 1]]
    BY <1>1, <1>4 DEF Unfolds
  <2>2. \A k \in 1..n : f[k] = ReachStep(shape, strides, k, f[k - 1])
    BY <1>3, <2>1
  <2>3. f = [k \in 0..n |-> f[k]] /\ f[0] = v
    BY <1>4 DEF Unfolds
  <2>4. \A k \in 0..n : k = 0 \/ k \in 1..n
    BY <1>1
  <2>5. \A k \in 0..n : f[k] = IF k = 0 THEN v ELSE ReachStep(shape, strides, k, f[k - 1])
    BY <2>2, <2>3, <2>4
  <2> QED
    BY <2>3, <2>5
<1>6. Reaches(shape, strides) = CHOOSE g : Eq(g)
  BY DEF Reaches, ReachStep, n, v
<1> HIDE DEF Eq
<1>7. PICK g : g = Reaches(shape, strides) /\ Eq(g)
  BY <1>5, <1>6
<1> USE DEF Eq
<1>8. /\ g = [k \in 0..n |-> g[k]]
      /\ g[0] = v
  BY <1>1, <1>7
<1>9. ASSUME NEW k \in 1..n
      PROVE  g[k] = ReachStep(shape, strides, k, g[k - 1])
  BY <1>1, <1>7
<1> HIDE DEF Eq
<1>10. \A k \in 1..n : g[k - 1] \in V => g[k] \in V
  BY <1>2, <1>9
<1>11. g \in [0..n -> V]
  BY <1>1, <1>8, <1>10, StaysIn
<1> QED
  BY <1>7, <1>8, <1>9, <1>11 DEF n, V, v

StartStep(shape, strides, k, x) == {m + i * strides[k] : m \in x, i \in 0..(shape[k] - 1)}

LEMMA StartsUnfold ==
  ASSUME NEW shape \in Seq(Int), NEW strides \in Seq(Int), Len(strides) = Len(shape)
  PROVE  /\ StartSets(shape, strides) \in [0..Len(shape) -> SUBSET Int]
         /\ StartSets(shape, strides)[0] = {0}
         /\ \A k \in 1..Len(shape) :
              StartSets(shape, strides)[k]
                = StartStep(shape, strides, k, StartSets(shape, strides)[k - 1])
<1> DEFINE n == Len(shape)
           V == SUBSET Int
           v == {0}
           G == [k \in 1..n |-> [x \in V |-> StartStep(shape, strides, k, x)]]
           Eq(f) == f = [k \in 0..n |-> IF k = 0 THEN v ELSE StartStep(shape, strides, k, f[k - 1])]
<1>1. n \in Nat /\ v \in V
  BY Constants
<1>2. \A k \in 1..n : \A x \in V : StartStep(shape, strides, k, x) \in V
  BY DEF StartStep
<1> HIDE DEF n, V, v
<1>3. /\ G \in [1..n -> [V -> V]]
      /\ \A k \in 1..n : \A x \in V : G[k][x] = StartStep(shape, strides, k, x)
  BY <1>2
<1> HIDE DEF G
<1>4. PICK f : Unfolds(f, V, v, n, G)
  BY <1>1, <1>3, Recursion
<1>5. Eq(f)
  <2>1. \A k \in 1..n : f[k - 1] \in V /\ f[k] = G[k][f[k - 1]]
    BY <1>1, <1>4 DEF Unfolds
  <2>2. \A k \in 1..n : f[k] = StartStep(shape, strides, k, f[k - 1])
    BY <1>3, <2>1
  <2>3. f = [k \in 0..n |-> f[k]] /\ f[0] = v
    BY <1>4 DEF Unfolds
  <2>4. \A k \in 0..n : k = 0 \/ k \in 1..n
    BY <1>1
  <2>5. \A k \in 0..n : f[k] = IF k = 0 THEN v ELSE StartStep(shape, strides, k, f[k - 1])
    BY <2>2, <2>3, <2>4
  <2> QED
    BY <2>3, <2>5
<1>6. StartSets(shape, strides) = CHOOSE g : Eq(g)
  BY DEF StartSets, StartStep, n, v
<1> HIDE DEF Eq
<1>7. PICK g : g = StartSets(shape, strides) /\ Eq(g)
  BY <1>5, <1>6
<1> USE DEF Eq
<1>8. /\ g = [k \in 0..n |-> g[k]]
      /\ g[0] = v
  BY <1>1, <1>7
<1>9. ASSUME NEW k \in 1..n
      PROVE  g[k] = StartStep(shape, strides, k, g[k - 1])
  BY <1>1, <1>7
<1> HIDE DEF Eq
<1>10. \A k \in 1..n : g[k - 1] \in V => g[k] \in V
  BY <1>2, <1>9
<1>11. g \in [0..n -> V]
  BY <1>1, <1>8, <1>10, StaysIn
<1> QED
  BY <1>7, <1>8, <1>9, <1>11 DEF n, V, v

-----------------------------------------------------------------------------
(* Products.                                                               *)

LEMMA Grows ==
  ASSUME NEW a \in Int, NEW b \in Int, a >= 1, b >= 1
  PROVE  a * b \in Int /\ a * b >= a /\ a * b >= b
<1>1. (a - 1) * (b - 1) >= 0
  OBVIOUS
<1> QED
  BY <1>1

LEMMA ProductsGrow ==
  ASSUME NEW s \in Seq(Int), \A k \in 1..Len(s) : s[k] >= 1
  PROVE  \A k \in 0..Len(s) :
           Products(s)[k] >= 1 /\ \A j \in 0..k : Products(s)[j] <= Products(s)[k]
<1> DEFINE p == Products(s)
           T == {k \in 0..Len(s) : p[k] >= 1 /\ \A j \in 0..k : p[j] <= p[k]}
<1>1. /\ p[0] = 1 /\ \A k \in 0..Len(s) : p[k] \in Int
      /\ \A k \in 1..Len(s) : p[k] = p[k - 1] * s[k]
  BY ProductsUnfold DEF ProductStep
<1> HIDE DEF p
<1>2. 0 \in T
  BY <1>1
<1>3. ASSUME NEW k \in 1..Len(s), k - 1 \in T
      PROVE  k \in T
  <2>1. k - 1 \in 0..Len(s) /\ p[k - 1] \in Int /\ p[k - 1] >= 1 /\ s[k] \in Int /\ s[k] >= 1
    BY <1>1, <1>3
  <2>2. p[k] \in Int /\ p[k] >= p[k - 1]
    BY <1>1, <2>1, Grows
  <2>3. \A j \in 0..k : j = k \/ j \in 0..(k - 1)
    OBVIOUS
  <2>4. \A j \in 0..(k - 1) : p[j] \in Int /\ p[j] <= p[k - 1]
    BY <1>1, <1>3
  <2>5. \A j \in 0..k : p[j] <= p[k]
    BY <2>1, <2>2, <2>3, <2>4
  <2> QED
    BY <2>1, <2>2, <2>5
<1>4. Len(s) \in Nat
  OBVIOUS
<1> HIDE DEF T
<1>5. \A k \in 1..Len(s) : k - 1 \in T => k \in T
  BY <1>3
<1>6. \A k \in 0..Len(s) : k \in T
  BY <1>2, <1>4, <1>5, Induct
<1> QED
  BY <1>6 DEF T, p

LEMMA CheckedIsProduct ==
  ASSUME NEW s \in Seq(Int), NEW max \in Nat, max >= 1, NEW k \in 0..Len(s),
         CheckedProducts(s, max)[k] # Throws
  PROVE  /\ \A j \in 0..k : /\ CheckedProducts(s, max)[j] = Products(s)[j]
                            /\ Products(s)[j] \in 0..max
         /\ \A j \in 1..k : s[j] >= 0
<1> DEFINE p == Products(s)
           c == CheckedProducts(s, max)
           Same(i) == /\ \A j \in 0..i : c[j] = p[j] /\ p[j] \in 0..max
                      /\ \A j \in 1..i : s[j] >= 0
           T == {i \in 0..Len(s) : c[i] # Throws => Same(i)}
<1>1. /\ p[0] = 1 /\ \A i \in 0..Len(s) : p[i] \in Int
      /\ \A i \in 1..Len(s) : p[i] = p[i - 1] * s[i]
  BY ProductsUnfold DEF ProductStep
<1>2. /\ c[0] = 1 /\ \A i \in 0..Len(s) : c[i] \in OrThrows(max)
      /\ \A i \in 1..Len(s) : c[i] = IF s[i] < 0 THEN Throws ELSE Times(c[i - 1], s[i], max)
  BY CheckedUnfold DEF CheckedStep
<1> HIDE DEF p, c
<1>3. 0 \in T
  BY <1>1, <1>2
<1>4. ASSUME NEW i \in 1..Len(s), i - 1 \in T, c[i] # Throws
      PROVE  Same(i)
  <2>1. s[i] \in Int /\ s[i] >= 0 /\ c[i] = Times(c[i - 1], s[i], max)
    BY <1>2, <1>4
  <2>2. c[i - 1] \in Nat \cup {Throws}
    BY <1>2 DEF OrThrows
  <2>3. c[i - 1] # Throws /\ c[i] = c[i - 1] * s[i] /\ c[i] \in OrThrows(max)
    <3>1. s[i] \in Nat /\ max \in Nat
      BY <2>1
    <3> HIDE DEF T
    <3> QED
      BY <1>4, <2>1, <2>2, <3>1, TimesIsExact
  <2>4. Same(i - 1)
    BY <1>4, <2>3
  <2>5. c[i] = p[i] /\ p[i] \in 0..max
    BY <1>1, <1>4, <2>3, <2>4 DEF OrThrows
  <2>6. /\ \A j \in 0..i : j = i \/ j \in 0..(i - 1)
        /\ \A j \in 1..i : j = i \/ j \in 1..(i - 1)
    OBVIOUS
  <2> HIDE DEF Same
  <2>7. \A j \in 0..i : c[j] = p[j] /\ p[j] \in 0..max
    BY <2>4, <2>5, <2>6 DEF Same
  <2>8. \A j \in 1..i : s[j] >= 0
    BY <2>1, <2>4, <2>6 DEF Same
  <2> QED
    BY <2>7, <2>8 DEF Same
<1>5. Len(s) \in Nat
  OBVIOUS
<1> HIDE DEF Same
<1>6. \A i \in 1..Len(s) : i - 1 \in T => i \in T
  <2> SUFFICES ASSUME NEW i \in 1..Len(s), i - 1 \in T
               PROVE  i \in 0..Len(s) /\ (c[i] # Throws => Same(i))
    OBVIOUS
  <2> HIDE DEF T
  <2> QED
    BY <1>4
<1> HIDE DEF T
<1>7. \A i \in 0..Len(s) : i \in T
  BY <1>3, <1>5, <1>6, Induct
<1> QED
  BY <1>7 DEF T, Same, p, c

LEMMA CheckedPasses ==
  ASSUME NEW s \in Seq(Int), NEW max \in Nat, max >= 1,
         \A k \in 1..Len(s) : s[k] >= 1, Products(s)[Len(s)] <= max
  PROVE  \A k \in 0..Len(s) : CheckedProducts(s, max)[k] = Products(s)[k]
<1> DEFINE p == Products(s)
           c == CheckedProducts(s, max)
           T == {k \in 0..Len(s) : c[k] = p[k]}
<1>1. /\ p[0] = 1 /\ \A k \in 0..Len(s) : p[k] \in Int
      /\ \A k \in 1..Len(s) : p[k] = p[k - 1] * s[k]
  BY ProductsUnfold DEF ProductStep
<1>2. \A k \in 0..Len(s) : p[k] >= 1 /\ p[k] <= max
  <2>1. Len(s) \in 0..Len(s)
    OBVIOUS
  <2> QED
    BY <1>1, <2>1, ProductsGrow
<1>3. /\ c[0] = 1
      /\ \A k \in 1..Len(s) : c[k] = IF s[k] < 0 THEN Throws ELSE Times(c[k - 1], s[k], max)
  BY CheckedUnfold DEF CheckedStep
<1> HIDE DEF p, c
<1>4. 0 \in T
  BY <1>1, <1>3
<1>5. ASSUME NEW k \in 1..Len(s), k - 1 \in T
      PROVE  k \in T
  <2>1. k - 1 \in 0..Len(s) /\ p[k - 1] \in Nat /\ p[k - 1] # Throws /\ s[k] \in Nat
    BY <1>1, <1>2, Constants
  <2>2. p[k - 1] * s[k] <= max
    <3>1. k \in 0..Len(s) /\ p[k] = p[k - 1] * s[k]
      BY <1>1
    <3> QED
      BY <1>2, <3>1
  <2>3. Times(p[k - 1], s[k], max) = p[k - 1] * s[k]
    BY <2>1, <2>2, TimesIsExact
  <2> QED
    BY <1>1, <1>3, <1>5, <2>1, <2>3
<1>6. Len(s) \in Nat
  OBVIOUS
<1> HIDE DEF T
<1>7. \A k \in 1..Len(s) : k - 1 \in T => k \in T
  BY <1>5
<1>8. \A k \in 0..Len(s) : k \in T
  BY <1>4, <1>6, <1>7, Induct
<1> QED
  BY <1>8 DEF T, p, c

LEMMA Reversed ==
  ASSUME NEW s \in Seq(Int)
  PROVE  /\ Reverse(s) \in Seq(Int) /\ Len(Reverse(s)) = Len(s)
         /\ \A k \in 1..Len(s) : Reverse(s)[k] = s[Len(s) + 1 - k]
<1>1. Reverse(s) = [k \in 1..Len(s) |-> s[Len(s) + 1 - k]]
  BY DEF Reverse
<1>2. \A k \in 1..Len(s) : s[Len(s) + 1 - k] \in Int
  OBVIOUS
<1>3. Len(s) \in Nat
  OBVIOUS
<1> QED
  BY <1>1, <1>2, <1>3

\* The product of the first k elements times that of the others is that of all.
LEMMA ProductsMeet ==
  ASSUME NEW s \in Seq(Int)
  PROVE  /\ Products(s)[Len(s)] = Products(Reverse(s))[Len(s)]
         /\ \A k \in 0..Len(s) :
              Products(s)[k] * Products(Reverse(s))[Len(s) - k] = Products(s)[Len(s)]
<1> DEFINE n == Len(s)
           p == Products(s)
           q == Products(Reverse(s))
           T == {k \in 0..n : p[k] * q[n - k] = q[n]}
<1>1. /\ p[0] = 1 /\ \A k \in 0..n : p[k] \in Int
      /\ \A k \in 1..n : p[k] = p[k - 1] * s[k]
  BY ProductsUnfold DEF ProductStep
<1>2. /\ q[0] = 1 /\ \A k \in 0..n : q[k] \in Int
      /\ \A k \in 1..n : q[k] = q[k - 1] * s[n + 1 - k]
  BY ProductsUnfold, Reversed DEF ProductStep
<1>3. n \in Nat /\ \A k \in 1..n : s[k] \in Int
  OBVIOUS
<1> HIDE DEF n, p, q
<1>4. 0 \in T
  BY <1>1, <1>2, <1>3
<1>5. ASSUME NEW k \in 1..n, k - 1 \in T
      PROVE  k \in T
  <2>1. /\ n - (k - 1) \in 1..n /\ n + 1 - (n - (k - 1)) = k
        /\ (n - (k - 1)) - 1 = n - k /\ n - k \in 0..n /\ k - 1 \in 0..n
    BY <1>3
  <2>2. q[n - (k - 1)] = q[n - k] * s[k]
    BY <1>2, <2>1
  <2>3. p[k - 1] * (q[n - k] * s[k]) = q[n]
    BY <1>5, <2>2
  <2>4. p[k] = p[k - 1] * s[k]
    BY <1>1
  <2>5. p[k - 1] \in Int /\ q[n - k] \in Int /\ s[k] \in Int
    BY <1>1, <1>2, <1>3, <2>1
  <2>6. p[k] * q[n - k] = p[k - 1] * (q[n - k] * s[k])
    BY <2>4, <2>5
  <2> QED
    BY <2>3, <2>6
<1> HIDE DEF T
<1>6. \A k \in 0..n : k \in T
  BY <1>3, <1>4, <1>5, Induct
<1>7. \A k \in 0..n : p[k] * q[n - k] = q[n]
  BY <1>6 DEF T
<1>8. p[n] = q[n]
  <2>1. n \in 0..n /\ n - n = 0
    BY <1>3
  <2>2. p[n] * q[0] = q[n]
    BY <1>7, <2>1
  <2> QED
    BY <1>1, <1>2, <2>1, <2>2
<1> QED
  BY <1>7, <1>8 DEF n, p, q

-----------------------------------------------------------------------------
(* Where the elements of a view start, and the spans that both languages   *)
(* compute for it.                                                         *)

\* A view that has an element, and steps forward only.
Forward(shape, strides) == \A k \in 1..Len(shape) : shape[k] >= 1 /\ strides[k] >= 0

LEMMA Spreads ==
  ASSUME NEW a \in Int, NEW b \in Int, a >= 1, b >= 0
  PROVE  /\ (a - 1) * b \in Nat
         /\ \A i \in 0..(a - 1) : i * b \in Nat /\ i * b <= (a - 1) * b
<1>1. (a - 1) * b \in Nat
  OBVIOUS
<1>2. ASSUME NEW i \in 0..(a - 1)
      PROVE  i * b \in Nat /\ i * b <= (a - 1) * b
  <2>1. i * b \in Nat /\ ((a - 1) - i) * b >= 0
    OBVIOUS
  <2>2. ((a - 1) - i) * b = (a - 1) * b - i * b
    OBVIOUS
  <2> QED
    BY <2>1, <2>2
<1> QED
  BY <1>1, <1>2

\* An element starts i strides after one of the dimensions before.
StartsAfter(x, set, extent, stride) ==
  \E m \in set : \E i \in 0..(extent - 1) : x = m + i * stride

LEMMA StartsAre ==
  ASSUME NEW shape \in Seq(Int), NEW strides \in Seq(Int), Len(strides) = Len(shape)
  PROVE  /\ StartSets(shape, strides)[0] = {0}
         /\ \A k \in 0..Len(shape) : StartSets(shape, strides)[k] \subseteq Int
         /\ \A k \in 1..Len(shape) : \A x :
              x \in StartSets(shape, strides)[k]
                <=> StartsAfter(x, StartSets(shape, strides)[k - 1], shape[k], strides[k])
<1> DEFINE S == StartSets(shape, strides)
<1>1. /\ S[0] = {0} /\ \A k \in 0..Len(shape) : S[k] \subseteq Int
      /\ \A k \in 1..Len(shape) : S[k] = StartStep(shape, strides, k, S[k - 1])
  BY StartsUnfold
<1> HIDE DEF S
<1>2. ASSUME NEW k \in 1..Len(shape), NEW x
      PROVE  x \in S[k] <=> StartsAfter(x, S[k - 1], shape[k], strides[k])
  <2>1. S[k] = StartStep(shape, strides, k, S[k - 1])
    BY <1>1
  <2> QED
    BY <2>1 DEF StartStep, StartsAfter
<1> QED
  BY <1>1, <1>2 DEF S

LEMMA ReachesGrow ==
  ASSUME NEW shape \in Seq(Int), NEW strides \in Seq(Int), Len(strides) = Len(shape),
         Forward(shape, strides)
  PROVE  \A k \in 0..Len(shape) :
           /\ Reaches(shape, strides)[k] >= 1
           /\ \A j \in 0..k : Reaches(shape, strides)[j] <= Reaches(shape, strides)[k]
<1> DEFINE n == Len(shape)
           r == Reaches(shape, strides)
           T == {k \in 0..n : r[k] >= 1 /\ \A j \in 0..k : r[j] <= r[k]}
<1>1. /\ r[0] = 1 /\ \A k \in 0..n : r[k] \in Int
      /\ \A k \in 1..n : r[k] = r[k - 1] + (shape[k] - 1) * strides[k]
  BY ReachesUnfold DEF ReachStep
<1>2. n \in Nat /\ \A k \in 1..n : (shape[k] - 1) * strides[k] \in Nat
  <2>1. n \in Nat
    OBVIOUS
  <2>2. \A k \in 1..n : /\ shape[k] \in Int /\ strides[k] \in Int
                        /\ shape[k] >= 1 /\ strides[k] >= 0
    BY DEF Forward
  <2> HIDE DEF n
  <2>3. \A k \in 1..n : (shape[k] - 1) * strides[k] \in Nat
    BY <2>2, Spreads
  <2> QED
    BY <2>1, <2>3
<1> HIDE DEF n, r
<1>3. 0 \in T
  BY <1>1, <1>2
<1>4. ASSUME NEW k \in 1..n, k - 1 \in T
      PROVE  k \in T
  <2>1. r[k] \in Int /\ r[k - 1] \in Int /\ r[k - 1] <= r[k] /\ k - 1 \in 0..n /\ k \in 0..n
    BY <1>1, <1>2
  <2>2. \A j \in 0..k : j = k \/ j \in 0..(k - 1)
    BY <1>2
  <2>3. \A j \in 0..(k - 1) : r[j] \in Int /\ r[j] <= r[k - 1]
    BY <1>1, <1>2, <1>4
  <2>4. \A j \in 0..k : r[j] <= r[k]
    BY <2>1, <2>2, <2>3
  <2> QED
    BY <1>4, <2>1, <2>4
<1>5. \A k \in 1..n : k - 1 \in T => k \in T
  BY <1>4
<1> HIDE DEF T
<1>6. \A k \in 0..n : k \in T
  BY <1>2, <1>3, <1>5, Induct
<1> QED
  BY <1>6 DEF T, n, r

\* The elements start at 0 or later, and the last one where the reach ends.
LEMMA StartsInReach ==
  ASSUME NEW shape \in Seq(Int), NEW strides \in Seq(Int), Len(strides) = Len(shape),
         Forward(shape, strides)
  PROVE  \A k \in 0..Len(shape) :
           /\ StartSets(shape, strides)[k] \subseteq 0..(Reaches(shape, strides)[k] - 1)
           /\ Reaches(shape, strides)[k] - 1 \in StartSets(shape, strides)[k]
<1> DEFINE n == Len(shape)
           r == Reaches(shape, strides)
           S == StartSets(shape, strides)
           T == {k \in 0..n : S[k] \subseteq 0..(r[k] - 1) /\ r[k] - 1 \in S[k]}
<1>1. /\ r[0] = 1 /\ \A k \in 0..n : r[k] \in Int
      /\ \A k \in 1..n : r[k] = r[k - 1] + (shape[k] - 1) * strides[k]
  BY ReachesUnfold DEF ReachStep
<1>2. /\ S[0] = {0}
      /\ \A k \in 1..n : \A x : x \in S[k] <=> StartsAfter(x, S[k - 1], shape[k], strides[k])
  BY StartsAre
<1>3. n \in Nat
  OBVIOUS
<1>4. \A k \in 1..n : /\ shape[k] \in Int /\ strides[k] \in Int
                      /\ shape[k] >= 1 /\ strides[k] >= 0
  BY DEF Forward
<1> HIDE DEF n, r, S
<1>5. 0 \in T
  BY <1>1, <1>2, <1>3
<1>6. ASSUME NEW k \in 1..n, k - 1 \in T
      PROVE  k \in T
  <2> DEFINE a == shape[k]
             b == strides[k]
             x == (a - 1) * b
  <2>9. a \in Int /\ b \in Int /\ a >= 1 /\ b >= 0
    BY <1>4
  <2>2. /\ r[k - 1] \in Int /\ r[k] = r[k - 1] + x
        /\ \A w : w \in S[k] <=> StartsAfter(w, S[k - 1], a, b)
    BY <1>1, <1>2, <1>3
  <2>3. r[k - 1] - 1 \in S[k - 1] /\ \A m \in S[k - 1] : m \in 0..(r[k - 1] - 1)
    BY <1>6
  <2> HIDE DEF a, b, T
  <2>1. /\ x \in Nat /\ a - 1 \in 0..(a - 1)
        /\ \A i \in 0..(a - 1) : i * b \in Nat /\ i * b <= x
    BY <2>9, Spreads
  <2>4. (r[k - 1] - 1) + x \in S[k]
    BY <2>1, <2>2, <2>3 DEF StartsAfter
  <2> HIDE DEF x
  <2>5. ASSUME NEW m \in S[k - 1], NEW i \in 0..(a - 1)
        PROVE  m + i * b \in 0..(r[k] - 1)
    <3>1. m \in 0..(r[k - 1] - 1) /\ i * b \in Nat /\ i * b <= x
      BY <2>1, <2>3
    <3>2. r[k] \in Int /\ r[k] = r[k - 1] + x /\ x \in Nat /\ r[k - 1] \in Int
      BY <2>1, <2>2
    <3> DEFINE ib == i * b
    <3>3. m \in 0..(r[k - 1] - 1) /\ ib \in Nat /\ ib <= x
      BY <3>1
    <3> HIDE DEF ib
    <3>4. m + ib \in 0..(r[k] - 1)
      BY <3>2, <3>3
    <3> QED
      BY <3>4 DEF ib
  <2>6. S[k] \subseteq 0..(r[k] - 1)
    BY <2>2, <2>5 DEF StartsAfter
  <2>7. r[k] - 1 \in S[k]
    <3>1. r[k] - 1 = (r[k - 1] - 1) + x
      BY <2>1, <2>2
    <3> QED
      BY <2>4, <3>1
  <2> QED
    BY <2>6, <2>7 DEF T
<1>7. \A k \in 1..n : k - 1 \in T => k \in T
  BY <1>6
<1> HIDE DEF T
<1>8. \A k \in 0..n : k \in T
  BY <1>3, <1>5, <1>7, Induct
<1> QED
  BY <1>8 DEF T, n, r, S

\* A dimension of 0 leaves no element.
LEMMA ZeroEmpties ==
  ASSUME NEW shape \in Seq(Int), NEW strides \in Seq(Int), Len(strides) = Len(shape),
         NEW z \in 1..Len(shape), shape[z] = 0
  PROVE  Starts(shape, strides) = {}
<1> DEFINE n == Len(shape)
           S == StartSets(shape, strides)
           T == {k \in 0..n : k >= z => S[k] = {}}
<1>1. \A k \in 1..n : \A x : x \in S[k] <=> StartsAfter(x, S[k - 1], shape[k], strides[k])
  BY StartsAre
<1>2. n \in Nat /\ z \in 1..n
  OBVIOUS
<1> HIDE DEF n, S
<1>3. 0 \in T
  BY <1>2
<1>4. ASSUME NEW k \in 1..n, k - 1 \in T
      PROVE  k \in T
  <2>1. CASE k < z
    BY <1>2, <2>1
  <2>2. CASE k = z
    <3>1. 0..(shape[k] - 1) = {}
      BY <2>2
    <3>2. S[k] = {}
      BY <1>1, <3>1 DEF StartsAfter
    <3> QED
      BY <1>2, <3>2
  <2>3. CASE k > z
    <3>1. S[k - 1] = {}
      BY <1>2, <1>4, <2>3
    <3>2. S[k] = {}
      BY <1>1, <3>1 DEF StartsAfter
    <3> QED
      BY <1>2, <3>2
  <2> QED
    BY <1>2, <2>1, <2>2, <2>3
<1>5. \A k \in 1..n : k - 1 \in T => k \in T
  BY <1>4
<1> HIDE DEF T
<1>6. \A k \in 0..n : k \in T
  BY <1>2, <1>3, <1>5, Induct
<1>7. S[n] = {}
  BY <1>2, <1>6 DEF T
<1> QED
  BY <1>7 DEF Starts, n, S

\* When the loop of validate_view does not throw, its span bounds what is touched ...
LEMMA SpanBoundsStarts ==
  ASSUME NEW shape \in Seq(Int), NEW strides \in Seq(Int), Len(strides) = Len(shape),
         Span(shape, strides) # Throws
  PROVE  /\ Span(shape, strides) \in 0..SizeMax
         /\ Starts(shape, strides) \subseteq 0..(Span(shape, strides) - 1)
<1> DEFINE n == Len(shape)
           s == Spans(shape, strides)
           S == StartSets(shape, strides)
           T == {k \in 0..n : s[k] # Throws => S[k] \subseteq 0..(s[k] - 1)}
<1>1. /\ s[0] = 1 /\ \A k \in 0..n : s[k] \in OrThrows(SizeMax)
      /\ \A k \in 1..n : s[k] = SpanStep(shape, strides, k, s[k - 1])
  BY SpansUnfold
<1>2. /\ S[0] = {0}
      /\ \A k \in 1..n : \A x : x \in S[k] <=> StartsAfter(x, S[k - 1], shape[k], strides[k])
  BY StartsAre
<1>3. n \in Nat /\ \A k \in 1..n : shape[k] \in Int /\ strides[k] \in Int
  OBVIOUS
<1> HIDE DEF n, s, S
<1>4. 0 \in T
  BY <1>1, <1>2, <1>3
<1>5. ASSUME NEW k \in 1..n, k - 1 \in T, s[k] # Throws
      PROVE  S[k] \subseteq 0..(s[k] - 1)
  <2> DEFINE a == shape[k]
             b == strides[k]
             y == s[k - 1]
  <2>1. s[k] = SpanStep(shape, strides, k, y) /\ y \in OrThrows(SizeMax)
    BY <1>1, <1>3
  <2>2. \A w : w \in S[k] <=> StartsAfter(w, S[k - 1], a, b)
    BY <1>2
  <2>3. y # Throws
    BY <1>5, <2>1 DEF SpanStep
  <2>4. y \in 0..SizeMax /\ \A m \in S[k - 1] : m \in 0..(y - 1)
    BY <1>5, <2>1, <2>3, <1>3 DEF OrThrows
  <2>5. a \in Int /\ b \in Int
    BY <1>3
  <2>6. CASE y = 0
    <3>1. S[k - 1] = {}
      BY <2>4, <2>6
    <3>2. S[k] = {}
      BY <2>2, <3>1 DEF StartsAfter
    <3> QED
      BY <3>2
  <2>7. CASE y # 0 /\ a = 0
    <3>1. S[k] = {}
      BY <2>2, <2>7 DEF StartsAfter
    <3> QED
      BY <3>1
  <2>8. CASE y # 0 /\ a # 0
    <3> DEFINE x == (a - 1) * b
    <3>1. a >= 1 /\ b >= 0 /\ s[k] = Plus(y, Times(a - 1, b, SizeMax))
      BY <1>5, <2>1, <2>3, <2>5, <2>8 DEF SpanStep
    <3>2. a - 1 \in Nat \cup {Throws} /\ b \in Nat /\ SizeMax \in Nat
      BY <2>5, <3>1, Constants
    <3>3. /\ Times(a - 1, b, SizeMax) \in OrThrows(SizeMax)
          /\ Times(a - 1, b, SizeMax) # Throws => Times(a - 1, b, SizeMax) = x
      BY <3>2, TimesIsExact
    <3>4. s[k] = y + x
      BY <1>5, <2>1, <3>1, <3>3, PlusIsExact
    <3>5. /\ x \in Nat
          /\ \A i \in 0..(a - 1) : i * b \in Nat /\ i * b <= x
      BY <2>5, <3>1, Spreads
    <3> HIDE DEF x, a, b, y
    <3>6. ASSUME NEW m \in S[k - 1], NEW i \in 0..(a - 1)
          PROVE  m + i * b \in 0..(s[k] - 1)
      BY <2>4, <3>4, <3>5
    <3> QED
      BY <2>2, <3>6 DEF StartsAfter
  <2> QED
    BY <2>6, <2>7, <2>8
<1>6. \A k \in 1..n : k - 1 \in T => k \in T
  BY <1>5
<1> HIDE DEF T
<1>7. \A k \in 0..n : k \in T
  BY <1>3, <1>4, <1>6, Induct
<1>8. s[n] # Throws => S[n] \subseteq 0..(s[n] - 1) /\ s[n] \in 0..SizeMax
  BY <1>1, <1>3, <1>7 DEF T, OrThrows
<1> QED
  BY <1>8 DEF Span, Starts, n, s, S

\* ... it is Python's span when there is an element ...
LEMMA SpanIsReach ==
  ASSUME NEW shape \in Seq(Int), NEW strides \in Seq(Int), Len(strides) = Len(shape),
         \A k \in 1..Len(shape) : shape[k] # 0, Span(shape, strides) # Throws
  PROVE  /\ Forward(shape, strides)
         /\ Span(shape, strides) = Reaches(shape, strides)[Len(shape)]
<1> DEFINE n == Len(shape)
           s == Spans(shape, strides)
           r == Reaches(shape, strides)
           Good(k) == /\ s[k] = r[k] /\ s[k] >= 1
                      /\ \A j \in 1..k : shape[j] >= 1 /\ strides[j] >= 0
           T == {k \in 0..n : s[k] # Throws => Good(k)}
<1>1. /\ s[0] = 1 /\ \A k \in 0..n : s[k] \in OrThrows(SizeMax)
      /\ \A k \in 1..n : s[k] = SpanStep(shape, strides, k, s[k - 1])
  BY SpansUnfold
<1>2. r[0] = 1 /\ \A k \in 1..n : r[k] = r[k - 1] + (shape[k] - 1) * strides[k]
  BY ReachesUnfold DEF ReachStep
<1>3. n \in Nat /\ \A k \in 1..n : shape[k] \in Int /\ strides[k] \in Int /\ shape[k] # 0
  OBVIOUS
<1> HIDE DEF n, s, r
<1>4. 0 \in T
  BY <1>1, <1>2, <1>3
<1>5. ASSUME NEW k \in 1..n, k - 1 \in T, s[k] # Throws
      PROVE  Good(k)
  <2> DEFINE a == shape[k]
             b == strides[k]
             x == (a - 1) * b
             y == s[k - 1]
  <2>1. s[k] = SpanStep(shape, strides, k, y) /\ y \in OrThrows(SizeMax)
    BY <1>1, <1>3
  <2>2. y # Throws
    BY <1>5, <2>1 DEF SpanStep
  <2>3. Good(k - 1)
    BY <1>5, <2>2
  <2>4. y \in Int /\ y >= 1 /\ y = r[k - 1]
    BY <2>1, <2>2, <2>3 DEF OrThrows
  <2>5. a \in Int /\ b \in Int /\ a # 0
    BY <1>3
  <2>6. a >= 1 /\ b >= 0 /\ s[k] = Plus(y, Times(a - 1, b, SizeMax))
    BY <1>5, <2>1, <2>2, <2>4, <2>5 DEF SpanStep
  <2>7. a - 1 \in Nat \cup {Throws} /\ b \in Nat /\ SizeMax \in Nat
    BY <2>5, <2>6, Constants
  <2>8. /\ Times(a - 1, b, SizeMax) \in OrThrows(SizeMax)
        /\ Times(a - 1, b, SizeMax) # Throws => Times(a - 1, b, SizeMax) = x
    BY <2>7, TimesIsExact
  <2>9. s[k] = y + x
    BY <1>5, <2>1, <2>6, <2>8, PlusIsExact
  <2>10. x \in Nat
    BY <2>5, <2>6, Spreads
  <2>11. r[k] = r[k - 1] + x
    BY <1>2
  <2> HIDE DEF x
  <2>12. s[k] = r[k] /\ s[k] >= 1
    BY <2>4, <2>9, <2>10, <2>11
  <2>13. \A j \in 1..k : j = k \/ j \in 1..(k - 1)
    BY <1>3
  <2>14. \A j \in 1..k : shape[j] >= 1 /\ strides[j] >= 0
    BY <2>3, <2>6, <2>13
  <2> QED
    BY <2>12, <2>14
<1>6. \A k \in 1..n : k - 1 \in T => k \in T
  BY <1>5
<1> HIDE DEF T
<1>7. \A k \in 0..n : k \in T
  BY <1>3, <1>4, <1>6, Induct
<1>8. s[n] # Throws => Good(n)
  BY <1>3, <1>7 DEF T
<1> QED
  BY <1>8 DEF Span, Forward, n, s, r

\* ... and it does not throw unless it is too great for a size_t.
LEMMA SpanPasses ==
  ASSUME NEW shape \in Seq(Int), NEW strides \in Seq(Int), Len(strides) = Len(shape),
         Forward(shape, strides), Reaches(shape, strides)[Len(shape)] <= SizeMax
  PROVE  Span(shape, strides) = Reaches(shape, strides)[Len(shape)]
<1> DEFINE n == Len(shape)
           s == Spans(shape, strides)
           r == Reaches(shape, strides)
           T == {k \in 0..n : s[k] = r[k]}
<1>1. s[0] = 1 /\ \A k \in 1..n : s[k] = SpanStep(shape, strides, k, s[k - 1])
  BY SpansUnfold
<1>2. /\ r[0] = 1 /\ \A k \in 0..n : r[k] \in Int
      /\ \A k \in 1..n : r[k] = r[k - 1] + (shape[k] - 1) * strides[k]
  BY ReachesUnfold DEF ReachStep
<1>3. /\ n \in Nat
      /\ \A k \in 1..n : /\ shape[k] \in Int /\ strides[k] \in Int
                         /\ shape[k] >= 1 /\ strides[k] >= 0
  BY DEF Forward
<1>4. \A k \in 0..n : r[k] >= 1 /\ r[k] <= SizeMax
  <2>1. n \in 0..n
    BY <1>3
  <2>2. r[n] <= SizeMax /\ \A k \in 0..n : r[k] >= 1 /\ r[k] <= r[n]
    BY <2>1, ReachesGrow
  <2> HIDE DEF n, r
  <2> QED
    BY <1>2, <2>1, <2>2, Constants
<1> HIDE DEF n, s, r
<1>5. 0 \in T
  BY <1>1, <1>2, <1>3
<1>6. ASSUME NEW k \in 1..n, k - 1 \in T
      PROVE  k \in T
  <2> DEFINE a == shape[k]
             b == strides[k]
             x == (a - 1) * b
             y == r[k - 1]
  <2>1. /\ k - 1 \in 0..n /\ k \in 0..n /\ y \in Int /\ y >= 1
        /\ a \in Int /\ b \in Int /\ a >= 1 /\ b >= 0
    BY <1>2, <1>3, <1>4
  <2>2. s[k] = SpanStep(shape, strides, k, y)
    BY <1>1, <1>6
  <2>3. y + x = r[k] /\ r[k] <= SizeMax
    BY <1>2, <1>4, <2>1
  <2>4. x \in Nat
    BY <2>1, Spreads
  <2>5. s[k] = Plus(y, Times(a - 1, b, SizeMax))
    BY <2>1, <2>2, Constants DEF SpanStep
  <2>6. a - 1 \in Nat /\ a - 1 # Throws /\ b \in Nat /\ SizeMax \in Nat
    BY <2>1, Constants
  <2>7. x <= SizeMax /\ y <= SizeMax
    <3> HIDE DEF x, y
    <3> QED
      BY <1>2, <2>1, <2>3, <2>4, <2>6
  <2>8. Times(a - 1, b, SizeMax) = x
    BY <2>6, <2>7, TimesIsExact
  <2> HIDE DEF x, y
  <2>9. /\ x \in OrThrows(SizeMax) /\ x # Throws
        /\ y \in OrThrows(SizeMax) /\ y # Throws
    BY <2>1, <2>4, <2>7, Constants DEF OrThrows
  <2>10. Plus(y, x) = y + x
    BY <2>3, <2>9, PlusIsExact
  <2> QED
    BY <2>1, <2>3, <2>5, <2>8, <2>10
<1>7. \A k \in 1..n : k - 1 \in T => k \in T
  BY <1>6
<1> HIDE DEF T
<1>8. \A k \in 0..n : k \in T
  BY <1>3, <1>5, <1>7, Induct
<1>9. s[n] = r[n]
  BY <1>3, <1>8 DEF T
<1> QED
  BY <1>9 DEF Span, n, s, r

-----------------------------------------------------------------------------
(* Contiguous tensors.                                                     *)

LEMMA PyStridesAre ==
  ASSUME NEW shape \in Seq(Int)
  PROVE  /\ PyStrides(shape) \in Seq(Int) /\ Len(PyStrides(shape)) = Len(shape)
         /\ \A k \in 1..Len(shape) :
              PyStrides(shape)[k] = Products(Reverse(shape))[Len(shape) - k]
<1>1. PyStrides(shape) = [k \in 1..Len(shape) |-> Products(Reverse(shape))[Len(shape) - k]]
  BY DEF PyStrides
<1>2. \A k \in 1..Len(shape) : Products(Reverse(shape))[Len(shape) - k] \in Int
  <2>1. Products(Reverse(shape)) \in [0..Len(shape) -> Int]
    BY Reversed, ProductsUnfold
  <2>2. \A k \in 1..Len(shape) : Len(shape) - k \in 0..Len(shape)
    OBVIOUS
  <2> QED
    BY <2>1, <2>2
<1>3. Len(shape) \in Nat
  OBVIOUS
<1> QED
  BY <1>1, <1>2, <1>3

\* Without a throw, C++'s strides are Python's ...
LEMMA StridesAgree ==
  ASSUME NEW shape \in Seq(Int), ContiguousStrides(shape) # Throws
  PROVE  /\ ContiguousStrides(shape) = PyStrides(shape)
         /\ \A k \in 1..Len(shape) : shape[k] >= 0
<1> DEFINE n == Len(shape)
           q == Products(Reverse(shape))
           c == CheckedProducts(Reverse(shape), IntMax)
<1>1. /\ n \in Nat /\ Len(Reverse(shape)) = n /\ Reverse(shape) \in Seq(Int)
      /\ \A k \in 1..n : Reverse(shape)[k] = shape[n + 1 - k]
  <2>1. n \in Nat
    OBVIOUS
  <2> QED
    BY <2>1, Reversed
<1>2. c[n] # Throws /\ ContiguousStrides(shape) = [k \in 1..n |-> c[n - k]]
  <2>1. DOMAIN shape = 1..n
    OBVIOUS
  <2>2. ContiguousStrides(shape) = IF c[n] = Throws THEN Throws ELSE [k \in 1..n |-> c[n - k]]
    BY <2>1 DEF ContiguousStrides
  <2> QED
    BY <2>2
<1>3. /\ \A k \in 0..n : c[k] = q[k]
      /\ \A k \in 1..n : Reverse(shape)[k] >= 0
  <2>1. n \in 0..Len(Reverse(shape)) /\ IntMax \in Nat /\ IntMax >= 1
    BY <1>1, Constants
  <2> QED
    BY <1>1, <1>2, <2>1, CheckedIsProduct
<1>4. PyStrides(shape) = [k \in 1..n |-> q[n - k]]
  BY DEF PyStrides
<1>5. \A k \in 1..n : n - k \in 0..n /\ n + 1 - k \in 1..n /\ n + 1 - (n + 1 - k) = k
  BY <1>1
<1> HIDE DEF n, q, c
<1>6. [k \in 1..n |-> c[n - k]] = [k \in 1..n |-> q[n - k]]
  BY <1>3, <1>5
<1>7. ASSUME NEW k \in 1..n
      PROVE  shape[k] >= 0
  <2>1. n + 1 - k \in 1..n /\ n + 1 - (n + 1 - k) = k
    BY <1>5
  <2>2. Reverse(shape)[n + 1 - k] = shape[k]
    BY <1>1, <2>1
  <2> QED
    BY <1>3, <2>1, <2>2
<1> QED
  BY <1>2, <1>4, <1>6, <1>7 DEF n

\* ... and it does not throw unless the number of elements is too great for an int64_t.
LEMMA StridesPass ==
  ASSUME NEW shape \in Seq(Int), \A k \in 1..Len(shape) : shape[k] >= 1,
         NumElements(shape) <= IntMax
  PROVE  ContiguousStrides(shape) # Throws
<1> DEFINE n == Len(shape)
           rev == Reverse(shape)
           c == CheckedProducts(rev, IntMax)
<1>1. /\ n \in Nat /\ Len(rev) = n /\ rev \in Seq(Int)
      /\ \A k \in 1..n : rev[k] = shape[n + 1 - k]
  BY Reversed
<1>2. Products(rev)[n] = NumElements(shape)
  BY ProductsMeet DEF NumElements
<1>3. \A k \in 1..n : rev[k] >= 1
  <2>1. \A k \in 1..n : n + 1 - k \in 1..n
    BY <1>1
  <2> QED
    BY <1>1, <2>1
<1> HIDE DEF rev, n
<1>4. \A k \in 0..n : c[k] = Products(rev)[k]
  <2>1. /\ IntMax \in Nat /\ IntMax >= 1 /\ Products(rev)[Len(rev)] <= IntMax
        /\ \A k \in 1..Len(rev) : rev[k] >= 1
    BY <1>1, <1>2, <1>3, Constants
  <2>2. \A k \in 0..Len(rev) : c[k] = Products(rev)[k]
    BY <1>1, <2>1, CheckedPasses
  <2> QED
    BY <1>1, <2>2
<1>5. \A k \in 0..n : Products(rev)[k] \in Int
  BY <1>1, ProductsUnfold
<1>6. \A k \in 0..n : c[k] # Throws
  BY <1>4, <1>5, Constants
<1>7. [k \in 1..n |-> c[n - k]] \in Seq(Int)
  <2>2. \A k \in 1..n : n - k \in 0..n
    BY <1>1
  <2>1. \A k \in 1..n : c[n - k] \in Int
    BY <1>4, <1>5, <2>2
  <2> QED
    BY <1>1, <2>1
<1>8. c[n] # Throws
  BY <1>1, <1>6
<1>9. ContiguousStrides(shape) = [k \in 1..n |-> c[n - k]]
  BY <1>8 DEF ContiguousStrides, n, rev
<1> QED
  BY <1>7, <1>9, Constants

LEMMA CountIsExact ==
  ASSUME NEW shape \in Seq(Int), ElementCount(shape) # Throws
  PROVE  /\ ElementCount(shape) = NumElements(shape) /\ NumElements(shape) \in 0..SizeMax
         /\ \A k \in 1..Len(shape) : shape[k] >= 0
<1>1. Len(shape) \in 0..Len(shape) /\ SizeMax >= 1 /\ SizeMax \in Nat
  BY Constants
<1> QED
  BY <1>1, CheckedIsProduct DEF ElementCount, NumElements

LEMMA ReachOfNext ==
  ASSUME NEW a \in Int, NEW b \in Int, NEW c \in Int
  PROVE  (a - 1) * (b * c) + 1 + (c - 1) * b = (a * c - 1) * b + 1
OBVIOUS

\* A contiguous tensor reaches as far as it has elements.
LEMMA ContiguousReach ==
  ASSUME NEW shape \in Seq(Int)
  PROVE  Reaches(shape, PyStrides(shape))[Len(shape)] = NumElements(shape)
<1> DEFINE n == Len(shape)
           p == Products(shape)
           q == Products(Reverse(shape))
           r == Reaches(shape, PyStrides(shape))
           T == {k \in 0..n : r[k] = (p[k] - 1) * q[n - k] + 1}
<1>1. /\ p[0] = 1 /\ \A k \in 0..n : p[k] \in Int
      /\ \A k \in 1..n : p[k] = p[k - 1] * shape[k]
  BY ProductsUnfold DEF ProductStep
<1>2. /\ q[0] = 1 /\ \A k \in 0..n : q[k] \in Int
      /\ \A k \in 1..n : q[k] = q[k - 1] * shape[n + 1 - k]
  BY ProductsUnfold, Reversed DEF ProductStep
<1>3. /\ r[0] = 1
      /\ \A k \in 1..n : r[k] = r[k - 1] + (shape[k] - 1) * q[n - k]
  BY ReachesUnfold, PyStridesAre DEF ReachStep
<1>4. n \in Nat /\ \A k \in 1..n : shape[k] \in Int
  OBVIOUS
<1> HIDE DEF n, p, q, r
<1>5. 0 \in T
  <2>1. n - 0 \in 0..n /\ 0 \in 0..n
    BY <1>4
  <2>2. q[n - 0] \in Int
    BY <1>2, <2>1
  <2>3. (p[0] - 1) * q[n - 0] = 0
    BY <1>1, <2>2
  <2> QED
    BY <1>3, <2>1, <2>3
<1>6. ASSUME NEW k \in 1..n, k - 1 \in T
      PROVE  k \in T
  <2>1. /\ n - (k - 1) \in 1..n /\ n + 1 - (n - (k - 1)) = k
        /\ (n - (k - 1)) - 1 = n - k /\ n - k \in 0..n /\ k - 1 \in 0..n /\ k \in 0..n
    BY <1>4
  <2>2. q[n - (k - 1)] = q[n - k] * shape[k]
    BY <1>2, <2>1
  <2>3. r[k - 1] = (p[k - 1] - 1) * (q[n - k] * shape[k]) + 1
    BY <1>6, <2>2
  <2>4. p[k] = p[k - 1] * shape[k] /\ r[k] = r[k - 1] + (shape[k] - 1) * q[n - k]
    BY <1>1, <1>3
  <2>5. p[k - 1] \in Int /\ q[n - k] \in Int /\ shape[k] \in Int
    BY <1>1, <1>2, <1>4, <2>1
  <2>6. r[k] = (p[k] - 1) * q[n - k] + 1
    <3> DEFINE a == p[k - 1]
               b == q[n - k]
               c == shape[k]
    <3>1. r[k] = (a - 1) * (b * c) + 1 + (c - 1) * b /\ p[k] = a * c
      BY <2>3, <2>4
    <3>2. a \in Int /\ b \in Int /\ c \in Int
      BY <2>5
    <3> HIDE DEF a, b, c
    <3>3. r[k] = (p[k] - 1) * b + 1
      BY <3>1, <3>2, ReachOfNext
    <3> QED
      BY <3>3 DEF b
  <2> QED
    BY <2>1, <2>6
<1>7. \A k \in 1..n : k - 1 \in T => k \in T
  BY <1>6
<1> HIDE DEF T
<1>8. \A k \in 0..n : k \in T
  BY <1>4, <1>5, <1>7, Induct
<1>9. r[n] = p[n]
  <2>1. n \in 0..n /\ n - n = 0
    BY <1>4
  <2>2. r[n] = (p[n] - 1) * q[0] + 1
    BY <1>8, <2>1 DEF T
  <2> QED
    BY <1>1, <1>2, <2>1, <2>2
<1> QED
  BY <1>9 DEF NumElements, n, p, r

LEMMA Digits ==
  ASSUME NEW a \in Int, NEW b \in Int, a >= 1, b >= 1
  PROVE  /\ \A m \in 0..(a - 1), i \in 0..(b - 1) : m * b + i \in 0..(a * b - 1)
         /\ \A y \in 0..(a * b - 1) :
              \E m \in 0..(a - 1) : \E i \in 0..(b - 1) : y = m * b + i
<1>1. ASSUME NEW m \in 0..(a - 1), NEW i \in 0..(b - 1)
      PROVE  m * b + i \in 0..(a * b - 1)
  <2>1. m * b \in Nat /\ m * b <= (a - 1) * b
    BY Spreads
  <2>2. (a - 1) * b = a * b - b /\ a * b \in Int
    OBVIOUS
  <2> QED
    BY <2>1, <2>2
<1>2. ASSUME NEW y \in 0..(a * b - 1)
      PROVE  \E m \in 0..(a - 1) : \E i \in 0..(b - 1) : y = m * b + i
  <2> DEFINE m == y \div b
             i == y - m * b
  <2>1. m \in Nat /\ m * b <= y /\ y < m * b + b /\ a * b \in Int
    OBVIOUS
  <2>2. i \in 0..(b - 1) /\ y = m * b + i
    BY <2>1
  <2> HIDE DEF m, i
  <2>3. m \in 0..(a - 1)
    <3>1. SUFFICES ASSUME m >= a PROVE FALSE
      BY <2>1
    <3>2. (m - a) * b >= 0
      BY <2>1, <3>1
    <3>3. (m - a) * b = m * b - a * b
      BY <2>1
    <3> QED
      BY <2>1, <3>2, <3>3
  <2> QED
    BY <2>2, <2>3
<1> QED
  BY <1>1, <1>2

\* A contiguous tensor touches every element up to the last.
LEMMA ContiguousStarts ==
  ASSUME NEW shape \in Seq(Int), \A k \in 1..Len(shape) : shape[k] >= 1
  PROVE  Starts(shape, PyStrides(shape)) = 0..(NumElements(shape) - 1)
<1> DEFINE n == Len(shape)
           p == Products(shape)
           q == Products(Reverse(shape))
           S == StartSets(shape, PyStrides(shape))
           Multiple(x, k) == \E m \in 0..(p[k] - 1) : x = m * q[n - k]
           T == {k \in 0..n : \A x : x \in S[k] <=> Multiple(x, k)}
<1>1. /\ p[0] = 1 /\ \A k \in 0..n : p[k] \in Int /\ p[k] >= 1
      /\ \A k \in 1..n : p[k] = p[k - 1] * shape[k]
  BY ProductsUnfold, ProductsGrow DEF ProductStep
<1>2. /\ q[0] = 1 /\ \A k \in 0..n : q[k] \in Int
      /\ \A k \in 1..n : q[k] = q[k - 1] * shape[n + 1 - k]
  BY ProductsUnfold, Reversed DEF ProductStep
<1>3. /\ S[0] = {0}
      /\ \A k \in 1..n : \A x : x \in S[k] <=> StartsAfter(x, S[k - 1], shape[k], q[n - k])
  BY StartsAre, PyStridesAre
<1>4. n \in Nat /\ \A k \in 1..n : shape[k] \in Int /\ shape[k] >= 1
  OBVIOUS
<1> HIDE DEF n, p, q, S
<1>5. 0 \in T
  <2>1. n - 0 \in 0..n /\ 0 \in 0..n
    BY <1>4
  <2>2. q[n - 0] \in Int
    BY <1>2, <2>1
  <2>3. \A x : Multiple(x, 0) <=> x = 0
    BY <1>1, <2>2
  <2> HIDE DEF Multiple
  <2> QED
    BY <1>3, <2>1, <2>3
<1>6. ASSUME NEW k \in 1..n, k - 1 \in T
      PROVE  k \in T
  <2> DEFINE a == p[k - 1]
             b == shape[k]
             c == q[n - k]
  <2>1. /\ n - (k - 1) \in 1..n /\ n + 1 - (n - (k - 1)) = k
        /\ (n - (k - 1)) - 1 = n - k /\ n - k \in 0..n /\ k - 1 \in 0..n /\ k \in 0..n
    BY <1>4
  <2>2. q[n - (k - 1)] = c * b
    BY <1>2, <2>1
  <2>3. p[k] = a * b
    BY <1>1
  <2>4. a \in Int /\ a >= 1 /\ b \in Int /\ b >= 1 /\ c \in Int
    BY <1>1, <1>2, <1>4, <2>1
  <2>5. \A w : w \in S[k - 1] <=> \E m \in 0..(a - 1) : w = m * (c * b)
    BY <1>6, <2>2
  <2>6. \A x : x \in S[k] <=> StartsAfter(x, S[k - 1], b, c)
    BY <1>3
  <2>7. \A x : Multiple(x, k) <=> \E y \in 0..(a * b - 1) : x = y * c
    BY <2>3
  <2> HIDE DEF a, b, c, T, Multiple
  <2>8. ASSUME NEW x, x \in S[k]
        PROVE  Multiple(x, k)
    <3>1. PICK w \in S[k - 1], i \in 0..(b - 1) : x = w + i * c
      BY <2>6, <2>8 DEF StartsAfter
    <3>2. PICK m \in 0..(a - 1) : w = m * (c * b)
      BY <2>5
    <3>3. m * b + i \in 0..(a * b - 1)
      BY <2>4, Digits
    <3>4. x = (m * b + i) * c
      BY <2>4, <3>1, <3>2
    <3> QED
      BY <2>7, <3>3, <3>4
  <2>9. ASSUME NEW x, Multiple(x, k)
        PROVE  x \in S[k]
    <3>1. PICK y \in 0..(a * b - 1) : x = y * c
      BY <2>7, <2>9
    <3>2. PICK m \in 0..(a - 1), i \in 0..(b - 1) : y = m * b + i
      BY <2>4, Digits
    <3>3. m * (c * b) \in S[k - 1]
      BY <2>5
    <3>4. x = m * (c * b) + i * c
      BY <2>4, <3>1, <3>2
    <3> QED
      BY <2>6, <3>3, <3>4 DEF StartsAfter
  <2> QED
    BY <2>1, <2>8, <2>9 DEF T
<1>7. \A k \in 1..n : k - 1 \in T => k \in T
  BY <1>6
<1> HIDE DEF T
<1>8. \A k \in 0..n : k \in T
  BY <1>4, <1>5, <1>7, Induct
<1>9. \A x : x \in S[n] <=> x \in 0..(p[n] - 1)
  <2>1. n \in 0..n /\ n - n = 0
    BY <1>4
  <2>2. \A x : x \in S[n] <=> \E m \in 0..(p[n] - 1) : x = m * 1
    BY <1>2, <1>8, <2>1 DEF T
  <2> QED
    BY <1>1, <2>1, <2>2
<1>10. S[n] = 0..(p[n] - 1)
  BY <1>9
<1> QED
  BY <1>10 DEF Starts, NumElements, n, p, S

-----------------------------------------------------------------------------
(* The bytes of a view, and the checks of a message.                       *)

LEMMA ItemSizes == \A d \in Dtype : ItemSize[d] \in Nat /\ ItemSize[d] >= 1 /\ ItemSize[d] <= 2
BY DEF ItemSize, Dtype

LEMMA TouchedHas ==
  ASSUME NEW shape, NEW strides, NEW item, NEW offset,
         NEW n \in Starts(shape, strides), NEW b \in 0..(item - 1)
  PROVE  offset + n * item + b \in Touched(shape, strides, item, offset)
BY DEF Touched

LEMMA TouchedWithin ==
  ASSUME NEW shape, NEW strides, NEW item \in Nat, item >= 1, NEW offset \in Nat,
         NEW span \in Nat, NEW size \in Nat,
         Starts(shape, strides) \subseteq 0..(span - 1), offset + span * item <= size
  PROVE  Touched(shape, strides, item, offset) \subseteq 0..(size - 1)
<1>1. ASSUME NEW n \in Starts(shape, strides), NEW b \in 0..(item - 1)
      PROVE  offset + n * item + b \in 0..(size - 1)
  <2>1. n \in 0..(span - 1)
    OBVIOUS
  <2>2. span >= 1
    BY <2>1
  <2>3. n * item \in Nat /\ n * item <= (span - 1) * item
    BY <2>1, <2>2, Spreads
  <2>4. (span - 1) * item = span * item - item /\ span * item \in Int
    OBVIOUS
  <2> QED
    BY <2>3, <2>4
<1> QED
  BY <1>1 DEF Touched

LEMMA TouchedLast ==
  ASSUME NEW shape, NEW strides, NEW item \in Nat, item >= 1, NEW offset \in Nat,
         NEW span \in Nat, NEW size \in Nat,
         span - 1 \in Starts(shape, strides),
         Touched(shape, strides, item, offset) \subseteq 0..(size - 1)
  PROVE  offset + span * item <= size
<1>1. offset + (span - 1) * item + (item - 1) \in Touched(shape, strides, item, offset)
  <2>1. item - 1 \in 0..(item - 1)
    OBVIOUS
  <2> QED
    BY <2>1, TouchedHas
<1>2. offset + (span - 1) * item + (item - 1) <= size - 1
  BY <1>1
<1>3. (span - 1) * item = span * item - item /\ span * item \in Int
  OBVIOUS
<1> QED
  BY <1>2, <1>3

LEMMA TouchedContiguous ==
  ASSUME NEW shape, NEW strides, NEW item \in Nat, item >= 1, NEW n \in Nat, n >= 1,
         Starts(shape, strides) = 0..(n - 1)
  PROVE  Touched(shape, strides, item, 0) = 0..(n * item - 1)
<1>1. ASSUME NEW m \in 0..(n - 1), NEW b \in 0..(item - 1)
      PROVE  0 + m * item + b \in 0..(n * item - 1)
  BY Digits
<1>2. ASSUME NEW y \in 0..(n * item - 1)
      PROVE  \E m \in 0..(n - 1) : \E b \in 0..(item - 1) : y = 0 + m * item + b
  <2>1. PICK m \in 0..(n - 1), b \in 0..(item - 1) : y = m * item + b
    <3>1. n \in Int /\ item \in Int
      OBVIOUS
    <3> QED
      BY <3>1, Digits
  <2>2. y = 0 + m * item + b
    BY <2>1
  <2> QED
    BY <2>2
<1>3. Touched(shape, strides, item, 0) \subseteq 0..(n * item - 1)
  BY <1>1 DEF Touched
<1>4. 0..(n * item - 1) \subseteq Touched(shape, strides, item, 0)
  <2>1. ASSUME NEW y \in 0..(n * item - 1)
        PROVE  y \in Touched(shape, strides, item, 0)
    <3>1. PICK m \in 0..(n - 1), b \in 0..(item - 1) : y = 0 + m * item + b
      BY <1>2
    <3>2. 0 + m * item + b \in Touched(shape, strides, item, 0)
      BY TouchedHas
    <3> QED
      BY <3>1, <3>2
  <2> QED
    BY <2>1
<1> QED
  BY <1>3, <1>4

LEMMA RequiredIs ==
  ASSUME NEW m \in AnyMessage, NEW span \in OrThrows(SizeMax),
         NEW required,
         required = Plus(m.offset, Times(span, ItemSize[m.dtype], SizeMax))
  PROVE  required # Throws /\ required <= m.size
           <=> span # Throws /\ m.offset + span * ItemSize[m.dtype] <= m.size
<1> DEFINE item == ItemSize[m.dtype]
           bytes == Times(span, item, SizeMax)
<1>1. item \in Nat /\ m.offset \in 0..SizeMax /\ m.size \in 0..IntMax
  BY ItemSizes DEF AnyMessage
<1>2. m.offset \in OrThrows(SizeMax) /\ m.offset # Throws /\ SizeMax \in Nat
  BY <1>1, Constants DEF OrThrows
<1>3. span \in Nat \cup {Throws}
  BY DEF OrThrows
<1> HIDE DEF item
<1>4. /\ bytes \in OrThrows(SizeMax)
      /\ bytes # Throws => span # Throws /\ bytes = span * item
      /\ span # Throws /\ span * item <= SizeMax => bytes = span * item
  BY <1>1, <1>2, <1>3, TimesIsExact
<1>5. /\ required # Throws => bytes # Throws /\ required = m.offset + bytes
      /\ bytes # Throws /\ m.offset + bytes <= SizeMax => required = m.offset + bytes
  BY <1>2, <1>4, PlusIsExact DEF item
<1> HIDE DEF bytes
<1>6. ASSUME required # Throws, required <= m.size
      PROVE  span # Throws /\ m.offset + span * item <= m.size
  BY <1>4, <1>5, <1>6
<1>7. ASSUME span # Throws, m.offset + span * item <= m.size
      PROVE  required # Throws /\ required <= m.size
  <2>1. span * item \in Nat
    BY <1>1, <1>3, <1>7
  <2>2. span * item <= SizeMax /\ m.offset + span * item <= SizeMax
    BY <1>1, <1>7, <2>1, Constants
  <2>3. bytes = span * item /\ bytes # Throws
    BY <1>4, <1>7, <2>1, <2>2, Constants
  <2>4. required = m.offset + span * item
    BY <1>5, <2>2, <2>3
  <2> QED
    BY <1>1, <1>7, <2>1, <2>4, Constants
<1> QED
  BY <1>6, <1>7 DEF item

LEMMA MessageHas ==
  ASSUME NEW m \in AnyMessage
  PROVE  /\ m.shape \in Seq(Int) /\ m.strides \in Seq(Int) /\ m.dtype \in Dtype
         /\ m.offset \in Nat /\ m.size \in Nat /\ m.size <= IntMax
         /\ PyNormalized(m) \in Seq(Int)
         /\ ItemSize[m.dtype] \in Nat /\ ItemSize[m.dtype] >= 1
         /\ DOMAIN m.shape = 1..Len(m.shape)
<1>1. m.shape \in Seq(Int) /\ m.strides \in Seq(Int)
  BY DEF AnyMessage
<1> QED
  BY <1>1, PyStridesAre, ItemSizes, Constants DEF AnyMessage, PyNormalized

LEMMA NormalizedAgree ==
  ASSUME NEW m \in AnyMessage, NormalizedStrides(m) # Throws
  PROVE  /\ NormalizedStrides(m) = PyNormalized(m)
         /\ NormalizedStrides(m) \in Seq(Int)
         /\ Len(NormalizedStrides(m)) = Len(m.shape)
<1>1. m.shape \in Seq(Int) /\ m.strides \in Seq(Int)
  BY MessageHas
<1>2. CASE m.strides = <<>>
  <2>1. NormalizedStrides(m) = ContiguousStrides(m.shape) /\ PyNormalized(m) = PyStrides(m.shape)
    BY <1>2 DEF NormalizedStrides, PyNormalized
  <2>2. ContiguousStrides(m.shape) = PyStrides(m.shape)
    BY <1>1, <2>1, StridesAgree
  <2> QED
    BY <1>1, <2>1, <2>2, PyStridesAre
<1>3. CASE m.strides # <<>>
  BY <1>1, <1>3 DEF NormalizedStrides, PyNormalized
<1> QED
  BY <1>2, <1>3

\* What validate_view lets through lies in the storage, ...
LEMMA ValidInStorage ==
  ASSUME NEW m \in AnyMessage, ValidateView(m)
  PROVE  Touched(m.shape, NormalizedStrides(m), ItemSize[m.dtype], m.offset)
           \subseteq 0..(m.size - 1)
<1> DEFINE strides == NormalizedStrides(m)
           span == Span(m.shape, strides)
           item == ItemSize[m.dtype]
           required == Plus(m.offset, Times(span, item, SizeMax))
<1>1. strides # Throws /\ required # Throws /\ required <= m.size
  BY DEF ValidateView
<1>2. /\ strides \in Seq(Int) /\ Len(strides) = Len(m.shape) /\ m.shape \in Seq(Int)
      /\ m.offset \in Nat /\ m.size \in Nat /\ item \in Nat /\ item >= 1
  BY <1>1, NormalizedAgree, MessageHas
<1> HIDE DEF strides
<1>3. span \in OrThrows(SizeMax)
  <2>1. Len(m.shape) \in 0..Len(m.shape)
    BY <1>2
  <2> QED
    BY <1>2, <2>1, SpansUnfold DEF Span
<1> HIDE DEF span
<1>4. span # Throws /\ m.offset + span * item <= m.size
  BY <1>1, <1>3, RequiredIs
<1>5. span \in 0..SizeMax /\ Starts(m.shape, strides) \subseteq 0..(span - 1)
  BY <1>2, <1>4, SpanBoundsStarts DEF span
<1> HIDE DEF item
<1>6. span \in Nat
  BY <1>5, Constants
<1>7. Touched(m.shape, strides, item, m.offset) \subseteq 0..(m.size - 1)
  BY <1>2, <1>4, <1>5, <1>6, TouchedWithin
<1> QED
  BY <1>7 DEF item, strides

\* What the numbers of a message have to be for Python.
Sensible(m) ==
  /\ m.dtype \in Supported /\ Len(PyNormalized(m)) = Len(m.shape)
  /\ \A k \in DOMAIN m.shape : m.shape[k] >= 0 /\ PyNormalized(m)[k] >= 0

LEMMA PySpanIs ==
  ASSUME NEW m \in AnyMessage, Sensible(m)
  PROVE  \/ PySpan(m) = 0 /\ Starts(m.shape, PyNormalized(m)) = {}
         \/ /\ Forward(m.shape, PyNormalized(m))
            /\ PySpan(m) = Reaches(m.shape, PyNormalized(m))[Len(m.shape)]
            /\ PySpan(m) \in Nat /\ PySpan(m) >= 1
            /\ Starts(m.shape, PyNormalized(m)) \subseteq 0..(PySpan(m) - 1)
            /\ PySpan(m) - 1 \in Starts(m.shape, PyNormalized(m))
<1> DEFINE shape == m.shape
           strides == PyNormalized(m)
           n == Len(shape)
<1>1. /\ shape \in Seq(Int) /\ strides \in Seq(Int) /\ Len(strides) = n
      /\ DOMAIN shape = 1..n /\ n \in Nat
  BY MessageHas DEF Sensible
<1>2. CASE 0 \in Range(shape)
  <2>1. PICK z \in 1..n : shape[z] = 0
    BY <1>1, <1>2 DEF Range
  <2> HIDE DEF strides
  <2>2. Starts(shape, strides) = {}
    BY <1>1, <2>1, ZeroEmpties
  <2>3. PySpan(m) = 0
    BY <1>2 DEF PySpan
  <2> QED
    BY <2>2, <2>3 DEF strides
<1>3. CASE 0 \notin Range(shape)
  <2>1. \A k \in 1..n : shape[k] # 0
    BY <1>1, <1>3 DEF Range
  <2>2. Forward(shape, strides)
    BY <1>1, <2>1 DEF Sensible, Forward
  <2>3. PySpan(m) = Reaches(shape, strides)[n]
    BY <1>3 DEF PySpan
  <2>4. n \in 0..n
    BY <1>1
  <2> HIDE DEF shape, strides
  <2>5. Reaches(shape, strides)[n] \in Int
    BY <1>1, <2>4, ReachesUnfold
  <2>6. Reaches(shape, strides)[n] >= 1
    BY <1>1, <2>2, <2>4, ReachesGrow
  <2>7. /\ StartSets(shape, strides)[n] \subseteq 0..(Reaches(shape, strides)[n] - 1)
        /\ Reaches(shape, strides)[n] - 1 \in StartSets(shape, strides)[n]
    BY <1>1, <2>2, <2>4, StartsInReach
  <2>8. Starts(shape, strides) = StartSets(shape, strides)[n]
    BY DEF Starts
  <2> QED
    BY <2>2, <2>3, <2>5, <2>6, <2>7, <2>8 DEF shape, strides
<1> QED
  BY <1>2, <1>3

\* ... Python lets through what fits into the storage and nothing else, ...
LEMMA MetadataIsExact ==
  ASSUME NEW m \in AnyMessage
  PROVE  PyMetadata(m) <=> Fits(m)
<1> DEFINE strides == PyNormalized(m)
           item == ItemSize[m.dtype]
<1>1. PyMetadata(m) <=> Sensible(m) /\ m.offset + PySpan(m) * item <= m.size
  BY DEF PyMetadata, Sensible
<1>2. Fits(m) <=> /\ Sensible(m) /\ m.offset <= m.size
                  /\ Touched(m.shape, strides, item, m.offset) \subseteq 0..(m.size - 1)
  BY DEF Fits, Sensible
<1>3. m.offset \in Nat /\ m.size \in Nat /\ item \in Nat /\ item >= 1
  BY MessageHas
<1> HIDE DEF strides, item
<1>4. CASE ~Sensible(m)
  BY <1>1, <1>2, <1>4
<1>5. ASSUME Sensible(m), PySpan(m) = 0, Starts(m.shape, strides) = {}
      PROVE  PyMetadata(m) <=> Fits(m)
  <2>1. Touched(m.shape, strides, item, m.offset) = {}
    BY <1>5 DEF Touched
  <2>2. PySpan(m) * item = 0
    BY <1>3, <1>5
  <2> QED
    BY <1>1, <1>2, <1>3, <1>5, <2>1, <2>2
<1>6. ASSUME Sensible(m), PySpan(m) \in Nat, PySpan(m) >= 1,
             Starts(m.shape, strides) \subseteq 0..(PySpan(m) - 1),
             PySpan(m) - 1 \in Starts(m.shape, strides)
      PROVE  PyMetadata(m) <=> Fits(m)
  <2>1. ASSUME PyMetadata(m)
        PROVE  Fits(m)
    <3>1. m.offset + PySpan(m) * item <= m.size
      BY <1>1, <2>1
    <3>2. Touched(m.shape, strides, item, m.offset) \subseteq 0..(m.size - 1)
      BY <1>3, <1>6, <3>1, TouchedWithin
    <3>3. PySpan(m) * item \in Nat
      BY <1>3, <1>6
    <3>4. m.offset <= m.size
      BY <1>3, <3>1, <3>3
    <3> QED
      BY <1>2, <1>6, <3>2, <3>4
  <2>2. ASSUME Fits(m)
        PROVE  PyMetadata(m)
    <3>1. Touched(m.shape, strides, item, m.offset) \subseteq 0..(m.size - 1)
      BY <1>2, <2>2
    <3>2. m.offset + PySpan(m) * item <= m.size
      BY <1>3, <1>6, <3>1, TouchedLast
    <3> QED
      BY <1>1, <1>6, <3>2
  <2> QED
    BY <2>1, <2>2
<1> QED
  BY <1>4, <1>5, <1>6, PySpanIs DEF strides

\* ... and so does C++, as long as there is an element.
LEMMA ValidIsMetadata ==
  ASSUME NEW m \in AnyMessage, 0 \notin Range(m.shape)
  PROVE  ValidateView(m) <=> PyMetadata(m)
<1> DEFINE shape == m.shape
           cpp == NormalizedStrides(m)
           py == PyNormalized(m)
           item == ItemSize[m.dtype]
           n == Len(shape)
           span == Span(shape, cpp)
           required == Plus(m.offset, Times(span, item, SizeMax))
           reach == Reaches(shape, py)[n]
<1>1. /\ shape \in Seq(Int) /\ py \in Seq(Int) /\ m.strides \in Seq(Int)
      /\ DOMAIN shape = 1..n /\ n \in Nat /\ n \in 0..n
      /\ item \in Nat /\ item >= 1 /\ m.offset \in Nat /\ m.size \in Nat /\ m.size <= IntMax
  BY MessageHas
<1>2. \A k \in 1..n : shape[k] # 0
  BY <1>1 DEF Range
<1>3. PySpan(m) = reach
  BY DEF PySpan
<1>4. ValidateView(m) <=> /\ cpp # Throws /\ m.dtype \in Supported
                          /\ required # Throws /\ required <= m.size
  BY DEF ValidateView
<1>5. PyMetadata(m) <=> Sensible(m) /\ m.offset + reach * item <= m.size
  BY <1>3 DEF PyMetadata, Sensible
<1>6. ASSUME ValidateView(m)
      PROVE  PyMetadata(m)
  <2>1. cpp # Throws /\ m.dtype \in Supported /\ required # Throws /\ required <= m.size
    BY <1>4, <1>6
  <2>2. cpp = py /\ Len(py) = n
    BY <2>1, NormalizedAgree
  <2>3. span \in OrThrows(SizeMax)
    <3> HIDE DEF cpp, n, shape
    <3> QED
      BY <1>1, <2>2, SpansUnfold DEF Span, n
  <2>4. span # Throws /\ m.offset + span * item <= m.size
    <3> HIDE DEF span
    <3> QED
      BY <2>1, <2>3, RequiredIs
  <2>5. Forward(shape, py) /\ span = reach
    <3> HIDE DEF cpp, py, shape
    <3> QED
      BY <1>1, <1>2, <2>2, <2>4, SpanIsReach
  <2>6. Sensible(m)
    BY <1>1, <2>1, <2>2, <2>5 DEF Sensible, Forward
  <2> QED
    BY <1>5, <2>4, <2>5, <2>6
<1>7. ASSUME PyMetadata(m)
      PROVE  ValidateView(m)
  <2>1. Sensible(m) /\ m.offset + reach * item <= m.size
    BY <1>5, <1>7
  <2>2. Forward(shape, py) /\ Len(py) = n /\ m.dtype \in Supported
    <3>1. Len(py) = n /\ m.dtype \in Supported
      BY <2>1 DEF Sensible
    <3>2. \A k \in 1..n : shape[k] >= 0 /\ py[k] >= 0
      BY <1>1, <2>1 DEF Sensible
    <3>3. \A k \in 1..n : shape[k] \in Int
      BY <1>1
    <3> HIDE DEF py
    <3>4. \A k \in 1..n : shape[k] >= 1 /\ py[k] >= 0
      BY <1>2, <3>2, <3>3
    <3> QED
      BY <3>1, <3>4 DEF Forward
  <2>3. reach \in Int /\ reach >= 1
    <3> HIDE DEF py, shape
    <3> QED
      BY <1>1, <2>2, ReachesUnfold, ReachesGrow
  <2>4. reach <= IntMax
    <3> HIDE DEF reach, item
    <3>1. reach * item \in Int /\ reach * item >= reach
      BY <1>1, <2>3, Grows
    <3>2. \A x \in Int : m.offset + x <= m.size => x <= IntMax
      BY <1>1, Constants
    <3>3. reach * item <= IntMax
      BY <2>1, <3>1, <3>2
    <3> QED
      BY <2>3, <3>1, <3>3, Constants
  <2>5. cpp = py /\ cpp # Throws
    <3>1. CASE m.strides = <<>>
      <4>1. cpp = ContiguousStrides(shape) /\ py = PyStrides(shape)
        BY <3>1 DEF NormalizedStrides, PyNormalized
      <4>2. NumElements(shape) = reach
        BY <1>1, <4>1, ContiguousReach
      <4>3. \A k \in 1..n : shape[k] >= 1
        BY <2>2 DEF Forward
      <4>4. ContiguousStrides(shape) # Throws
        <5> HIDE DEF reach, shape
        <5> QED
          BY <1>1, <2>4, <4>2, <4>3, StridesPass
      <4>5. ContiguousStrides(shape) = PyStrides(shape)
        BY <1>1, <4>4, StridesAgree
      <4> QED
        BY <4>1, <4>4, <4>5
    <3>2. CASE m.strides # <<>>
      <4>1. py = m.strides
        BY <3>2 DEF PyNormalized
      <4>2. cpp = m.strides
        BY <2>2, <3>2, <4>1 DEF NormalizedStrides
      <4> QED
        BY <1>1, <4>1, <4>2, Constants
    <3> QED
      BY <3>1, <3>2
  <2>6. span = reach
    <3>1. reach <= SizeMax
      <4> HIDE DEF reach
      <4> QED
        BY <2>3, <2>4, Constants
    <3>2. Span(shape, py) = reach
      <4> HIDE DEF py, shape
      <4> QED
        BY <1>1, <2>2, <3>1, SpanPasses
    <3> QED
      BY <2>5, <3>2
  <2>7. span \in OrThrows(SizeMax) /\ span # Throws
    <3> HIDE DEF reach, span
    <3> QED
      BY <2>3, <2>4, <2>6, Constants DEF OrThrows
  <2>8. m.offset + span * item <= m.size
    BY <2>1, <2>6
  <2>9. required # Throws /\ required <= m.size
    <3> HIDE DEF span
    <3> QED
      BY <2>7, <2>8, RequiredIs
  <2> QED
    BY <1>4, <2>2, <2>5, <2>9
<1> QED
  BY <1>6, <1>7

-----------------------------------------------------------------------------
(* Messages that describe contiguous tensors.                              *)

\* A message whose bytes are those of a contiguous tensor of its shape and dtype.
Contiguous(m) ==
  /\ m.dtype \in Supported /\ m.strides = PyStrides(m.shape) /\ m.offset = 0
  /\ NumElements(m.shape) * ItemSize[m.dtype] <= m.size

LEMMA NumElementsIs ==
  ASSUME NEW shape \in Seq(Int)
  PROVE  NumElements(shape) \in Int
<1>1. Len(shape) \in 0..Len(shape)
  OBVIOUS
<1> QED
  BY <1>1, ProductsUnfold DEF NumElements

LEMMA NumElementsPositive ==
  ASSUME NEW shape \in Seq(Int), \A k \in 1..Len(shape) : shape[k] >= 1
  PROVE  NumElements(shape) >= 1
<1>1. Len(shape) \in 0..Len(shape)
  OBVIOUS
<1> QED
  BY <1>1, ProductsGrow DEF NumElements

LEMMA NumElementsZero ==
  ASSUME NEW shape \in Seq(Int), NEW z \in 1..Len(shape), shape[z] = 0
  PROVE  NumElements(shape) = 0
<1> DEFINE n == Len(shape)
           p == Products(shape)
           q == Products(Reverse(shape))
<1>1. n \in Nat /\ z \in 0..n /\ z - 1 \in 0..n /\ n - z \in 0..n
  OBVIOUS
<1>2. \A k \in 0..n : p[k] \in Int /\ q[k] \in Int
  BY ProductsUnfold, Reversed
<1>3. p[z] = p[z - 1] * shape[z]
  BY ProductsUnfold DEF ProductStep
<1>4. p[z] * q[n - z] = p[n]
  BY <1>1, ProductsMeet
<1> HIDE DEF n, p, q
<1>5. p[z - 1] \in Int /\ q[n - z] \in Int
  BY <1>1, <1>2
<1>6. p[z] = 0
  BY <1>3, <1>5
<1>7. p[n] = 0
  BY <1>4, <1>5, <1>6
<1> QED
  BY <1>7 DEF NumElements, n, p

LEMMA NumElementsNatural ==
  ASSUME NEW shape \in Seq(Int), \A k \in 1..Len(shape) : shape[k] >= 0
  PROVE  NumElements(shape) \in Nat
<1>1. CASE \E z \in 1..Len(shape) : shape[z] = 0
  BY <1>1, NumElementsZero
<1>2. CASE \A z \in 1..Len(shape) : shape[z] # 0
  <2>1. \A k \in 1..Len(shape) : shape[k] \in Int
    OBVIOUS
  <2>2. \A k \in 1..Len(shape) : shape[k] >= 1
    BY <1>2, <2>1
  <2> QED
    BY <2>2, NumElementsIs, NumElementsPositive
<1> QED
  BY <1>1, <1>2

LEMMA PyStridesPositive ==
  ASSUME NEW shape \in Seq(Int), \A k \in 1..Len(shape) : shape[k] >= 1
  PROVE  \A k \in 1..Len(shape) : PyStrides(shape)[k] >= 1
<1> DEFINE n == Len(shape)
           rev == Reverse(shape)
<1>1. /\ n \in Nat /\ rev \in Seq(Int) /\ Len(rev) = n
      /\ \A k \in 1..n : rev[k] = shape[n + 1 - k]
  BY Reversed
<1>2. \A k \in 1..n : n + 1 - k \in 1..n /\ n - k \in 0..n
  BY <1>1
<1>3. \A k \in 1..n : PyStrides(shape)[k] = Products(rev)[n - k]
  BY PyStridesAre
<1> HIDE DEF rev, n
<1>4. \A k \in 1..n : rev[k] >= 1
  BY <1>1, <1>2 DEF n
<1>5. \A k \in 0..n : Products(rev)[k] >= 1
  BY <1>1, <1>4, ProductsGrow
<1> QED
  BY <1>2, <1>3, <1>5 DEF n

\* Both languages read such a message, and the bytes are all those of its tensor.
LEMMA ContiguousIsRead ==
  ASSUME NEW m \in AnyMessage, Contiguous(m), \A k \in 1..Len(m.shape) : m.shape[k] >= 1
  PROVE  /\ ValidateView(m) /\ PyMetadata(m)
         /\ Touched(m.shape, m.strides, ItemSize[m.dtype], m.offset)
              = 0..(NumElements(m.shape) * ItemSize[m.dtype] - 1)
<1> DEFINE shape == m.shape
           strides == PyStrides(shape)
           item == ItemSize[m.dtype]
           n == NumElements(shape)
<1>1. /\ shape \in Seq(Int) /\ DOMAIN shape = 1..Len(shape)
      /\ item \in Nat /\ item >= 1 /\ m.size \in Nat
  BY MessageHas
<1>2. /\ m.dtype \in Supported /\ m.strides = strides /\ m.offset = 0
      /\ n * item <= m.size
  BY DEF Contiguous
<1>3. /\ strides \in Seq(Int) /\ Len(strides) = Len(shape)
      /\ \A k \in 1..Len(shape) : strides[k] >= 1
  BY <1>1, PyStridesAre, PyStridesPositive
<1>4. n \in Nat /\ n >= 1
  BY <1>1, NumElementsIs, NumElementsPositive
<1>5. PyNormalized(m) = strides
  BY <1>2 DEF PyNormalized
<1> HIDE DEF strides
<1>6. Sensible(m)
  <2>1. \A k \in DOMAIN shape : shape[k] >= 0 /\ strides[k] >= 0
    BY <1>1, <1>3
  <2> QED
    BY <1>2, <1>3, <1>5, <2>1 DEF Sensible
<1>7. 0 \notin Range(shape)
  BY <1>1 DEF Range
<1>8. PySpan(m) = n
  BY <1>1, <1>5, <1>7, ContiguousReach DEF PySpan, strides
<1>9. PyMetadata(m)
  <2>1. m.offset + PySpan(m) * item <= m.size
    <3> HIDE DEF n, item
    <3> QED
      BY <1>1, <1>2, <1>4, <1>8
  <2> QED
    BY <1>6, <2>1 DEF PyMetadata, Sensible
<1>10. ValidateView(m)
  BY <1>7, <1>9, ValidIsMetadata
<1>11. Starts(shape, strides) = 0..(n - 1)
  BY <1>1, ContiguousStarts DEF strides
<1>12. Touched(shape, strides, item, 0) = 0..(n * item - 1)
  <2> HIDE DEF shape, item, n
  <2> QED
    BY <1>1, <1>4, <1>11, TouchedContiguous
<1> QED
  BY <1>2, <1>9, <1>10, <1>12

-----------------------------------------------------------------------------
(* The inductive invariant: TypeOK and ViewsInStorage, with                *)
(*   - Fresh: before there is a message there is no view of it and nothing *)
(*     was stored;                                                         *)
(*   - StoredIs: the message describes the tensor that was stored, as      *)
(*     contiguous from the first byte on, and has room for it;             *)
(*   - AllocatedIs: so does what allocate_tensor_msg returns, exactly;     *)
(*   - Exclusive: under a writable view of device memory the write handle  *)
(*     was given out, whatever has become of it.                           *)

Fresh == origin = "none" => msg = NoMessage /\ views = {} /\ content = Unknown

StoredIs ==
  content # Unknown /\ ~half =>
    msg.shape = content.shape /\ msg.dtype = content.dtype /\ Contiguous(msg)

AllocatedIs ==
  origin = "allocated" =>
    /\ Contiguous(msg) /\ msg.size = NumElements(msg.shape) * ItemSize[msg.dtype]
    /\ \A k \in 1..Len(msg.shape) : msg.shape[k] >= 0

Exclusive ==
  msg.backend = "cuda" => \A view \in views : view.out => handle # "unset"

IInv == TypeOK /\ ViewsInStorage /\ Fresh /\ StoredIs /\ AllocatedIs /\ Exclusive

-----------------------------------------------------------------------------
(* What actions put into messages.                                         *)

LEMMA ShapesAreSequences ==
  /\ \A s \in Values : s \in Seq(Int)
  /\ \A s \in TensorShape : s \in Seq(Int) /\ \A k \in 1..Len(s) : s[k] >= 1
<1>1. /\ Lengths \subseteq 0..IntMax /\ Negatives \subseteq 1..(IntMax + 1)
      /\ TensorDims \subseteq 1..IntMax /\ MaxRank \in Nat
  BY ConstantsOK DEF ConstantsOK
<1>2. Value \subseteq Int
  <2>1. ASSUME NEW x \in Value
        PROVE  x \in Int
    <3>1. IntMax \in Nat
      BY Constants
    <3>2. CASE x \in Lengths
      BY <1>1, <3>1, <3>2
    <3>3. CASE \E n \in Negatives : x = -n
      BY <1>1, <3>1, <3>3
    <3> QED
      BY <3>2, <3>3 DEF Value
  <2> QED
    BY <2>1
<1>3. ASSUME NEW s \in Values
      PROVE  s \in Seq(Int)
  <2>1. PICK n \in 0..MaxRank : s \in [1..n -> Value]
    BY DEF Values, SeqOf
  <2>2. n \in Nat /\ s = [k \in 1..n |-> s[k]] /\ \A k \in 1..n : s[k] \in Int
    <3>1. \A k \in 1..n : s[k] \in Value
      BY <2>1
    <3>2. n \in Nat /\ s = [k \in 1..n |-> s[k]]
      BY <1>1, <2>1
    <3> QED
      BY <1>2, <3>1, <3>2
  <2> QED
    BY <2>2
<1>4. ASSUME NEW s \in TensorShape
      PROVE  s \in Seq(Int) /\ \A k \in 1..Len(s) : s[k] >= 1
  <2>1. PICK n \in 0..MaxRank : s \in [1..n -> TensorDims]
    BY DEF TensorShape, SeqOf
  <2>2. /\ n \in Nat /\ s = [k \in 1..n |-> s[k]]
        /\ \A k \in 1..n : s[k] \in Int /\ s[k] >= 1
    <3>1. \A k \in 1..n : s[k] \in 1..IntMax
      BY <1>1, <2>1
    <3> QED
      BY <1>1, <2>1, <3>1, Constants
  <2>3. s \in Seq(Int) /\ Len(s) = n
    BY <2>2
  <2> QED
    BY <2>2, <2>3
<1> QED
  BY <1>3, <1>4

LEMMA ReceivedIsMessage == Message \subseteq AnyMessage
<1>1. SUFFICES ASSUME NEW m \in Message PROVE m \in AnyMessage
  OBVIOUS
<1>2. Offsets \subseteq 0..SizeMax /\ Sizes \subseteq 0..IntMax
  BY ConstantsOK DEF ConstantsOK
<1> QED
  BY <1>2, ShapesAreSequences DEF Message, AnyMessage

LEMMA NoMessageIs ==
  /\ NoMessage \in AnyMessage /\ NoMessage.size = 0
  /\ NoMessage.shape = <<>> /\ NoMessage.strides = <<>>
BY Constants DEF NoMessage, AnyMessage, Dtype, ItemSize, Backend

\* What set_metadata makes of a message.
LEMMA DescribedIs ==
  ASSUME NEW m \in AnyMessage, NEW shape \in Seq(Int), NEW strides \in Seq(Int),
         NEW dtype \in Dtype
  PROVE  LET d == Describe(m, shape, strides, dtype)
         IN /\ d \in AnyMessage
            /\ d.shape = shape /\ d.strides = strides /\ d.dtype = dtype /\ d.offset = 0
            /\ d.size = m.size /\ d.backend = m.backend
<1> DEFINE d == Describe(m, shape, strides, dtype)
<1>1. d \in AnyMessage
  <2> DEFINE S == 0..SizeMax
             Z == 0..IntMax
             Q == Seq(Int)
  <2>1. 0 \in S /\ shape \in Q /\ strides \in Q
    BY Constants
  <2>2. AnyMessage = [shape : Q, strides : Q, dtype : Dtype, offset : S, size : Z,
                      backend : Backend]
    BY DEF AnyMessage
  <2> HIDE DEF S, Z, Q
  <2> QED
    BY <2>1, <2>2 DEF Describe
<1>2. /\ d.shape = shape /\ d.strides = strides /\ d.dtype = dtype /\ d.offset = 0
      /\ d.size = m.size /\ d.backend = m.backend
  BY DEF Describe, AnyMessage
<1> QED
  BY <1>1, <1>2

\* What allocate_tensor_msg makes, in both languages.
LEMMA AllocatedMessage ==
  ASSUME NEW shape \in Seq(Int), NEW strides \in Seq(Int), NEW dtype \in Dtype,
         NEW d, NEW n \in Nat, Allocates(shape, strides, dtype, d, n)
  PROVE  /\ msg' \in AnyMessage /\ origin' = "allocated"
         /\ msg'.shape = shape /\ msg'.strides = strides /\ msg'.dtype = dtype
         /\ msg'.offset = 0 /\ msg'.size = n
<1>1. n <= MaxBytes /\ Type(d) \in Backend
  BY DEF Allocates, CudaCanAllocate, CanAllocate, Backend
<1>2. n \in 0..IntMax
  BY <1>1, ConstantsOK, Constants DEF ConstantsOK
<1> DEFINE m == Describe(NoMessage, shape, strides, dtype)
<1>3. /\ m \in AnyMessage
      /\ m.shape = shape /\ m.strides = strides /\ m.dtype = dtype /\ m.offset = 0
  BY NoMessageIs, DescribedIs
<1>4. msg' = [m EXCEPT !.size = n, !.backend = Type(d)] /\ origin' = "allocated"
  BY DEF Allocates
<1> HIDE DEF m
<1> QED
  BY <1>1, <1>2, <1>3, <1>4 DEF AnyMessage

\* How a message comes to be: it is one of a peer, or AllocatedIs of it.
LEMMA ComesTo ==
  ASSUME Comes, IInv
  PROVE  /\ msg' \in AnyMessage /\ origin' \in {"peer", "allocated"} /\ AllocatedIs'
         /\ UNCHANGED <<lang, installed, handle, views, content, half>>
<1>1. ASSUME NEW m \in Message, Receive(m)
      PROVE  /\ msg' \in AnyMessage /\ origin' = "peer"
             /\ UNCHANGED <<lang, installed, handle, views, content, half>>
  BY <1>1, ReceivedIsMessage DEF Receive
<1>2. ASSUME NEW shape \in Values, NEW dtype \in Dtype, NEW d,
             AllocateTensorMsg(shape, dtype, d)
      PROVE  /\ msg' \in AnyMessage /\ origin' = "allocated" /\ AllocatedIs'
             /\ UNCHANGED <<lang, installed, handle, views, content, half>>
  <2> DEFINE item == ItemSize[dtype]
             n == ByteCount(shape, dtype)
             strides == ContiguousStrides(shape)
  <2>0. PICK dev \in DeviceOf(d, DefaultBackend) : Allocates(shape, strides, dtype, dev, n)
    BY <1>2 DEF AllocateTensorMsg
  <2>1. /\ strides # Throws /\ dtype \in Supported /\ n # Throws
        /\ Allocates(shape, strides, dtype, dev, n)
    BY <1>2, <2>0 DEF AllocateTensorMsg
  <2>2. shape \in Seq(Int) /\ item \in Nat /\ SizeMax \in Nat
    BY ShapesAreSequences, ItemSizes, Constants
  <2>3. strides = PyStrides(shape) /\ strides \in Seq(Int)
    BY <2>1, <2>2, StridesAgree, PyStridesAre
  <2>4. n = item * NumElements(shape) /\ NumElements(shape) \in Nat
        /\ \A k \in 1..Len(shape) : shape[k] >= 0
    <3>1. n = Times(item, ElementCount(shape), SizeMax)
      BY DEF ByteCount
    <3>2. ElementCount(shape) # Throws
      BY <2>1, <3>1 DEF Times
    <3>3. /\ ElementCount(shape) = NumElements(shape) /\ NumElements(shape) \in Nat
          /\ \A k \in 1..Len(shape) : shape[k] >= 0
      BY <2>2, <3>2, CountIsExact
    <3> HIDE DEF item, n
    <3>4. item \in Nat \cup {Throws}
      BY <2>2
    <3> QED
      BY <2>1, <2>2, <3>1, <3>3, <3>4, TimesIsExact
  <2>5. n = NumElements(shape) * item /\ n \in Nat
    <3> HIDE DEF item, n
    <3> QED
      BY <2>2, <2>4
  <2> HIDE DEF n, strides
  <2>6. /\ msg' \in AnyMessage /\ origin' = "allocated"
        /\ msg'.shape = shape /\ msg'.strides = strides /\ msg'.dtype = dtype
        /\ msg'.offset = 0 /\ msg'.size = n
    BY <2>1, <2>2, <2>3, <2>5, AllocatedMessage
  <2>7. AllocatedIs'
    BY <2>1, <2>3, <2>4, <2>5, <2>6 DEF AllocatedIs, Contiguous
  <2> QED
    BY <2>1, <2>6, <2>7 DEF Allocates
<1>3. ASSUME NEW shape \in Values, NEW dtype \in Dtype, NEW d,
             PyAllocateTensorMsg(shape, dtype, d)
      PROVE  /\ msg' \in AnyMessage /\ origin' = "allocated" /\ AllocatedIs'
             /\ UNCHANGED <<lang, installed, handle, views, content, half>>
  <2> DEFINE item == ItemSize[dtype]
             n == NumElements(shape) * item
             strides == PyStrides(shape)
  <2>0. PICK dev \in DeviceOf(d, PyDefaultBackend) : Allocates(shape, strides, dtype, dev, n)
    BY <1>3 DEF PyAllocateTensorMsg
  <2>1. /\ dtype \in Supported /\ \A k \in DOMAIN shape : shape[k] >= 0
        /\ Allocates(shape, strides, dtype, dev, n)
    BY <1>3, <2>0 DEF PyAllocateTensorMsg
  <2>2. shape \in Seq(Int) /\ item \in Nat /\ DOMAIN shape = 1..Len(shape)
    BY ShapesAreSequences, ItemSizes
  <2>3. strides \in Seq(Int) /\ n \in Nat /\ \A k \in 1..Len(shape) : shape[k] >= 0
    <3>1. \A k \in 1..Len(shape) : shape[k] >= 0
      BY <2>1, <2>2
    <3>2. NumElements(shape) \in Nat /\ strides \in Seq(Int)
      BY <2>2, <3>1, NumElementsNatural, PyStridesAre
    <3> HIDE DEF item
    <3>3. n \in Nat
      BY <2>2, <3>2
    <3> QED
      BY <3>1, <3>2, <3>3
  <2> HIDE DEF n, strides
  <2>6. /\ msg' \in AnyMessage /\ origin' = "allocated"
        /\ msg'.shape = shape /\ msg'.strides = strides /\ msg'.dtype = dtype
        /\ msg'.offset = 0 /\ msg'.size = n
    BY <2>1, <2>2, <2>3, AllocatedMessage
  <2>7. AllocatedIs'
    BY <2>1, <2>3, <2>6 DEF AllocatedIs, Contiguous, n, strides
  <2> QED
    BY <2>1, <2>6, <2>7 DEF Allocates
<1>4. AllocatedIs' \/ origin' = "peer"
  BY <1>1, <1>2, <1>3 DEF Comes
<1>5. origin' = "peer" => AllocatedIs'
  BY DEF AllocatedIs
<1> QED
  BY <1>1, <1>2, <1>3, <1>4, <1>5 DEF Comes

-----------------------------------------------------------------------------
(* The invariant is inductive.                                             *)

LEMMA InvInit == Init => IInv
<1> SUFFICES ASSUME Init PROVE IInv
  OBVIOUS
<1>1. TypeOK
  BY NoMessageIs DEF Init, TypeOK
<1>2. ViewsInStorage /\ Fresh /\ StoredIs /\ AllocatedIs /\ Exclusive
  BY DEF Init, ViewsInStorage, Fresh, StoredIs, AllocatedIs, Exclusive
<1> QED
  BY <1>1, <1>2 DEF IInv

LEMMA ComesKeeps == Comes /\ IInv => IInv'
<1> SUFFICES ASSUME Comes, IInv PROVE IInv'
  OBVIOUS
<1>1. /\ msg' \in AnyMessage /\ origin' \in {"peer", "allocated"} /\ AllocatedIs'
      /\ UNCHANGED <<lang, installed, handle, views, content, half>>
  BY ComesTo
<1>2. views = {} /\ content = Unknown
  BY DEF Comes, IInv, Fresh
<1>3. TypeOK'
  BY <1>1, <1>2 DEF IInv, TypeOK
<1>4. ViewsInStorage' /\ Fresh' /\ StoredIs' /\ Exclusive'
  BY <1>1, <1>2 DEF ViewsInStorage, Fresh, StoredIs, Exclusive
<1> QED
  BY <1>1, <1>3, <1>4 DEF IInv

\* A tensor borrows the storage, and what it touches lies there.
LEMMA ViewKeeps ==
  ASSUME IInv, NEW out \in BOOLEAN, NEW strides \in Seq(Int),
         msg.size # 0, TakesHandle(out), FromBlob(strides, out),
         Touched(msg.shape, strides, ItemSize[msg.dtype], msg.offset) \subseteq 0..(msg.size - 1),
         content' = IF out THEN Unknown ELSE content,
         UNCHANGED <<lang, installed, origin, msg, half>>
  PROVE  IInv'
<1>1. /\ msg \in AnyMessage /\ origin # "none"
      /\ msg.shape \in Seq(Int) /\ msg.offset \in Nat /\ ItemSize[msg.dtype] \in Nat
  <2>1. msg \in AnyMessage
    BY DEF IInv, TypeOK
  <2>2. origin # "none"
    BY NoMessageIs DEF IInv, Fresh
  <2> QED
    BY <2>1, <2>2, MessageHas
<1> DEFINE new == [shape |-> msg.shape, strides |-> strides, item |-> ItemSize[msg.dtype],
                   offset |-> msg.offset, out |-> out]
<1>2. views' = views \cup {new} /\ \A k \in DOMAIN msg.shape : msg.shape[k] >= 0
  BY DEF FromBlob
<1>3. /\ new \in View /\ new.out = out
      /\ new.shape = msg.shape /\ new.strides = strides
      /\ new.item = ItemSize[msg.dtype] /\ new.offset = msg.offset
  BY <1>1 DEF View
<1> HIDE DEF new
<1>4. handle' \in {"unset", "inuse", "finalized"}
  BY DEF IInv, TypeOK, TakesHandle, Finalizes
<1>5. handle' = "inuse" => msg'.backend = "cuda" /\ \E view \in views' : view.out
  <2>1. CASE handle' = handle
    BY <1>2, <2>1 DEF IInv, TypeOK
  <2>2. CASE handle' # handle
    BY <1>2, <1>3, <2>2 DEF TakesHandle, Finalizes
  <2> QED
    BY <2>1, <2>2
<1>6. ASSUME msg.backend = "cuda", out
      PROVE  handle = "unset" /\ handle' = "inuse" /\ \A view \in views : ~view.out
  BY <1>6 DEF TakesHandle, IInv, Exclusive
<1>7. msg'.backend = "cuda" => \A v, w \in views' : v.out /\ w.out => v = w
  BY <1>2, <1>3, <1>6 DEF IInv, TypeOK
<1>8. Exclusive'
  <2> SUFFICES ASSUME msg.backend = "cuda", NEW view \in views', view.out
               PROVE  handle' # "unset"
    BY DEF Exclusive
  <2>1. CASE out
    BY <1>6, <2>1
  <2>2. CASE ~out
    <3>1. view \in views
      BY <1>2, <1>3, <2>2
    <3> QED
      BY <3>1, <2>2 DEF IInv, Exclusive, TakesHandle, Finalizes
  <2> QED
    BY <2>1, <2>2
<1>9. views' \in SUBSET View
  BY <1>2, <1>3 DEF IInv, TypeOK
<1>10. content' \in Tensor \cup {Unknown}
  BY DEF IInv, TypeOK
<1>11. TypeOK'
  BY <1>4, <1>5, <1>7, <1>9, <1>10 DEF IInv, TypeOK
<1>12. ViewsInStorage'
  <2> SUFFICES ASSUME NEW view \in views'
               PROVE  /\ \A k \in DOMAIN view.shape : view.shape[k] >= 0
                      /\ Touched(view.shape, view.strides, view.item, view.offset)
                           \subseteq 0..(msg'.size - 1)
    BY DEF ViewsInStorage
  <2>1. CASE view = new
    BY <1>2, <1>3, <2>1
  <2>2. CASE view \in views
    BY <2>2 DEF IInv, ViewsInStorage
  <2> QED
    BY <1>2, <2>1, <2>2
<1>13. Fresh' /\ AllocatedIs'
  BY <1>1 DEF IInv, Fresh, AllocatedIs
<1>14. StoredIs'
  BY DEF IInv, StoredIs
<1> QED
  BY <1>8, <1>11, <1>12, <1>13, <1>14 DEF IInv

LEMMA FromTensorMsgKeeps ==
  ASSUME IInv, NEW out \in BOOLEAN, FromTensorMsg(out) \/ PyFromTensorMsg(out)
  PROVE  IInv'
<1>1. msg \in AnyMessage
  BY DEF IInv, TypeOK
<1>2. CASE FromTensorMsg(out)
  <2>1. ValidateView(msg) /\ NormalizedStrides(msg) # Throws
    BY <1>2 DEF FromTensorMsg, ValidateView
  <2>2. /\ NormalizedStrides(msg) \in Seq(Int)
        /\ Touched(msg.shape, NormalizedStrides(msg), ItemSize[msg.dtype], msg.offset)
             \subseteq 0..(msg.size - 1)
    BY <1>1, <2>1, NormalizedAgree, ValidInStorage
  <2> QED
    BY <1>2, <2>2, ViewKeeps DEF FromTensorMsg
<1>3. CASE PyFromTensorMsg(out)
  <2>1. Fits(msg)
    BY <1>1, <1>3, MetadataIsExact DEF PyFromTensorMsg
  <2>2. /\ PyNormalized(msg) \in Seq(Int)
        /\ Touched(msg.shape, PyNormalized(msg), ItemSize[msg.dtype], msg.offset)
             \subseteq 0..(msg.size - 1)
    BY <1>1, <2>1, MessageHas DEF Fits
  <2>3. FromBlob(PyNormalized(msg), out)
    BY <1>3 DEF PyFromTensorMsg, PyCpuView
  <2> QED
    BY <1>3, <2>2, <2>3, ViewKeeps DEF PyFromTensorMsg
<1> QED
  BY <1>2, <1>3

\* Nothing changes but the handle, and the views that go.
LEMMA NoViewKeeps ==
  ASSUME IInv, FromOutputFails \/ Reads \/ \E view \in views : DropView(view)
  PROVE  IInv'
<1>1. UNCHANGED <<lang, installed, origin, msg, content, half>> /\ views' \subseteq views
  BY DEF FromOutputFails, Reads, DropView
<1>2. handle' = handle \/ handle' = "finalized"
  BY DEF FromOutputFails, Reads, DropView, Finalizes
<1>3. handle' = "inuse" => handle = "inuse" /\ \E view \in views' : view.out
  <2>1. CASE FromOutputFails \/ Reads
    BY <2>1 DEF FromOutputFails, Reads, Finalizes
  <2>2. ASSUME NEW gone \in views, DropView(gone), handle' = "inuse"
        PROVE  handle = "inuse" /\ \E view \in views' : view.out
    <3>1. handle = "inuse" /\ ~gone.out /\ views' = views \ {gone}
      BY <2>2 DEF DropView, Finalizes
    <3>2. PICK view \in views : view.out
      BY <3>1 DEF IInv, TypeOK
    <3> QED
      BY <3>1, <3>2
  <2> QED
    BY <2>1, <2>2
<1>4. TypeOK'
  BY <1>1, <1>2, <1>3 DEF IInv, TypeOK
<1>5. ViewsInStorage' /\ Fresh' /\ Exclusive'
  BY <1>1, <1>2 DEF IInv, ViewsInStorage, Fresh, Exclusive
<1>6. StoredIs' /\ AllocatedIs'
  BY <1>1 DEF IInv, StoredIs, AllocatedIs
<1> QED
  BY <1>4, <1>5, <1>6 DEF IInv

\* A write handle that was free was taken and closed again, or none was.
HandleMoves == handle' = handle \/ (handle = "unset" /\ handle' = "finalized")

LEMMA StoreKeeps ==
  ASSUME IInv, origin' = "used", HandleMoves, UNCHANGED <<lang, installed, views>>,
         msg' \in AnyMessage, msg'.size = msg.size, msg'.backend = msg.backend,
         content' \in Tensor \cup {Unknown}, half' \in BOOLEAN, StoredIs'
  PROVE  IInv'
<1>1. TypeOK'
  BY DEF IInv, TypeOK, HandleMoves
<1>2. ViewsInStorage' /\ Fresh' /\ AllocatedIs'
  BY DEF IInv, ViewsInStorage, Fresh, AllocatedIs
<1>3. Exclusive'
  BY DEF IInv, Exclusive, HandleMoves
<1> QED
  BY <1>1, <1>2, <1>3 DEF IInv

\* A tensor that has room in a message is described, with strides that do not overflow.
LEMMA TensorDescribed ==
  ASSUME NEW m \in AnyMessage, NEW t \in Tensor, Bytes(t) <= m.size
  PROVE  LET d == Describe(m, t.shape, PyStrides(t.shape), t.dtype)
         IN /\ ContiguousStrides(t.shape) = PyStrides(t.shape)
            /\ d \in AnyMessage /\ d.size = m.size /\ d.backend = m.backend
            /\ d.shape = t.shape /\ d.dtype = t.dtype
            /\ t.dtype \in Supported => Contiguous(d)
<1> DEFINE shape == t.shape
           item == ItemSize[t.dtype]
           n == NumElements(shape)
           strides == PyStrides(shape)
           d == Describe(m, shape, strides, t.dtype)
<1>1. /\ shape \in Seq(Int) /\ \A k \in 1..Len(shape) : shape[k] >= 1
      /\ t.dtype \in Dtype /\ item \in Nat /\ item >= 1
  BY ShapesAreSequences, ItemSizes DEF Tensor
<1>2. n \in Int /\ n >= 1 /\ strides \in Seq(Int)
  BY <1>1, NumElementsIs, NumElementsPositive, PyStridesAre
<1>3. n * item <= m.size /\ m.size \in Nat /\ m.size <= IntMax
  BY MessageHas DEF Bytes
<1>4. n <= IntMax
  <2> HIDE DEF n, item
  <2>1. n * item \in Int /\ n * item >= n
    BY <1>1, <1>2, Grows
  <2> QED
    BY <1>2, <1>3, <2>1, Constants
<1>5. ContiguousStrides(shape) = strides
  BY <1>1, <1>4, StridesPass, StridesAgree
<1> HIDE DEF strides
<1>6. /\ d \in AnyMessage /\ d.size = m.size /\ d.backend = m.backend
      /\ d.shape = shape /\ d.strides = strides /\ d.dtype = t.dtype /\ d.offset = 0
  BY <1>1, <1>2, DescribedIs
<1> HIDE DEF d
<1>7. t.dtype \in Supported => Contiguous(d)
  BY <1>3, <1>6 DEF Contiguous, strides
<1> QED
  BY <1>5, <1>6, <1>7 DEF d, strides

LEMMA StoresKeep ==
  ASSUME IInv, NEW t \in Tensor, Store(t) \/ PyStore(t)
  PROVE  IInv'
<1> DEFINE d == Describe(msg, t.shape, PyStrides(t.shape), t.dtype)
<1>1. msg \in AnyMessage
  BY DEF IInv, TypeOK
<1>2. /\ ContiguousStrides(t.shape) = PyStrides(t.shape)
      /\ d \in AnyMessage /\ d.size = msg.size /\ d.backend = msg.backend
      /\ d.shape = t.shape /\ d.dtype = t.dtype
      /\ t.dtype \in Supported => Contiguous(d)
  <2>1. Bytes(t) <= msg.size
    BY DEF Store, PyStore
  <2> QED
    BY <1>1, <2>1, TensorDescribed
<1> HIDE DEF d
<1>3. Stored(t) \in {t, Unknown}
  BY DEF Stored
<1>4. CASE Store(t)
  <2>1. /\ content' = Stored(t) /\ half' = (t.dtype \notin Supported) /\ origin' = "used"
        /\ msg' = IF half' THEN msg ELSE d
        /\ UNCHANGED <<lang, installed, views>>
    BY <1>2, <1>4 DEF Store, d
  <2>2. HandleMoves
    BY <1>4 DEF Store, CpuCopies, CudaCopies, HandleMoves
  <2>3. msg' \in AnyMessage /\ msg'.size = msg.size /\ msg'.backend = msg.backend
    BY <1>1, <1>2, <2>1
  <2>4. StoredIs'
    <3>1. CASE half'
      BY <3>1 DEF StoredIs
    <3>2. CASE ~half'
      <4>1. msg' = d /\ t.dtype \in Supported
        BY <2>1, <3>2
      <4> QED
        BY <1>2, <1>3, <2>1, <4>1 DEF StoredIs, Contiguous
    <3> QED
      BY <3>1, <3>2
  <2>5. content' \in Tensor \cup {Unknown} /\ half' \in BOOLEAN
    BY <1>3, <2>1
  <2> QED
    BY <2>1, <2>2, <2>3, <2>4, <2>5, StoreKeeps
<1>5. CASE PyStore(t)
  <2>1. /\ msg' = d /\ origin' = "used" /\ UNCHANGED <<lang, installed, views>>
        /\ t.dtype \in Supported
    BY <1>5 DEF PyStore, d
  <2>2. \/ content' = Stored(t) /\ half' = FALSE
        \/ half' = TRUE /\ content' = content
    BY <1>5 DEF PyStore
  <2>3. HandleMoves
    BY <1>5 DEF PyStore, PyCpuCopies, PyCudaCopies, PyCopyThrows, HandleMoves
  <2>4. StoredIs'
    BY <1>2, <1>3, <2>1, <2>2 DEF StoredIs, Contiguous
  <2>5. content' \in Tensor \cup {Unknown} /\ half' \in BOOLEAN
    BY <1>3, <2>2 DEF IInv, TypeOK
  <2> QED
    BY <1>2, <2>1, <2>3, <2>4, <2>5, StoreKeeps
<1> QED
  BY <1>4, <1>5

LEMMA InvNext == IInv /\ [Next]_vars => IInv'
<1> SUFFICES ASSUME IInv, [Next]_vars PROVE IInv'
  OBVIOUS
<1>1. CASE Comes
  BY <1>1, ComesKeeps
<1>2. ASSUME NEW out \in BOOLEAN, FromTensorMsg(out) \/ PyFromTensorMsg(out)
      PROVE  IInv'
  BY <1>2, FromTensorMsgKeeps
<1>3. CASE FromOutputFails \/ Reads \/ \E view \in views : DropView(view)
  BY <1>3, NoViewKeeps
<1>4. ASSUME NEW t \in Tensor, Store(t) \/ PyStore(t)
      PROVE  IInv'
  BY <1>4, StoresKeep
<1>5. CASE UNCHANGED vars
  BY <1>5 DEF vars, IInv, TypeOK, ViewsInStorage, Fresh, StoredIs, AllocatedIs, Exclusive
<1> QED
  BY <1>1, <1>2, <1>3, <1>4, <1>5 DEF Next

LEMMA Invariant == Spec => []IInv
BY InvInit, InvNext, PTL DEF Spec

-----------------------------------------------------------------------------
(* The theorems.                                                           *)

\* Every message and view has its type, a write handle is open under a writable view
\* only, and device memory has at most one of those, also when a read or a publication
\* has finalized its handle.
THEOREM TypeCorrect == Spec => []TypeOK
<1>1. IInv => TypeOK
  BY DEF IInv
<1> QED
  BY <1>1, Invariant, PTL

\* No view reaches beyond the storage, for any message of any peer: shapes of any rank,
\* strides that overlap, dimensions of 0, products and sums that overflow.
THEOREM ViewsStayInStorage == Spec => []ViewsInStorage
<1>1. IInv => ViewsInStorage
  BY DEF IInv
<1> QED
  BY <1>1, Invariant, PTL

\* The checks of both languages let a message through exactly when it fits.
THEOREM ChecksExact == Spec => []ChecksAreExact
<1>1. IInv => ChecksAreExact
  BY MetadataIsExact, ValidIsMetadata DEF IInv, TypeOK, ChecksAreExact
<1> QED
  BY <1>1, Invariant, PTL

\* What was stored is what both languages read, byte for byte, and what was allocated
\* can be viewed.
THEOREM StoresAreReadBack == Spec => []StoredIsReadBack
<1>1. ASSUME IInv
      PROVE  StoredIsReadBack
  <2>1. msg \in AnyMessage
    BY <1>1 DEF IInv, TypeOK
  <2>2. ASSUME content # Unknown, ~half
        PROVE  /\ msg.shape = content.shape /\ msg.dtype = content.dtype
               /\ ValidateView(msg) /\ PyMetadata(msg)
               /\ Touched(msg.shape, msg.strides, ItemSize[msg.dtype], msg.offset)
                    = 0..(Bytes(content) - 1)
    <3>1. msg.shape = content.shape /\ msg.dtype = content.dtype /\ Contiguous(msg)
      BY <1>1, <2>2 DEF IInv, StoredIs
    <3>2. content \in Tensor
      BY <1>1, <2>2 DEF IInv, TypeOK
    <3>3. content.shape \in TensorShape
      BY <3>2 DEF Tensor
    <3>4. \A k \in 1..Len(msg.shape) : msg.shape[k] >= 1
      BY <3>1, <3>3, ShapesAreSequences
    <3> QED
      BY <2>1, <3>1, <3>4, ContiguousIsRead DEF Bytes
  <2>3. ASSUME origin = "allocated", msg.size # 0
        PROVE  /\ msg.size = NumElements(msg.shape) * ItemSize[msg.dtype]
               /\ ValidateView(msg) /\ PyMetadata(msg)
    <3>1. /\ Contiguous(msg) /\ msg.size = NumElements(msg.shape) * ItemSize[msg.dtype]
          /\ \A k \in 1..Len(msg.shape) : msg.shape[k] >= 0
      BY <1>1, <2>3 DEF IInv, AllocatedIs
    <3>2. msg.shape \in Seq(Int) /\ ItemSize[msg.dtype] \in Nat
      BY <2>1, MessageHas
    <3>3. NumElements(msg.shape) # 0
      BY <2>3, <3>1, <3>2
    <3>4. \A k \in 1..Len(msg.shape) : msg.shape[k] \in Int /\ msg.shape[k] # 0
      BY <3>2, <3>3, NumElementsZero
    <3>5. \A k \in 1..Len(msg.shape) : msg.shape[k] >= 1
      BY <3>1, <3>4
    <3> QED
      BY <2>1, <3>1, <3>5, ContiguousIsRead
  <2> QED
    BY <2>2, <2>3 DEF StoredIsReadBack
<1> QED
  BY <1>1, Invariant, PTL
=============================================================================
