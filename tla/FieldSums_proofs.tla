-------------------------- MODULE FieldSums_proofs --------------------------
(***************************************************************************)
(* What sums over finite sets and division modulo FIELD_MODULUS do, for    *)
(* every set and every function.  A sum is a recursive function under a    *)
(* CHOOSE: the first lemmas show that it exists and what its equation is,  *)
(* the rest follow from that equation by minimal counterexamples.          *)
(***************************************************************************)
EXTENDS FieldSums, FiniteSetTheorems, WellFoundedInduction, TLAPS

(* Induction over numbers, as the least counterexample.  The induction      *)
(* theorems of the library take a predicate as a parameter; this one,      *)
(* about well-founded relations, takes a set.                              *)
LEMMA LeastElement ==
  ASSUME NEW T \in SUBSET Nat, T # {}
  PROVE  \E m \in T : \A k \in T : m <= k
<1> DEFINE R == OpToRel(<, Nat)
<1>1. IsWellFoundedOn(R, Nat)
  BY NatLessThanWellFounded
<1>2. \A x, y \in Nat : x < y => <<x, y>> \in R
  BY DEF OpToRel
<1> HIDE DEF R
<1>3. \E x \in T : \A y \in T : ~(<<y, x>> \in R)
  BY <1>1, WFMin, Zenon
<1>4. PICK x \in T : \A y \in T : ~(<<y, x>> \in R)
  BY <1>3
<1>5. ASSUME NEW y \in T PROVE x <= y
  <2>1. ~(y < x)
    BY <1>2, <1>4
  <2> QED BY <2>1
<1> QED BY <1>5

(* Induction over the subsets of a finite set, as a minimal counterexample *)
LEMMA MinimalSubset ==
  ASSUME NEW S, IsFiniteSet(S), NEW B \in SUBSET (SUBSET S), B # {}
  PROVE  \E T \in B : \A U \in B : U \subseteq T => U = T
<1> DEFINE R == StrictSubsetOrdering(S)
<1>1. IsWellFoundedOn(R, SUBSET S)
  BY FS_StrictSubsetOrderingWellFounded, FS_FiniteSubsetsOfFinite
<1>2. \A x, y \in SUBSET S : x \subseteq y /\ x # y => <<x, y>> \in R
  BY DEF StrictSubsetOrdering
<1> HIDE DEF R
<1>3. \E x \in B : \A y \in B : ~(<<y, x>> \in R)
  BY <1>1, WFMin, Zenon
<1> QED BY <1>2, <1>3

(* One step of a sum, and the equation of the function it is read from *)
Pick(s) == CHOOSE x \in s : TRUE
Part(f, g, s) == IF s = {} THEN 0 ELSE f[Pick(s)] + g[s \ {Pick(s)}]
IsIter(f, S, g) == g = [s \in SUBSET S |-> Part(f, g, s)]

(* The element that the sum takes next *)
LEMMA PickIn == ASSUME NEW s, s # {} PROVE Pick(s) \in s
BY DEF Pick

(* The recursive function that MapThenSumSet chooses exists. *)
LEMMA IterExists ==
  ASSUME NEW f, NEW S, IsFiniteSet(S)
  PROVE  \E g : g = [s \in SUBSET S |-> Part(f, g, s)]
<1> DEFINE Upto(n) == \E g : \A s \in SUBSET S : Cardinality(s) <= n => g[s] = Part(f, g, s)
           T == {n \in Nat : ~Upto(n)}
<1>0. \A s \in SUBSET S : IsFiniteSet(s) /\ Cardinality(s) \in Nat /\ Cardinality(s) <= Cardinality(S)
  BY FS_Subset, FS_CardinalityType
<1>1. Upto(0)
  <2>1. \A s \in SUBSET S : Cardinality(s) <= 0 => s = {}
    BY <1>0, FS_EmptySet
  <2>2. \A s \in SUBSET S : Cardinality(s) <= 0 => [x \in SUBSET S |-> 0][s] = Part(f, [x \in SUBSET S |-> 0], s)
    BY <2>1 DEF Part
  <2>. QED  BY <2>2
<1>2. ASSUME NEW n \in Nat, Upto(n) PROVE Upto(n + 1)
  <2>1. PICK g : \A s \in SUBSET S : Cardinality(s) <= n => g[s] = Part(f, g, s)
    BY <1>2
  <2> DEFINE h == [s \in SUBSET S |-> IF Cardinality(s) <= n THEN g[s] ELSE Part(f, g, s)]
  <2>2. ASSUME NEW s \in SUBSET S, Cardinality(s) <= n + 1, s # {}
        PROVE  h[s] = Part(f, h, s)
    <3>1. Pick(s) \in s /\ s \ {Pick(s)} \in SUBSET S
      BY <2>2, PickIn
    <3>2. Cardinality(s \ {Pick(s)}) = Cardinality(s) - 1
      BY <1>0, <3>1, FS_RemoveElement
    <3>3. Cardinality(s \ {Pick(s)}) <= n
      BY <1>0, <3>2, <2>2
    <3>4. h[s \ {Pick(s)}] = g[s \ {Pick(s)}]
      BY <3>1, <3>3
    <3>5. h[s] = Part(f, g, s)
      BY <2>1
    <3>. HIDE DEF h
    <3>. QED  BY <2>2, <3>4, <3>5 DEF Part
  <2>3. ASSUME NEW s \in SUBSET S, s = {}
        PROVE  h[s] = Part(f, h, s)
    <3>1. h[s] = Part(f, g, s)
      BY <2>1
    <3>. HIDE DEF h
    <3>. QED  BY <3>1, <2>3 DEF Part
  <2>. HIDE DEF h
  <2>. QED  BY <2>2, <2>3
<1>. HIDE DEF Upto
<1>3. \A n \in Nat : Upto(n)
  <2>. SUFFICES ASSUME T # {} PROVE FALSE
    OBVIOUS
  <2>1. PICK m \in T : \A k \in T : m <= k
    BY LeastElement
  <2>2. m # 0 /\ m - 1 \in Nat
    BY <1>1
  <2>3. Upto(m - 1)
    BY <2>1, <2>2
  <2>. QED  BY <1>2, <2>2, <2>3
<1>4. PICK g : \A s \in SUBSET S : Cardinality(s) <= Cardinality(S) => g[s] = Part(f, g, s)
  BY <1>3, FS_CardinalityType DEF Upto
<1> DEFINE h == [s \in SUBSET S |-> g[s]]
<1>5. ASSUME NEW s \in SUBSET S PROVE h[s] = Part(f, h, s)
  <2>1. h[s] = Part(f, g, s)
    BY <1>0, <1>4
  <2>2. s # {} => Pick(s) \in s
    BY PickIn
  <2>3. s # {} => h[s \ {Pick(s)}] = g[s \ {Pick(s)}]
    BY <2>2
  <2>. HIDE DEF h
  <2>. QED  BY <2>1, <2>3 DEF Part
<1>6. h = [s \in SUBSET S |-> Part(f, h, s)]
  BY <1>5
<1>. QED  BY <1>6

(* A sum is a value of that function. *)
LEMMA SumIsIter ==
  ASSUME NEW f, NEW S, IsFiniteSet(S)
  PROVE  \E g : IsIter(f, S, g) /\ SumOver(f, S) = g[S]
<1> DEFINE P(g) == g = [s \in SUBSET S |->
                          IF s = {} THEN 0
                          ELSE f[CHOOSE x \in s : TRUE] + g[s \ {CHOOSE x \in s : TRUE}]]
           it == CHOOSE g : P(g)
<1>1. SumOver(f, S) = it[S]
  BY DEF SumOver, MapThenSumSet, MapThenFoldSet
<1>2. \E g : P(g)
  <2>1. \E g : g = [s \in SUBSET S |-> Part(f, g, s)]
    BY IterExists
  <2>. QED  BY <2>1 DEF Part, Pick
<1>3. P(it)
  <2>. HIDE DEF P
  <2>. QED  BY <1>2, Zenon
<1>4. IsIter(f, S, it)
  <2>. HIDE DEF it
  <2>. QED  BY <1>3 DEF IsIter, Part, Pick
<1>. HIDE DEF it
<1>. QED  BY <1>1, <1>4

(* Nothing adds up to 0. *)
LEMMA SumEmpty == ASSUME NEW f PROVE SumOver(f, {}) = 0
<1>1. IsFiniteSet({})
  BY FS_EmptySet
<1>2. PICK g : IsIter(f, {}, g) /\ SumOver(f, {}) = g[{}]
  BY <1>1, SumIsIter
<1>3. g[{}] = Part(f, g, {})
  BY <1>2 DEF IsIter
<1>. QED  BY <1>2, <1>3 DEF Part

(* The function for a set and the one for a part of it agree on the part. *)
LEMMA IterAgree ==
  ASSUME NEW f, NEW S, IsFiniteSet(S), NEW T \in SUBSET S,
         NEW g, IsIter(f, S, g), NEW h, IsIter(f, T, h),
         NEW U \in SUBSET T
  PROVE  g[U] = h[U]
<1> DEFINE B == {s \in SUBSET T : g[s] # h[s]}
<1>. SUFFICES ASSUME B # {} PROVE FALSE
  OBVIOUS
<1>0. IsFiniteSet(T)
  BY FS_Subset
<1>1. PICK s \in B : \A u \in B : u \subseteq s => u = s
  <2>1. B \in SUBSET (SUBSET T)
    OBVIOUS
  <2>. HIDE DEF B
  <2>. QED  BY <1>0, <2>1, MinimalSubset
<1>2. g[s] = Part(f, g, s) /\ h[s] = Part(f, h, s)
  BY DEF IsIter
<1>3. s # {}
  BY <1>2 DEF Part
<1>4. Pick(s) \in s
  BY <1>3, PickIn
<1>5. s \ {Pick(s)} \notin B
  BY <1>1, <1>4
<1>6. g[s \ {Pick(s)}] = h[s \ {Pick(s)}]
  BY <1>5
<1>. QED  BY <1>2, <1>3, <1>6 DEF Part

(* The sum takes one element away at a time. *)
LEMMA SumPick ==
  ASSUME NEW f, NEW S, IsFiniteSet(S), S # {}
  PROVE  SumOver(f, S) = f[Pick(S)] + SumOver(f, S \ {Pick(S)})
<1> DEFINE T == S \ {Pick(S)}
<1>1. PICK g : IsIter(f, S, g) /\ SumOver(f, S) = g[S]
  BY SumIsIter
<1>2. IsFiniteSet(T) /\ T \in SUBSET S
  BY FS_Subset
<1>3. PICK h : IsIter(f, T, h) /\ SumOver(f, T) = h[T]
  BY <1>2, SumIsIter
<1>4. g[T] = h[T]
  <2>1. T \in SUBSET T
    OBVIOUS
  <2>. HIDE DEF T
  <2>. QED  BY <1>1, <1>2, <1>3, <2>1, IterAgree
<1>5. g[S] = Part(f, g, S)
  BY <1>1 DEF IsIter
<1>. HIDE DEF T
<1>6. Part(f, g, S) = f[Pick(S)] + g[T]
  BY DEF Part, T
<1>7. SumOver(f, S) = f[Pick(S)] + SumOver(f, T)
  BY <1>1, <1>3, <1>4, <1>5, <1>6
<1>. QED  BY <1>7 DEF T

(* A sum of integers is an integer. *)
LEMMA SumType ==
  ASSUME NEW S, IsFiniteSet(S), NEW f, \A x \in S : f[x] \in Int
  PROVE  SumOver(f, S) \in Int
<1> DEFINE B == {T \in SUBSET S : SumOver(f, T) \notin Int}
<1>. SUFFICES ASSUME B # {} PROVE FALSE
  OBVIOUS
<1>1. PICK T \in B : \A U \in B : U \subseteq T => U = T
  <2>1. B \in SUBSET (SUBSET S)
    OBVIOUS
  <2>. HIDE DEF B
  <2>. QED  BY <2>1, MinimalSubset
<1>2. IsFiniteSet(T) /\ T \in SUBSET S
  BY FS_Subset
<1>3. T # {}
  BY SumEmpty
<1>4. Pick(T) \in T /\ T \ {Pick(T)} \notin B
  BY <1>1, <1>3, PickIn
<1>5. SumOver(f, T) = f[Pick(T)] + SumOver(f, T \ {Pick(T)})
  BY <1>2, <1>3, SumPick
<1>. QED  BY <1>4, <1>5

(* The sum does not depend on the order in which elements are taken. *)
LEMMA SumRemove ==
  ASSUME NEW S, IsFiniteSet(S), NEW f, \A x \in S : f[x] \in Int, NEW z \in S
  PROVE  SumOver(f, S) = f[z] + SumOver(f, S \ {z})
<1> DEFINE B == {T \in SUBSET S : \E x \in T : SumOver(f, T) # f[x] + SumOver(f, T \ {x})}
<1>. SUFFICES ASSUME B # {} PROVE FALSE
  OBVIOUS
<1>1. PICK T \in B : \A U \in B : U \subseteq T => U = T
  <2>1. B \in SUBSET (SUBSET S)
    OBVIOUS
  <2>. HIDE DEF B
  <2>. QED  BY <2>1, MinimalSubset
<1>2. IsFiniteSet(T) /\ T \in SUBSET S
  BY FS_Subset
<1>3. PICK x \in T : SumOver(f, T) # f[x] + SumOver(f, T \ {x})
  OBVIOUS
<1> DEFINE p == Pick(T)
<1>4. p \in T /\ SumOver(f, T) = f[p] + SumOver(f, T \ {p})
  BY <1>2, <1>3, PickIn, SumPick
<1>. HIDE DEF p
<1>5. x # p
  BY <1>3, <1>4
<1>6. T \ {p} \notin B /\ T \ {x} \notin B
  BY <1>1, <1>4
<1>7. SumOver(f, T \ {p}) = f[x] + SumOver(f, (T \ {p}) \ {x})
  BY <1>2, <1>5, <1>6
<1>8. SumOver(f, T \ {x}) = f[p] + SumOver(f, (T \ {x}) \ {p})
  BY <1>2, <1>4, <1>5, <1>6
<1>9. (T \ {p}) \ {x} = (T \ {x}) \ {p}
  OBVIOUS
<1>10. f[x] \in Int /\ f[p] \in Int /\ SumOver(f, (T \ {p}) \ {x}) \in Int
  <2> DEFINE U == (T \ {p}) \ {x}
  <2>1. U \subseteq T /\ \A y \in U : f[y] \in Int
    BY <1>2
  <2>2. IsFiniteSet(U)
    BY <1>2, <2>1, FS_Subset
  <2>3. f[x] \in Int /\ f[p] \in Int
    BY <1>2, <1>4
  <2>. HIDE DEF U
  <2>4. SumOver(f, U) \in Int
    BY <2>1, <2>2, SumType
  <2>. QED  BY <2>3, <2>4 DEF U
<1>11. SumOver(f, T \ {x}) = f[p] + SumOver(f, (T \ {p}) \ {x})
  BY <1>8, <1>9
<1>12. \A a, b, c \in Int : b + (a + c) = a + (b + c)
  OBVIOUS
<1>13. SumOver(f, T) = f[x] + SumOver(f, T \ {x})
  <2>. HIDE DEF B
  <2>. QED  BY <1>4, <1>7, <1>10, <1>11, <1>12
<1>. QED  BY <1>3, <1>13

(* Functions that agree on a set have the same sum over it. *)
LEMMA SumExtensional ==
  ASSUME NEW S, IsFiniteSet(S), NEW f, NEW g, \A x \in S : f[x] = g[x]
  PROVE  SumOver(f, S) = SumOver(g, S)
<1> DEFINE B == {T \in SUBSET S : SumOver(f, T) # SumOver(g, T)}
<1>. SUFFICES ASSUME B # {} PROVE FALSE
  OBVIOUS
<1>1. PICK T \in B : \A U \in B : U \subseteq T => U = T
  <2>1. B \in SUBSET (SUBSET S)
    OBVIOUS
  <2>. HIDE DEF B
  <2>. QED  BY <2>1, MinimalSubset
<1>2. IsFiniteSet(T) /\ T \in SUBSET S
  BY FS_Subset
<1>3. T # {}
  BY SumEmpty
<1>4. Pick(T) \in T /\ T \ {Pick(T)} \notin B
  BY <1>1, <1>3, PickIn
<1>5. /\ SumOver(f, T) = f[Pick(T)] + SumOver(f, T \ {Pick(T)})
      /\ SumOver(g, T) = g[Pick(T)] + SumOver(g, T \ {Pick(T)})
  BY <1>2, <1>3, SumPick
<1>. QED  BY <1>4, <1>5

(* A sum of zeros is zero. *)
LEMMA SumZero ==
  ASSUME NEW S, IsFiniteSet(S), NEW f, \A x \in S : f[x] = 0
  PROVE  SumOver(f, S) = 0
<1> DEFINE B == {T \in SUBSET S : SumOver(f, T) # 0}
<1>. SUFFICES ASSUME B # {} PROVE FALSE
  OBVIOUS
<1>1. PICK T \in B : \A U \in B : U \subseteq T => U = T
  <2>1. B \in SUBSET (SUBSET S)
    OBVIOUS
  <2>. HIDE DEF B
  <2>. QED  BY <2>1, MinimalSubset
<1>2. IsFiniteSet(T) /\ T \in SUBSET S
  BY FS_Subset
<1>3. T # {}
  BY SumEmpty
<1>4. Pick(T) \in T /\ T \ {Pick(T)} \notin B
  BY <1>1, <1>3, PickIn
<1>5. SumOver(f, T) = f[Pick(T)] + SumOver(f, T \ {Pick(T)})
  BY <1>2, <1>3, SumPick
<1>. QED  BY <1>4, <1>5

(* A sum of ones counts. *)
LEMMA SumOnes ==
  ASSUME NEW S, IsFiniteSet(S), NEW f, \A x \in S : f[x] = 1
  PROVE  SumOver(f, S) = Cardinality(S)
<1> DEFINE B == {T \in SUBSET S : SumOver(f, T) # Cardinality(T)}
<1>. SUFFICES ASSUME B # {} PROVE FALSE
  OBVIOUS
<1>1. PICK T \in B : \A U \in B : U \subseteq T => U = T
  <2>1. B \in SUBSET (SUBSET S)
    OBVIOUS
  <2>. HIDE DEF B
  <2>. QED  BY <2>1, MinimalSubset
<1>2. IsFiniteSet(T) /\ T \in SUBSET S
  BY FS_Subset
<1>3. T # {}
  BY SumEmpty, FS_EmptySet
<1>4. Pick(T) \in T /\ T \ {Pick(T)} \notin B
  BY <1>1, <1>3, PickIn
<1>5. SumOver(f, T) = f[Pick(T)] + SumOver(f, T \ {Pick(T)})
  BY <1>2, <1>3, SumPick
<1>6. Cardinality(T) \in Nat /\ Cardinality(T \ {Pick(T)}) = Cardinality(T) - 1
  BY <1>2, <1>4, FS_RemoveElement, FS_CardinalityType
<1>. QED  BY <1>4, <1>5, <1>6

(* A sum of natural numbers is zero only when all of them are. *)
LEMMA SumPositive ==
  ASSUME NEW S, IsFiniteSet(S), NEW f, \A x \in S : f[x] \in Nat
  PROVE  /\ SumOver(f, S) \in Nat
         /\ \A x \in S : SumOver(f, S) >= f[x]
<1> DEFINE B == {T \in SUBSET S : ~(SumOver(f, T) \in Nat /\ \A x \in T : SumOver(f, T) >= f[x])}
<1>. SUFFICES ASSUME B # {} PROVE FALSE
  OBVIOUS
<1>1. PICK T \in B : \A U \in B : U \subseteq T => U = T
  <2>1. B \in SUBSET (SUBSET S)
    OBVIOUS
  <2>. HIDE DEF B
  <2>. QED  BY <2>1, MinimalSubset
<1>2. IsFiniteSet(T) /\ T \in SUBSET S
  BY FS_Subset
<1>3. T # {}
  BY SumEmpty
<1>4. Pick(T) \in T
  BY <1>3, PickIn
<1>5. ASSUME NEW x \in T PROVE SumOver(f, T) \in Nat /\ SumOver(f, T) >= f[x]
  <2>1. T \ {x} \notin B
    BY <1>1
  <2>2. SumOver(f, T) = f[x] + SumOver(f, T \ {x})
    BY <1>2, SumRemove
  <2>3. SumOver(f, T \ {x}) \in Nat /\ f[x] \in Nat
    BY <1>2, <2>1
  <2>. QED  BY <2>2, <2>3
<1>. QED  BY <1>4, <1>5

(* A sum with one term that may differ from zero is that term. *)
LEMMA SumSingle ==
  ASSUME NEW S, IsFiniteSet(S), NEW f, NEW z \in S, f[z] \in Int,
         \A x \in S \ {z} : f[x] = 0
  PROVE  SumOver(f, S) = f[z]
<1>1. \A x \in S : f[x] \in Int
  OBVIOUS
<1>2. SumOver(f, S) = f[z] + SumOver(f, S \ {z})
  BY <1>1, SumRemove
<1>3. SumOver(f, S \ {z}) = 0
  BY FS_Subset, SumZero
<1>. QED  BY <1>2, <1>3

-----------------------------------------------------------------------------
(* Reduction ends in the field and keeps what is there. *)
LEMMA ModIsField ==
  /\ \A x \in Int : x % FIELD_MODULUS \in Field
  /\ \A x \in Field : x % FIELD_MODULUS = x
  /\ Field \subseteq Nat
BY DEF Field, FIELD_MODULUS

(* Reducing twice is reducing once. *)
LEMMA ModTwice ==
  ASSUME NEW x \in Int
  PROVE  /\ x % FIELD_MODULUS \in Field /\ x % FIELD_MODULUS \in Int
         /\ (x % FIELD_MODULUS) % FIELD_MODULUS = x % FIELD_MODULUS
<1> DEFINE y == x % FIELD_MODULUS
<1>1. y \in Field
  BY ModIsField
<1>. HIDE DEF y
<1>2. y \in Int /\ y % FIELD_MODULUS = y
  BY <1>1, ModIsField
<1>. QED  BY <1>1, <1>2 DEF y

(* Multiples of the modulus vanish. *)
LEMMA ModShift ==
  ASSUME NEW x \in Int, NEW q \in Int
  PROVE  (x + 3329 * q) % 3329 = x % 3329
BY SMT

(* A factor may be reduced first. *)
LEMMA ModTimes ==
  ASSUME NEW x \in Int, NEW y \in Int
  PROVE  ((x % FIELD_MODULUS) * y) % FIELD_MODULUS = (x * y) % FIELD_MODULUS
<1>1. PICK q \in Int : x = (x % 3329) + 3329 * q
  BY SMT
<1> DEFINE r == x % 3329
<1>2. r \in Int
  BY SMT
<1>. HIDE DEF r
<1>3. x * y = (r + 3329 * q) * y
  BY <1>1 DEF r
<1>4. (r + 3329 * q) * y = r * y + 3329 * (q * y)
  BY <1>2, SMT
<1>5. r * y \in Int /\ q * y \in Int
  BY <1>2, SMT
<1>6. (x * y) % 3329 = (r * y) % 3329
  BY <1>3, <1>4, <1>5, ModShift
<1>. QED  BY <1>6 DEF r, FIELD_MODULUS

(* An inverse is a field element. *)
LEMMA InvType ==
  ASSUME NEW x \in Int
  PROVE  inv(x) \in Field
BY ModIsField, PowerInverts DEF inv

(* Multiplying by the inverse of t, then by t, changes nothing: what the   *)
(* servers divide by comes back.                                           *)
LEMMA InvCancels ==
  ASSUME NEW w \in Int, NEW t \in Int, t % FIELD_MODULUS # 0
  PROVE  ((((w % FIELD_MODULUS) * inv(t)) % FIELD_MODULUS)
            * (t % FIELD_MODULUS)) % FIELD_MODULUS = w % FIELD_MODULUS
<1> DEFINE a == w % FIELD_MODULUS
           b == t % FIELD_MODULUS
           i == inv(t)
<1>1. a \in Field /\ b \in Field /\ i \in Field /\ Field \subseteq Int /\ FIELD_MODULUS \in Int
  BY ModIsField, InvType DEF FIELD_MODULUS
<1>2. (b * i) % FIELD_MODULUS = 1
  BY <1>1, PowerInverts DEF inv
<1>. HIDE DEF a, b, i
<1>3. a \in Int /\ b \in Int /\ i \in Int /\ a * i \in Int /\ b * i \in Int
  BY <1>1, SMT
<1>4. (((a * i) % FIELD_MODULUS) * b) % FIELD_MODULUS = ((a * i) * b) % FIELD_MODULUS
  BY <1>3, ModTimes
<1>5. (a * i) * b = (b * i) * a
  BY <1>3, SMT
<1>6. ((b * i) * a) % FIELD_MODULUS = (((b * i) % FIELD_MODULUS) * a) % FIELD_MODULUS
  BY <1>3, ModTimes
<1>7. (1 * a) % FIELD_MODULUS = a
  BY <1>1, <1>3, ModIsField
<1>. QED  BY <1>2, <1>4, <1>5, <1>6, <1>7 DEF a, b, i

(* What division leaves *)
LEMMA DivBounds ==
  ASSUME NEW a \in Nat, NEW c \in Nat, c > 0
  PROVE  /\ a \div c \in Nat
         /\ c * (a \div c) <= a /\ a < c * (a \div c) + c
         /\ a % c = 0 => a = c * (a \div c)
<1>1. a \div c \in Int
  BY SMT
<1>2. a \div c >= 0
  BY SMT
<1>3. c * (a \div c) <= a
  BY SMT
<1>4. a < c * (a \div c) + c
  BY SMT
<1>5. a % c = a - c * (a \div c)
  BY SMT
<1> DEFINE x == c * (a \div c)
<1>6. x \in Int
  BY <1>1
<1>. HIDE DEF x
<1>7. a % c = 0 => a = x
  BY <1>5, <1>6 DEF x
<1>. QED  BY <1>1, <1>2, <1>3, <1>4, <1>7 DEF x

(* The next multiple is a whole step away. *)
LEMMA LessThenMultiple ==
  ASSUME NEW c \in Nat, NEW p \in Nat, NEW q \in Nat, p < q
  PROVE  c * p + c <= c * q
<1>1. PICK d \in Nat : q = p + 1 + d
  <2>1. q - p - 1 \in Nat /\ q = p + 1 + (q - p - 1)
    OBVIOUS
  <2>. QED  BY <2>1
<1>2. c * (p + 1 + d) = c * p + c + c * d
  BY SMT
<1> DEFINE x == c * p
           y == c * d
<1>3. x \in Int /\ y \in Nat
  BY SMT
<1>. HIDE DEF x, y
<1>4. c * q = x + c + y
  BY <1>1, <1>2 DEF x, y
<1>5. x + c <= x + c + y
  BY <1>3
<1>. QED  BY <1>4, <1>5 DEF x

(* Leaving out terms makes no sum of natural numbers larger. *)
LEMMA SumMonotone ==
  ASSUME NEW S, IsFiniteSet(S), NEW f, \A x \in S : f[x] \in Nat, NEW T \in SUBSET S
  PROVE  SumOver(f, T) <= SumOver(f, S)
<1> DEFINE B == {U \in SUBSET S : T \subseteq U /\ ~(SumOver(f, T) <= SumOver(f, U))}
<1>. SUFFICES ASSUME B # {} PROVE FALSE
  <2>1. S \in B \/ SumOver(f, T) <= SumOver(f, S)
    OBVIOUS
  <2>. QED  BY <2>1
<1>1. PICK U \in B : \A V \in B : V \subseteq U => V = U
  <2>1. B \in SUBSET (SUBSET S)
    OBVIOUS
  <2>. HIDE DEF B
  <2>. QED  BY <2>1, MinimalSubset
<1>2. U \in SUBSET S /\ T \subseteq U /\ ~(SumOver(f, T) <= SumOver(f, U))
  OBVIOUS
<1>3. IsFiniteSet(U) /\ IsFiniteSet(T)
  BY FS_Subset
<1>4. SumOver(f, T) \in Nat /\ SumOver(f, U) \in Nat
  BY <1>2, <1>3, SumPositive
<1>5. PICK z \in U : z \notin T
  BY <1>2, <1>4
<1> DEFINE V == U \ {z}
<1>6. V \in SUBSET S /\ T \subseteq V /\ V \subseteq U /\ V # U
  BY <1>2, <1>5
<1>7. SumOver(f, T) <= SumOver(f, V)
  BY <1>1, <1>6
<1>8. SumOver(f, U) = f[z] + SumOver(f, V)
  <2>1. \A x \in U : f[x] \in Int
    BY <1>2
  <2>. QED  BY <1>3, <2>1, SumRemove
<1>9. SumOver(f, V) \in Nat /\ f[z] \in Nat
  <2>1. IsFiniteSet(V)
    BY <1>6, FS_Subset
  <2>. QED  BY <1>2, <1>6, <2>1, SumPositive
<1>. HIDE DEF V, B
<1>. QED  BY <1>2, <1>4, <1>7, <1>8, <1>9

(* A sum of different values may be taken over the values. *)
LEMMA SumImage ==
  ASSUME NEW S, IsFiniteSet(S), NEW f, \A x \in S : f[x] \in Int,
         \A x, y \in S : f[x] = f[y] => x = y
  PROVE  SumOver([n \in {f[x] : x \in S} |-> n], {f[x] : x \in S}) = SumOver(f, S)
<1> DEFINE Im(T) == {f[x] : x \in T}
           g == [n \in Im(S) |-> n]
           B == {T \in SUBSET S : SumOver(g, Im(T)) # SumOver(f, T)}
<1>1. \A n \in Im(S) : g[n] = n
  OBVIOUS
<1>2. \A T \in SUBSET S : IsFiniteSet(T) /\ IsFiniteSet(Im(T))
  <2>1. ASSUME NEW T \in SUBSET S PROVE IsFiniteSet(T) /\ IsFiniteSet(Im(T))
    <3>1. IsFiniteSet(T)
      BY FS_Subset
    <3> DEFINE h == [x \in T |-> f[x]]
    <3>2. h \in Surjection(T, Im(T))
      BY DEF Surjection
    <3>. QED  BY <3>1, <3>2, FS_Surjection
  <2>. QED  BY <2>1
<1>. HIDE DEF g
<1>3. SUFFICES ASSUME B # {} PROVE FALSE
  <2>1. SumOver(g, Im(S)) = SumOver(f, S)
    BY <1>3
  <2>. QED  BY <2>1 DEF g
<1>4. PICK T \in B : \A U \in B : U \subseteq T => U = T
  <2>1. B \in SUBSET (SUBSET S)
    OBVIOUS
  <2>. HIDE DEF B
  <2>. QED  BY <1>3, <2>1, MinimalSubset
<1>5. T \in SUBSET S /\ SumOver(g, Im(T)) # SumOver(f, T)
  OBVIOUS
<1>6. T # {}
  <2>1. Im({}) = {}
    OBVIOUS
  <2>. QED  BY <1>5, <2>1, SumEmpty
<1>7. PICK z : z \in T
  BY <1>6
<1> DEFINE U == T \ {z}
<1>8. U \in SUBSET S /\ U \subseteq T /\ U # T
  BY <1>5, <1>7
<1>9. SumOver(g, Im(U)) = SumOver(f, U)
  BY <1>4, <1>8
<1>10. SumOver(f, T) = f[z] + SumOver(f, U)
  <2>1. \A x \in T : f[x] \in Int
    BY <1>5
  <2>. QED  BY <1>2, <1>5, <1>7, <2>1, SumRemove
<1>11. SumOver(g, Im(T)) = f[z] + SumOver(g, Im(U))
  <2>1. f[z] \in Im(T) /\ Im(T) \subseteq Im(S)
    BY <1>5, <1>7
  <2>2. Im(T) \ {f[z]} = Im(U)
    BY <1>5, <1>7
  <2>3. \A n \in Im(T) : g[n] \in Int
    BY <1>1, <1>5, <2>1
  <2>4. g[f[z]] = f[z]
    BY <1>1, <2>1
  <2>5. IsFiniteSet(Im(T))
    BY <1>2, <1>5
  <2>. HIDE DEF Im, U
  <2>6. SumOver(g, Im(T)) = g[f[z]] + SumOver(g, Im(T) \ {f[z]})
    BY <2>1, <2>3, <2>5, SumRemove
  <2>. QED  BY <2>2, <2>4, <2>6
<1>. QED  BY <1>5, <1>9, <1>10, <1>11

-----------------------------------------------------------------------------
(* Congruence modulo the field's order *)
Cong(a, b) == a % FIELD_MODULUS = b % FIELD_MODULUS

LEMMA CongSame ==
  /\ \A a : Cong(a, a)
  /\ \A a, b : Cong(a, b) => Cong(b, a)
  /\ \A a, b, c : Cong(a, b) /\ Cong(b, c) => Cong(a, c)
BY Zenon DEF Cong

LEMMA CongAdd ==
  ASSUME NEW a \in Int, NEW b \in Int, NEW c \in Int, NEW d \in Int, Cong(a, b), Cong(c, d)
  PROVE  Cong(a + c, b + d)
BY SMT DEF Cong, FIELD_MODULUS

LEMMA CongMul ==
  ASSUME NEW a \in Int, NEW b \in Int, NEW c \in Int, Cong(a, b)
  PROVE  Cong(a * c, b * c) /\ Cong(c * a, c * b)
<1>1. Cong(a * c, b * c)
  <2>1. /\ ((a % FIELD_MODULUS) * c) % FIELD_MODULUS = (a * c) % FIELD_MODULUS
        /\ ((b % FIELD_MODULUS) * c) % FIELD_MODULUS = (b * c) % FIELD_MODULUS
    BY ModTimes
  <2>. QED  BY <2>1, Zenon DEF Cong
<1>2. a * c = c * a /\ b * c = c * b
  BY SMT
<1>. QED  BY <1>1, <1>2

LEMMA CongMod ==
  ASSUME NEW a \in Int
  PROVE  a % FIELD_MODULUS \in Int /\ Cong(a % FIELD_MODULUS, a)
BY ModTwice DEF Cong

LEMMA CongInField ==
  ASSUME NEW a \in Field, NEW b \in Field, Cong(a, b)
  PROVE  a = b
BY ModIsField DEF Cong

(* The inverse of a number that is not congruent to zero *)
LEMMA CongInverse ==
  ASSUME NEW a \in Int, ~Cong(a, 0)
  PROVE  inv(a) \in Int /\ Cong(a * inv(a), 1)
<1> DEFINE b == a % FIELD_MODULUS
           i == inv(a)
<1>1. b \in Field /\ i \in Field /\ Field \subseteq Int
  BY ModIsField, InvType
<1>2. b # 0 /\ 0 % FIELD_MODULUS = 0 /\ 1 % FIELD_MODULUS = 1
  <2>1. 0 % FIELD_MODULUS = 0 /\ 1 % FIELD_MODULUS = 1
    BY DEF FIELD_MODULUS
  <2>. QED  BY <2>1 DEF Cong
<1>3. (b * i) % FIELD_MODULUS = 1
  BY <1>1, <1>2, PowerInverts DEF inv
<1>4. (b * i) % FIELD_MODULUS = (a * i) % FIELD_MODULUS
  <2>. HIDE DEF i
  <2>. QED  BY <1>1, ModTimes
<1>. QED  BY <1>1, <1>2, <1>3, <1>4 DEF Cong

(* There are no divisors of zero. *)
LEMMA CongCancel ==
  ASSUME NEW a \in Int, NEW b \in Int, ~Cong(a, 0), Cong(a * b, 0)
  PROVE  Cong(b, 0)
<1>1. PICK i \in Int : Cong(a * i, 1)
  BY CongInverse
<1>2. a * b \in Int /\ a * i \in Int /\ 0 \in Int /\ 1 \in Int
  BY SMT
<1>3. Cong((a * i) * b, 1 * b)
  BY <1>1, <1>2, CongMul, Zenon
<1>4. Cong((a * b) * i, 0 * i)
  BY <1>2, CongMul, Zenon
<1>5. (a * i) * b = (a * b) * i /\ 1 * b = b /\ 0 * i = 0
  BY SMT
<1>. QED  BY <1>3, <1>4, <1>5, CongSame

(* Different field elements are not congruent. *)
LEMMA CongApart ==
  ASSUME NEW a \in Field, NEW b \in Field, a # b
  PROVE  a - b \in Int /\ ~Cong(a - b, 0)
<1>1. a \in Int /\ b \in Int /\ 0 <= a /\ a < 3329 /\ 0 <= b /\ b < 3329
  BY DEF Field, FIELD_MODULUS
<1>2. PICK d \in Int : d = a - b /\ d # 0 /\ d < 3329 /\ -3329 < d
  BY <1>1
<1>3. d % 3329 # 0
  BY <1>2, SMT
<1>. QED  BY <1>2, <1>3, SMT DEF Cong, FIELD_MODULUS

-----------------------------------------------------------------------------
(* Sums of congruent terms are congruent. *)
LEMMA SumCong ==
  ASSUME NEW S, IsFiniteSet(S), NEW f, NEW g,
         \A x \in S : f[x] \in Int /\ g[x] \in Int /\ Cong(f[x], g[x])
  PROVE  Cong(SumOver(f, S), SumOver(g, S))
<1> DEFINE B == {T \in SUBSET S : ~Cong(SumOver(f, T), SumOver(g, T))}
<1>. SUFFICES ASSUME B # {} PROVE FALSE
  OBVIOUS
<1>1. PICK T \in B : \A U \in B : U \subseteq T => U = T
  <2>1. B \in SUBSET (SUBSET S)
    OBVIOUS
  <2>. HIDE DEF B
  <2>. QED  BY <2>1, MinimalSubset
<1>2. IsFiniteSet(T) /\ T \in SUBSET S
  BY FS_Subset
<1>3. T # {}
  BY SumEmpty, CongSame
<1> DEFINE z == Pick(T)
           U == T \ {z}
<1>4. z \in T /\ U \notin B /\ U \in SUBSET S /\ IsFiniteSet(U)
  BY <1>1, <1>2, <1>3, PickIn, FS_Subset
<1>5. SumOver(f, T) = f[z] + SumOver(f, U) /\ SumOver(g, T) = g[z] + SumOver(g, U)
  BY <1>2, <1>3, SumPick
<1>6. Cong(SumOver(f, U), SumOver(g, U)) /\ ~Cong(SumOver(f, T), SumOver(g, T))
  BY <1>4
<1>. HIDE DEF B, z, U
<1>7. SumOver(f, U) \in Int /\ SumOver(g, U) \in Int /\ f[z] \in Int /\ g[z] \in Int /\ Cong(f[z], g[z])
  BY <1>2, <1>4, SumType
<1>8. Cong(f[z] + SumOver(f, U), g[z] + SumOver(g, U))
  BY <1>6, <1>7, CongAdd
<1>. QED  BY <1>5, <1>6, <1>8

(* Sums are linear. *)
LEMMA SumLinear ==
  ASSUME NEW S, IsFiniteSet(S), NEW f, NEW g, NEW h, NEW c \in Int,
         \A x \in S : f[x] \in Int /\ g[x] \in Int /\ h[x] = f[x] + c * g[x]
  PROVE  SumOver(h, S) = SumOver(f, S) + c * SumOver(g, S)
<1> DEFINE B == {T \in SUBSET S : SumOver(h, T) # SumOver(f, T) + c * SumOver(g, T)}
<1>. SUFFICES ASSUME B # {} PROVE FALSE
  OBVIOUS
<1>1. PICK T \in B : \A U \in B : U \subseteq T => U = T
  <2>1. B \in SUBSET (SUBSET S)
    OBVIOUS
  <2>. HIDE DEF B
  <2>. QED  BY <2>1, MinimalSubset
<1>2. IsFiniteSet(T) /\ T \in SUBSET S
  BY FS_Subset
<1>3. T # {}
  <2>1. SumOver(h, {}) = 0 /\ SumOver(f, {}) = 0 /\ SumOver(g, {}) = 0 /\ 0 = 0 + c * 0
    BY SumEmpty
  <2>. QED  BY <1>1, <2>1
<1> DEFINE z == Pick(T)
           U == T \ {z}
<1>4. z \in T /\ U \notin B /\ U \in SUBSET S /\ IsFiniteSet(U)
  BY <1>1, <1>2, <1>3, PickIn, FS_Subset
<1>5. /\ SumOver(f, T) = f[z] + SumOver(f, U) /\ SumOver(g, T) = g[z] + SumOver(g, U)
      /\ SumOver(h, T) = h[z] + SumOver(h, U)
  BY <1>2, <1>3, SumPick
<1>6. /\ SumOver(h, U) = SumOver(f, U) + c * SumOver(g, U)
      /\ SumOver(h, T) # SumOver(f, T) + c * SumOver(g, T)
  BY <1>4
<1>. HIDE DEF B, z, U
<1>7. SumOver(f, U) \in Int /\ SumOver(g, U) \in Int /\ f[z] \in Int /\ g[z] \in Int /\ h[z] = f[z] + c * g[z]
  BY <1>2, <1>4, SumType
<1>8. ASSUME NEW a \in Int, NEW b \in Int, NEW p \in Int, NEW q \in Int
      PROVE  (a + c * b) + (p + c * q) = (a + p) + c * (b + q)
  BY SMT
<1>9. (f[z] + c * g[z]) + (SumOver(f, U) + c * SumOver(g, U))
        = (f[z] + SumOver(f, U)) + c * (g[z] + SumOver(g, U))
  BY <1>7, <1>8
<1>. QED  BY <1>5, <1>6, <1>7, <1>9

-----------------------------------------------------------------------------
(* Functions defined by recursion over 0..n, from b by steps of F          *)
StepFcns(n, D) == [(1..n) \X D -> D]

Recursion(n, D, b, F, g) ==
  /\ g \in [0..n -> D]
  /\ g[0] = b /\ \A i \in 1..n : g[i] = F[<<i, g[i - 1]>>]

(* They exist when every step from a value of D leads to a value of D,     *)
LEMMA RecursionExists ==
  ASSUME NEW n \in Nat, NEW D, NEW b \in D, NEW F \in StepFcns(n, D)
  PROVE  \E g : Recursion(n, D, b, F, g)
<1>. USE DEF StepFcns, Recursion
<1> DEFINE Good(m, g) == g[0] = b /\ \A i \in 1..m : g[i] = F[<<i, g[i - 1]>>]
           B == {m \in 0..n : ~\E g \in [0..m -> D] : Good(m, g)}
<1>. HIDE DEF Good
<1>0. B = {} => \E g \in [0..n -> D] : Good(n, g)
  <2>1. n \in 0..n
    OBVIOUS
  <2>. QED  BY <2>1
<1>. USE DEF Good
<1>. SUFFICES ASSUME B # {} PROVE FALSE
  BY <1>0
<1>1. PICK m \in B : \A k \in B : m <= k
  <2>1. B \in SUBSET Nat
    OBVIOUS
  <2>. HIDE DEF B
  <2>. QED  BY <2>1, LeastElement
<1>2. m \in 0..n /\ ~\E g \in [0..m -> D] : Good(m, g)
  OBVIOUS
<1>3. m # 0
  <2>1. [i \in 0..0 |-> b] \in [0..0 -> D] /\ Good(0, [i \in 0..0 |-> b])
    OBVIOUS
  <2>. QED  BY <1>2, <2>1
<1>4. PICK g \in [0..(m - 1) -> D] : Good(m - 1, g)
  <2>1. m - 1 \in 0..n /\ ~(m <= m - 1)
    BY <1>2, <1>3
  <2>2. m - 1 \notin B
    BY <1>1, <2>1
  <2>. QED  BY <2>1, <2>2
<1>5. m \in 1..n /\ m - 1 \in 0..(m - 1) /\ 0 \in 0..(m - 1)
  BY <1>2, <1>3
<1>6. F[<<m, g[m - 1]>>] \in D
  BY <1>5
<1> DEFINE h == [i \in 0..m |-> IF i = m THEN F[<<m, g[m - 1]>>] ELSE g[i]]
<1>7. \A i \in 0..(m - 1) : i \in 0..m /\ i # m /\ h[i] = g[i]
  BY <1>2
<1>8. h[m] = F[<<m, g[m - 1]>>]
  BY <1>2
<1>9. h \in [0..m -> D]
  BY <1>2, <1>6
<1>. HIDE DEF h
<1>10. h[0] = b
  BY <1>4, <1>5, <1>7
<1>11. ASSUME NEW i \in 1..m PROVE h[i] = F[<<i, h[i - 1]>>]
  <2>1. i - 1 \in 0..(m - 1) /\ h[i - 1] = g[i - 1]
    BY <1>2, <1>7
  <2>2. CASE i = m
    BY <1>8, <2>1, <2>2
  <2>3. CASE i # m
    <3>1. i \in 1..(m - 1) /\ i \in 0..(m - 1)
      BY <1>2, <2>3
    <3>. QED  BY <1>4, <1>7, <2>1, <3>1
  <2>. QED  BY <2>2, <2>3
<1>. QED  BY <1>2, <1>9, <1>10, <1>11

(* and then all their values are in D. *)
LEMMA RecursionType ==
  ASSUME NEW n \in Nat, NEW D, NEW g, g[0] \in D,
         \A i \in 1..n : g[i - 1] \in D => g[i] \in D
  PROVE  \A i \in 0..n : g[i] \in D
<1> DEFINE B == {m \in 0..n : g[m] \notin D}
<1>. SUFFICES ASSUME B # {} PROVE FALSE
  OBVIOUS
<1>1. PICK m \in B : \A k \in B : m <= k
  <2>1. B \in SUBSET Nat
    OBVIOUS
  <2>. HIDE DEF B
  <2>. QED  BY <2>1, LeastElement
<1>2. m \in 1..n /\ m - 1 \in 0..n /\ ~(m <= m - 1)
  BY <1>1
<1>3. g[m - 1] \in D
  BY <1>1, <1>2
<1>. QED  BY <1>1, <1>2, <1>3

-----------------------------------------------------------------------------
(* The product of y - r over the elements r of a set, for all sets of      *)
(* field elements at once                                                  *)
IsFactor(y, pr) ==
  /\ pr \in [SUBSET Field -> Field]
  /\ pr[{}] = 1
  /\ \A S \in SUBSET Field, r \in Field :
       r \notin S => Cong(pr[S \cup {r}], pr[S] * (y - r))

LEMMA FactorExists ==
  ASSUME NEW y \in Field
  PROVE  \E pr : IsFactor(y, pr)
<1> DEFINE n == FIELD_MODULUS
           D == [SUBSET Field -> Field]
           base == [S \in SUBSET Field |-> 1]
           step(k, d) == [S \in SUBSET Field |-> IF k - 1 \in S
                            THEN (d[S] * (y - (k - 1))) % FIELD_MODULUS ELSE d[S]]
           F == [p \in (1..n) \X D |-> step(p[1], p[2])]
<1>1. n \in Nat /\ 1 \in Field /\ y \in Int
  BY DEF Field, FIELD_MODULUS
<1>2. \A x \in Field : x \in Int /\ 0 <= x /\ x < n
  BY DEF Field, FIELD_MODULUS
<1>. HIDE DEF n
<1>3. base \in D
  BY <1>1
<1>4. ASSUME NEW k \in 1..n, NEW d \in D PROVE step(k, d) \in D
  <2>1. ASSUME NEW S \in SUBSET Field PROVE (d[S] * (y - (k - 1))) % FIELD_MODULUS \in Field
    <3>1. d[S] \in Int
      BY <1>2
    <3>2. y - (k - 1) \in Int
      BY <1>1
    <3>3. d[S] * (y - (k - 1)) \in Int
      BY <3>1, <3>2
    <3>. QED  BY <3>3, ModIsField
  <2>. QED  BY <2>1
<1>. HIDE DEF D, base, step
<1>5. F \in StepFcns(n, D)
  BY <1>4 DEF StepFcns
<1>6. PICK g : Recursion(n, D, base, F, g)
  <2>. HIDE DEF F
  <2>. QED  BY <1>1, <1>3, <1>5, RecursionExists, Zenon
<1>7. ASSUME NEW k \in 1..n
      PROVE  /\ k - 1 \in 0..n /\ g[k - 1] \in D /\ g[k] \in D
             /\ g[k] = step(k, g[k - 1])
  <2>1. k - 1 \in 0..n /\ k \in 0..n
    BY <1>1
  <2>2. g[k - 1] \in D /\ g[k] \in D /\ g[k] = F[<<k, g[k - 1]>>]
    <3>. HIDE DEF F
    <3>. QED  BY <1>6, <2>1 DEF Recursion
  <2>. QED  BY <2>1, <2>2
<1>8. g[0] = base
  BY <1>6 DEF Recursion
<1> DEFINE Rest(k, r, S) == IF r < k THEN g[k][S] * (y - r) ELSE g[k][S]
           Good(k) == /\ g[k][{}] = 1
                      /\ \A S \in SUBSET Field, r \in Field :
                           r \notin S => Cong(g[k][S \cup {r}], Rest(k, r, S))
           B == {k \in 0..n : ~Good(k)}
<1>. HIDE DEF F
<1>9. Good(0)
  <2>1. \A S \in SUBSET Field : g[0][S] = 1
    BY <1>8 DEF base
  <2>2. \A r \in Field : ~(r < 0)
    BY <1>2
  <2>3. ASSUME NEW S \in SUBSET Field, NEW r \in Field
        PROVE  Cong(g[0][S \cup {r}], Rest(0, r, S))
    BY <2>1, <2>2, CongSame
  <2>. QED  BY <2>1, <2>3
<1>10. ASSUME NEW k \in 1..n, Good(k - 1) PROVE Good(k)
  <2> DEFINE m == k - 1
             e == y - m
  <2>1. m \in Int /\ e \in Int /\ k = m + 1 /\ g[m] \in D
    BY <1>1, <1>7
  <2>2. ASSUME NEW S \in SUBSET Field
        PROVE  /\ g[m][S] \in Int /\ g[k][S] \in Int
               /\ m \in S => Cong(g[k][S], g[m][S] * e)
               /\ m \notin S => g[k][S] = g[m][S]
    <3>1. g[k][S] = IF m \in S THEN (g[m][S] * e) % FIELD_MODULUS ELSE g[m][S]
      BY <1>7 DEF step
    <3>2. g[m][S] \in Int /\ g[k][S] \in Int
      BY <1>2, <1>7 DEF D
    <3>. HIDE DEF m, e
    <3>3. g[m][S] * e \in Int
      BY <2>1, <3>2
    <3>. QED  BY <3>1, <3>2, <3>3, CongMod
  <2>3. Good(m)
    BY <1>10
  <2>. HIDE DEF m, e
  <2>4. g[k][{}] = 1
    BY <2>2, <2>3
  <2>5. ASSUME NEW S \in SUBSET Field, NEW r \in Field, r \notin S
        PROVE  Cong(g[k][S \cup {r}], Rest(k, r, S))
    <3> DEFINE U == S \cup {r}
               a == g[m][U]
               b == g[m][S]
               f == y - r
    <3>1. U \in SUBSET Field /\ f \in Int /\ r \in Int
      BY <1>1, <1>2
    <3>2. a \in Int /\ b \in Int /\ g[k][U] \in Int /\ g[k][S] \in Int
      BY <2>2, <3>1
    <3>3. Cong(a, IF r < m THEN b * f ELSE b)
      BY <2>3, <2>5
    <3>4. /\ m \in U => Cong(g[k][U], a * e)
          /\ m \notin U => g[k][U] = a
          /\ m \in S => Cong(g[k][S], b * e)
          /\ m \notin S => g[k][S] = b
      BY <2>2, <3>1
    <3>5. m \in U <=> m \in S \/ m = r
      OBVIOUS
    <3>6. Rest(k, r, S) = IF r < k THEN g[k][S] * f ELSE g[k][S]
      OBVIOUS
    <3>. HIDE DEF Good, Rest, U, a, b, f
    <3>7. b * e \in Int /\ a * e \in Int /\ b * f \in Int
      BY <2>1, <3>1, <3>2
    <3>8. CASE m = r
      <4>1. r < k /\ ~(r < m)
        BY <2>1, <3>1, <3>8
      <4>2. Cong(a * e, b * e)
        BY <2>1, <3>2, <3>3, <4>1, CongMul
      <4>3. e = f
        BY <3>8 DEF e, f
      <4>. QED  BY <2>5, <3>4, <3>5, <3>6, <3>8, <4>1, <4>2, <4>3, CongSame DEF U
    <3>9. CASE m # r /\ m \notin S
      <4>1. r < k <=> r < m
        BY <2>1, <3>1, <3>9
      <4>. QED  BY <3>3, <3>4, <3>5, <3>6, <3>9, <4>1 DEF U
    <3>10. CASE m # r /\ m \in S
      <4>1. r < k <=> r < m
        BY <2>1, <3>1, <3>10
      <4>2. CASE r < m
        <5>1. Cong(a * e, (b * f) * e)
          BY <2>1, <3>2, <3>3, <3>7, <4>2, CongMul
        <5>2. (b * f) * e = (b * e) * f
          BY <2>1, <3>1, <3>2, SMT
        <5>3. Cong(g[k][S] * f, (b * e) * f)
          BY <3>1, <3>2, <3>4, <3>7, <3>10, CongMul
        <5>. QED  BY <3>4, <3>5, <3>6, <3>10, <4>1, <4>2, <5>1, <5>2, <5>3, CongSame DEF U
      <4>3. CASE ~(r < m)
        <5>1. Cong(a * e, b * e)
          BY <2>1, <3>2, <3>3, <4>3, CongMul
        <5>. QED  BY <3>4, <3>5, <3>6, <3>10, <4>1, <4>3, <5>1, CongSame DEF U
      <4>. QED  BY <4>2, <4>3
    <3>. QED  BY <3>8, <3>9, <3>10
  <2>. QED  BY <2>4, <2>5
<1>. HIDE DEF Good
<1>11. B = {}
  <2>. SUFFICES ASSUME B # {} PROVE FALSE
    OBVIOUS
  <2>1. PICK k \in B : \A j \in B : k <= j
    <3>1. B \in SUBSET Nat
      BY <1>1
    <3>. HIDE DEF B
    <3>. QED  BY <3>1, LeastElement
  <2>2. k \in 1..n /\ k - 1 \in 0..n /\ ~(k <= k - 1)
    BY <1>1, <1>9, <2>1
  <2>3. Good(k - 1)
    BY <2>1, <2>2
  <2>. QED  BY <1>10, <2>1, <2>2, <2>3
<1>12. Good(n) /\ n \in 1..n
  <2>1. n \in 0..n /\ n \in 1..n
    BY DEF n, FIELD_MODULUS
  <2>. QED  BY <1>11, <2>1
<1>13. g[n] \in D
  BY <1>7, <1>12
<1>14. IsFactor(y, g[n])
  BY <1>2, <1>12, <1>13 DEF IsFactor, Good, D
<1>. QED  BY <1>14

Factor(y, S) == (CHOOSE pr : IsFactor(y, pr))[S]

(* The field's elements as integers *)
LEMMA FieldFacts ==
  /\ \A x \in Field : x \in Int
  /\ 0 \in Field /\ 1 \in Field
  /\ \A S \in SUBSET Field : IsFiniteSet(S)
<1>1. IsFiniteSet(Field) /\ 0 \in Field /\ 1 \in Field
  <2>1. 0 \in Field /\ 1 \in Field
    BY DEF Field, FIELD_MODULUS
  <2>2. 0 \in Int /\ FIELD_MODULUS - 1 \in Int
    BY DEF FIELD_MODULUS
  <2>3. IsFiniteSet(0..(FIELD_MODULUS - 1))
    BY <2>2, FS_Interval, Zenon
  <2>. QED  BY <2>1, <2>3 DEF Field
<1>2. \A x \in Field : x \in Int
  BY DEF Field, FIELD_MODULUS
<1>. QED  BY <1>1, <1>2, FS_Subset

LEMMA FactorIs ==
  ASSUME NEW y \in Field
  PROVE  /\ \A S \in SUBSET Field : Factor(y, S) \in Field /\ Factor(y, S) \in Int
         /\ Factor(y, {}) = 1
         /\ \A S \in SUBSET Field : \A r \in S :
              Cong(Factor(y, S), Factor(y, S \ {r}) * (y - r))
<1> DEFINE pr == CHOOSE pr : IsFactor(y, pr)
<1>1. IsFactor(y, pr)
  BY FactorExists, Zenon
<1>2. \A S : Factor(y, S) = pr[S]
  BY DEF Factor
<1>. HIDE DEF pr
<1>3. \A S \in SUBSET Field : Factor(y, S) \in Field /\ Factor(y, S) \in Int
  BY <1>1, <1>2, FieldFacts DEF IsFactor
<1>4. ASSUME NEW S \in SUBSET Field, NEW r \in S
      PROVE  Cong(Factor(y, S), Factor(y, S \ {r}) * (y - r))
  <2>1. (S \ {r}) \cup {r} = S /\ S \ {r} \in SUBSET Field /\ r \in Field /\ r \notin S \ {r}
    OBVIOUS
  <2>2. Cong(pr[(S \ {r}) \cup {r}], pr[S \ {r}] * (y - r))
    BY <1>1, <2>1, Zenon DEF IsFactor
  <2>3. Factor(y, S) = pr[S] /\ Factor(y, S \ {r}) = pr[S \ {r}]
    BY <1>2
  <2>. QED  BY <2>1, <2>2, <2>3
<1>5. Factor(y, {}) = 1
  BY <1>1, <1>2 DEF IsFactor
<1>. QED  BY <1>3, <1>4, <1>5, Zenon

(* No such product vanishes when y is not in the set. *)
LEMMA FactorNonzero ==
  ASSUME NEW y \in Field, NEW S \in SUBSET Field, y \notin S
  PROVE  ~Cong(Factor(y, S), 0)
<1> DEFINE B == {T \in SUBSET S : Cong(Factor(y, T), 0)}
<1>. SUFFICES ASSUME B # {} PROVE FALSE
  OBVIOUS
<1>1. PICK T \in B : \A U \in B : U \subseteq T => U = T
  <2>1. B \in SUBSET (SUBSET S) /\ IsFiniteSet(S)
    BY FieldFacts
  <2>. HIDE DEF B
  <2>. QED  BY <2>1, MinimalSubset
<1>2. T # {}
  <2>1. ~Cong(1, 0)
    BY DEF Cong, FIELD_MODULUS
  <2>. QED  BY <1>1, <2>1, FactorIs
<1>3. PICK z \in T : TRUE
  BY <1>2
<1> DEFINE a == Factor(y, T \ {z})
           b == y - z
<1>4. z \in Field /\ z # y /\ T \in SUBSET Field /\ T \ {z} \in SUBSET Field /\ T \ {z} \notin B
  BY <1>1
<1>5. ~Cong(a, 0) /\ Cong(Factor(y, T), 0)
  BY <1>1, <1>4
<1>6. Cong(Factor(y, T), a * b) /\ a \in Int
  BY <1>3, <1>4, FactorIs
<1>7. b \in Int /\ ~Cong(b, 0)
  BY <1>4, CongApart
<1>. HIDE DEF a, b, B
<1>8. Cong(a * b, 0)
  BY <1>5, <1>6, CongSame
<1>. QED  BY <1>5, <1>6, <1>7, <1>8, CongCancel

(* What an element weighs among others in a divided difference *)
NodeWeight(S, x) == inv(Factor(x, S \ {x}))

LEMMA WeightIs ==
  ASSUME NEW S \in SUBSET Field, NEW x \in Field
  PROVE  /\ NodeWeight(S, x) \in Int
         /\ Cong(Factor(x, S \ {x}) * NodeWeight(S, x), 1)
<1>1. S \ {x} \in SUBSET Field /\ x \notin S \ {x}
  OBVIOUS
<1>2. Factor(x, S \ {x}) \in Int /\ ~Cong(Factor(x, S \ {x}), 0)
  BY <1>1, FactorIs, FactorNonzero
<1>. QED  BY <1>2, CongInverse DEF NodeWeight

(* Taking an element away multiplies the weights of the others. *)
LEMMA WeightStep ==
  ASSUME NEW S \in SUBSET Field, NEW x \in S, NEW r \in S, x # r
  PROVE  Cong((x - r) * NodeWeight(S, x), NodeWeight(S \ {r}, x))
<1> DEFINE T == S \ {x}
           b == Factor(x, T)
           d == Factor(x, T \ {r})
           e == x - r
           v == NodeWeight(S, x)
           w == NodeWeight(S \ {r}, x)
<1>1. T \in SUBSET Field /\ T \ {r} \in SUBSET Field /\ r \in T /\ x \in Field /\ r \in Field
      /\ S \ {r} \in SUBSET Field /\ (S \ {r}) \ {x} = T \ {r}
  OBVIOUS
<1>2. b \in Int /\ d \in Int /\ Cong(b, d * e)
  BY <1>1, FactorIs
<1>3. e \in Int
  BY <1>1, FieldFacts
<1>4. v \in Int /\ Cong(b * v, 1)
  BY <1>1, WeightIs
<1>5. w \in Int /\ Cong(d * w, 1)
  <2>1. w \in Int /\ Cong(Factor(x, (S \ {r}) \ {x}) * w, 1)
    BY <1>1, WeightIs, Zenon
  <2>. QED  BY <1>1, <2>1
<1>. HIDE DEF T, b, d, e, v, w
<1>6. d * w \in Int /\ e * v \in Int /\ d * e \in Int /\ v * w \in Int /\ b * v \in Int /\ 1 \in Int
  BY <1>2, <1>3, <1>4, <1>5
<1>7. Cong((d * w) * (e * v), 1 * (e * v))
  BY <1>5, <1>6, CongMul, Zenon
<1>8. Cong(b * (v * w), (d * e) * (v * w))
  BY <1>2, <1>6, CongMul, Zenon
<1>9. Cong((b * v) * w, 1 * w)
  BY <1>4, <1>5, <1>6, CongMul, Zenon
<1>10. /\ (d * w) * (e * v) = (d * e) * (v * w) /\ (b * v) * w = b * (v * w)
       /\ 1 * (e * v) = e * v /\ 1 * w = w
  BY <1>2, <1>3, <1>4, <1>5, SMT
<1>11. Cong(e * v, w)
  BY <1>7, <1>8, <1>9, <1>10, CongSame
<1>. QED  BY <1>11 DEF e, v, w

-----------------------------------------------------------------------------
(* The divided difference of the values q at the elements of S *)
DivDiff(S, q) == SumOver([x \in S |-> q[x] * NodeWeight(S, x)], S)

LEMMA DividedType ==
  ASSUME NEW S \in SUBSET Field, NEW q, \A x \in S : q[x] \in Int
  PROVE  /\ \A x \in S : NodeWeight(S, x) \in Int /\ q[x] * NodeWeight(S, x) \in Int
         /\ DivDiff(S, q) \in Int
<1> DEFINE f == [x \in S |-> q[x] * NodeWeight(S, x)]
<1>1. \A x \in S : x \in Field /\ NodeWeight(S, x) \in Int
  BY WeightIs
<1>2. \A x \in S : q[x] * NodeWeight(S, x) \in Int
  BY <1>1
<1>3. IsFiniteSet(S) /\ \A x \in S : f[x] \in Int
  BY <1>2, FieldFacts
<1>4. SumOver(f, S) \in Int
  <2>. HIDE DEF f
  <2>. QED  BY <1>3, SumType
<1>. QED  BY <1>1, <1>2, <1>4 DEF DivDiff

(* DivDiff differences are linear. *)
LEMMA DividedLinear ==
  ASSUME NEW S \in SUBSET Field, NEW p, NEW u, NEW v, NEW c \in Int,
         \A x \in S : p[x] \in Int /\ u[x] \in Int /\ v[x] \in Int,
         \A x \in S : Cong(p[x], u[x] + c * v[x])
  PROVE  Cong(DivDiff(S, p), DivDiff(S, u) + c * DivDiff(S, v))
<1> DEFINE W(x) == NodeWeight(S, x)
           f == [x \in S |-> u[x] * W(x)]
           g == [x \in S |-> v[x] * W(x)]
           h == [x \in S |-> u[x] * W(x) + c * (v[x] * W(x))]
           k == [x \in S |-> p[x] * W(x)]
<1>1. IsFiniteSet(S)
  BY FieldFacts
<1>2. ASSUME NEW x \in S
      PROVE  /\ f[x] \in Int /\ g[x] \in Int /\ h[x] \in Int /\ k[x] \in Int
             /\ h[x] = f[x] + c * g[x] /\ Cong(k[x], h[x])
  <2> DEFINE a == p[x]
             b == u[x]
             d == v[x]
             w == W(x)
  <2>1. a \in Int /\ b \in Int /\ d \in Int /\ w \in Int /\ Cong(a, b + c * d)
    BY DividedType
  <2>2. f[x] = b * w /\ g[x] = d * w /\ h[x] = b * w + c * (d * w) /\ k[x] = a * w
    OBVIOUS
  <2>. HIDE DEF a, b, d, w, f, g, h, k
  <2>3. b * w \in Int /\ d * w \in Int /\ b * w + c * (d * w) \in Int /\ a * w \in Int /\ b + c * d \in Int
    BY <2>1
  <2>4. Cong(a * w, (b + c * d) * w)
    BY <2>1, <2>3, CongMul, Zenon
  <2>5. (b + c * d) * w = b * w + c * (d * w)
    BY <2>1, SMT
  <2>. QED  BY <2>2, <2>3, <2>4, <2>5
<1>3. /\ DivDiff(S, p) = SumOver(k, S) /\ DivDiff(S, u) = SumOver(f, S)
      /\ DivDiff(S, v) = SumOver(g, S)
  BY DEF DivDiff
<1>. HIDE DEF f, g, h, k
<1>4. SumOver(h, S) = SumOver(f, S) + c * SumOver(g, S)
  BY <1>1, <1>2, SumLinear
<1>5. Cong(SumOver(k, S), SumOver(h, S))
  BY <1>1, <1>2, SumCong
<1>. QED  BY <1>3, <1>4, <1>5

(* A factor x - r takes r out of the set. *)
LEMMA DividedStep ==
  ASSUME NEW S \in SUBSET Field, NEW r \in S, NEW p, NEW q,
         \A x \in S : p[x] \in Int /\ q[x] \in Int,
         \A x \in S : Cong(p[x], (x - r) * q[x])
  PROVE  Cong(DivDiff(S, p), DivDiff(S \ {r}, q))
<1> DEFINE T == S \ {r}
           f == [x \in S |-> p[x] * NodeWeight(S, x)]
           g == [x \in T |-> q[x] * NodeWeight(T, x)]
<1>1. IsFiniteSet(S) /\ IsFiniteSet(T) /\ T \in SUBSET Field
  BY FieldFacts
<1>2. \A x \in S : f[x] \in Int
  BY DividedType
<1>3. ASSUME NEW x \in S
      PROVE  Cong(f[x], (x - r) * (q[x] * NodeWeight(S, x)))
  <2> DEFINE a == p[x]
             b == q[x]
             w == NodeWeight(S, x)
             e == x - r
  <2>1. a \in Int /\ b \in Int /\ w \in Int /\ Cong(a, e * b)
    BY DividedType
  <2>2. e \in Int
    BY FieldFacts
  <2>3. f[x] = a * w
    OBVIOUS
  <2>. HIDE DEF a, b, w, e, f
  <2>4. e * b \in Int
    BY <2>1, <2>2
  <2>5. Cong(a * w, (e * b) * w)
    BY <2>1, <2>4, CongMul, Zenon
  <2>6. (e * b) * w = e * (b * w)
    BY <2>1, <2>2, SMT
  <2>7. Cong(f[x], e * (b * w))
    BY <2>3, <2>5, <2>6
  <2>. QED  BY <2>7 DEF e, b, w
<1>4. Cong(f[r], 0)
  <2>1. r \in Int /\ q[r] * NodeWeight(S, r) \in Int
    BY FieldFacts, DividedType
  <2>2. (r - r) * (q[r] * NodeWeight(S, r)) = 0
    BY <2>1
  <2>. HIDE DEF f
  <2>. QED  BY <1>3, <2>2
<1>5. ASSUME NEW x \in T PROVE f[x] \in Int /\ g[x] \in Int /\ Cong(f[x], g[x])
  <2> DEFINE b == q[x]
             v == NodeWeight(S, x)
             w == NodeWeight(T, x)
             e == x - r
  <2>1. x \in S /\ x # r
    OBVIOUS
  <2>2. b \in Int /\ v \in Int /\ w \in Int
    BY <1>1, <2>1, WeightIs
  <2>3. e \in Int
    BY <2>1, FieldFacts
  <2>4. Cong(e * v, w)
    BY <2>1, WeightStep
  <2>5. Cong(f[x], e * (b * v))
    <3>. HIDE DEF f
    <3>. QED  BY <1>3, <2>1
  <2>6. g[x] = b * w /\ f[x] \in Int
    BY <1>2, <2>1
  <2>. HIDE DEF b, v, w, e, f, g
  <2>7. e * v \in Int /\ b * w \in Int
    BY <2>2, <2>3
  <2>8. Cong(b * (e * v), b * w)
    BY <2>2, <2>4, <2>7, CongMul, Zenon
  <2>9. b * (e * v) = e * (b * v)
    BY <2>2, <2>3, SMT
  <2>. QED  BY <2>5, <2>6, <2>7, <2>8, <2>9, CongSame
<1>6. DivDiff(S, p) = SumOver(f, S) /\ DivDiff(T, q) = SumOver(g, T)
  BY DEF DivDiff
<1>. HIDE DEF f, g
<1>7. SumOver(f, S) = f[r] + SumOver(f, T)
  BY <1>1, <1>2, SumRemove
<1>8. Cong(SumOver(f, T), SumOver(g, T))
  BY <1>1, <1>5, SumCong
<1>9. SumOver(f, T) \in Int /\ SumOver(g, T) \in Int /\ f[r] \in Int /\ 0 \in Int
  BY <1>1, <1>2, <1>5, SumType
<1>10. Cong(f[r] + SumOver(f, T), 0 + SumOver(g, T))
  BY <1>4, <1>8, <1>9, CongAdd, Zenon
<1>11. 0 + SumOver(g, T) = SumOver(g, T)
  BY <1>9
<1>. QED  BY <1>6, <1>7, <1>10, <1>11

(* The divided difference of a constant over two elements or more is zero. *)
LEMMA DividedOne ==
  ASSUME NEW S \in SUBSET Field, NEW r0 \in S, NEW s0 \in S, r0 # s0,
         NEW one, \A x \in Field : one[x] = 1
  PROVE  Cong(DivDiff(S, one), 0)
<1> DEFINE Two(T) == \E r, s \in T : r # s
           B == {T \in SUBSET S : Two(T) /\ ~Cong(DivDiff(T, one), 0)}
<1>. SUFFICES ASSUME B # {} PROVE FALSE
  OBVIOUS
<1>1. PICK T \in B : \A U \in B : U \subseteq T => U = T
  <2>1. B \in SUBSET (SUBSET S) /\ IsFiniteSet(S)
    BY FieldFacts
  <2>. HIDE DEF B
  <2>. QED  BY <2>1, MinimalSubset
<1>2. PICK r \in T, s \in T : r # s
  BY <1>1
<1> DEFINE p == [x \in Field |-> x - r]
           q == [x \in Field |-> x - s]
           d == DivDiff(T, one)
           a == DivDiff(T \ {r}, one)
           b == DivDiff(T \ {s}, one)
           e == r - s
<1>3. T \in SUBSET Field /\ r \in Field /\ s \in Field
  BY <1>1
<1>4. \A x \in T : x \in Field /\ x \in Int /\ one[x] = 1 /\ one[x] \in Int
  BY <1>3, FieldFacts
<1>5. \A x \in T : p[x] \in Int /\ q[x] \in Int /\ p[x] = (x - r) * one[x] /\ q[x] = (x - s) * one[x]
                  /\ q[x] = p[x] + e * one[x]
  BY <1>2, <1>4
<1>. HIDE DEF p, q
<1>6. Cong(DivDiff(T, p), a) /\ Cong(DivDiff(T, q), b)
  <2>1. \A x \in T : Cong(p[x], (x - r) * one[x]) /\ Cong(q[x], (x - s) * one[x])
    BY <1>5, CongSame
  <2>2. Cong(DivDiff(T, p), a)
    BY <1>2, <1>3, <1>4, <1>5, <2>1, DividedStep
  <2>3. Cong(DivDiff(T, q), b)
    BY <1>2, <1>3, <1>4, <1>5, <2>1, DividedStep
  <2>. QED  BY <2>2, <2>3
<1>7. e \in Int /\ ~Cong(e, 0)
  BY <1>2, <1>3, CongApart
<1>8. Cong(DivDiff(T, q), DivDiff(T, p) + e * d)
  <2>1. \A x \in T : Cong(q[x], p[x] + e * one[x])
    BY <1>5, CongSame
  <2>. HIDE DEF e
  <2>. QED  BY <1>3, <1>4, <1>5, <1>7, <2>1, DividedLinear
<1>9. Cong(a, b)
  <2>1. CASE \E z \in T : z # r /\ z # s
    <3>1. T \ {r} \notin B /\ T \ {s} \notin B
      BY <1>1, <1>2
    <3>2. Two(T \ {r}) /\ Two(T \ {s})
      BY <1>2, <2>1
    <3>3. Cong(a, 0) /\ Cong(b, 0)
      BY <1>1, <3>1, <3>2
    <3>. HIDE DEF a, b
    <3>. QED  BY <3>3, CongSame
  <2>2. CASE ~\E z \in T : z # r /\ z # s
    <3>1. T \ {r} = {s} /\ T \ {s} = {r}
      BY <1>2, <2>2
    <3>2. ASSUME NEW z \in Field PROVE DivDiff({z}, one) = inv(1)
      <4> DEFINE f == [x \in {z} |-> one[x] * NodeWeight({z}, x)]
      <4>1. {z} \ {z} = {}
        OBVIOUS
      <4>2. NodeWeight({z}, z) = inv(1)
        BY <4>1, FactorIs DEF NodeWeight
      <4>3. inv(1) \in Int
        BY InvType, FieldFacts
      <4>4. f[z] = inv(1)
        BY <4>2, <4>3
      <4>5. DivDiff({z}, one) = SumOver(f, {z})
        BY DEF DivDiff
      <4>. HIDE DEF f
      <4>6. IsFiniteSet({z}) /\ {z} \ {z} = {}
        BY FS_Singleton
      <4>7. SumOver(f, {z}) = f[z]
        BY <4>3, <4>4, <4>6, SumSingle
      <4>. QED  BY <4>4, <4>5, <4>7
    <3>3. a = inv(1) /\ b = inv(1)
      BY <1>3, <3>1, <3>2
    <3>. QED  BY <3>3, CongSame
  <2>. QED  BY <2>1, <2>2
<1>10. d \in Int /\ DivDiff(T, p) \in Int /\ DivDiff(T, q) \in Int
  BY <1>3, <1>4, <1>5, DividedType
<1>11. ~Cong(d, 0)
  BY <1>1
<1>. HIDE DEF d, a, b, e, B
<1>12. Cong(DivDiff(T, p), DivDiff(T, p) + e * d)
  BY <1>6, <1>8, <1>9, CongSame
<1>13. e * d \in Int
  BY <1>7, <1>10
<1>14. Cong(e * d, 0)
  <2>1. ASSUME NEW w \in Int, NEW v \in Int, Cong(w, w + v) PROVE Cong(v, 0)
    BY <2>1, SMT DEF Cong, FIELD_MODULUS
  <2>. QED  BY <1>10, <1>12, <1>13, <2>1
<1>. QED  BY <1>7, <1>10, <1>11, <1>14, CongCancel

(* Values q[0], q[1], ... of Horner's rule with the coefficients c at the  *)
(* points a * x + b of all elements x of S                                 *)
Horner(S, n, q, c, a, b) ==
  /\ \A k \in 0..n : \A x \in S : q[k][x] \in Int
  /\ \A k \in 1..n : c[k] \in Int
  /\ \A x \in S : Cong(q[0][x], 0)
  /\ \A k \in 1..n : \A x \in S : Cong(q[k][x], (a * x + b) * q[k - 1][x] + c[k])

(* A polynomial of k coefficients has no divided difference over more than *)
(* A product with an affine argument, around one of its points *)
LEMMA Expand ==
  ASSUME NEW a \in Int, NEW b \in Int, NEW d \in Int,
         NEW x \in Int, NEW r \in Int, NEW y \in Int
  PROVE  (a * x + b) * y + d = (d + a * ((x - r) * y)) + (a * r + b) * y
<1>1. PICK p \in Int, q \in Int : p = x * y /\ q = r * y
  OBVIOUS
<1>2. (x - r) * y = p - q
  BY <1>1
<1>3. (a * x + b) * y = a * p + b * y
  BY <1>1
<1>4. (a * r + b) * y = a * q + b * y
  BY <1>1
<1>5. a * (p - q) = a * p - a * q /\ a * p \in Int /\ a * q \in Int /\ b * y \in Int
  BY <1>1
<1>. QED  BY <1>2, <1>3, <1>4, <1>5

(* k elements.                                                             *)
LEMMA DividedHorner ==
  ASSUME NEW S \in SUBSET Field, NEW n \in Nat, NEW q, NEW c, NEW a \in Int, NEW b \in Int,
         Horner(S, n, q, c, a, b), Cardinality(S) > n
  PROVE  Cong(DivDiff(S, q[n]), 0)
<1> DEFINE Good(k) == \A T \in SUBSET S : Cardinality(T) > k => Cong(DivDiff(T, q[k]), 0)
           B == {k \in 0..n : ~Good(k)}
           one == [x \in Field |-> 1]
<1>1. \A T \in SUBSET S : T \in SUBSET Field /\ IsFiniteSet(T) /\ Cardinality(T) \in Nat
  BY FieldFacts, FS_CardinalityType
<1>2. \A x \in Field : one[x] = 1
  OBVIOUS
<1>. HIDE DEF one
<1>3. Good(0)
  <2>. SUFFICES ASSUME NEW T \in SUBSET S PROVE Cong(DivDiff(T, q[0]), 0)
    OBVIOUS
  <2> DEFINE p == q[0]
             f == [x \in T |-> p[x] * NodeWeight(T, x)]
             z == [x \in T |-> 0]
  <2>1. \A x \in T : p[x] \in Int /\ Cong(p[x], 0)
    BY DEF Horner
  <2>. HIDE DEF p
  <2>2. ASSUME NEW x \in T PROVE f[x] \in Int /\ z[x] \in Int /\ Cong(f[x], z[x])
    <3> DEFINE w == NodeWeight(T, x)
               y == p[x]
    <3>1. w \in Int /\ y * w \in Int /\ y \in Int /\ Cong(y, 0)
      BY <1>1, <2>1, DividedType
    <3>2. f[x] = y * w /\ z[x] = 0
      OBVIOUS
    <3>. HIDE DEF w, y, f, z
    <3>3. 0 \in Int /\ 0 * w = 0
      BY <3>1
    <3>4. Cong(y * w, 0 * w)
      BY <3>1, <3>3, CongMul, Zenon
    <3>. QED  BY <3>1, <3>2, <3>3, <3>4
  <2>3. DivDiff(T, p) = SumOver(f, T) /\ \A x \in T : z[x] = 0
    BY DEF DivDiff
  <2>. HIDE DEF f, z
  <2>4. SumOver(z, T) = 0
    BY <1>1, <2>3, SumZero
  <2>5. Cong(SumOver(f, T), SumOver(z, T))
    BY <1>1, <2>2, SumCong
  <2>. QED  BY <2>3, <2>4, <2>5 DEF p
<1>4. ASSUME NEW k \in 1..n, Good(k - 1) PROVE Good(k)
  <2>. SUFFICES ASSUME NEW T \in SUBSET S, Cardinality(T) > k PROVE Cong(DivDiff(T, q[k]), 0)
    OBVIOUS
  <2> DEFINE p == q[k - 1]
             d == c[k]
  <2>1. PICK r \in T : TRUE
    <3>1. T # {}
      BY FS_EmptySet
    <3>. QED  BY <3>1
  <2>2. T \ {r} \in SUBSET S /\ Cardinality(T \ {r}) = Cardinality(T) - 1
    BY <1>1, <2>1, FS_RemoveElement
  <2>3. Cong(DivDiff(T \ {r}, p), 0) /\ Cong(DivDiff(T, p), 0)
    <3>1. Cardinality(T \ {r}) > k - 1 /\ Cardinality(T) > k - 1
      BY <1>1, <2>2
    <3>. QED  BY <1>4, <2>2, <3>1
  <2>4. PICK s \in T : s # r
    <3>1. Cardinality(T \ {r}) # 0
      BY <1>1, <2>2
    <3>2. T \ {r} # {}
      BY <3>1, FS_EmptySet
    <3>. QED  BY <3>2
  <2>5. Cong(DivDiff(T, one), 0)
    BY <1>1, <1>2, <2>1, <2>4, DividedOne
  <2>6. /\ \A x \in T : /\ x \in Int /\ p[x] \in Int /\ q[k][x] \in Int
                         /\ one[x] \in Int /\ one[x] = 1
                         /\ Cong(q[k][x], (a * x + b) * p[x] + d)
        /\ d \in Int /\ r \in Int
    <3>1. k - 1 \in 0..n /\ k \in 0..n
      OBVIOUS
    <3>2. \A x \in T : p[x] \in Int /\ q[k][x] \in Int /\ Cong(q[k][x], (a * x + b) * p[x] + d)
      BY <3>1 DEF Horner
    <3>3. d \in Int
      BY DEF Horner
    <3>4. \A x \in T : x \in Field /\ x \in Int
      BY FieldFacts
    <3>. HIDE DEF p, d
    <3>. QED  BY <1>2, <2>1, <3>2, <3>3, <3>4
  <2> DEFINE e == a * r + b
             u == [x \in T |-> (x - r) * p[x]]
             o == [x \in T |-> d]
             v == [x \in T |-> d + a * u[x]]
  <2>. HIDE DEF p, d, Good
  <2>7. /\ e \in Int /\ d - 1 \in Int
        /\ \A x \in T : /\ u[x] \in Int /\ v[x] \in Int /\ o[x] \in Int
                        /\ u[x] = (x - r) * p[x]
                        /\ o[x] = one[x] + (d - 1) * one[x]
                        /\ v[x] = o[x] + a * u[x]
                        /\ (a * x + b) * p[x] + d = v[x] + e * p[x]
    <3>1. e \in Int /\ d - 1 \in Int
      BY <2>6
    <3>2. ASSUME NEW x \in T
          PROVE  /\ u[x] \in Int /\ v[x] \in Int /\ o[x] \in Int
                 /\ u[x] = (x - r) * p[x]
                 /\ o[x] = one[x] + (d - 1) * one[x]
                 /\ v[x] = o[x] + a * u[x]
                 /\ (a * x + b) * p[x] + d = v[x] + e * p[x]
      <4>1. ASSUME NEW y \in Int
            PROVE  /\ (x - r) * y \in Int /\ d + a * ((x - r) * y) \in Int
                   /\ (a * x + b) * y + d = (d + a * ((x - r) * y)) + (a * r + b) * y
                   /\ d = 1 + (d - 1) * 1
        <5>1. x \in Int /\ r \in Int /\ d \in Int /\ a \in Int /\ b \in Int
          BY <2>6
        <5>2. (x - r) * y \in Int /\ d + a * ((x - r) * y) \in Int /\ d = 1 + (d - 1) * 1
          BY <5>1
        <5>3. (a * x + b) * y + d = (d + a * ((x - r) * y)) + (a * r + b) * y
          BY <5>1, Expand
        <5>. QED  BY <5>2, <5>3
      <4>. QED  BY <2>6, <4>1
    <3>. QED  BY <3>1, <3>2
  <2>. HIDE DEF u, v, o, e
  <2>8. \A x \in T : /\ Cong(u[x], (x - r) * p[x])
                     /\ Cong(o[x], one[x] + (d - 1) * one[x])
                     /\ Cong(v[x], o[x] + a * u[x])
                     /\ Cong(q[k][x], v[x] + e * p[x])
    BY <2>6, <2>7, CongSame
  <2>9. Cong(DivDiff(T, u), DivDiff(T \ {r}, p))
    BY <1>1, <2>1, <2>6, <2>7, <2>8, DividedStep
  <2>10. Cong(DivDiff(T, o), DivDiff(T, one) + (d - 1) * DivDiff(T, one))
    BY <1>1, <2>6, <2>7, <2>8, DividedLinear
  <2>11. Cong(DivDiff(T, v), DivDiff(T, o) + a * DivDiff(T, u))
    BY <1>1, <2>6, <2>7, <2>8, DividedLinear
  <2>12. Cong(DivDiff(T, q[k]), DivDiff(T, v) + e * DivDiff(T, p))
    BY <1>1, <2>6, <2>7, <2>8, DividedLinear
  <2>13. /\ DivDiff(T, u) \in Int /\ DivDiff(T, v) \in Int /\ DivDiff(T, o) \in Int
         /\ DivDiff(T, p) \in Int /\ DivDiff(T, one) \in Int
    BY <1>1, <2>6, <2>7, DividedType
  <2>14. Cong(DivDiff(T, u), 0)
    BY <2>3, <2>9, CongSame
  <2>15. ASSUME NEW y \in Int, NEW z \in Int, NEW f \in Int, Cong(y, 0), Cong(z, 0)
         PROVE  y + f * z \in Int /\ Cong(y + f * z, 0)
    <3>0. f * 0 = 0 /\ f * z \in Int /\ 0 \in Int
      BY SMT
    <3>1. Cong(f * z, f * 0) /\ f * 0 = 0 /\ f * z \in Int /\ 0 \in Int
      BY <2>15, <3>0, CongMul, Zenon
    <3>2. Cong(y + f * z, 0 + 0)
      BY <2>15, <3>1, CongAdd
    <3>. QED  BY <3>1, <3>2
  <2>16. Cong(DivDiff(T, o), 0)
    BY <2>5, <2>7, <2>10, <2>13, <2>15, CongSame
  <2>17. Cong(DivDiff(T, v), 0)
    BY <2>11, <2>13, <2>14, <2>15, <2>16, CongSame
  <2>18. Cong(DivDiff(T, v) + e * DivDiff(T, p), 0)
    BY <2>3, <2>7, <2>13, <2>15, <2>17, Zenon
  <2>19. Cong(DivDiff(T, q[k]), 0)
    BY <2>12, <2>18, CongSame
  <2>. QED  BY <2>19
<1>5. B = {}
  <2>. HIDE DEF Good
  <2>. SUFFICES ASSUME B # {} PROVE FALSE
    OBVIOUS
  <2>1. PICK k \in B : \A j \in B : k <= j
    <3>1. B \in SUBSET Nat
      OBVIOUS
    <3>. HIDE DEF B
    <3>. QED  BY <3>1, LeastElement
  <2>2. k \in 1..n /\ k - 1 \in 0..n /\ ~(k <= k - 1)
    BY <1>3, <2>1
  <2>3. Good(k - 1)
    BY <2>1, <2>2
  <2>. QED  BY <1>4, <2>1, <2>2, <2>3
<1>6. Good(n)
  <2>. HIDE DEF Good
  <2>1. n \in 0..n
    OBVIOUS
  <2>. QED  BY <1>5, <2>1
<1>. QED  BY <1>6

(* Lagrange's coefficient at zero of x among the elements of S *)
Coefficient(S, x) == (Factor(0, S \ {x}) * inv(Factor(x, S \ {x}))) % FIELD_MODULUS

LEMMA CoefficientIs ==
  ASSUME NEW S \in SUBSET Field, NEW x \in Field
  PROVE  /\ Coefficient(S, x) \in Int
         /\ Cong(Coefficient(S, x), Factor(0, S \ {x}) * NodeWeight(S, x))
<1> DEFINE a == Factor(0, S \ {x})
           w == NodeWeight(S, x)
<1>1. a \in Int /\ w \in Int
  <2>1. S \ {x} \in SUBSET Field
    OBVIOUS
  <2>. QED  BY <2>1, FactorIs, WeightIs, FieldFacts
<1>2. Coefficient(S, x) = (a * w) % FIELD_MODULUS
  BY DEF Coefficient, NodeWeight
<1>. HIDE DEF a, w
<1>3. a * w \in Int
  BY <1>1
<1>4. Coefficient(S, x) \in Int /\ Cong(Coefficient(S, x), a * w)
  BY <1>2, <1>3, CongMod
<1>. QED  BY <1>4 DEF a, w

(* Interpolation at zero: values whose divided difference over S and zero  *)
(* vanishes, as those of a polynomial of at most as many coefficients as S *)
(* has elements, determine the value at zero.                              *)
LEMMA InterpolateAtZero ==
  ASSUME NEW S \in SUBSET Field, 0 \notin S, NEW q, \A x \in S \cup {0} : q[x] \in Int,
         Cong(DivDiff(S \cup {0}, q), 0)
  PROVE  Cong(SumOver([x \in S |-> q[x] * Coefficient(S, x)], S), q[0])
<1> DEFINE Z == S \cup {0}
           A == Factor(0, S)
           i == NodeWeight(Z, 0)
           f == [x \in S |-> q[x] * Coefficient(S, x)]
           g == [x \in S |-> q[x] * NodeWeight(Z, x)]
           h == [x \in S |-> f[x] + A * g[x]]
           o == [x \in S |-> 0]
           k == [x \in Z |-> q[x] * NodeWeight(Z, x)]
<1>1. /\ IsFiniteSet(S) /\ Z \in SUBSET Field /\ IsFiniteSet(Z) /\ Z \ {0} = S
      /\ 0 \in Field /\ 0 \in Z
  BY FieldFacts
<1>2. A \in Int /\ i \in Int /\ Cong(A * i, 1) /\ q[0] \in Int
  <2>1. A \in Int
    BY <1>1, FactorIs
  <2>2. i \in Int /\ Cong(Factor(0, Z \ {0}) * i, 1)
    BY <1>1, WeightIs, Zenon
  <2>3. Cong(A * i, 1)
    BY <1>1, <2>2
  <2>. QED  BY <2>1, <2>2, <2>3
<1>3. ASSUME NEW x \in S
      PROVE  f[x] \in Int /\ g[x] \in Int /\ h[x] \in Int /\ h[x] = f[x] + A * g[x] /\ Cong(h[x], 0)
  <2> DEFINE a == Factor(0, S \ {x})
             l == Coefficient(S, x)
             v == NodeWeight(Z, x)
             w == NodeWeight(S, x)
             y == q[x]
  <2>1. x \in Field /\ x \in Int /\ x \in Z /\ x # 0 /\ S \ {x} \in SUBSET Field
    BY FieldFacts
  <2>2. a \in Int /\ l \in Int /\ v \in Int /\ w \in Int /\ y \in Int
    BY <1>1, <2>1, FactorIs, CoefficientIs, WeightIs
  <2>3. Cong(A, a * (0 - x))
    BY <1>1, FactorIs
  <2>4. Cong((x - 0) * v, w)
    BY <1>1, <2>1, WeightStep
  <2>5. Cong(l, a * w)
    BY <2>1, CoefficientIs
  <2>6. f[x] = y * l /\ g[x] = y * v /\ h[x] = f[x] + A * g[x]
    OBVIOUS
  <2>. HIDE DEF a, l, v, w, y, f, g, h, A
  <2>7. /\ f[x] \in Int /\ g[x] \in Int /\ h[x] \in Int
        /\ a * (0 - x) \in Int /\ (x - 0) * v \in Int /\ a * w \in Int /\ A * v \in Int
        /\ l + A * v \in Int /\ a * w + (0 - a) * w \in Int /\ 0 - a \in Int /\ (0 - a) * w \in Int
    BY <1>2, <2>1, <2>2, <2>6, SMT
  <2>8. Cong(A * v, (a * (0 - x)) * v)
    BY <1>2, <2>2, <2>3, <2>7, CongMul, Zenon
  <2>9. (a * (0 - x)) * v = (0 - a) * ((x - 0) * v)
    BY <2>1, <2>2, SMT
  <2>10. Cong((0 - a) * ((x - 0) * v), (0 - a) * w)
    BY <2>2, <2>4, <2>7, CongMul, Zenon
  <2>11. Cong(A * v, (0 - a) * w)
    BY <2>8, <2>9, <2>10, CongSame
  <2>12. Cong(l + A * v, a * w + (0 - a) * w)
    BY <2>2, <2>5, <2>7, <2>11, CongAdd, Zenon
  <2>13. a * w + (0 - a) * w = 0 /\ y * 0 = 0 /\ 0 \in Int
    BY <2>2, SMT
  <2>14. Cong(y * (l + A * v), y * 0)
    BY <2>2, <2>7, <2>12, <2>13, CongMul, Zenon
  <2>15. y * (l + A * v) = y * l + A * (y * v)
    BY <1>2, <2>2, SMT
  <2>. QED  BY <2>6, <2>7, <2>13, <2>14, <2>15
<1>4. \A x \in S : o[x] \in Int /\ o[x] = 0
  OBVIOUS
<1>5. /\ \A x \in Z : k[x] \in Int /\ k[0] = q[0] * i
      /\ \A x \in S : k[x] = g[x]
      /\ DivDiff(Z, q) = SumOver(k, Z)
  BY <1>1, DividedType DEF DivDiff
<1>. HIDE DEF Z, A, i, f, g, h, o, k
<1>6. SumOver(k, Z) = q[0] * i + SumOver(g, S)
  <2>1. SumOver(k, Z) = k[0] + SumOver(k, Z \ {0})
    BY <1>1, <1>5, SumRemove, Zenon
  <2>2. SumOver(k, S) = SumOver(g, S)
    BY <1>1, <1>5, SumExtensional, Zenon
  <2>. QED  BY <1>1, <1>5, <2>1, <2>2
<1>7. SumOver(h, S) = SumOver(f, S) + A * SumOver(g, S)
  BY <1>1, <1>2, <1>3, SumLinear
<1>8. Cong(SumOver(h, S), 0)
  <2>1. SumOver(o, S) = 0
    BY <1>1, <1>4, SumZero
  <2>2. Cong(SumOver(h, S), SumOver(o, S))
    <3>1. \A x \in S : h[x] \in Int /\ o[x] \in Int /\ Cong(h[x], o[x])
      BY <1>3, <1>4
    <3>. QED  BY <1>1, <3>1, SumCong
  <2>. QED  BY <2>1, <2>2
<1> DEFINE s == SumOver(f, S)
           u == SumOver(g, S)
           y == q[0]
<1>9. s \in Int /\ u \in Int /\ y \in Int
  BY <1>1, <1>2, <1>3, SumType
<1>10. Cong(s + A * u, 0) /\ Cong(y * i + u, 0)
  BY <1>5, <1>6, <1>7, <1>8 DEF Z
<1>. HIDE DEF s, u, y
<1>11. Cong(A * (y * i + u), A * 0)
  <2>1. y * i + u \in Int /\ 0 \in Int
    BY <1>2, <1>9
  <2>. QED  BY <1>2, <1>10, <2>1, CongMul, Zenon
<1>12. A * (y * i + u) = (A * i) * y + A * u /\ A * 0 = 0
  BY <1>2, <1>9, SMT
<1>13. Cong((A * i) * y, 1 * y)
  <2>1. A * i \in Int /\ 1 \in Int
    BY <1>2
  <2>. QED  BY <1>2, <1>9, <2>1, CongMul, Zenon
<1>14. Cong(s, y)
  <2>1. ASSUME NEW a \in Int, NEW b \in Int, NEW c \in Int, NEW d \in Int,
               Cong(a + b, 0), Cong(c + b, 0), Cong(c, d)
        PROVE  Cong(a, d)
    BY <2>1, SMT DEF Cong, FIELD_MODULUS
  <2>2. A * u \in Int /\ (A * i) * y \in Int /\ 1 * y = y
    BY <1>2, <1>9
  <2>3. Cong((A * i) * y + A * u, 0) /\ Cong((A * i) * y, y)
    BY <1>11, <1>12, <1>13, <2>2
  <2>. QED  BY <1>9, <1>10, <2>1, <2>2, <2>3
<1>. QED  BY <1>14 DEF s, y, f
=============================================================================
