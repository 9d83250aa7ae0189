---------------------------- MODULE Shamir_proofs ----------------------------
(***************************************************************************)
(* What the operations of GF3329 compute, for all field elements; that no  *)
(* computation of Shamir leaves its integer type, for any shares in any    *)
(* order; what one share of two tells; and what the host puts together     *)
(* from shares with 16-bit indices and from those of shamir_share_bytes.   *)
(***************************************************************************)
EXTENDS Shamir, FieldSums_proofs

(* Field elements are the numbers from 0 to 3328. *)
LEMMA FieldIs ==
  /\ \A x \in Field : x \in Int /\ 0 <= x /\ x <= 3328
  /\ \A x \in Int : 0 <= x /\ x <= 3328 => x \in Field
  BY SMT DEF Field, FIELD_MODULUS

(* gf3329_add is addition in the field: no 16-bit sum of two field         *)
(* elements overflows and one subtraction reduces it.                      *)
THEOREM AddInField ==
  ASSUME NEW a \in Field, NEW b \in Field
  PROVE  /\ gf3329_add(a, b) \in Field
         /\ gf3329_add(a, b) = (a + b) % FIELD_MODULUS
<1>1. /\ a \in Int /\ b \in Int
      /\ 0 <= a /\ a <= 3328 /\ 0 <= b /\ b <= 3328
  BY FieldIs
<1>2. (a + b) % 65536 = a + b
  BY SMT, <1>1
<1>3. gf3329_add(a, b) = IF a + b >= 3329 THEN a + b - 3329 ELSE a + b
  BY SMT, <1>1, <1>2 DEF gf3329_add, Half, FIELD_MODULUS
<1>4. (a + b) % 3329 = IF a + b >= 3329 THEN a + b - 3329 ELSE a + b
  BY SMT, <1>1
<1>5. gf3329_add(a, b) \in Int /\ 0 <= gf3329_add(a, b) /\ gf3329_add(a, b) <= 3328
  BY SMT, <1>1, <1>3
<1>6. gf3329_add(a, b) \in Field
  BY <1>5, FieldIs
<1> QED BY <1>3, <1>4, <1>6 DEF FIELD_MODULUS

(* gf3329_sub is subtraction in the field. *)
THEOREM SubInField ==
  ASSUME NEW a \in Field, NEW b \in Field
  PROVE  /\ gf3329_sub(a, b) \in Field
         /\ gf3329_sub(a, b) = (a - b) % FIELD_MODULUS
<1>1. /\ a \in Int /\ b \in Int
      /\ 0 <= a /\ a <= 3328 /\ 0 <= b /\ b <= 3328
  BY FieldIs
<1>2. a < b => (a + 3329 - b) % 65536 = a + 3329 - b
  BY SMT, <1>1
<1>3. gf3329_sub(a, b) = IF a >= b THEN a - b ELSE a + 3329 - b
  BY SMT, <1>1, <1>2 DEF gf3329_sub, Half, FIELD_MODULUS
<1>4. (a - b) % 3329 = IF a >= b THEN a - b ELSE a + 3329 - b
  BY SMT, <1>1
<1>5. gf3329_sub(a, b) \in Int /\ 0 <= gf3329_sub(a, b) /\ gf3329_sub(a, b) <= 3328
  BY SMT, <1>1, <1>3
<1>6. gf3329_sub(a, b) \in Field
  BY <1>5, FieldIs
<1> QED BY <1>3, <1>4, <1>6 DEF FIELD_MODULUS

(* For a word whose product with the multiplier fits 32 bits, Quotient is  *)
(* the product shifted by 26 bits.                                         *)
LEMMA QuotientIs ==
  ASSUME NEW h \in Int, 0 <= h, h <= 2, NEW l \in Int, 0 <= l, l <= 65535
  PROVE  /\ Quotient(<<h, l>>) \in Int
         /\ 67108864 * Quotient(<<h, l>>) <= (65536 * h + l) * 20159
         /\ (65536 * h + l) * 20159 < 67108864 * Quotient(<<h, l>>) + 67108864
<1>1. PICK v \in Int, e \in Int :
        /\ v = (l * 20159) \div 65536 /\ l * 20159 = 65536 * v + e
        /\ 0 <= e /\ e <= 65535
  BY SMT
<1>2. 0 <= v /\ v <= 20158
  BY SMT, <1>1
<1>3. PICK u \in Int : u = h * 20159 + v
  BY SMT, <1>1
<1>4. 0 <= u /\ u <= 60476
  BY SMT, <1>2, <1>3
<1>5. u % 65536 = u
  BY SMT, <1>4
<1>6. PICK z \in Int, f \in Int :
        /\ z = u \div 1024 /\ u = 1024 * z + f
        /\ 0 <= f /\ f <= 1023
  BY SMT
<1>7. Quotient(<<h, l>>) = z
  BY SMT, <1>1, <1>3, <1>5, <1>6 DEF Quotient, Half, BARRETT_MULTIPLIER
<1>8. (65536 * h + l) * 20159 = 67108864 * z + (65536 * f + e)
  BY SMT, <1>1, <1>3, <1>6
<1>9. 0 <= 65536 * f + e /\ 65536 * f + e < 67108864
  BY SMT, <1>1, <1>6
<1> QED BY SMT, <1>7, <1>8, <1>9

(* A quotient with the rounded-up multiplier is exact up to 153132. *)
LEMMA RoundedQuotient ==
  ASSUME NEW a \in Int, 0 <= a, a <= 153132,
         NEW z \in Int, 67108864 * z <= a * 20159,
         a * 20159 < 67108864 * z + 67108864
  PROVE  0 <= a - 3329 * z /\ a - 3329 * z <= 3328
<1>1. 0 <= z /\ z <= 45
  BY SMT
<1>2. a - 3329 * z <= 3328
  BY SMT, <1>1
<1>3. 0 <= a - 3329 * z
  BY SMT, <1>1
<1> QED BY SMT, <1>2, <1>3

(* barrett_reduce is reduction modulo the field's order below 153133, the  *)
(* first value for which the rounded-up multiplier gives a quotient too    *)
(* large; up to there no 32-bit product overflows.                         *)
THEOREM BarrettExact ==
  ASSUME NEW a \in Nat, a <= 153132
  PROVE  barrett_reduce(<<a \div Half, a % Half>>) = a % FIELD_MODULUS
<1>1. PICK h \in Int, l \in Int :
        /\ h = a \div 65536 /\ l = a % 65536 /\ a = 65536 * h + l
        /\ 0 <= h /\ h <= 2 /\ 0 <= l /\ l <= 65535
  BY SMT
<1>2. PICK z \in Int : z = Quotient(<<h, l>>)
  BY SMT, <1>1, QuotientIs
<1>3. 67108864 * z <= a * 20159 /\ a * 20159 < 67108864 * z + 67108864
  BY SMT, <1>1, <1>2, QuotientIs
<1>4. PICK d \in Int : d = a - 3329 * z /\ 0 <= d /\ d <= 3328
  BY SMT, <1>3, RoundedQuotient
<1>5. (l - z * 3329) % 65536 = d
  <2>1. l - z * 3329 = 65536 * (-h) + d
    <3>1. a = 65536 * h + l /\ d = a - 3329 * z
      BY <1>1, <1>4
    <3>. QED  BY SMT, <3>1
  <2> QED BY SMT, <1>4, <2>1
<1>6. barrett_reduce(<<h, l>>) = d
  BY SMT, <1>2, <1>4, <1>5 DEF barrett_reduce, FIELD_MODULUS, Half
<1>7. a % 3329 = d
  BY SMT, <1>4
<1> QED BY SMT, <1>1, <1>6, <1>7 DEF Half, FIELD_MODULUS

(* The elements of a sequence *)
LEMMA ElementType ==
  ASSUME NEW V, NEW q \in Seq(V), NEW i \in 1..Len(q)
  PROVE  q[i] \in V
OBVIOUS

-----------------------------------------------------------------------------
(* No operation leaves uint16_t. *)
LEMMA Word16 ==
  /\ \A x \in UInt16 : x \in Int /\ 0 <= x /\ x <= 65535
  /\ \A x \in Int : 0 <= x /\ x <= 65535 => x \in UInt16
<1>1. Half \in Int /\ Half - 1 = 65535
  BY DEF Half
<1>2. \A x \in UInt16 : x \in Int /\ 0 <= x /\ x <= Half - 1
  BY <1>1 DEF UInt16
<1>3. \A x \in Int : 0 <= x /\ x <= Half - 1 => x \in UInt16
  BY <1>1 DEF UInt16
<1>. QED  BY <1>1, <1>2, <1>3

LEMMA AddIs16 ==
  ASSUME NEW a \in UInt16, NEW b \in UInt16
  PROVE  gf3329_add(a, b) \in UInt16
<1>1. a \in Int /\ b \in Int
  BY Word16
<1> DEFINE r == (a + b) % 65536
<1>2. r \in Int /\ 0 <= r /\ r <= 65535
  BY <1>1, SMT
<1>3. gf3329_add(a, b) = IF r >= 3329 THEN r - 3329 ELSE r
  BY DEF gf3329_add, Half, FIELD_MODULUS
<1>. HIDE DEF r
<1>4. gf3329_add(a, b) \in Int /\ 0 <= gf3329_add(a, b) /\ gf3329_add(a, b) <= 65535
  BY <1>2, <1>3
<1>. QED  BY <1>4, Word16

LEMMA SubIs16 ==
  ASSUME NEW a \in UInt16, NEW b \in UInt16
  PROVE  gf3329_sub(a, b) \in UInt16
<1>1. a \in Int /\ b \in Int /\ 0 <= b /\ a <= 65535
  BY Word16
<1> DEFINE r == (a + 3329 - b) % 65536
<1>2. r \in Int /\ 0 <= r /\ r <= 65535
  BY <1>1, SMT
<1>3. gf3329_sub(a, b) = IF a >= b THEN a - b ELSE r
  BY DEF gf3329_sub, Half, FIELD_MODULUS
<1>. HIDE DEF r
<1>4. gf3329_sub(a, b) \in Int /\ 0 <= gf3329_sub(a, b) /\ gf3329_sub(a, b) <= 65535
  BY <1>1, <1>2, <1>3
<1>. QED  BY <1>4, Word16

LEMMA MulIs16 ==
  ASSUME NEW a \in UInt16, NEW b \in UInt16
  PROVE  gf3329_mul(a, b) \in UInt16
<1> DEFINE w == Product(a, b)
           r == (w[2] - Quotient(w) * 3329) % 65536
<1>1. a \in Int /\ b \in Int
  BY Word16
<1>2. w[1] \in Int /\ w[2] \in Int
  <2> DEFINE p == a * (b \div 256)
             q == a * (b % 256)
             low == (p % 256) * 256 + (q % 65536)
  <2>1. b \div 256 \in Int /\ b % 256 \in Int
    BY <1>1, SMT
  <2>2. p \in Int /\ q \in Int
    BY <1>1, <2>1
  <2>3. w = <<p \div 256 + q \div 65536 + low \div 65536, low % 65536>>
    BY DEF Product, Half
  <2>. HIDE DEF p, q, w
  <2>4. low \in Int
    BY <2>2, SMT
  <2>. HIDE DEF low
  <2>5. p \div 256 \in Int /\ q \div 65536 \in Int /\ low \div 65536 \in Int /\ low % 65536 \in Int
    BY <2>2, <2>4, SMT
  <2>. QED  BY <2>3, <2>5
<1>3. gf3329_mul(a, b) = IF r >= 3329 THEN r - 3329 ELSE r
  BY DEF gf3329_mul, barrett_reduce, Half, FIELD_MODULUS
<1>. HIDE DEF w
<1>4. Quotient(w) \in Int
  <2> DEFINE x == w[1] * 20159 + (w[2] * 20159) \div 65536
  <2>1. x \in Int
    BY <1>2, SMT
  <2>2. Quotient(w) = (x % 65536) \div 1024
    BY DEF Quotient, Half, BARRETT_MULTIPLIER
  <2>. HIDE DEF x
  <2>. QED  BY <2>1, <2>2, SMT
<1>5. r \in Int /\ 0 <= r /\ r <= 65535
  BY <1>2, <1>4, SMT
<1>. HIDE DEF r
<1>6. gf3329_mul(a, b) \in Int /\ 0 <= gf3329_mul(a, b) /\ gf3329_mul(a, b) <= 65535
  BY <1>3, <1>5
<1>. QED  BY <1>6, Word16

(* Horner's rule, step by step; it stays in uint16_t. *)
LEMMA EvaluateSteps ==
  ASSUME NEW cs \in Seq(UInt16), NEW x \in UInt16
  PROVE  \E h :
           /\ h[0] = 0
           /\ \A i \in 1..Len(cs) :
                h[i] = gf3329_add(gf3329_mul(h[i - 1], x), cs[Len(cs) + 1 - i])
           /\ h[Len(cs)] \in UInt16
           /\ gf3329_evaluate_polynomial(cs, x) = h[Len(cs)]
<1> DEFINE n == Len(cs)
           D == UInt16
           step(i, a) == gf3329_add(gf3329_mul(a, x), cs[Len(cs) + 1 - i])
           P(g) == g = [i \in 0..n |-> IF i = 0 THEN 0 ELSE step(i, g[i - 1])]
           f == CHOOSE g : P(g)
           F == [p \in (1..n) \X D |-> step(p[1], p[2])]
<1>1. n \in Nat /\ 0 \in D
  BY Word16
<1>2. ASSUME NEW i \in 1..n, NEW a \in D PROVE step(i, a) \in D
  <2>1. cs[Len(cs) + 1 - i] \in UInt16
    OBVIOUS
  <2>. QED  BY <2>1, MulIs16, AddIs16
<1>. HIDE DEF n, D, step
<1>3. F \in StepFcns(n, D)
  BY <1>2 DEF StepFcns
<1>4. PICK g : Recursion(n, D, 0, F, g)
  <2>. HIDE DEF F
  <2>. QED  BY <1>1, <1>3, RecursionExists, Zenon
<1>5. P(g)
  <2>1. ASSUME NEW i \in 0..n PROVE g[i] = IF i = 0 THEN 0 ELSE step(i, g[i - 1])
    <3>1. CASE i = 0
      BY <1>4, <3>1 DEF Recursion
    <3>2. CASE i # 0
      <4>1. i \in 1..n /\ i - 1 \in 0..n
        BY <1>1, <3>2
      <4>2. g[i - 1] \in D /\ g[i] = F[<<i, g[i - 1]>>]
        <5>. HIDE DEF F
        <5>. QED  BY <1>4, <4>1 DEF Recursion
      <4>. QED  BY <3>2, <4>1, <4>2
    <3>. QED  BY <3>1, <3>2
  <2>. HIDE DEF F
  <2>2. DOMAIN g = 0..n /\ g = [i \in 0..n |-> g[i]]
    BY <1>4 DEF Recursion
  <2>. QED  BY <2>1, <2>2
<1>6. P(f)
  <2>. HIDE DEF P
  <2>. QED  BY <1>5, Zenon
<1>7. ASSUME NEW i \in 0..n PROVE f[i] = IF i = 0 THEN 0 ELSE step(i, f[i - 1])
  <2>. HIDE DEF f
  <2>. QED  BY <1>6
<1>. HIDE DEF f, P, F
<1>8. f[0] \in D
  BY <1>1, <1>7
<1>9. \A i \in 1..n : f[i - 1] \in D => f[i] \in D
  BY <1>1, <1>2, <1>7
<1>10. \A i \in 0..n : f[i] \in D
  BY <1>1, <1>8, <1>9, RecursionType
<1>11. f[n] \in D
  BY <1>1, <1>10
<1>12. gf3329_evaluate_polynomial(cs, x) = f[n]
  BY DEF gf3329_evaluate_polynomial, f, P, step, n
<1>13. \A i \in 1..n : f[i] = step(i, f[i - 1])
  BY <1>1, <1>7
<1>14. f[0] = 0
  BY <1>1, <1>7
<1>. QED  BY <1>11, <1>12, <1>13, <1>14, Zenon DEF D, n, step

LEMMA EvaluateIs16 ==
  ASSUME NEW cs \in Seq(UInt16), NEW x \in UInt16
  PROVE  gf3329_evaluate_polynomial(cs, x) \in UInt16
BY EvaluateSteps

(* gf3329_inv stays in uint16_t. *)
LEMMA InverseIs16 ==
  ASSUME NEW y \in UInt16
  PROVE  gf3329_inv(y) \in UInt16
<1> DEFINE n == 12
           D == [result : UInt16, base : UInt16]
           step(i, a) == [result |-> IF ExpBit(i - 1) THEN gf3329_mul(a.result, a.base)
                                         ELSE a.result,
                            base |-> gf3329_mul(a.base, a.base)]
           P(g) == g = [i \in 0..n |-> IF i = 0 THEN [result |-> 1, base |-> y] ELSE step(i, g[i - 1])]
           f == CHOOSE g : P(g)
           F == [p \in (1..n) \X D |-> step(p[1], p[2])]
<1>1. n \in Nat /\ [result |-> 1, base |-> y] \in D
  BY Word16
<1>2. ASSUME NEW i \in 1..n, NEW a \in D PROVE step(i, a) \in D
  BY MulIs16
<1>. HIDE DEF n, D, step
<1>3. F \in StepFcns(n, D)
  BY <1>2 DEF StepFcns
<1>4. PICK g : Recursion(n, D, [result |-> 1, base |-> y], F, g)
  <2>. HIDE DEF F
  <2>. QED  BY <1>1, <1>3, RecursionExists, Zenon
<1>5. P(g)
  <2>1. ASSUME NEW i \in 0..n PROVE g[i] = IF i = 0 THEN [result |-> 1, base |-> y] ELSE step(i, g[i - 1])
    <3>1. CASE i = 0
      BY <1>4, <3>1 DEF Recursion
    <3>2. CASE i # 0
      <4>1. i \in 1..n /\ i - 1 \in 0..n
        BY <1>1, <3>2
      <4>2. g[i - 1] \in D /\ g[i] = F[<<i, g[i - 1]>>]
        <5>. HIDE DEF F
        <5>. QED  BY <1>4, <4>1 DEF Recursion
      <4>. QED  BY <3>2, <4>1, <4>2
    <3>. QED  BY <3>1, <3>2
  <2>. HIDE DEF F
  <2>2. DOMAIN g = 0..n /\ g = [i \in 0..n |-> g[i]]
    BY <1>4 DEF Recursion
  <2>. QED  BY <2>1, <2>2
<1>6. P(f)
  <2>. HIDE DEF P
  <2>. QED  BY <1>5, Zenon
<1>7. ASSUME NEW i \in 0..n PROVE f[i] = IF i = 0 THEN [result |-> 1, base |-> y] ELSE step(i, f[i - 1])
  <2>. HIDE DEF f
  <2>. QED  BY <1>6
<1>. HIDE DEF f, P, F
<1>8. f[0] \in D
  BY <1>1, <1>7
<1>9. \A i \in 1..n : f[i - 1] \in D => f[i] \in D
  BY <1>1, <1>2, <1>7
<1>10. \A i \in 0..n : f[i] \in D
  BY <1>1, <1>8, <1>9, RecursionType
<1>11. f[n] \in D
  BY <1>1, <1>10
<1>12. gf3329_inv(y) = IF y = 0 THEN 0 ELSE f[n].result
  BY DEF gf3329_inv, f, P, step, n
<1>13. f[n].result \in UInt16 /\ 0 \in UInt16
  BY <1>11, Word16 DEF D
<1>. QED  BY <1>12, <1>13

-----------------------------------------------------------------------------
(* What the holder has: shares of the device, whose indices and values are *)
(* 16-bit numbers, also when shamir_share_bytes wrote the indices.         *)
Holding ==
  /\ held \in Seq(1..N) /\ share \in Seq(UInt16) /\ Len(share) = N

LEMMA IdIs16 ==
  ASSUME NEW i \in 1..N
  PROVE  ShareId(i) \in UInt16
<1>1. i \in Int /\ 1 <= i /\ i <= 255
  BY ShamirAssumption
<1>2. (i + 1) \div 2 \in Int /\ 0 <= (i + 1) \div 2 /\ (i + 1) \div 2 <= 128
  BY <1>1, SMT
<1>3. ShareId(i) \in Int /\ 0 <= ShareId(i) /\ ShareId(i) <= 255
  BY <1>1, <1>2 DEF ShareId
<1>. QED  BY <1>3, Word16

LEMMA HoldingIs16 ==
  ASSUME Holding, NEW i \in 1..Len(held)
  PROVE  X(i) \in UInt16 /\ Y(i) \in UInt16
<1>1. held[i] \in 1..N
  BY DEF Holding
<1>2. share[held[i]] \in UInt16
  BY <1>1 DEF Holding
<1>. QED  BY <1>1, <1>2, IdIs16 DEF X, Y

(* The coefficients and the sum of shamir_reconstruct stay in uint16_t. *)
LEMMA LagrangeIs16 ==
  ASSUME Holding, NEW k \in 1..Len(held)
  PROVE  Lagrange(k) \in UInt16
<1> DEFINE n == Len(held)
           D == [num : UInt16, den : UInt16]
           step(i, a) == IF i = k THEN a
                         ELSE [num |-> gf3329_mul(a.num, gf3329_sub(0, X(i))),
                               den |-> gf3329_mul(a.den, gf3329_sub(X(k), X(i)))]
           P(g) == g = [i \in 0..n |-> IF i = 0 THEN [num |-> 1, den |-> 1] ELSE step(i, g[i - 1])]
           f == CHOOSE g : P(g)
           F == [p \in (1..n) \X D |-> step(p[1], p[2])]
<1>1. n \in Nat /\ [num |-> 1, den |-> 1] \in D
  BY Word16 DEF Holding
<1>2. ASSUME NEW i \in 1..n, NEW a \in D PROVE step(i, a) \in D
  <2>1. 0 \in UInt16 /\ X(i) \in UInt16 /\ X(k) \in UInt16
    BY Word16, HoldingIs16
  <2>2. gf3329_sub(0, X(i)) \in UInt16 /\ gf3329_sub(X(k), X(i)) \in UInt16
    BY <2>1, SubIs16
  <2>. QED  BY <2>2, MulIs16
<1>. HIDE DEF n, D, step
<1>3. F \in StepFcns(n, D)
  BY <1>2 DEF StepFcns
<1>4. PICK g : Recursion(n, D, [num |-> 1, den |-> 1], F, g)
  <2>. HIDE DEF F
  <2>. QED  BY <1>1, <1>3, RecursionExists, Zenon
<1>5. P(g)
  <2>1. ASSUME NEW i \in 0..n PROVE g[i] = IF i = 0 THEN [num |-> 1, den |-> 1] ELSE step(i, g[i - 1])
    <3>1. CASE i = 0
      BY <1>4, <3>1 DEF Recursion
    <3>2. CASE i # 0
      <4>1. i \in 1..n /\ i - 1 \in 0..n
        BY <1>1, <3>2
      <4>2. g[i - 1] \in D /\ g[i] = F[<<i, g[i - 1]>>]
        <5>. HIDE DEF F
        <5>. QED  BY <1>4, <4>1 DEF Recursion
      <4>. QED  BY <3>2, <4>1, <4>2
    <3>. QED  BY <3>1, <3>2
  <2>. HIDE DEF F
  <2>2. DOMAIN g = 0..n /\ g = [i \in 0..n |-> g[i]]
    BY <1>4 DEF Recursion
  <2>. QED  BY <2>1, <2>2
<1>6. P(f)
  <2>. HIDE DEF P
  <2>. QED  BY <1>5, Zenon
<1>7. ASSUME NEW i \in 0..n PROVE f[i] = IF i = 0 THEN [num |-> 1, den |-> 1] ELSE step(i, f[i - 1])
  <2>. HIDE DEF f
  <2>. QED  BY <1>6
<1>. HIDE DEF f, P, F
<1>8. f[0] \in D
  BY <1>1, <1>7
<1>9. \A i \in 1..n : f[i - 1] \in D => f[i] \in D
  BY <1>1, <1>2, <1>7
<1>10. \A i \in 0..n : f[i] \in D
  BY <1>1, <1>8, <1>9, RecursionType
<1>11. f[n] \in D
  BY <1>1, <1>10
<1>12. Lagrange(k) = gf3329_mul(f[n].num, gf3329_inv(f[n].den))
  BY DEF Lagrange, f, P, step, n
<1>13. f[n].num \in UInt16 /\ f[n].den \in UInt16
  BY <1>11 DEF D
<1>. QED  BY <1>12, <1>13, InverseIs16, MulIs16

LEMMA DeviceSumIs16 ==
  ASSUME Holding
  PROVE  DeviceSum \in UInt16
<1> DEFINE n == Len(held)
           D == UInt16
           step(i, a) == IF i = 1 THEN gf3329_mul(Y(i), Lagrange(i))
                         ELSE gf3329_add(a, gf3329_mul(Y(i), Lagrange(i)))
           P(g) == g = [i \in 0..n |-> IF i = 0 THEN 0 ELSE step(i, g[i - 1])]
           f == CHOOSE g : P(g)
           F == [p \in (1..n) \X D |-> step(p[1], p[2])]
<1>1. n \in Nat /\ 0 \in D
  BY Word16 DEF Holding
<1>2. ASSUME NEW i \in 1..n, NEW a \in D PROVE step(i, a) \in D
  <2>1. gf3329_mul(Y(i), Lagrange(i)) \in UInt16
    BY HoldingIs16, LagrangeIs16, MulIs16
  <2>. QED  BY <2>1, AddIs16
<1>. HIDE DEF n, D, step
<1>3. F \in StepFcns(n, D)
  BY <1>2 DEF StepFcns
<1>4. PICK g : Recursion(n, D, 0, F, g)
  <2>. HIDE DEF F
  <2>. QED  BY <1>1, <1>3, RecursionExists, Zenon
<1>5. P(g)
  <2>1. ASSUME NEW i \in 0..n PROVE g[i] = IF i = 0 THEN 0 ELSE step(i, g[i - 1])
    <3>1. CASE i = 0
      BY <1>4, <3>1 DEF Recursion
    <3>2. CASE i # 0
      <4>1. i \in 1..n /\ i - 1 \in 0..n
        BY <1>1, <3>2
      <4>2. g[i - 1] \in D /\ g[i] = F[<<i, g[i - 1]>>]
        <5>. HIDE DEF F
        <5>. QED  BY <1>4, <4>1 DEF Recursion
      <4>. QED  BY <3>2, <4>1, <4>2
    <3>. QED  BY <3>1, <3>2
  <2>. HIDE DEF F
  <2>2. DOMAIN g = 0..n /\ g = [i \in 0..n |-> g[i]]
    BY <1>4 DEF Recursion
  <2>. QED  BY <2>1, <2>2
<1>6. P(f)
  <2>. HIDE DEF P
  <2>. QED  BY <1>5, Zenon
<1>7. ASSUME NEW i \in 0..n PROVE f[i] = IF i = 0 THEN 0 ELSE step(i, f[i - 1])
  <2>. HIDE DEF f
  <2>. QED  BY <1>6
<1>. HIDE DEF f, P, F
<1>8. f[0] \in D
  BY <1>1, <1>7
<1>9. \A i \in 1..n : f[i - 1] \in D => f[i] \in D
  BY <1>1, <1>2, <1>7
<1>10. \A i \in 0..n : f[i] \in D
  BY <1>1, <1>8, <1>9, RecursionType
<1>11. f[n] \in D
  BY <1>1, <1>10
<1>12. DeviceSum = f[n]
  BY DEF DeviceSum, f, P, step, n
<1>. QED  BY <1>11, <1>12 DEF D

LEMMA MulModInField ==
  ASSUME NEW a \in Int, NEW b \in Int
  PROVE  MulMod(a, b) \in Field
<1>1. a * b \in Int
  OBVIOUS
<1>. QED  BY <1>1, ModIsField DEF MulMod

(* Those of reconstruct_secret stay in the field. *)
LEMMA HostLagrangeSteps ==
  ASSUME Holding, NEW k \in 1..Len(held)
  PROVE  \E h :
           /\ h[0] = [num |-> 1, den |-> 1]
           /\ \A i \in 1..Len(held) :
                h[i] = IF i = k THEN h[i - 1]
                       ELSE [num |-> MulMod(h[i - 1].num, -X(i)),
                             den |-> MulMod(h[i - 1].den, (X(k) - X(i)) % FIELD_MODULUS)]
           /\ \A i \in 0..Len(held) : h[i] \in [num : Field, den : Field]
           /\ HostLagrange(k) = MulMod(h[Len(held)].num, mod_inv(h[Len(held)].den))
<1> DEFINE n == Len(held)
           D == [num : Field, den : Field]
           step(i, a) == IF i = k THEN a
                         ELSE [num |-> MulMod(a.num, -X(i)),
                               den |-> MulMod(a.den, (X(k) - X(i)) % FIELD_MODULUS)]
           P(g) == g = [i \in 0..n |-> IF i = 0 THEN [num |-> 1, den |-> 1] ELSE step(i, g[i - 1])]
           f == CHOOSE g : P(g)
           F == [p \in (1..n) \X D |-> step(p[1], p[2])]
<1>1. n \in Nat /\ [num |-> 1, den |-> 1] \in D
  BY FieldIs DEF Holding
<1>2. ASSUME NEW i \in 1..n, NEW a \in D PROVE step(i, a) \in D
  <2>1. X(i) \in Int /\ X(k) \in Int
    BY Word16, HoldingIs16
  <2>2. -X(i) \in Int /\ X(k) - X(i) \in Int
    BY <2>1
  <2>3. (X(k) - X(i)) % FIELD_MODULUS \in Int
    BY <2>2, ModTwice
  <2>4. a.num \in Int /\ a.den \in Int
    BY FieldIs
  <2>. QED  BY <2>2, <2>3, <2>4, MulModInField
<1>. HIDE DEF n, D, step
<1>3. F \in StepFcns(n, D)
  BY <1>2 DEF StepFcns
<1>4. PICK g : Recursion(n, D, [num |-> 1, den |-> 1], F, g)
  <2>. HIDE DEF F
  <2>. QED  BY <1>1, <1>3, RecursionExists, Zenon
<1>5. P(g)
  <2>1. ASSUME NEW i \in 0..n PROVE g[i] = IF i = 0 THEN [num |-> 1, den |-> 1] ELSE step(i, g[i - 1])
    <3>1. CASE i = 0
      BY <1>4, <3>1 DEF Recursion
    <3>2. CASE i # 0
      <4>1. i \in 1..n /\ i - 1 \in 0..n
        BY <1>1, <3>2
      <4>2. g[i - 1] \in D /\ g[i] = F[<<i, g[i - 1]>>]
        <5>. HIDE DEF F
        <5>. QED  BY <1>4, <4>1 DEF Recursion
      <4>. QED  BY <3>2, <4>1, <4>2
    <3>. QED  BY <3>1, <3>2
  <2>. HIDE DEF F
  <2>2. DOMAIN g = 0..n /\ g = [i \in 0..n |-> g[i]]
    BY <1>4 DEF Recursion
  <2>. QED  BY <2>1, <2>2
<1>6. P(f)
  <2>. HIDE DEF P
  <2>. QED  BY <1>5, Zenon
<1>7. ASSUME NEW i \in 0..n PROVE f[i] = IF i = 0 THEN [num |-> 1, den |-> 1] ELSE step(i, f[i - 1])
  <2>. HIDE DEF f
  <2>. QED  BY <1>6
<1>. HIDE DEF f, P, F
<1>8. f[0] \in D
  BY <1>1, <1>7
<1>9. \A i \in 1..n : f[i - 1] \in D => f[i] \in D
  BY <1>1, <1>2, <1>7
<1>10. \A i \in 0..n : f[i] \in D
  BY <1>1, <1>8, <1>9, RecursionType
<1>11. f[n] \in D
  BY <1>1, <1>10
<1>12. HostLagrange(k) = MulMod(f[n].num, mod_inv(f[n].den))
  BY DEF HostLagrange, f, P, step, n
<1>13. \A i \in 1..n : f[i] = step(i, f[i - 1])
  BY <1>1, <1>7
<1>14. f[0] = [num |-> 1, den |-> 1]
  BY <1>1, <1>7
<1>. QED  BY <1>10, <1>12, <1>13, <1>14, Zenon DEF D, n, step

LEMMA HostLagrangeInField ==
  ASSUME Holding, NEW k \in 1..Len(held)
  PROVE  HostLagrange(k) \in Field
<1>1. PICK h : /\ \A i \in 0..Len(held) : h[i] \in [num : Field, den : Field]
               /\ HostLagrange(k) = MulMod(h[Len(held)].num, mod_inv(h[Len(held)].den))
  BY HostLagrangeSteps
<1>2. Len(held) \in 0..Len(held)
  OBVIOUS
<1>3. h[Len(held)].num \in Int /\ h[Len(held)].den \in Int
  BY <1>1, <1>2, FieldIs
<1>4. mod_inv(h[Len(held)].den) \in Int
  BY <1>3, InvType, FieldIs DEF mod_inv
<1>. QED  BY <1>1, <1>3, <1>4, MulModInField

LEMMA HostSumSteps ==
  ASSUME Holding
  PROVE  \E h :
           /\ h[0] = 0
           /\ \A i \in 1..Len(held) :
                h[i] = (h[i - 1] + (Y(i) % FIELD_MODULUS) * HostLagrange(i)) % FIELD_MODULUS
           /\ \A i \in 0..Len(held) : h[i] \in Field
           /\ HostSum = h[Len(held)]
<1> DEFINE n == Len(held)
           D == Field
           step(i, a) == (a + (Y(i) % FIELD_MODULUS) * HostLagrange(i)) % FIELD_MODULUS
           P(g) == g = [i \in 0..n |-> IF i = 0 THEN 0 ELSE step(i, g[i - 1])]
           f == CHOOSE g : P(g)
           F == [p \in (1..n) \X D |-> step(p[1], p[2])]
<1>1. n \in Nat /\ 0 \in D
  BY FieldIs DEF Holding
<1>2. ASSUME NEW i \in 1..n, NEW a \in D PROVE step(i, a) \in D
  <2> DEFINE y == Y(i) % FIELD_MODULUS
             l == HostLagrange(i)
  <2>1. y \in Int
    BY Word16, HoldingIs16, ModTwice
  <2>2. a \in Int /\ l \in Int
    BY FieldIs, HostLagrangeInField
  <2>. HIDE DEF y, l
  <2>3. a + y * l \in Int
    BY <2>1, <2>2
  <2>4. (a + y * l) % FIELD_MODULUS \in Field
    BY <2>3, ModIsField
  <2>. QED  BY <2>4 DEF y, l
<1>. HIDE DEF n, D, step
<1>3. F \in StepFcns(n, D)
  BY <1>2 DEF StepFcns
<1>4. PICK g : Recursion(n, D, 0, F, g)
  <2>. HIDE DEF F
  <2>. QED  BY <1>1, <1>3, RecursionExists, Zenon
<1>5. P(g)
  <2>1. ASSUME NEW i \in 0..n PROVE g[i] = IF i = 0 THEN 0 ELSE step(i, g[i - 1])
    <3>1. CASE i = 0
      BY <1>4, <3>1 DEF Recursion
    <3>2. CASE i # 0
      <4>1. i \in 1..n /\ i - 1 \in 0..n
        BY <1>1, <3>2
      <4>2. g[i - 1] \in D /\ g[i] = F[<<i, g[i - 1]>>]
        <5>. HIDE DEF F
        <5>. QED  BY <1>4, <4>1 DEF Recursion
      <4>. QED  BY <3>2, <4>1, <4>2
    <3>. QED  BY <3>1, <3>2
  <2>. HIDE DEF F
  <2>2. DOMAIN g = 0..n /\ g = [i \in 0..n |-> g[i]]
    BY <1>4 DEF Recursion
  <2>. QED  BY <2>1, <2>2
<1>6. P(f)
  <2>. HIDE DEF P
  <2>. QED  BY <1>5, Zenon
<1>7. ASSUME NEW i \in 0..n PROVE f[i] = IF i = 0 THEN 0 ELSE step(i, f[i - 1])
  <2>. HIDE DEF f
  <2>. QED  BY <1>6
<1>. HIDE DEF f, P, F
<1>8. f[0] \in D
  BY <1>1, <1>7
<1>9. \A i \in 1..n : f[i - 1] \in D => f[i] \in D
  BY <1>1, <1>2, <1>7
<1>10. \A i \in 0..n : f[i] \in D
  BY <1>1, <1>8, <1>9, RecursionType
<1>11. f[n] \in D
  BY <1>1, <1>10
<1>12. HostSum = f[n]
  BY DEF HostSum, f, P, step, n
<1>13. \A i \in 1..n : f[i] = step(i, f[i - 1])
  BY <1>1, <1>7
<1>14. f[0] = 0
  BY <1>1, <1>7
<1>. QED  BY <1>10, <1>12, <1>13, <1>14, Zenon DEF D, n, step

LEMMA HostSumInField ==
  ASSUME Holding
  PROVE  HostSum \in Field
<1>1. Len(held) \in 0..Len(held)
  BY DEF Holding
<1>. QED  BY <1>1, HostSumSteps

-----------------------------------------------------------------------------
(* ShareValue of 16-bit inputs is a 16-bit number. *)
LEMMA ShareIs16 ==
  ASSUME NEW s \in Secrets, NEW k \in Nat, NEW cs \in [1..k -> Coeffs], NEW i \in 1..N
  PROVE  ShareValue(s, cs, i) \in UInt16
<1>1. s \in UInt16 /\ Coeffs \subseteq UInt16
  BY ShamirAssumption, FieldIs, Word16
<1>2. cs \in Seq(UInt16)
  BY <1>1
<1>3. <<s>> \o cs \in Seq(UInt16)
  BY <1>1, <1>2
<1>4. i \in Int /\ 0 <= i /\ i <= 65535
  BY ShamirAssumption
<1>5. i \in UInt16
  BY <1>4, Word16
<1>. QED  BY <1>3, <1>5, EvaluateIs16 DEF ShareValue

(* Once a secret is shared, the shares are values of one polynomial of     *)
(* t coefficients with that secret, as it is, as its constant term.        *)
SharedInv ==
  t # 0 =>
    /\ secret \in Secrets
    /\ coeffs \in [1..(t - 1) -> Coeffs]
    /\ share = [i \in 1..N |-> ShareValue(secret, coeffs, i)]

(* No operation of the device leaves uint16_t, none of the host leaves the *)
(* field, whatever shares arrive in whatever order.                        *)
THEOREM ShamirTypes == Spec => []TypeOK
<1>. USE ShamirAssumption
<1>1. Init => TypeOK
  <2>. SUFFICES ASSUME Init PROVE TypeOK
    OBVIOUS
  <2>. QED  BY DEF Init, TypeOK
<1>2. TypeOK /\ [Next]_vars => TypeOK'
  <2>. SUFFICES ASSUME TypeOK, [Next]_vars PROVE TypeOK'
    OBVIOUS
  <2>. USE DEF TypeOK
  <2>1. ASSUME NEW s \in Secrets, NEW k \in Thresholds,
               NEW cs \in [1..(k - 1) -> Coeffs], Share(s, k, cs)
        PROVE  TypeOK'
    <3>1. k - 1 \in Nat
      OBVIOUS
    <3>2. \A i \in 1..N : ShareValue(s, cs, i) \in UInt16
      BY <3>1, ShareIs16
    <3>3. share' \in [1..N -> UInt16]
      BY <2>1, <3>2 DEF Share
    <3>4. N \in Nat
      OBVIOUS
    <3>5. share' \in Seq(UInt16) /\ Len(share') = N
      BY <3>3, <3>4
    <3>6. coeffs' \in Seq(Coeffs)
      BY <2>1, <3>1 DEF Share
    <3>. QED  BY <2>1, <3>5, <3>6 DEF Share
  <2>2. ASSUME NEW i \in 1..N, Deliver(i) PROVE TypeOK'
    <3>1. held' \in Seq(1..N) /\ Len(held') <= MaxHeld
      BY <2>2 DEF Deliver
    <3>. QED  BY <2>2, <3>1 DEF Deliver
  <2>3. ASSUME DeviceReconstruct PROVE TypeOK'
    <3>1. Holding
      BY <2>3 DEF DeviceReconstruct, Holding
    <3>2. device' \in UInt16 \cup {NONE, REFUSED}
      BY <2>3, <3>1, DeviceSumIs16 DEF DeviceReconstruct
    <3>. QED  BY <2>3, <3>2 DEF DeviceReconstruct
  <2>4. ASSUME HostReconstruct PROVE TypeOK'
    <3>1. Holding
      BY <2>4 DEF HostReconstruct, Holding
    <3>2. host' \in Field \cup {NONE, REFUSED}
      BY <2>4, <3>1, HostSumInField DEF HostReconstruct
    <3>. QED  BY <2>4, <3>2 DEF HostReconstruct
  <2>5. CASE UNCHANGED vars
    BY <2>5 DEF vars
  <2>. QED  BY <2>1, <2>2, <2>3, <2>4, <2>5 DEF Next
<1>. QED  BY <1>1, <1>2, PTL DEF Spec

(* The shares are always values of the device's polynomial. *)
LEMMA SharedAlways == Spec => []SharedInv
<1>1. Init => SharedInv
  BY DEF Init, SharedInv
<1>2. SharedInv /\ [Next]_vars => SharedInv'
  <2>. SUFFICES ASSUME SharedInv, [Next]_vars PROVE SharedInv'
    OBVIOUS
  <2>1. ASSUME NEW s \in Secrets, NEW k \in Thresholds,
               NEW cs \in [1..(k - 1) -> Coeffs], Share(s, k, cs)
        PROVE  SharedInv'
    BY <2>1 DEF Share, SharedInv
  <2>2. CASE UNCHANGED <<secret, t, share, coeffs>>
    BY <2>2 DEF SharedInv
  <2>. QED  BY <2>1, <2>2 DEF Next, Deliver, DeviceReconstruct, HostReconstruct, vars
<1>. QED  BY <1>1, <1>2, PTL DEF Spec

-----------------------------------------------------------------------------
(* gf3329_mul is multiplication in the field when one factor is at most    *)
(* 46: the product stays below what barrett_reduce gets wrong.             *)
THEOREM MulInField ==
  ASSUME NEW a \in Field, NEW x \in 1..46
  PROVE  /\ gf3329_mul(a, x) \in Field
         /\ gf3329_mul(a, x) = (a * x) % FIELD_MODULUS
<1>1. a \in Int /\ 0 <= a /\ a <= 3328
  BY FieldIs
<1>2. x \div 256 = 0 /\ x % 256 = x
  BY SMT
<1>3. PICK w \in Int : w = a * x
  BY <1>1
<1>4. 0 <= w /\ w <= 153132
  <2>1. a * x <= 3328 * x
    BY <1>1, SMT
  <2>2. 0 <= a * x
    BY <1>1, SMT
  <2>. QED  BY <1>3, <2>1, <2>2
<1>5. Product(a, x) = <<w \div 65536, w % 65536>>
  <2>1. a * (x \div 256) = 0 /\ a * (x % 256) = w
    BY <1>1, <1>2, <1>3
  <2>2. Product(a, x) = <<0 \div 256 + w \div 65536 + ((0 % 256) * 256 + (w % 65536)) \div 65536,
                          ((0 % 256) * 256 + (w % 65536)) % 65536>>
    BY <2>1 DEF Product, Half
  <2>3. 0 \div 256 + w \div 65536 + ((0 % 256) * 256 + (w % 65536)) \div 65536 = w \div 65536
    BY <1>3, SMT
  <2>4. ((0 % 256) * 256 + (w % 65536)) % 65536 = w % 65536
    BY <1>3, SMT
  <2>. QED  BY <2>2, <2>3, <2>4
<1>6. barrett_reduce(<<w \div Half, w % Half>>) = w % FIELD_MODULUS
  BY <1>3, <1>4, BarrettExact
<1>7. gf3329_mul(a, x) = w % FIELD_MODULUS
  BY <1>5, <1>6 DEF gf3329_mul, Half
<1>. QED  BY <1>3, <1>7, ModIsField

-----------------------------------------------------------------------------
(* The last addition of Horner's rule, whose second term is the secret: up *)
(* to 62207 it does not wrap, and the modulus is taken off once.           *)
LEMMA AddOnce ==
  ASSUME NEW a \in Field, NEW b \in Int, 0 <= b, b <= Half - FIELD_MODULUS
  PROVE  /\ a \in Int /\ 0 <= a /\ a <= 3328
         /\ a + b >= 3329 => gf3329_add(a, b) = a + b - 3329
         /\ a + b < 3329 => gf3329_add(a, b) = a + b
<1>1. a \in Int /\ 0 <= a /\ a <= 3328
  BY FieldIs
<1>2. (a + b) % 65536 = a + b
  BY SMT, <1>1 DEF Half, FIELD_MODULUS
<1>. QED  BY SMT, <1>1, <1>2 DEF gf3329_add, Half, FIELD_MODULUS

(* So that it keeps the residue. *)
LEMMA AddWide ==
  ASSUME NEW a \in Field, NEW b \in Int, 0 <= b, b <= Half - FIELD_MODULUS
  PROVE  gf3329_add(a, b) \in Int /\ Cong(gf3329_add(a, b), a + b)
<1>1. /\ a \in Int /\ 0 <= a /\ a <= 3328
      /\ a + b >= 3329 => gf3329_add(a, b) = a + b - 3329
      /\ a + b < 3329 => gf3329_add(a, b) = a + b
  BY AddOnce
<1>2. (a + b - 3329) % 3329 = (a + b) % 3329
  BY SMT, <1>1
<1>. QED  BY <1>1, <1>2, SMT DEF Cong, FIELD_MODULUS

(* A share of two, below index 47: a multiple of the index, in the field,  *)
(* to which the secret is added.                                           *)
LEMMA LineValue ==
  ASSUME NEW s \in UInt16, NEW c \in Field, NEW x \in 1..46
  PROVE  ShareValue(s, <<c>>, x) = gf3329_add((c * x) % FIELD_MODULUS, s)
<1>1. s \in UInt16 /\ c \in UInt16 /\ x \in UInt16 /\ 0 \in Field /\ s \in Int /\ c \in Int
  BY FieldIs, Word16
<1> DEFINE cs == <<s>> \o <<c>>
<1>2. cs \in Seq(UInt16) /\ Len(cs) = 2 /\ cs[1] = s /\ cs[2] = c
  BY <1>1
<1>. HIDE DEF cs
<1>3. PICK h : /\ h[0] = 0
               /\ \A i \in 1..Len(cs) :
                    h[i] = gf3329_add(gf3329_mul(h[i - 1], x), cs[Len(cs) + 1 - i])
               /\ gf3329_evaluate_polynomial(cs, x) = h[Len(cs)]
  BY <1>1, <1>2, EvaluateSteps
<1>4. h[1] = gf3329_add(gf3329_mul(0, x), c) /\ h[2] = gf3329_add(gf3329_mul(h[1], x), s)
  <2>1. 1 \in 1..Len(cs) /\ 2 \in 1..Len(cs) /\ Len(cs) + 1 - 1 = 2 /\ Len(cs) + 1 - 2 = 1
        /\ 1 - 1 = 0 /\ 2 - 1 = 1
    BY <1>2
  <2>2. h[1] = gf3329_add(gf3329_mul(h[1 - 1], x), cs[Len(cs) + 1 - 1])
    BY <1>3, <2>1
  <2>3. h[2] = gf3329_add(gf3329_mul(h[2 - 1], x), cs[Len(cs) + 1 - 2])
    BY <1>3, <2>1
  <2>. QED  BY <1>2, <1>3, <2>1, <2>2, <2>3
<1>5. gf3329_mul(0, x) = 0
  <2>1. (0 * x) % FIELD_MODULUS = 0
    BY SMT DEF FIELD_MODULUS
  <2>. QED  BY <1>1, <2>1, MulInField
<1>6. h[1] = c
  <2>1. gf3329_add(0, c) = (0 + c) % FIELD_MODULUS /\ 0 + c = c
    BY <1>1, AddInField
  <2>. QED  BY <1>4, <1>5, <2>1, ModIsField
<1>7. gf3329_mul(c, x) \in Field /\ gf3329_mul(c, x) = (c * x) % FIELD_MODULUS
  BY MulInField
<1>8. h[2] = gf3329_add((c * x) % FIELD_MODULUS, s)
  BY <1>4, <1>6, <1>7
<1>9. ShareValue(s, <<c>>, x) = gf3329_evaluate_polynomial(cs, x)
  BY DEF ShareValue, cs
<1>. QED  BY <1>2, <1>3, <1>8, <1>9

(* Every field element is a multiple of the index. *)
LEMMA LineThrough ==
  ASSUME NEW m \in Field, NEW x \in 1..46
  PROVE  \E c \in Field : (c * x) % FIELD_MODULUS = m
<1>1. x \in Int /\ m \in Int /\ m % FIELD_MODULUS = m
  BY FieldIs, ModIsField
<1>2. x % FIELD_MODULUS = x /\ x # 0
  BY SMT DEF FIELD_MODULUS
<1> DEFINE c == ((m % FIELD_MODULUS) * inv(x)) % FIELD_MODULUS
<1>3. c \in Field
  <2>1. inv(x) \in Int
    <3>1. inv(x) \in Field
      BY <1>1, InvType
    <3>. QED  BY <3>1, FieldIs
  <2>2. (m % FIELD_MODULUS) * inv(x) \in Int
    BY <1>1, <2>1
  <2>. QED  BY <2>2, ModIsField
<1>4. (c * x) % FIELD_MODULUS = m % FIELD_MODULUS
  BY <1>1, <1>2, InvCancels
<1>. HIDE DEF c
<1>. QED  BY <1>1, <1>3, <1>4

(* A share y of two, and the secrets it leaves possible *)
LEMMA WindowIs ==
  ASSUME NEW s \in Int, 0 <= s, Narrow(s), NEW x \in 1..46, NEW y \in UInt16
  PROVE  (\E c \in Field : ShareValue(s, <<c>>, x) = y) <=> s \in Window(y)
<1>1. s <= Half - FIELD_MODULUS /\ s \in UInt16 /\ y \in Int /\ 0 <= y
  <2>1. s <= Half - FIELD_MODULUS
    BY DEF Narrow
  <2>2. s <= 65535
    BY <2>1 DEF Half, FIELD_MODULUS
  <2>. QED  BY <2>1, <2>2, Word16
<1>2. s \in Window(y) <=> (s <= y + 3329 /\ (y >= 3329 => s > y))
  BY <1>1, SMT DEF Window, FIELD_MODULUS
<1>3. ASSUME NEW c \in Field, ShareValue(s, <<c>>, x) = y
      PROVE  s \in Window(y)
  <2> DEFINE m == (c * x) % FIELD_MODULUS
  <2>1. m \in Field
    BY MulInField
  <2>2. gf3329_add(m, s) = y
    BY <1>1, <1>3, LineValue
  <2>. HIDE DEF m
  <2>3. /\ m \in Int /\ 0 <= m /\ m <= 3328
        /\ m + s >= 3329 => y = m + s - 3329
        /\ m + s < 3329 => y = m + s
    BY <1>1, <2>1, <2>2, AddOnce
  <2>. QED  BY <1>1, <1>2, <2>3, SMT
<1>4. ASSUME s \in Window(y)
      PROVE  \E c \in Field : ShareValue(s, <<c>>, x) = y
  <2>1. PICK m \in Field : gf3329_add(m, s) = y
    <3>1. CASE s > y
      <4> DEFINE n == y + 3329 - s
      <4>1. n \in Int /\ 0 <= n /\ n <= 3328 /\ n + s >= 3329 /\ n + s - 3329 = y
        BY <1>1, <1>2, <1>4, <3>1
      <4>. HIDE DEF n
      <4>2. n \in Field
        BY <4>1, FieldIs
      <4>3. gf3329_add(n, s) = y
        BY <1>1, <4>1, <4>2, AddOnce
      <4>. QED  BY <4>2, <4>3
    <3>2. CASE s <= y
      <4> DEFINE n == y - s
      <4>1. n \in Int /\ 0 <= n /\ n <= 3328 /\ n + s < 3329 /\ n + s = y
        BY <1>1, <1>2, <1>4, <3>2
      <4>. HIDE DEF n
      <4>2. n \in Field
        BY <4>1, FieldIs
      <4>3. gf3329_add(n, s) = y
        BY <1>1, <4>1, <4>2, AddOnce
      <4>. QED  BY <4>2, <4>3
    <3>. QED  BY <1>1, <3>1, <3>2
  <2>2. PICK c \in Field : (c * x) % FIELD_MODULUS = m
    BY <2>1, LineThrough
  <2>3. ShareValue(s, <<c>>, x) = y
    BY <1>1, <2>1, <2>2, LineValue
  <2>. QED  BY <2>3
<1>. QED  BY <1>3, <1>4

(* With a threshold of two and at most 46 shares, one share tells exactly  *)
(* the window that the shared word lies in, whichever share it is: nothing *)
(* when its value is under the modulus and the words are field elements,   *)
(* the upper bits of a larger word.                                        *)
THEOREM OneShareTells ==
  ASSUME N <= 46
  PROVE  Spec => []OneShareTellsTheWindow
<1>1. TypeOK /\ SharedInv => OneShareTellsTheWindow
  <2>. SUFFICES ASSUME TypeOK, SharedInv, t = 2, Len(held) = 1,
                        NEW s \in Secrets, Narrow(s)
                 PROVE  (\E c \in Field : ShareValue(s, <<c>>, held[1]) = Y(1))
                           <=> s \in Window(Y(1))
    BY DEF OneShareTellsTheWindow
  <2>1. held[1] \in 1..N /\ held[1] \in 1..46
    <3>1. held \in Seq(1..N) /\ 1 \in 1..Len(held)
      BY DEF TypeOK
    <3>2. held[1] \in 1..N
      BY <3>1, ElementType, Zenon
    <3>3. N \in Int
      BY ShamirAssumption
    <3>. QED  BY <3>2, <3>3
  <2>2. Y(1) \in UInt16
    <3>1. share = [i \in 1..N |-> ShareValue(secret, coeffs, i)] /\ N \in Nat /\ N >= 1
      BY ShamirAssumption DEF SharedInv
    <3>2. share # <<>>
      BY <3>1
    <3>3. share \in Seq(UInt16) /\ Len(share) = N
      BY <3>2 DEF TypeOK
    <3>. QED  BY <2>1, <3>3, ElementType DEF Y
  <2>3. s \in Int /\ 0 <= s
    BY ShamirAssumption, Word16
  <2>. QED  BY <2>1, <2>2, <2>3, WindowIs, Zenon
<1>. QED  BY <1>1, ShamirTypes, SharedAlways, PTL

-----------------------------------------------------------------------------
(* Coefficients as a sequence, with the secret in front *)
LEMMA Coefficients ==
  ASSUME NEW s \in UInt16, NEW k \in Nat, k >= 1, NEW cs \in [1..(k - 1) -> Field]
  PROVE  /\ <<s>> \o cs \in Seq(UInt16) /\ Len(<<s>> \o cs) = k
         /\ (<<s>> \o cs)[1] = s
         /\ \A i \in 2..k : (<<s>> \o cs)[i] \in Field
         /\ \A i \in 1..k : (<<s>> \o cs)[i] \in Int
<1>1. k - 1 \in Nat /\ Field \subseteq UInt16
  BY Word16, FieldIs
<1>2. cs \in [1..(k - 1) -> UInt16]
  BY <1>1
<1>3. cs \in Seq(UInt16) /\ Len(cs) = k - 1
  BY <1>1, <1>2
<1> DEFINE c == <<s>> \o cs
<1>4. c \in Seq(UInt16) /\ Len(c) = k /\ c[1] = s
  BY <1>3
<1>5. ASSUME NEW i \in 2..k PROVE c[i] \in Field
  <2>1. i - 1 \in 1..(k - 1) /\ c[i] = cs[i - 1]
    BY <1>3
  <2>. QED  BY <2>1
<1>. HIDE DEF c
<1>6. ASSUME NEW i \in 1..k PROVE c[i] \in Int
  <2>1. c[i] \in UInt16
    BY <1>4, ElementType
  <2>. QED  BY <2>1, Word16
<1>. QED  BY <1>4, <1>5, <1>6 DEF c

(* The steps h of Horner's rule for the share at x *)
ShareRule(s, k, cs, x, h) ==
  /\ h[0] = 0
  /\ \A i \in 1..k :
       /\ h[i] \in Int
       /\ Cong(h[i], x * h[i - 1] + (<<s>> \o cs)[k + 1 - i])
  /\ ShareValue(s, cs, x) = h[k]

(* A share is computed by Horner's rule in the field. *)
LEMMA ShareHorner ==
  ASSUME NEW s \in Int, 0 <= s, s <= Half - FIELD_MODULUS, NEW k \in Nat, k >= 1,
         NEW cs \in [1..(k - 1) -> Field], NEW x \in 1..46
  PROVE  \E h : ShareRule(s, k, cs, x, h)
<1> DEFINE c == <<s>> \o cs
<1>1. /\ c \in Seq(UInt16) /\ Len(c) = k /\ c[1] = s
      /\ \A i \in 1..(k - 1) : c[k + 1 - i] \in Field
  <2>1. s \in UInt16 /\ Field \in SUBSET UInt16
    <3>1. s <= 65535
      BY DEF Half, FIELD_MODULUS
    <3>. QED  BY <3>1, Word16, FieldIs
  <2>2. /\ c \in Seq(UInt16) /\ Len(c) = k /\ c[1] = s
        /\ \A i \in 2..k : c[i] \in Field
    BY <2>1, Coefficients
  <2>. HIDE DEF c
  <2>3. \A i \in 1..(k - 1) : k + 1 - i \in 2..k
    OBVIOUS
  <2>. QED  BY <2>2, <2>3
<1>. HIDE DEF c
<1>2. PICK h : /\ h[0] = 0
               /\ \A i \in 1..Len(c) : h[i] = gf3329_add(gf3329_mul(h[i - 1], x), c[Len(c) + 1 - i])
               /\ gf3329_evaluate_polynomial(c, x) = h[Len(c)]
  <2>1. x \in UInt16
    BY Word16
  <2>. QED  BY <1>1, <2>1, EvaluateSteps
<1>3. \A i \in 1..k : h[i] = gf3329_add(gf3329_mul(h[i - 1], x), c[k + 1 - i])
  BY <1>1, <1>2
<1>4. \A i \in 0..(k - 1) : h[i] \in Field
  <2>1. h[0] \in Field /\ k - 1 \in Nat
    BY <1>2, FieldIs
  <2>2. ASSUME NEW i \in 1..(k - 1), h[i - 1] \in Field PROVE h[i] \in Field
    <3>1. h[i] = gf3329_add(gf3329_mul(h[i - 1], x), c[k + 1 - i]) /\ c[k + 1 - i] \in Field
      BY <1>1, <1>3
    <3>2. gf3329_mul(h[i - 1], x) \in Field
      BY <2>2, MulInField, Zenon
    <3>3. gf3329_add(gf3329_mul(h[i - 1], x), c[k + 1 - i]) \in Field
      BY <3>1, <3>2, AddInField, Zenon
    <3>. QED  BY <3>1, <3>3
  <2>3. \A i \in 1..(k - 1) : h[i - 1] \in Field => h[i] \in Field
    BY <2>2
  <2>. QED  BY <2>1, <2>3, RecursionType, Zenon
<1>5. ASSUME NEW i \in 1..k
      PROVE  h[i] \in Int /\ Cong(h[i], x * h[i - 1] + c[k + 1 - i])
  <2> DEFINE y == h[i - 1]
             d == c[k + 1 - i]
             m == gf3329_mul(y, x)
  <2>1. y \in Field /\ h[i] = gf3329_add(m, d)
    BY <1>3, <1>4
  <2>2. d \in Int /\ 0 <= d /\ d <= Half - FIELD_MODULUS
    <3>1. CASE i = k
      <4>1. k + 1 - i = 1
        BY <3>1
      <4>. QED  BY <1>1, <4>1
    <3>2. CASE i # k
      <4>1. d \in Field
        BY <1>1, <3>2
      <4>. HIDE DEF d
      <4>2. 3328 <= Half - FIELD_MODULUS /\ Half - FIELD_MODULUS \in Int
        BY DEF Half, FIELD_MODULUS
      <4>. QED  BY <4>1, <4>2, FieldIs
    <3>. QED  BY <3>1, <3>2
  <2>. HIDE DEF y, d
  <2>3. m \in Field /\ m = (y * x) % FIELD_MODULUS
    BY <2>1, MulInField
  <2>4. y \in Int /\ x \in Int /\ m \in Int
    BY <2>1, <2>3, FieldIs
  <2>5. y * x \in Int /\ y * x = x * y
    BY <2>4
  <2>6. Cong(m, x * y)
    BY <2>3, <2>5, CongMod
  <2>. HIDE DEF m
  <2>7. Cong(m + d, x * y + d)
    <3>1. Cong(d, d) /\ x * y \in Int
      BY <2>5, CongSame
    <3>. QED  BY <2>2, <2>4, <2>6, <3>1, CongAdd, Zenon
  <2>8. h[i] \in Int /\ Cong(h[i], m + d)
    BY <2>1, <2>2, <2>3, AddWide
  <2>9. Cong(h[i], x * y + d)
    BY <2>7, <2>8, CongSame
  <2>. QED  BY <2>8, <2>9 DEF y, d
<1>6. ShareValue(s, cs, x) = h[k]
  BY <1>1, <1>2 DEF ShareValue, c
<1>7. ShareRule(s, k, cs, x, h)
  BY <1>2, <1>5, <1>6 DEF ShareRule, c
<1>. QED  BY <1>7

(* The value of a polynomial, step by step; it stays in the field. *)
LEMMA PolynomialSteps ==
  ASSUME NEW c \in Seq(UInt16), NEW x \in Int
  PROVE  \E h :
           /\ h[0] = 0
           /\ \A i \in 1..Len(c) : h[i] = (h[i - 1] * x + c[Len(c) + 1 - i]) % FIELD_MODULUS
           /\ \A i \in 0..Len(c) : h[i] \in Field
           /\ PolynomialAt(c, x) = h[Len(c)]
<1> DEFINE n == Len(c)
           D == Field
           step(i, a) == (a * x + c[Len(c) + 1 - i]) % FIELD_MODULUS
           P(g) == g = [i \in 0..n |-> IF i = 0 THEN 0 ELSE step(i, g[i - 1])]
           f == CHOOSE g : P(g)
           F == [p \in (1..n) \X D |-> step(p[1], p[2])]
<1>1. n \in Nat /\ 0 \in D
  BY FieldIs
<1>2. ASSUME NEW i \in 1..n, NEW a \in D PROVE step(i, a) \in D
  <2> DEFINE e == c[Len(c) + 1 - i]
  <2>1. e \in UInt16
    OBVIOUS
  <2>. HIDE DEF e
  <2>2. e \in Int /\ a \in Int
    BY <2>1, Word16, FieldIs
  <2>3. a * x + e \in Int
    BY <2>2
  <2>4. (a * x + e) % FIELD_MODULUS \in Field
    BY <2>3, ModIsField
  <2>. QED  BY <2>4 DEF e
<1>. HIDE DEF n, D, step
<1>3. F \in StepFcns(n, D)
  BY <1>2 DEF StepFcns
<1>4. PICK g : Recursion(n, D, 0, F, g)
  <2>. HIDE DEF F
  <2>. QED  BY <1>1, <1>3, RecursionExists, Zenon
<1>5. P(g)
  <2>1. ASSUME NEW i \in 0..n PROVE g[i] = IF i = 0 THEN 0 ELSE step(i, g[i - 1])
    <3>1. CASE i = 0
      BY <1>4, <3>1 DEF Recursion
    <3>2. CASE i # 0
      <4>1. i \in 1..n /\ i - 1 \in 0..n
        BY <1>1, <3>2
      <4>2. g[i - 1] \in D /\ g[i] = F[<<i, g[i - 1]>>]
        <5>. HIDE DEF F
        <5>. QED  BY <1>4, <4>1 DEF Recursion
      <4>. QED  BY <3>2, <4>1, <4>2
    <3>. QED  BY <3>1, <3>2
  <2>. HIDE DEF F
  <2>2. DOMAIN g = 0..n /\ g = [i \in 0..n |-> g[i]]
    BY <1>4 DEF Recursion
  <2>. QED  BY <2>1, <2>2
<1>6. P(f)
  <2>. HIDE DEF P
  <2>. QED  BY <1>5, Zenon
<1>7. ASSUME NEW i \in 0..n PROVE f[i] = IF i = 0 THEN 0 ELSE step(i, f[i - 1])
  <2>. HIDE DEF f
  <2>. QED  BY <1>6
<1>. HIDE DEF f, P, F
<1>8. f[0] \in D
  BY <1>1, <1>7
<1>9. \A i \in 1..n : f[i - 1] \in D => f[i] \in D
  BY <1>1, <1>2, <1>7
<1>10. \A i \in 0..n : f[i] \in D
  BY <1>1, <1>8, <1>9, RecursionType
<1>11. PolynomialAt(c, x) = f[n]
  BY DEF PolynomialAt, f, P, step, n
<1>12. \A i \in 1..n : f[i] = step(i, f[i - 1])
  BY <1>1, <1>7
<1>13. f[0] = 0
  BY <1>1, <1>7
<1>. QED  BY <1>10, <1>11, <1>12, <1>13, Zenon DEF D, n, step

(* At zero it is the first coefficient. *)
LEMMA PolynomialAtZero ==
  ASSUME NEW c \in Seq(UInt16), Len(c) >= 1
  PROVE  PolynomialAt(c, 0) = c[1] % FIELD_MODULUS
<1> DEFINE n == Len(c)
<1>1. PICK h : /\ \A i \in 1..n : h[i] = (h[i - 1] * 0 + c[n + 1 - i]) % FIELD_MODULUS
               /\ \A i \in 0..n : h[i] \in Field
               /\ PolynomialAt(c, 0) = h[n]
  BY PolynomialSteps
<1>2. n \in 1..n /\ n - 1 \in 0..n /\ n + 1 - n = 1
  OBVIOUS
<1>. HIDE DEF n
<1>3. h[n] = (h[n - 1] * 0 + c[1]) % FIELD_MODULUS
  BY <1>1, <1>2
<1>4. h[n - 1] \in Int /\ c[1] \in Int
  <2>1. c[1] \in UInt16
    BY ElementType
  <2>. QED  BY <1>1, <1>2, <2>1, Word16, FieldIs
<1>5. h[n - 1] * 0 + c[1] = c[1]
  BY <1>4
<1>. QED  BY <1>1, <1>3, <1>5

(* Lagrange interpolation at zero over any k or more shares that travel    *)
(* under the index x with the value at a * x + b gives the value at b.     *)
LEMMA SharesDetermine ==
  ASSUME NEW s \in Int, 0 <= s, s <= Half - FIELD_MODULUS, NEW k \in Nat, k >= 1,
         NEW cs \in [1..(k - 1) -> Field],
         NEW a \in Int, NEW b \in Int, NEW U \in SUBSET Field, 0 \notin U,
         \A x \in U : a * x + b \in 1..46, Cardinality(U) >= k
  PROVE  /\ \A x \in U : ShareValue(s, cs, a * x + b) * Coefficient(U, x) \in Int
         /\ Cong(SumOver([x \in U |-> ShareValue(s, cs, a * x + b) * Coefficient(U, x)], U),
                 PolynomialAt(<<s>> \o cs, b))
<1>0. PICK e : /\ e[0] = 0
               /\ \A i \in 1..k : e[i] = (e[i - 1] * b + (<<s>> \o cs)[k + 1 - i]) % FIELD_MODULUS
               /\ \A i \in 0..k : e[i] \in Field
               /\ PolynomialAt(<<s>> \o cs, b) = e[k]
  <2>1. s \in UInt16
    <3>1. s <= 65535
      BY DEF Half, FIELD_MODULUS
    <3>. QED  BY <3>1, Word16
  <2>2. <<s>> \o cs \in Seq(UInt16) /\ Len(<<s>> \o cs) = k
    BY <2>1, Coefficients
  <2>. QED  BY <2>2, PolynomialSteps
<1> DEFINE H(x) == CHOOSE h : ShareRule(s, k, cs, a * x + b, h)
           Z == U \cup {0}
           c == [i \in 1..k |-> (<<s>> \o cs)[k + 1 - i]]
           q == [i \in 0..k |-> [x \in Z |-> IF x = 0 THEN e[i] ELSE H(x)[i]]]
<1>1. /\ U \in SUBSET Field /\ Z \in SUBSET Field /\ 0 \notin U
      /\ IsFiniteSet(U) /\ Cardinality(Z) = Cardinality(U) + 1 /\ Cardinality(U) \in Nat
  <2>1. IsFiniteSet(U)
    BY FieldFacts
  <2>. QED  BY <2>1, FieldFacts, FS_AddElement, FS_CardinalityType
<1>2. ASSUME NEW x \in U PROVE ShareRule(s, k, cs, a * x + b, H(x))
  <2>1. a * x + b \in 1..46
    OBVIOUS
  <2>2. \E h : ShareRule(s, k, cs, a * x + b, h)
    BY <2>1, ShareHorner
  <2>. QED  BY <2>2, Zenon
<1>3. \A i \in 1..k : c[i] \in Int
  <2>1. s \in UInt16
    <3>1. s <= 65535
      BY DEF Half, FIELD_MODULUS
    <3>. QED  BY <3>1, Word16
  <2>2. \A i \in 1..k : (<<s>> \o cs)[i] \in Int
    BY <2>1, Coefficients
  <2>3. \A i \in 1..k : k + 1 - i \in 1..k
    OBVIOUS
  <2>. QED  BY <2>2, <2>3
<1>5. \A i \in 1..k : /\ (<<s>> \o cs)[k + 1 - i] = c[i]
                      /\ e[i] = (e[i - 1] * b + c[i]) % FIELD_MODULUS
  BY <1>0
<1>. HIDE DEF H, c
<1>6. /\ \A i \in 0..k : \A x \in U : q[i][x] = H(x)[i]
      /\ \A i \in 0..k : q[i][0] = e[i]
  BY <1>1
<1>7. \A x \in U : /\ H(x)[0] = 0 /\ H(x)[k] = ShareValue(s, cs, a * x + b)
                   /\ \A i \in 1..k : H(x)[i] \in Int /\ Cong(H(x)[i], (a * x + b) * H(x)[i - 1] + c[i])
  <2>. SUFFICES ASSUME NEW x \in U
                PROVE  /\ H(x)[0] = 0 /\ H(x)[k] = ShareValue(s, cs, a * x + b)
                       /\ \A i \in 1..k : H(x)[i] \in Int /\ Cong(H(x)[i], (a * x + b) * H(x)[i - 1] + c[i])
    OBVIOUS
  <2>1. ShareRule(s, k, cs, a * x + b, H(x))
    BY <1>2
  <2>. QED  BY <1>5, <2>1 DEF ShareRule
<1>. HIDE DEF q
<1>8. Horner(Z, k, q, c, a, b)
  <2>1. ASSUME NEW i \in 0..k, NEW x \in Z PROVE q[i][x] \in Int
    <3>1. i \in 1..k \/ i = 0
      OBVIOUS
    <3>2. CASE x = 0
      <4>1. e[i] \in Field /\ q[i][0] = e[i]
        BY <1>0, <1>6
      <4>2. q[i][0] \in Int
        BY <4>1, FieldFacts
      <4>. QED  BY <3>2, <4>2
    <3>3. CASE x # 0
      <4>1. x \in U /\ q[i][x] = H(x)[i]
        BY <1>6, <3>3
      <4>2. H(x)[i] \in Int
        BY <1>7, <3>1, <4>1
      <4>. QED  BY <4>1, <4>2
    <3>. QED  BY <3>2, <3>3
  <2>2. ASSUME NEW x \in Z PROVE Cong(q[0][x], 0)
    <3>1. 0 \in 0..k
      OBVIOUS
    <3>. QED  BY <1>0, <1>6, <1>7, <3>1, CongSame
  <2>3. ASSUME NEW i \in 1..k, NEW x \in Z PROVE Cong(q[i][x], (a * x + b) * q[i - 1][x] + c[i])
    <3>1. i \in 0..k /\ i - 1 \in 0..k
      OBVIOUS
    <3>2. CASE x = 0
      <4> DEFINE y == e[i - 1]
                 d == c[i]
      <4>1. y \in Int /\ d \in Int /\ q[i - 1][x] = y
        <5>1. y \in Field /\ d \in Int /\ q[i - 1][0] = y
          BY <1>0, <1>3, <1>6, <3>1
        <5>. HIDE DEF y, d
        <5>. QED  BY <3>2, <5>1, FieldFacts
      <4>2. q[i][x] = (y * b + d) % FIELD_MODULUS
        BY <1>5, <1>6, <3>1, <3>2
      <4>. HIDE DEF y, d
      <4>3. y * b + d \in Int /\ y * b + d = (a * 0 + b) * y + d
        BY <4>1
      <4>4. Cong((y * b + d) % FIELD_MODULUS, y * b + d)
        BY <4>3, CongMod
      <4>5. Cong(q[i][x], (a * x + b) * y + d)
        BY <3>2, <4>2, <4>3, <4>4
      <4>. QED  BY <4>1, <4>5 DEF d
    <3>3. CASE x # 0
      <4>1. x \in U /\ q[i][x] = H(x)[i] /\ q[i - 1][x] = H(x)[i - 1]
        BY <1>6, <3>1, <3>3
      <4>. QED  BY <1>7, <4>1
    <3>. QED  BY <3>2, <3>3
  <2>. QED  BY <1>3, <2>1, <2>2, <2>3 DEF Horner
<1> DEFINE p == q[k]
<1>9. Cong(DivDiff(Z, p), 0)
  BY <1>1, <1>8, DividedHorner
<1>10. k \in 0..k /\ k \in 1..k
  OBVIOUS
<1>11. /\ \A x \in Z : p[x] \in Int
       /\ \A x \in U : p[x] = ShareValue(s, cs, a * x + b)
       /\ p[0] = e[k]
  BY <1>6, <1>7, <1>8, <1>10 DEF Horner
<1>. HIDE DEF p
<1> DEFINE f == [x \in U |-> p[x] * Coefficient(U, x)]
           g == [x \in U |-> ShareValue(s, cs, a * x + b) * Coefficient(U, x)]
<1>12. Cong(SumOver(f, U), e[k])
  <2>1. Cong(SumOver(f, U), p[0])
    BY <1>1, <1>9, <1>11, InterpolateAtZero
  <2>. QED  BY <1>11, <2>1
<1>13. \A x \in U : f[x] = g[x]
  BY <1>11
<1>14. SumOver(f, U) = SumOver(g, U)
  <2>. HIDE DEF f, g
  <2>. QED  BY <1>1, <1>13, SumExtensional
<1>15. \A x \in U : ShareValue(s, cs, a * x + b) * Coefficient(U, x) \in Int
  <2>. SUFFICES ASSUME NEW x \in U PROVE ShareValue(s, cs, a * x + b) * Coefficient(U, x) \in Int
    OBVIOUS
  <2>1. ShareValue(s, cs, a * x + b) \in Int /\ Coefficient(U, x) \in Int
    BY <1>1, <1>7, <1>10, CoefficientIs
  <2>. QED  BY <2>1
<1>. QED  BY <1>0, <1>12, <1>14, <1>15

-----------------------------------------------------------------------------
(* The first j shares that are held, without the k-th *)
Others(j, k) == {X(m) : m \in (1..j) \ {k}}

(* At most 46 shares, of which the host accepts what it holds *)
Usable == Holding /\ Acceptable /\ byteApi \in BOOLEAN /\ N <= 46

(* The number of the share that travels under the index x *)
Number(x) == IF byteApi THEN 2 * x - 1 ELSE x

LEMMA UsableIs ==
  ASSUME Usable
  PROVE  /\ Len(held) \in Nat
         /\ \A i \in 1..Len(held) :
              /\ X(i) \in Field /\ X(i) \in Int /\ X(i) # 0
              /\ held[i] \in 1..N /\ held[i] \in 1..46 /\ held[i] = Number(X(i))
         /\ \A i, j \in 1..Len(held) : X(i) = X(j) => i = j
<1>1. held \in Seq(1..N) /\ N \in Int /\ N <= 46 /\ byteApi \in BOOLEAN
  BY ShamirAssumption DEF Usable, Holding
<1>2. ASSUME NEW i \in 1..Len(held)
      PROVE  /\ X(i) \in Field /\ X(i) \in Int /\ X(i) # 0
             /\ held[i] \in 1..N /\ held[i] \in 1..46 /\ held[i] = Number(X(i))
  <2> DEFINE x == held[i]
  <2>1. x \in 1..N
    BY <1>1, ElementType, Zenon
  <2>2. X(i) # 0 /\ X(i) = ShareId(x)
    BY DEF Usable, Acceptable, X
  <2>. HIDE DEF x
  <2>3. x \in Int /\ 1 <= x /\ x <= 46
    BY <1>1, <2>1
  <2>4. ASSUME NEW y, y = ShareId(x), y # 0
        PROVE  y \in Int /\ 0 <= y /\ y <= 3328 /\ x = Number(y)
    <3>1. CASE byteApi
      <4>1. y = (IF x % 2 = 1 THEN (x + 1) \div 2 ELSE 0)
        BY <2>4, <3>1 DEF ShareId
      <4>2. x % 2 = 1 /\ y = (x + 1) \div 2
        BY <2>4, <4>1
      <4>3. y \in Int /\ 0 <= y /\ y <= 3328 /\ x = 2 * y - 1
        BY <2>3, <4>2, SMT
      <4>. QED  BY <3>1, <4>3 DEF Number
    <3>2. CASE ~byteApi
      <4>1. y = x /\ Number(y) = y
        BY <2>4, <3>2 DEF ShareId, Number
      <4>. QED  BY <2>3, <4>1
    <3>. QED  BY <3>1, <3>2
  <2> DEFINE z == X(i)
  <2>5. z = ShareId(x) /\ z # 0
    BY <2>2
  <2>. HIDE DEF z
  <2>6. z \in Int /\ 0 <= z /\ z <= 3328 /\ x = Number(z)
    BY <2>4, <2>5
  <2>7. z \in Field
    BY <2>6, FieldIs
  <2>8. z = X(i) /\ x = held[i]
    BY DEF z, x
  <2>9. x \in 1..46
    BY <2>3
  <2>10. /\ z \in Field /\ z \in Int /\ z # 0
         /\ x \in 1..N /\ x \in 1..46 /\ x = Number(z)
    BY <2>1, <2>5, <2>6, <2>7, <2>9, Zenon
  <2>. QED  BY <2>10 DEF z, x
<1>3. Len(held) \in Nat
  BY <1>1
<1>. QED  BY <1>2, <1>3 DEF Usable, Acceptable, X

LEMMA OthersAre ==
  ASSUME Usable, NEW k \in 1..Len(held)
  PROVE  /\ Others(0, k) = {}
         /\ \A j \in 0..Len(held) : Others(j, k) \in SUBSET Field
         /\ \A j \in 1..Len(held) :
              /\ j = k => Others(j, k) = Others(j - 1, k)
              /\ j # k => X(j) \in Others(j, k) /\ Others(j, k) \ {X(j)} = Others(j - 1, k)
         /\ Others(Len(held), k) = {X(m) : m \in 1..Len(held)} \ {X(k)}
<1>1. Others(0, k) = {}
  BY DEF Others
<1>2. ASSUME NEW j \in 0..Len(held) PROVE Others(j, k) \in SUBSET Field
  <2>1. \A m \in (1..j) \ {k} : m \in 1..Len(held)
    BY UsableIs
  <2>. QED  BY <2>1, UsableIs DEF Others
<1>3. ASSUME NEW j \in 1..Len(held), j = k PROVE Others(j, k) = Others(j - 1, k)
  <2>1. (1..j) \ {k} = (1..(j - 1)) \ {k}
    BY <1>3, UsableIs
  <2>. QED  BY <2>1 DEF Others
<1>4. ASSUME NEW j \in 1..Len(held), j # k
      PROVE  X(j) \in Others(j, k) /\ Others(j, k) \ {X(j)} = Others(j - 1, k)
  <2>1. (1..j) \ {k} = ((1..(j - 1)) \ {k}) \cup {j} /\ j \in (1..j) \ {k}
    BY <1>4, UsableIs
  <2>2. \A m \in (1..(j - 1)) \ {k} : m \in 1..Len(held) /\ m # j
    BY UsableIs
  <2>3. \A m \in (1..(j - 1)) \ {k} : X(m) # X(j)
    BY <2>2, UsableIs
  <2>. QED  BY <2>1, <2>3 DEF Others
<1>5. Others(Len(held), k) = {X(m) : m \in 1..Len(held)} \ {X(k)}
  <2>1. \A m \in 1..Len(held) : X(m) = X(k) <=> m = k
    BY UsableIs
  <2>. QED  BY <2>1 DEF Others
<1>. QED  BY <1>1, <1>2, <1>3, <1>4, <1>5

(* What reconstruct_secret multiplies the k-th share with is Lagrange's    *)
(* coefficient, in whatever order the shares came.                         *)
LEMMA HostLagrangeIs ==
  ASSUME Usable, NEW k \in 1..Len(held)
  PROVE  HostLagrange(k) = Coefficient({X(m) : m \in 1..Len(held)}, X(k))
<1> DEFINE n == Len(held)
           z == X(k)
           O(j) == Others(j, k)
<1>1. PICK h : /\ h[0] = [num |-> 1, den |-> 1]
               /\ \A i \in 1..n :
                    h[i] = IF i = k THEN h[i - 1]
                           ELSE [num |-> MulMod(h[i - 1].num, -X(i)),
                                 den |-> MulMod(h[i - 1].den, (X(k) - X(i)) % FIELD_MODULUS)]
               /\ \A i \in 0..n : h[i] \in [num : Field, den : Field]
               /\ HostLagrange(k) = MulMod(h[n].num, mod_inv(h[n].den))
  BY HostLagrangeSteps DEF Usable
<1>2. n \in Nat /\ z \in Field /\ z \in Int /\ X(k) = z
  BY UsableIs
<1>3. /\ O(0) = {}
      /\ \A j \in 0..n : O(j) \in SUBSET Field
      /\ \A j \in 1..n : /\ j = k => O(j) = O(j - 1)
                         /\ j # k => X(j) \in O(j) /\ O(j) \ {X(j)} = O(j - 1)
      /\ O(n) = {X(m) : m \in 1..n} \ {z}
  BY OthersAre
<1> DEFINE Good(j) == h[j].num = Factor(0, O(j)) /\ h[j].den = Factor(z, O(j))
           B == {j \in 0..n : ~Good(j)}
<1>. HIDE DEF n, z, O
<1>4. Good(0)
  <2>1. Factor(0, {}) = 1 /\ Factor(z, {}) = 1
    BY <1>2, FactorIs, FieldFacts
  <2>2. h[0].num = 1 /\ h[0].den = 1
    BY <1>1
  <2>3. Factor(0, O(0)) = 1 /\ Factor(z, O(0)) = 1
    BY <1>3, <2>1, Zenon
  <2>. QED  BY <2>2, <2>3, Zenon
<1>5. ASSUME NEW j \in 1..n, Good(j - 1) PROVE Good(j)
  <2>1. j \in 0..n /\ j - 1 \in 0..n
    BY <1>2
  <2>2. CASE j = k
    <3>1. h[j] = h[j - 1] /\ O(j) = O(j - 1)
      BY <1>1, <1>3, <2>2
    <3>. QED  BY <1>5, <3>1
  <2>3. CASE j # k
    <3> DEFINE a == h[j - 1].num
               b == h[j - 1].den
               x == X(j)
    <3>1. x \in Field /\ x \in Int /\ X(j) = x
      BY UsableIs DEF n
    <3>2. a \in Int /\ b \in Int /\ a = Factor(0, O(j - 1)) /\ b = Factor(z, O(j - 1))
      BY <1>1, <1>5, <2>1, FieldFacts
    <3>3. /\ h[j].num = MulMod(a, -x) /\ h[j].den = MulMod(b, (z - x) % FIELD_MODULUS)
          /\ h[j].num \in Field /\ h[j].den \in Field
      <4>1. h[j] = [num |-> MulMod(a, -x), den |-> MulMod(b, (z - x) % FIELD_MODULUS)]
        BY <1>1, <1>2, <2>3, <3>1
      <4>2. h[j] \in [num : Field, den : Field]
        BY <1>1, <2>1
      <4>. QED  BY <4>1, <4>2
    <3>4. /\ Cong(Factor(0, O(j)), a * (0 - x)) /\ Factor(0, O(j)) \in Field
          /\ Cong(Factor(z, O(j)), b * (z - x)) /\ Factor(z, O(j)) \in Field
      <4>1. x \in O(j) /\ O(j) \ {x} = O(j - 1) /\ O(j) \in SUBSET Field
        BY <1>3, <2>1, <2>3
      <4>2. \A y \in Field : Cong(Factor(y, O(j)), Factor(y, O(j - 1)) * (y - x)) /\ Factor(y, O(j)) \in Field
        BY <4>1, FactorIs
      <4>. QED  BY <1>2, <3>2, <4>2, FieldFacts
    <3>. HIDE DEF a, b, x
    <3>5. Cong(MulMod(a, -x), a * (0 - x))
      <4>1. a * (-x) \in Int /\ a * (-x) = a * (0 - x)
        BY <3>1, <3>2
      <4>. QED  BY <4>1, CongMod DEF MulMod
    <3>6. Cong(MulMod(b, (z - x) % FIELD_MODULUS), b * (z - x))
      <4> DEFINE d == z - x
                 e == d % FIELD_MODULUS
      <4>1. d \in Int
        BY <1>2, <3>1
      <4>2. e \in Int /\ Cong(e, d)
        BY <4>1, CongMod
      <4>. HIDE DEF d, e
      <4>3. b * e \in Int
        BY <3>2, <4>2
      <4>4. Cong(b * e, b * d)
        BY <3>2, <4>1, <4>2, CongMul, Zenon
      <4>5. Cong(MulMod(b, e), b * e)
        BY <4>3, CongMod DEF MulMod
      <4>6. Cong(MulMod(b, e), b * d)
        BY <4>4, <4>5, CongSame
      <4>. QED  BY <4>6 DEF d, e
    <3>7. Cong(h[j].num, Factor(0, O(j))) /\ Cong(h[j].den, Factor(z, O(j)))
      BY <3>3, <3>4, <3>5, <3>6, CongSame
    <3>. QED  BY <3>3, <3>4, <3>7, CongInField
  <2>. QED  BY <2>2, <2>3
<1>. HIDE DEF Good
<1>6. B = {}
  <2>. SUFFICES ASSUME B # {} PROVE FALSE
    OBVIOUS
  <2>1. PICK j \in B : \A i \in B : j <= i
    <3>1. B \in SUBSET Nat
      BY <1>2
    <3>. HIDE DEF B
    <3>. QED  BY <3>1, LeastElement
  <2>2. j \in 1..n /\ j - 1 \in 0..n /\ ~(j <= j - 1)
    BY <1>2, <1>4, <2>1
  <2>3. Good(j - 1)
    BY <2>1, <2>2
  <2>. QED  BY <1>5, <2>1, <2>2, <2>3
<1>7. Good(n)
  <2>1. n \in 0..n
    BY <1>2
  <2>. QED  BY <1>6, <2>1
<1>8. h[n].num = Factor(0, O(n)) /\ h[n].den = Factor(z, O(n))
  BY <1>7 DEF Good
<1>. QED  BY <1>1, <1>3, <1>8 DEF Coefficient, MulMod, mod_inv, n, z

(* The first j shares that are held *)
First(j) == {X(m) : m \in 1..j}

LEMMA FirstAre ==
  ASSUME Usable
  PROVE  /\ First(0) = {}
         /\ \A j \in 0..Len(held) : First(j) \in SUBSET (Field \ {0}) /\ First(j) \in SUBSET First(Len(held))
         /\ \A j \in 1..Len(held) : X(j) \in First(j) /\ First(j) \ {X(j)} = First(j - 1)
<1>1. First(0) = {}
  BY DEF First
<1>2. ASSUME NEW j \in 0..Len(held)
      PROVE  First(j) \in SUBSET (Field \ {0}) /\ First(j) \in SUBSET First(Len(held))
  <2>1. \A m \in 1..j : m \in 1..Len(held)
    BY UsableIs
  <2>. QED  BY <2>1, UsableIs DEF First
<1>3. ASSUME NEW j \in 1..Len(held)
      PROVE  X(j) \in First(j) /\ First(j) \ {X(j)} = First(j - 1)
  <2>1. 1..j = (1..(j - 1)) \cup {j} /\ j \in 1..j
    BY UsableIs
  <2>2. \A m \in 1..(j - 1) : m \in 1..Len(held) /\ m # j
    BY UsableIs
  <2>3. \A m \in 1..(j - 1) : X(m) # X(j)
    BY <2>2, UsableIs
  <2>. QED  BY <2>1, <2>3 DEF First
<1>. QED  BY <1>1, <1>2, <1>3

LEMMA FirstCount ==
  ASSUME Usable
  PROVE  Cardinality(First(Len(held))) = Len(held)
<1> DEFINE n == Len(held)
           g == [j \in 0..n |-> Cardinality(First(j)) = j]
           D == {TRUE}
<1>1. n \in Nat
  BY UsableIs
<1>2. g[0] \in D
  <2>1. First(0) = {} /\ Cardinality({}) = 0
    BY FirstAre, FS_EmptySet
  <2>2. 0 \in 0..n
    BY <1>1
  <2>. QED  BY <2>1, <2>2
<1>3. ASSUME NEW j \in 1..n, g[j - 1] \in D PROVE g[j] \in D
  <2>1. j \in 0..n /\ j - 1 \in 0..n
    BY <1>1
  <2>2. Cardinality(First(j - 1)) = j - 1
    BY <1>3, <2>1
  <2>3. X(j) \in First(j) /\ First(j) \ {X(j)} = First(j - 1) /\ First(j) \in SUBSET (Field \ {0})
    BY <2>1, FirstAre
  <2>4. IsFiniteSet(First(j))
    <3>1. First(j) \in SUBSET Field
      BY <2>3
    <3>. QED  BY <3>1, FieldFacts
  <2>5. Cardinality(First(j)) \in Nat /\ Cardinality(First(j) \ {X(j)}) = Cardinality(First(j)) - 1
    BY <2>3, <2>4, FS_RemoveElement, FS_CardinalityType
  <2>6. Cardinality(First(j)) = j
    <3> DEFINE c == Cardinality(First(j))
    <3>1. c \in Nat /\ j - 1 = c - 1
      BY <2>2, <2>3, <2>5, Zenon
    <3>. HIDE DEF c
    <3>2. c = j
      BY <1>1, <3>1
    <3>. QED  BY <3>2 DEF c
  <2>. QED  BY <2>1, <2>6
<1>4. n \in 0..n
  BY <1>1
<1>. HIDE DEF n
<1>5. g[n] \in D
  <2>1. \A j \in 1..n : g[j - 1] \in D => g[j] \in D
    BY <1>3
  <2>. HIDE DEF g, D
  <2>2. \A j \in 0..n : g[j] \in D
    BY <1>1, <1>2, <2>1, RecursionType, Zenon
  <2>. QED  BY <1>4, <2>2
<1>6. Cardinality(First(n)) = n
  BY <1>4, <1>5
<1>. QED  BY <1>6 DEF n

(* What reconstruct_secret adds up is the sum of the shares times their    *)
(* coefficients, in whatever order the shares came.                        *)
LEMMA HostSumIs ==
  ASSUME Usable, NEW S, S = First(Len(held)),
         \A x \in S : share[Number(x)] * Coefficient(S, x) \in Int
  PROVE  Cong(HostSum, SumOver([x \in S |-> share[Number(x)] * Coefficient(S, x)], S))
<1> DEFINE n == Len(held)
           f == [x \in S |-> share[Number(x)] * Coefficient(S, x)]
<1>1. PICK h : /\ h[0] = 0
               /\ \A i \in 1..n :
                    h[i] = (h[i - 1] + (Y(i) % FIELD_MODULUS) * HostLagrange(i)) % FIELD_MODULUS
               /\ \A i \in 0..n : h[i] \in Field
               /\ HostSum = h[n]
  BY HostSumSteps DEF Usable
<1>2. n \in Nat /\ S \in SUBSET Field /\ IsFiniteSet(S)
  <2>1. n \in Nat /\ n \in 0..n
    BY UsableIs
  <2>2. S \in SUBSET Field
    BY <2>1, FirstAre
  <2>. QED  BY <2>1, <2>2, FieldFacts
<1>3. \A x \in S : f[x] \in Int /\ f[x] = share[Number(x)] * Coefficient(S, x)
  OBVIOUS
<1>. HIDE DEF f
<1> DEFINE g == [j \in 0..n |-> Cong(h[j], SumOver(f, First(j)))]
           D == {TRUE}
<1>4. g[0] \in D
  <2>1. SumOver(f, First(0)) = 0
    BY FirstAre, SumEmpty
  <2>2. Cong(h[0], SumOver(f, First(0)))
    BY <1>1, <2>1, CongSame, Zenon
  <2>3. 0 \in 0..n
    BY <1>2
  <2>. QED  BY <2>2, <2>3
<1>5. ASSUME NEW j \in 1..n, g[j - 1] \in D PROVE g[j] \in D
  <2> DEFINE x == X(j)
             y == Y(j)
             l == Coefficient(S, x)
             a == h[j - 1]
             r == SumOver(f, First(j - 1))
  <2>1. j \in 0..n /\ j - 1 \in 0..n
    BY <1>2
  <2>2. /\ x \in First(j) /\ First(j) \ {x} = First(j - 1)
        /\ First(j) \in SUBSET S /\ First(j - 1) \in SUBSET S /\ x \in S
    BY <2>1, FirstAre
  <2>3. IsFiniteSet(First(j)) /\ IsFiniteSet(First(j - 1))
    BY <1>2, <2>2, FS_Subset
  <2>4. SumOver(f, First(j)) = f[x] + r /\ r \in Int
    <3>1. \A z \in First(j) : f[z] \in Int
      BY <1>3, <2>2
    <3>2. \A z \in First(j - 1) : f[z] \in Int
      BY <1>3, <2>2
    <3>3. SumOver(f, First(j)) = f[x] + SumOver(f, First(j) \ {x})
      BY <2>2, <2>3, <3>1, SumRemove, Zenon
    <3>. QED  BY <2>2, <2>3, <3>2, <3>3, SumType
  <2>5. f[x] = y * l /\ f[x] \in Int
    <3>1. held[j] = Number(x)
      BY UsableIs
    <3>. QED  BY <1>3, <2>2, <3>1 DEF Y
  <2>6. y \in Int /\ l \in Int
    <3>1. y \in UInt16
      BY HoldingIs16 DEF Usable
    <3>2. y \in Int
      BY <3>1, Word16
    <3>3. x \in Field
      BY <1>2, <2>2
    <3>. HIDE DEF x, y
    <3>4. l \in Int
      BY <1>2, <3>3, CoefficientIs, Zenon
    <3>. QED  BY <3>2, <3>4
  <2>7. HostLagrange(j) = l
    BY HostLagrangeIs DEF First
  <2>8. a \in Int /\ Cong(a, r)
    BY <1>1, <1>5, <2>1, FieldFacts
  <2>9. h[j] = (a + (y % FIELD_MODULUS) * l) % FIELD_MODULUS
    BY <1>1, <2>7
  <2>. HIDE DEF x, y, l, a, r
  <2> DEFINE e == y % FIELD_MODULUS
  <2>10. e \in Int /\ Cong(e * l, y * l)
    <3>1. e \in Int /\ Cong(e, y)
      BY <2>6, CongMod
    <3>. HIDE DEF e
    <3>. QED  BY <2>6, <3>1, CongMul, Zenon
  <2>. HIDE DEF e
  <2>11. e * l \in Int /\ y * l \in Int /\ a + e * l \in Int
    BY <2>6, <2>8, <2>10
  <2>12. Cong(a + e * l, r + y * l)
    BY <2>4, <2>8, <2>10, <2>11, CongAdd, Zenon
  <2>13. Cong(h[j], a + e * l)
    BY <2>9, <2>11, CongMod DEF e
  <2>14. SumOver(f, First(j)) = r + y * l
    BY <2>4, <2>5, <2>11
  <2>15. Cong(h[j], SumOver(f, First(j)))
    BY <2>12, <2>13, <2>14, CongSame, Zenon
  <2>. QED  BY <2>1, <2>15
<1>6. n \in 0..n
  BY <1>2
<1>7. g[n] \in D
  <2>1. \A j \in 1..n : g[j - 1] \in D => g[j] \in D
    BY <1>5
  <2>. HIDE DEF g, n, D
  <2>2. \A j \in 0..n : g[j] \in D
    BY <1>2, <1>4, <2>1, RecursionType, Zenon
  <2>. QED  BY <1>6, <2>2
<1>8. Cong(h[n], SumOver(f, First(n)))
  BY <1>6, <1>7
<1>. QED  BY <1>1, <1>8 DEF f

-----------------------------------------------------------------------------
(* Nothing is held or recovered before the secret is shared; what the host *)
(* has recovered is the sum over the shares that are held, which stay as   *)
(* they are from then on.                                                  *)
HostInv ==
  /\ t = 0 => share = <<>>
  /\ secret = NONE <=> t = 0
  /\ host # NONE => share # <<>> /\ host = IF Acceptable THEN HostSum ELSE REFUSED

(* Both depend on the shares that are held only. *)
LEMMA SameRecovery ==
  ASSUME UNCHANGED <<byteApi, share, held>>
  PROVE  Acceptable' = Acceptable /\ HostSum' = HostSum
<1>1. Acceptable' = Acceptable
  BY DEF Acceptable, ShareId
<1>2. \A i : X(i)' = X(i) /\ Y(i)' = Y(i) /\ HostLagrange(i)' = HostLagrange(i)
  BY DEF HostLagrange, X, Y, ShareId
<1>3. HostSum' = HostSum
  BY <1>2 DEF HostSum
<1>. QED  BY <1>1, <1>3

LEMMA HostAlways == Spec => []HostInv
<1>1. Init => HostInv
  BY DEF Init, HostInv
<1>2. TypeOK /\ HostInv /\ [Next]_vars => HostInv'
  <2>. SUFFICES ASSUME TypeOK, HostInv, [Next]_vars PROVE HostInv'
    OBVIOUS
  <2>1. ASSUME NEW s \in Secrets, NEW k \in Thresholds,
               NEW cs \in [1..(k - 1) -> Coeffs], Share(s, k, cs)
        PROVE  HostInv'
    <3>1. s # NONE
      <4>1. s \in Int /\ 0 <= s
        BY ShamirAssumption, Word16
      <4>. QED  BY <4>1 DEF NONE
    <3>2. k # 0
      BY ShamirAssumption
    <3>3. host = NONE
      BY <2>1 DEF Share, HostInv
    <3>4. secret' = s /\ t' = k /\ host' = NONE
      BY <2>1, <3>3 DEF Share
    <3>. QED  BY <3>1, <3>2, <3>4 DEF HostInv
  <2>2. ASSUME NEW i \in 1..N, Deliver(i) PROVE HostInv'
    BY <2>2 DEF Deliver, HostInv
  <2>3. ASSUME DeviceReconstruct PROVE HostInv'
    <3>1. UNCHANGED <<byteApi, secret, t, share, held, host>>
      BY <2>3 DEF DeviceReconstruct
    <3>2. Acceptable' = Acceptable /\ HostSum' = HostSum
      BY <3>1, SameRecovery
    <3>. QED  BY <3>1, <3>2 DEF HostInv
  <2>4. ASSUME HostReconstruct PROVE HostInv'
    <3>1. /\ UNCHANGED <<byteApi, secret, t, share, held>> /\ share # <<>>
          /\ host' = IF Acceptable THEN HostSum ELSE REFUSED
      BY <2>4 DEF HostReconstruct
    <3>2. Acceptable' = Acceptable /\ HostSum' = HostSum
      BY <3>1, SameRecovery
    <3>. QED  BY <3>1, <3>2 DEF HostInv
  <2>5. CASE UNCHANGED vars
    <3>1. UNCHANGED <<byteApi, secret, t, share, held, host>>
      BY <2>5 DEF vars
    <3>2. Acceptable' = Acceptable /\ HostSum' = HostSum
      BY <3>1, SameRecovery
    <3>. QED  BY <3>1, <3>2 DEF HostInv
  <2>. QED  BY <2>1, <2>2, <2>3, <2>4, <2>5 DEF Next
<1>. QED  BY <1>1, <1>2, ShamirTypes, PTL DEF Spec

(* What the host puts together from t or more shares that it accepts is    *)
(* the value of the device's polynomial at b, when the share under x is    *)
(* the value at a * x + b.                                                 *)
LEMMA Recovered ==
  ASSUME N <= 46, TypeOK, SharedInv, HostInv, host \notin {NONE, REFUSED},
         Len(held) >= t, Narrow(secret),
         NEW a \in Int, NEW b \in Int, \A x \in Int : Number(x) = a * x + b
  PROVE  /\ host = PolynomialAt(<<secret>> \o coeffs, b)
         /\ <<secret>> \o coeffs \in Seq(UInt16) /\ Len(<<secret>> \o coeffs) = t /\ t >= 1
         /\ (<<secret>> \o coeffs)[1] = secret
<1> DEFINE S == First(Len(held))
           cs == coeffs
           v == PolynomialAt(<<secret>> \o cs, b)
<1>1. share # <<>> /\ host = HostSum /\ Acceptable /\ t # 0
  BY DEF HostInv
<1>2. Usable
  <2>1. held \in Seq(1..N) /\ share \in Seq(UInt16) /\ Len(share) = N
    BY <1>1 DEF TypeOK
  <2>2. byteApi \in BOOLEAN
    BY ShamirAssumption DEF TypeOK
  <2>. QED  BY <1>1, <2>1, <2>2 DEF Usable, Holding
<1>3. /\ t \in Nat /\ t >= 1 /\ secret \in UInt16 /\ secret \in Int /\ 0 <= secret
      /\ secret <= Half - FIELD_MODULUS
  <2>1. secret \in UInt16
    BY <1>1, ShamirAssumption DEF SharedInv
  <2>2. t \in Nat /\ t >= 1
    BY <1>1, ShamirAssumption DEF TypeOK
  <2>. QED  BY <2>1, <2>2, Word16 DEF Narrow
<1>4. cs \in [1..(t - 1) -> Field] /\ share = [i \in 1..N |-> ShareValue(secret, cs, i)]
  BY <1>1, ShamirAssumption DEF SharedInv
<1>5. S \in SUBSET Field /\ 0 \notin S /\ Cardinality(S) >= t
  <2>1. Len(held) \in 0..Len(held)
    BY <1>2, UsableIs
  <2>2. S \in SUBSET (Field \ {0})
    BY <1>2, <2>1, FirstAre
  <2>3. Cardinality(S) = Len(held)
    BY <1>2, FirstCount
  <2>. QED  BY <2>2, <2>3
<1>6. \A x \in S : /\ Number(x) = a * x + b /\ a * x + b \in 1..46
                   /\ share[Number(x)] = ShareValue(secret, cs, a * x + b)
  <2>. SUFFICES ASSUME NEW m \in 1..Len(held)
                PROVE  /\ Number(X(m)) = a * X(m) + b /\ a * X(m) + b \in 1..46
                       /\ share[Number(X(m))] = ShareValue(secret, cs, a * X(m) + b)
    BY DEF First
  <2>1. X(m) \in Int /\ held[m] \in 1..N /\ held[m] \in 1..46 /\ held[m] = Number(X(m))
    BY <1>2, UsableIs
  <2>2. Number(X(m)) = a * X(m) + b
    BY <2>1
  <2>. QED  BY <1>4, <2>1, <2>2
<1>. HIDE DEF S, cs
<1> DEFINE f == [x \in S |-> ShareValue(secret, cs, a * x + b) * Coefficient(S, x)]
           g == [x \in S |-> share[Number(x)] * Coefficient(S, x)]
<1>7. /\ \A x \in S : ShareValue(secret, cs, a * x + b) * Coefficient(S, x) \in Int
      /\ Cong(SumOver(f, S), v)
  BY <1>3, <1>4, <1>5, <1>6, SharesDetermine
<1>8. f = g
  BY <1>6
<1>9. \A x \in S : share[Number(x)] * Coefficient(S, x) \in Int
  BY <1>6, <1>7
<1>10. Cong(HostSum, SumOver(g, S))
  BY <1>2, <1>9, HostSumIs DEF S
<1>11. Cong(HostSum, v)
  BY <1>7, <1>8, <1>10, CongSame
<1>12. HostSum \in Field
  BY <1>2, HostSumInField DEF Usable
<1>13. /\ <<secret>> \o cs \in Seq(UInt16) /\ Len(<<secret>> \o cs) = t
       /\ (<<secret>> \o cs)[1] = secret
  BY <1>3, <1>4, Coefficients
<1>14. v \in Field
  <2>1. t \in 0..t
    BY <1>3
  <2>. HIDE DEF v
  <2>. QED  BY <1>13, <2>1, PolynomialSteps DEF v
<1>15. HostSum = v
  <2>. HIDE DEF v
  <2>. QED  BY <1>11, <1>12, <1>14, CongInField
<1>. QED  BY <1>1, <1>3, <1>13, <1>15 DEF cs

(* reconstruct_secret recovers what shamir_share shared: from any t or     *)
(* more different shares, in whatever order they came, for every threshold *)
(* and number of shares up to 46, for every secret up to 62207 and         *)
(* whatever coefficients were drawn.  (The shares of shamir_share itself,  *)
(* whose indices are 16-bit numbers.)                                      *)
THEOREM HostRecoversSecret ==
  ASSUME N <= 46
  PROVE  Spec => []HostRecovers
<1>1. TypeOK /\ SharedInv /\ HostInv => HostRecovers
  <2>. SUFFICES ASSUME TypeOK, SharedInv, HostInv, ~byteApi, host # NONE, Distinct,
                       Len(held) >= t, Len(held) >= 2, Narrow(secret)
                PROVE  host = secret % FIELD_MODULUS
    BY DEF HostRecovers
  <2>1. host \notin {NONE, REFUSED}
    <3>1. held \in Seq(1..N)
      BY DEF TypeOK
    <3>2. \A i \in 1..Len(held) : ShareId(held[i]) = held[i] /\ held[i] # 0
      <4>1. \A i \in 1..Len(held) : held[i] \in 1..N /\ N \in Int
        BY <3>1, ElementType, ShamirAssumption
      <4>. QED  BY <4>1 DEF ShareId
    <3>3. Acceptable
      BY <3>2 DEF Acceptable, Distinct
    <3>4. host \in Field
      <4>1. share # <<>> /\ host = HostSum
        BY <3>3 DEF HostInv
      <4>2. Holding
        BY <4>1 DEF TypeOK, Holding
      <4>. QED  BY <4>1, <4>2, HostSumInField
    <3>. QED  BY <3>4, FieldIs DEF NONE, REFUSED
  <2>2. 0 \in Int /\ 1 \in Int /\ \A x \in Int : Number(x) = 1 * x + 0
    BY DEF Number
  <2>3. /\ host = PolynomialAt(<<secret>> \o coeffs, 0)
        /\ <<secret>> \o coeffs \in Seq(UInt16) /\ Len(<<secret>> \o coeffs) = t /\ t >= 1
        /\ (<<secret>> \o coeffs)[1] = secret
    BY <2>1, <2>2, Recovered, Zenon
  <2>. QED  BY <2>3, PolynomialAtZero
<1>. QED  BY <1>1, ShamirTypes, SharedAlways, HostAlways, PTL

(* From the shares that the firmware makes, with shamir_share_bytes, it    *)
(* recovers the value of the polynomial at -1, from whichever t or more of *)
(* those it accepts, for every threshold and number of shares up to 46.    *)
THEOREM FirmwareSharesAreShifted ==
  ASSUME N <= 46
  PROVE  Spec => []FirmwareSharesShift
<1>1. TypeOK /\ SharedInv /\ HostInv => FirmwareSharesShift
  <2>. SUFFICES ASSUME TypeOK, SharedInv, HostInv, byteApi, host \notin {NONE, REFUSED},
                       Len(held) >= t, Narrow(secret)
                PROVE  host = PolynomialAt(<<secret>> \o coeffs, -1)
    BY DEF FirmwareSharesShift
  <2>1. 2 \in Int /\ -1 \in Int /\ \A x \in Int : Number(x) = 2 * x + (-1)
    BY DEF Number
  <2>. QED  BY <2>1, Recovered, Zenon
<1>. QED  BY <1>1, ShamirTypes, SharedAlways, HostAlways, PTL
=============================================================================
