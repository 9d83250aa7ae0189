---------------------------- MODULE Flower_proofs ----------------------------
(***************************************************************************)
(* ChunkedFedAvg for any number of clients, any models, chunk sizes and    *)
(* counts: an element of the returned model is the weighted mean of the    *)
(* int16 words of the clients' elements at the same place.                 *)
(***************************************************************************)
EXTENDS Flower, FieldSums_proofs

(* There are finitely many clients, and models are sequences of sizes. *)
LEMMA Given ==
  /\ IsFiniteSet(Ids) /\ Cardinality(Ids) = FitClients
  /\ ChunkSize \in Nat /\ ChunkSize > 0
  /\ \A s \in Shapes : /\ s \in Seq(Nat) /\ Len(s) \in Nat
                       /\ \A a \in 1..Len(s) : s[a] \in Nat
  /\ \A ex \in [Ids -> Examples] : \A c \in Ids : ex[c] \in Nat
  /\ \A x \in Values : int16(x) \in Int
<1>1. FitClients \in Nat /\ ChunkSize \in Nat /\ ChunkSize > 0 /\ Examples \subseteq Nat
  BY FlowerAssumption
<1>2. IsFiniteSet(Ids) /\ Cardinality(Ids) = FitClients
  BY <1>1, FS_Interval DEF Ids
<1>3. ASSUME NEW s \in Shapes
      PROVE  s \in Seq(Nat) /\ Len(s) \in Nat /\ \A a \in 1..Len(s) : s[a] \in Nat
  BY FlowerAssumption
<1>4. ASSUME NEW x \in Values PROVE int16(x) \in Int
  <2>1. x \in Int
    BY FlowerAssumption
  <2>. QED  BY <2>1 DEF int16
<1>. QED  BY <1>1, <1>2, <1>3, <1>4

(* An element's flat position is inside the model. *)
LEMMA PositionInModel ==
  ASSUME NEW s \in Shapes, NEW a \in 1..Len(s), NEW i \in 0..(s[a] - 1)
  PROVE  /\ Offset(s, a) \in Nat /\ Size(s) \in Nat
         /\ Offset(s, a) + i \in Nat /\ Offset(s, a) + i < Size(s)
<1> DEFINE n == Len(s)
           m == a - 1
<1>1. n \in Nat /\ a \in Nat /\ a >= 1 /\ a <= n /\ \A x \in 1..n : s[x] \in Nat
  BY Given
<1>2. /\ IsFiniteSet(1..n) /\ IsFiniteSet(1..a) /\ IsFiniteSet(1..m)
      /\ 1..a \in SUBSET (1..n) /\ 1..m = (1..a) \ {a} /\ a \in 1..a
  <2>1. 1 \in Int /\ n \in Int /\ a \in Int /\ m \in Int
    BY <1>1
  <2>2. IsFiniteSet(1..n) /\ IsFiniteSet(1..a) /\ IsFiniteSet(1..m)
    BY <2>1, FS_Interval
  <2>3. 1..a \in SUBSET (1..n) /\ 1..m = (1..a) \ {a} /\ a \in 1..a
    BY <1>1
  <2>. QED  BY <2>2, <2>3
<1>3. \A x \in 1..a : s[x] \in Nat /\ s[x] \in Int
  BY <1>1
<1>4. SumOver(s, 1..a) = s[a] + SumOver(s, 1..m)
  <2>1. SumOver(s, 1..a) = s[a] + SumOver(s, (1..a) \ {a})
    BY <1>2, <1>3, SumRemove
  <2>. QED  BY <1>2, <2>1
<1>5. SumOver(s, 1..a) <= SumOver(s, 1..n)
  BY <1>1, <1>2, SumMonotone
<1>6. SumOver(s, 1..n) \in Nat /\ SumOver(s, 1..a) \in Nat
  BY <1>1, <1>2, <1>3, SumPositive
<1>7. SumOver(s, 1..m) \in Nat
  <2>1. \A x \in 1..m : s[x] \in Nat
    BY <1>2, <1>3
  <2>. QED  BY <1>2, <2>1, SumPositive
<1>8. Offset(s, a) = SumOver(s, 1..m) /\ Size(s) = SumOver(s, 1..n)
  BY DEF Offset, Size
<1>9. i \in Nat /\ i < s[a] /\ s[a] \in Nat
  BY <1>1
<1> DEFINE x == SumOver(s, 1..m)
           y == SumOver(s, 1..n)
           z == SumOver(s, 1..a)
<1>. HIDE DEF x, y, z, n, m
<1>. QED  BY <1>4, <1>5, <1>6, <1>7, <1>8, <1>9 DEF x, y, z

(* The chunk of a position, and the place in that chunk *)
LEMMA PositionInChunk ==
  ASSUME NEW s \in Shapes, Size(s) \in Nat, NEW e \in Nat, e < Size(s)
  PROVE  /\ e \div ChunkSize \in 0..(NumChunks(s) - 1)
         /\ e % ChunkSize \in 0..(ChunkSize - 1)
         /\ (e \div ChunkSize) * ChunkSize + (e % ChunkSize) = e
<1> DEFINE c == ChunkSize
           q == e \div c
           r == e % c
           v == Size(s) + c - 1
           n == v \div c
<1>1. c \in Nat /\ c > 0
  BY Given
<1>2. v \in Nat
  BY <1>1
<1>3. q \in Nat /\ c * q <= e /\ e < c * q + c
  BY <1>1, DivBounds
<1>4. n \in Nat /\ v < c * n + c
  BY <1>1, <1>2, DivBounds
<1>5. r = e - c * q
  BY <1>1, SMT
<1>6. n <= q => c * n <= c * q
  <2>1. n < q => c * n + c <= c * q
    BY <1>1, <1>3, <1>4, LessThenMultiple
  <2>. HIDE DEF n, q, c
  <2>2. c * n \in Int /\ c * q \in Int
    BY <1>1, <1>3, <1>4
  <2> DEFINE x == c * n
             y == c * q
  <2>3. n < q => x <= y
    <3>. HIDE DEF x, y
    <3>. QED  BY <1>1, <2>1, <2>2 DEF x, y
  <2>4. n = q => x <= y
    <3>1. n = q => x = y
      OBVIOUS
    <3>. HIDE DEF x, y
    <3>. QED  BY <2>2, <3>1 DEF x, y
  <2>. QED  BY <1>3, <1>4, <2>3, <2>4
<1>7. NumChunks(s) = n
  BY DEF NumChunks
<1> DEFINE x == c * n
           y == c * q
<1>8. x \in Int /\ y \in Int /\ q * c = y
  BY <1>1, <1>3, <1>4
<1>9. v = Size(s) + c - 1
  OBVIOUS
<1>. HIDE DEF x, y, n, q, r, v, c
<1>10. q < n
  BY <1>1, <1>2, <1>3, <1>4, <1>6, <1>8, <1>9 DEF x, y
<1>11. r \in 0..(c - 1) /\ y + r = e
  BY <1>1, <1>3, <1>5, <1>8 DEF y
<1>12. q \in 0..(n - 1) /\ q * c + r = e
  BY <1>3, <1>4, <1>8, <1>10, <1>11
<1>13. q \in 0..(NumChunks(s) - 1)
  BY <1>7, <1>12
<1>14. e \div ChunkSize \in 0..(NumChunks(s) - 1)
  BY <1>13 DEF q, c
<1>15. e % ChunkSize \in 0..(ChunkSize - 1)
  BY <1>11 DEF r, c
<1>16. (e \div ChunkSize) * ChunkSize + (e % ChunkSize) = e
  BY <1>12 DEF q, r, c
<1>. QED  BY <1>14, <1>15, <1>16

(* The coefficients of an element of a client's model *)
LEMMA ElemIs ==
  ASSUME NEW s, NEW c, NEW e, NEW w, NEW u \in Units(s)
  PROVE  Elem(s, c, e, w)[u] = IF u = <<c, e>> THEN w ELSE 0
BY DEF Elem, ZeroElem

(* What is at a position of the chunks of a client: its element there *)
LEMMA ChunkedElem ==
  ASSUME NEW s \in Shapes, Size(s) \in Nat, NEW e \in Nat, e < Size(s), NEW c, NEW x
  PROVE  model_to_chunks(s, c, x)[e \div ChunkSize][e % ChunkSize] = Elem(s, c, e, int16(x))
<1> DEFINE q == e \div ChunkSize
           r == e % ChunkSize
<1>1. q \in 0..(NumChunks(s) - 1) /\ r \in 0..(ChunkSize - 1) /\ q * ChunkSize + r = e
  BY PositionInChunk
<1>. HIDE DEF q, r
<1>2. model_to_chunks(s, c, x)[q][r] =
        IF q * ChunkSize + r < Size(s) THEN Elem(s, c, q * ChunkSize + r, int16(x))
        ELSE ZeroElem(s)
  BY <1>1 DEF model_to_chunks
<1>3. model_to_chunks(s, c, x)[q][r] = Elem(s, c, e, int16(x))
  BY <1>1, <1>2
<1>. QED  BY <1>3 DEF q, r

(* The sum of the clients' elements at a position, and the mean, by the    *)
(* coefficient of element j of client d                                    *)
LEMMA MeanOfElements ==
  ASSUME NEW s \in Shapes, NEW ex \in [Ids -> Examples], NEW vs \in [Ids -> Values],
         Size(s) \in Nat, NEW e \in Nat, e < Size(s),
         NEW total \in Nat, total % FIELD_MODULUS # 0, NEW u \in Units(s)
  PROVE  (Aggregated([shape |-> s, examples |-> ex, values |-> vs], total)
             [e \div ChunkSize][e % ChunkSize][u] * (total % FIELD_MODULUS)) % FIELD_MODULUS
           = IF u[2] = e THEN (ex[u[1]] * int16(vs[u[1]])) % FIELD_MODULUS ELSE 0
<1> DEFINE q == e \div ChunkSize
           r == e % ChunkSize
           t == [c \in Ids |-> ((ex[c] % FIELD_MODULUS)
                                  * model_to_chunks(s, c, vs[c])[q][r][u]) % FIELD_MODULUS]
           sum == SumOver(t, Ids) % FIELD_MODULUS
           word(c) == int16(vs[c])
           want == IF u[2] = e THEN ex[u[1]] * word(u[1]) ELSE 0
           f == [shape |-> s, examples |-> ex, values |-> vs]
<1>1. q \in 0..(NumChunks(s) - 1) /\ r \in 0..(ChunkSize - 1)
  BY PositionInChunk
<1>2. \A c \in Ids : model_to_chunks(s, c, vs[c])[q][r][u] = IF u = <<c, e>> THEN word(c) ELSE 0
  BY ChunkedElem, ElemIs
<1>3. total > 0
  <2>1. 0 % FIELD_MODULUS = 0
    BY DEF FIELD_MODULUS
  <2>. QED  BY <2>1
<1>. HIDE DEF q, r
<1>4. Aggregated(f, total)[q][r][u] = (sum * inv(total)) % FIELD_MODULUS
  <2>1. f.shape = s /\ f.examples = ex /\ f.values = vs
    OBVIOUS
  <2>. HIDE DEF f
  <2>. QED  BY <1>1, <1>3, <2>1 DEF Aggregated, Modulus, inv_total
<1>5. \A c \in Ids : ex[c] \in Int /\ word(c) \in Int
  BY Given
<1>6. PICK d \in Ids, j \in 0..(Size(s) - 1) : u = <<d, j>>
  BY DEF Units
<1>. HIDE DEF word
<1>7. ASSUME NEW c \in Ids
      PROVE  t[c] = IF u = <<c, e>> THEN (ex[c] * word(c)) % FIELD_MODULUS ELSE 0
  <2> DEFINE x == ex[c] % FIELD_MODULUS
  <2>1. x \in Int
    BY <1>5, ModTwice
  <2>2. t[c] = (x * model_to_chunks(s, c, vs[c])[q][r][u]) % FIELD_MODULUS
    OBVIOUS
  <2>3. (x * word(c)) % FIELD_MODULUS = (ex[c] * word(c)) % FIELD_MODULUS
    BY <1>5, ModTimes
  <2>4. 0 % FIELD_MODULUS = 0
    BY DEF FIELD_MODULUS
  <2>. HIDE DEF x, t
  <2>5. x * 0 = 0
    BY <2>1
  <2>. QED  BY <1>2, <2>2, <2>3, <2>4, <2>5
<1>. HIDE DEF t
<1>8. sum = want % FIELD_MODULUS
  <2>1. CASE j = e
    <3>1. t[d] = (ex[d] * word(d)) % FIELD_MODULUS /\ \A c \in Ids \ {d} : t[c] = 0
      BY <1>6, <1>7, <2>1
    <3>2. t[d] \in Int /\ t[d] % FIELD_MODULUS = t[d]
      <4>1. ex[d] * word(d) \in Int
        BY <1>5
      <4>. QED  BY <3>1, <4>1, ModTwice
    <3>3. SumOver(t, Ids) = t[d]
      BY <3>1, <3>2, Given, SumSingle
    <3>4. want = ex[d] * word(d)
      BY <1>6, <2>1
    <3>. QED  BY <3>1, <3>2, <3>3, <3>4
  <2>2. CASE j # e
    <3>1. \A c \in Ids : t[c] = 0
      BY <1>6, <1>7, <2>2
    <3>2. SumOver(t, Ids) = 0
      BY <3>1, Given, SumZero
    <3>3. want = 0
      BY <1>6, <2>2
    <3>. QED  BY <3>2, <3>3
  <2>. QED  BY <2>1, <2>2
<1>9. want \in Int
  BY <1>5, <1>6
<1>10. want % FIELD_MODULUS
         = IF u[2] = e THEN (ex[u[1]] * int16(vs[u[1]])) % FIELD_MODULUS ELSE 0
  BY DEF FIELD_MODULUS, word
<1>. HIDE DEF sum, want
<1>11. (((sum * inv(total)) % FIELD_MODULUS) * (total % FIELD_MODULUS)) % FIELD_MODULUS
         = want % FIELD_MODULUS
  BY <1>8, <1>9, InvCancels
<1>12. (Aggregated(f, total)[q][r][u] * (total % FIELD_MODULUS)) % FIELD_MODULUS
         = want % FIELD_MODULUS
  BY <1>4, <1>11
<1>. QED  BY <1>10, <1>12 DEF q, r

(* The total of the different counts is the total, if all are different. *)
LEMMA DifferentCounts ==
  ASSUME NEW ex \in [Ids -> Examples],
         Cardinality({ex[c] : c \in Ids}) = FitClients
  PROVE  SumOver([n \in {ex[c] : c \in Ids} |-> n], {ex[c] : c \in Ids}) = SumOver(ex, Ids)
<1> DEFINE T == {ex[c] : c \in Ids}
<1>1. ex \in Surjection(Ids, T)
  BY DEF Surjection
<1>2. ex \in Injection(Ids, T)
  BY <1>1, Given, FS_SurjSameCardinalityImpliesInj
<1>3. \A c, d \in Ids : ex[c] = ex[d] => c = d
  BY <1>2 DEF Injection, IsInjective
<1>4. \A c \in Ids : ex[c] \in Int
  BY Given
<1>. QED  BY <1>3, <1>4, Given, SumImage

-----------------------------------------------------------------------------
(* The inductive invariant: what was returned is what the last round's     *)
(* results and their different counts give.                                *)
Returned(s, ex, vs) ==
  LET counts == {ex[c] : c \in Ids}
  IN  chunks_to_model(s, Aggregated([shape |-> s, examples |-> ex, values |-> vs],
                                    SumOver([n \in counts |-> n], counts)))

FlowerInv ==
  fit # <<>> =>
    \E s \in Shapes, ex \in [Ids -> Examples], vs \in [Ids -> Values] :
      /\ fit = <<[shape |-> s, examples |-> ex, values |-> vs]>>
      /\ model = Returned(s, ex, vs)

(* The invariant holds at first. *)
LEMMA FlowerFirst == FlowerInit => FlowerInv
BY DEF FlowerInit, FlowerInv

(* Every step keeps the invariant. *)
LEMMA FlowerStep == FlowerInv /\ [FlowerNext]_fvars => FlowerInv'
<1>. SUFFICES ASSUME FlowerInv, [FlowerNext]_fvars PROVE FlowerInv'
  OBVIOUS
<1>1. CASE ConfigureFit
  BY <1>1 DEF ConfigureFit, FlowerInv
<1>2. ASSUME NEW s \in Shapes, NEW ex \in [Ids -> Examples], NEW vs \in [Ids -> Values],
             samples = {}, aggregate_fit(s, ex, vs)
      PROVE  FlowerInv'
  <2>1. samples \cup {ex[c] : c \in Ids} = {ex[c] : c \in Ids}
    BY <1>2
  <2>2. /\ fit' = <<[shape |-> s, examples |-> ex, values |-> vs]>>
        /\ model' = Returned(s, ex, vs)
    BY <1>2, <2>1 DEF aggregate_fit, Returned
  <2>. QED  BY <2>2 DEF FlowerInv
<1>3. ASSUME NEW c \in Ids, NEW k \in Indices, process_chunked_update(c, k)
      PROVE  FlowerInv'
  BY <1>3 DEF process_chunked_update, FlowerInv
<1>4. CASE UNCHANGED fvars
  BY <1>4 DEF fvars, FlowerInv
<1>. QED  BY <1>1, <1>2, <1>3, <1>4 DEF FlowerNext

(* The invariant always holds. *)
LEMMA FlowerAlways == FlowerSpec => []FlowerInv
BY FlowerFirst, FlowerStep, PTL DEF FlowerSpec

(* The arrays that aggregate_fit returns have the sizes of the given ones, *)
(* and their elements are the weighted means, modulo 3329, of the int16    *)
(* words of the clients' elements at the same places, for any arrays,      *)
(* values, chunk size, clients and counts.                                 *)
THEOREM FlowerAverages == FlowerSpec => []FlowerMean
<1>1. ASSUME FlowerInv, fit # <<>>,
             Cardinality({fit[1].examples[c] : c \in Ids}) = FitClients,
             SumOver(fit[1].examples, Ids) % Modulus # 0
      PROVE  /\ Len(model) = Len(fit[1].shape)
             /\ \A a \in 1..Len(model) :
                  /\ DOMAIN model[a] = 0..(fit[1].shape[a] - 1)
                  /\ \A i \in DOMAIN model[a], u \in Units(fit[1].shape) :
                       (model[a][i][u] * (SumOver(fit[1].examples, Ids) % Modulus)) % Modulus
                         = IF u[2] = Offset(fit[1].shape, a) + i
                           THEN (fit[1].examples[u[1]] * int16(fit[1].values[u[1]])) % Modulus
                           ELSE 0
  <2>1. PICK s \in Shapes, ex \in [Ids -> Examples], vs \in [Ids -> Values] :
          /\ fit = <<[shape |-> s, examples |-> ex, values |-> vs]>>
          /\ model = Returned(s, ex, vs)
    BY <1>1 DEF FlowerInv
  <2> DEFINE f == [shape |-> s, examples |-> ex, values |-> vs]
             total == SumOver(ex, Ids)
             counts == {ex[c] : c \in Ids}
             chunks == Aggregated(f, total)
  <2>2. fit[1] = f /\ f.shape = s /\ f.examples = ex /\ f.values = vs
    BY <2>1
  <2>3. Cardinality(counts) = FitClients /\ total % FIELD_MODULUS # 0
    BY <1>1, <2>2 DEF Modulus
  <2>4. SumOver([n \in counts |-> n], counts) = total
    BY <2>3, DifferentCounts
  <2>5. model = chunks_to_model(s, chunks)
    BY <2>1, <2>4 DEF Returned
  <2>6. total \in Nat
    BY Given, SumPositive
  <2>. HIDE DEF chunks, total, f
  <2>7. /\ DOMAIN model = 1..Len(s) /\ Len(model) = Len(s)
        /\ \A a \in 1..Len(s) :
             /\ DOMAIN model[a] = 0..(s[a] - 1)
             /\ \A i \in 0..(s[a] - 1) :
                  model[a][i] = chunks[(Offset(s, a) + i) \div ChunkSize]
                                      [(Offset(s, a) + i) % ChunkSize]
    BY <2>5, Given DEF chunks_to_model
  <2>8. ASSUME NEW a \in 1..Len(s), NEW i \in 0..(s[a] - 1), NEW u \in Units(s)
        PROVE  (model[a][i][u] * (total % FIELD_MODULUS)) % FIELD_MODULUS
                 = IF u[2] = Offset(s, a) + i THEN (ex[u[1]] * int16(vs[u[1]])) % FIELD_MODULUS ELSE 0
    <3> DEFINE e == Offset(s, a) + i
    <3>1. e \in Nat /\ e < Size(s) /\ Size(s) \in Nat
      BY PositionInModel
    <3>2. model[a][i] = chunks[e \div ChunkSize][e % ChunkSize]
      BY <2>7
    <3>. HIDE DEF e
    <3>3. (chunks[e \div ChunkSize][e % ChunkSize][u] * (total % FIELD_MODULUS))
            % FIELD_MODULUS = IF u[2] = e THEN (ex[u[1]] * int16(vs[u[1]])) % FIELD_MODULUS ELSE 0
      BY <2>3, <2>6, <3>1, MeanOfElements DEF chunks, f
    <3>. QED  BY <3>2, <3>3 DEF e
  <2>9. ASSUME NEW a \in 1..Len(model)
        PROVE  /\ DOMAIN model[a] = 0..(s[a] - 1)
               /\ \A i \in DOMAIN model[a], u \in Units(s) :
                    (model[a][i][u] * (total % FIELD_MODULUS)) % FIELD_MODULUS
                      = IF u[2] = Offset(s, a) + i THEN (ex[u[1]] * int16(vs[u[1]])) % FIELD_MODULUS ELSE 0
    <3>1. a \in 1..Len(s) /\ DOMAIN model[a] = 0..(s[a] - 1)
      BY <2>7
    <3>. QED  BY <2>8, <3>1, Zenon
  <2>10. fit[1].shape = s /\ fit[1].examples = ex /\ fit[1].values = vs /\ SumOver(fit[1].examples, Ids) = total
    <3>1. fit[1].shape = s /\ fit[1].examples = ex /\ fit[1].values = vs
      BY <2>2
    <3>. QED  BY <3>1, Zenon DEF total
  <2>. QED  BY <2>7, <2>9, <2>10 DEF Modulus
<1>2. FlowerInv => FlowerMean
  BY <1>1 DEF FlowerMean
<1>. QED  BY <1>2, FlowerAlways, PTL
=============================================================================
