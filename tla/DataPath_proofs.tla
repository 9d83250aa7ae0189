--------------------------- MODULE DataPath_proofs ---------------------------
(***************************************************************************)
(* The averages are right for any clients, chunks, sample counts and       *)
(* payloads.  First the coefficients of masks, masked chunks and averages; *)
(* then the invariant: chunks come in order, are as many as the client     *)
(* counts when it completes, reach the server's table from mock clients    *)
(* only, and stay as they are under an average.                            *)
(***************************************************************************)
EXTENDS DataPath, FieldSums_proofs

(* Linear combinations of the unknowns *)
Vectors == [Unknowns -> Field]

(* Field elements are numbers. *)
LEMMA FieldIsInt == \A x \in Field : x \in Int
BY DEF Field, FIELD_MODULUS

(* The unit vectors: one coefficient of 1 *)
LEMMA UnitIs ==
  ASSUME NEW u
  PROVE  /\ Unit(u) \in Vectors
         /\ \A x \in Unknowns : Unit(u)[x] = IF x = u THEN 1 ELSE 0
<1>1. 0 \in Field /\ 1 \in Field
  BY DEF Field, FIELD_MODULUS
<1>2. Zero \in Vectors /\ \A x \in Unknowns : Zero[x] = 0
  BY <1>1 DEF Zero, Vectors
<1>. QED  BY <1>1, <1>2 DEF Unit, Vectors, Zero

(* The zero vector *)
LEMMA ZeroIs == Zero \in Vectors /\ \A x \in Unknowns : Zero[x] = 0
BY DEF Zero, Vectors, Field, FIELD_MODULUS

(* Addition is element-wise, and stays in the field. *)
LEMMA PlusIs ==
  ASSUME NEW v \in Vectors, NEW w \in Vectors
  PROVE  /\ Plus(v, w) \in Vectors
         /\ \A u \in Unknowns : Plus(v, w)[u] = (v[u] + w[u]) % FIELD_MODULUS
<1>1. ASSUME NEW u \in Unknowns PROVE v[u] + w[u] \in Int
  <2>1. v[u] \in Field /\ w[u] \in Field
    BY DEF Vectors
  <2>. QED  BY <2>1, FieldIsInt
<1>2. \A u \in Unknowns : (v[u] + w[u]) % FIELD_MODULUS \in Field
  BY <1>1, ModIsField
<1>. QED  BY <1>2 DEF Plus, Vectors

(* The coefficients of a linear combination *)
LEMMA CombineIs ==
  ASSUME NEW S, IsFiniteSet(S), NEW w, NEW v,
         \A x \in S : w[x] \in Int /\ v[x] \in Vectors
  PROVE  /\ Combine(w, v, S) \in Vectors
         /\ \A u \in Unknowns :
              (\A x \in S : v[x][u] = 0) => Combine(w, v, S)[u] = 0
         /\ \A u \in Unknowns, z \in S :
              v[z][u] = 1 /\ (\A x \in S \ {z} : v[x][u] = 0) =>
                Combine(w, v, S)[u] = w[z] % FIELD_MODULUS
<1> DEFINE term(u) == [x \in S |-> ((w[x] % FIELD_MODULUS) * v[x][u]) % FIELD_MODULUS]
<1>1. ASSUME NEW u \in Unknowns, NEW x \in S
      PROVE  /\ term(u)[x] \in Int
             /\ v[x][u] = 0 => term(u)[x] = 0
             /\ v[x][u] = 1 => term(u)[x] = w[x] % FIELD_MODULUS
  <2>1. v[x][u] \in Int /\ w[x] % FIELD_MODULUS \in Field /\ w[x] % FIELD_MODULUS \in Int
    <3>1. v[x][u] \in Field
      BY DEF Vectors
    <3>. QED  BY <3>1, ModIsField, FieldIsInt
  <2> DEFINE a == w[x] % FIELD_MODULUS
             b == v[x][u]
  <2>2. term(u)[x] = (a * b) % FIELD_MODULUS
    OBVIOUS
  <2>3. a * b \in Int
    BY <2>1
  <2>4. (a * b) % FIELD_MODULUS \in Int
    BY <2>3, ModIsField, FieldIsInt
  <2>5. b = 0 => a * b = 0
    BY <2>1
  <2>6. b = 1 => a * b = a
    BY <2>1
  <2>7. 0 % FIELD_MODULUS = 0 /\ a % FIELD_MODULUS = a
    BY <2>1, ModIsField DEF Field, FIELD_MODULUS
  <2>. HIDE DEF a, b, term
  <2>. QED  BY <2>2, <2>4, <2>5, <2>6, <2>7 DEF a, b
<1>2. \A u \in Unknowns : Combine(w, v, S)[u] = SumOver(term(u), S) % FIELD_MODULUS
  BY DEF Combine
<1>3. Combine(w, v, S) = [u \in Unknowns |-> Combine(w, v, S)[u]]
  BY DEF Combine
<1>. HIDE DEF term
<1>4. ASSUME NEW u \in Unknowns PROVE Combine(w, v, S)[u] \in Field
  <2>1. SumOver(term(u), S) \in Int
    BY <1>1, SumType
  <2>. QED  BY <1>2, <2>1, ModIsField
<1>5. Combine(w, v, S) \in Vectors
  BY <1>3, <1>4 DEF Vectors
<1>6. ASSUME NEW u \in Unknowns, \A x \in S : v[x][u] = 0
      PROVE  Combine(w, v, S)[u] = 0
  <2>1. SumOver(term(u), S) = 0
    BY <1>1, <1>6, SumZero
  <2>2. 0 % FIELD_MODULUS = 0
    BY DEF FIELD_MODULUS
  <2>. QED  BY <1>2, <2>1, <2>2
<1>7. ASSUME NEW u \in Unknowns, NEW z \in S, v[z][u] = 1,
             \A x \in S \ {z} : v[x][u] = 0
      PROVE  Combine(w, v, S)[u] = w[z] % FIELD_MODULUS
  <2>1. SumOver(term(u), S) = term(u)[z]
    BY <1>1, <1>7, SumSingle
  <2>2. (w[z] % FIELD_MODULUS) % FIELD_MODULUS = w[z] % FIELD_MODULUS
    BY ModIsField
  <2>. QED  BY <1>1, <1>2, <1>7, <2>1, <2>2
<1>. QED  BY <1>5, <1>6, <1>7

(* A plaintext is no mask stream, and no other client's or chunk's. *)
LEMMA PlainIsItself ==
  ASSUME NEW c, NEW k
  PROVE  /\ \A l, s, d, j : Plain(c, k) # StreamSeed(l, s, d, j)
         /\ \A d, j : Plain(c, k) = Plain(d, j) => c = d /\ k = j
         /\ c \in Clients /\ k \in Chunks => Plain(c, k) \in Unknowns
<1>1. ASSUME NEW l, NEW s, NEW d, NEW j PROVE Plain(c, k) # StreamSeed(l, s, d, j)
  <2>1. DOMAIN Plain(c, k) = 1..3 /\ DOMAIN StreamSeed(l, s, d, j) = 1..4
    BY DEF Plain, StreamSeed
  <2>2. 4 \in 1..4 /\ 4 \notin 1..3
    OBVIOUS
  <2>. QED  BY <2>1, <2>2
<1>2. \A d, j : Plain(c, k) = Plain(d, j) => c = d /\ k = j
  BY DEF Plain
<1>3. c \in Clients /\ k \in Chunks => Plain(c, k) \in Unknowns
  BY DEF Unknowns, Plains
<1>. QED  BY <1>1, <1>2, <1>3

(* Clients are finitely many numbers. *)
LEMMA ClientsAre ==
  /\ IsFiniteSet(Clients) /\ Clients \subseteq Int
  /\ \A S \in SUBSET Clients : IsFiniteSet(S)
<1>1. Clients \subseteq 0..255 /\ IsFiniteSet(Clients)
  BY MaskAlgebraAssumption
<1>2. Clients \subseteq Int
  BY <1>1
<1>. QED  BY <1>1, <1>2, FS_Subset

(* What a client masks its chunk with holds no plaintext. *)
LEMMA MaskIs ==
  ASSUME NEW c \in Clients, NEW k \in Chunks
  PROVE  /\ generate_chunk_mask(c, k) \in Vectors /\ mock_mask(c, k) \in Vectors
         /\ \A d \in Clients, j \in Chunks :
              generate_chunk_mask(c, k)[Plain(d, j)] = 0 /\ mock_mask(c, k)[Plain(d, j)] = 0
<1> DEFINE peers == Clients \ {c}
           w == [p \in peers |-> Sign(c, p)]
           v == [p \in peers |-> Unit(device_stream(device_pairwise(PairSecret(c, p), c, p), c, k))]
<1>1. generate_chunk_mask(c, k) = Combine(w, v, peers)
  BY DEF generate_chunk_mask
<1>2. IsFiniteSet(peers)
  BY ClientsAre
<1>3. ASSUME NEW p \in peers
      PROVE  /\ w[p] \in Int /\ v[p] \in Vectors
             /\ \A d \in Clients, j \in Chunks : v[p][Plain(d, j)] = 0
  <2>1. w[p] \in Int
    BY DEF Sign
  <2>. QED  BY <2>1, UnitIs, PlainIsItself DEF device_stream
<1>. HIDE DEF w, v, peers
<1>4. generate_chunk_mask(c, k) \in Vectors
  BY <1>1, <1>2, <1>3, CombineIs
<1>5. ASSUME NEW d \in Clients, NEW j \in Chunks
      PROVE  generate_chunk_mask(c, k)[Plain(d, j)] = 0
  <2>1. Plain(d, j) \in Unknowns /\ \A p \in peers : v[p][Plain(d, j)] = 0
    BY <1>3, PlainIsItself
  <2>. QED  BY <1>1, <1>2, <1>3, <2>1, CombineIs
<1>6. mock_mask(c, k) \in Vectors
  BY UnitIs DEF mock_mask
<1>7. \A d \in Clients, j \in Chunks : mock_mask(c, k)[Plain(d, j)] = 0
  BY UnitIs, PlainIsItself DEF mock_mask, mock_stream
<1>. QED  BY <1>4, <1>5, <1>6, <1>7

(* Nor do the masks that the server recovers for a dropped client. *)
LEMMA RecoveryIs ==
  ASSUME NEW c \in Clients, NEW k, NEW peers \in SUBSET Clients
  PROVE  /\ recover_dropped_client_masks(c, peers, k) \in Vectors
         /\ \A d \in Clients, j \in Chunks :
              recover_dropped_client_masks(c, peers, k)[Plain(d, j)] = 0
<1> DEFINE w == [p \in peers |-> Sign(c, p)]
           v == [p \in peers |-> Unit(recovery_stream(recovery_pairwise(ServerSecret(c), c, p), c, k))]
<1>1. recover_dropped_client_masks(c, peers, k) = Combine(w, v, peers)
  BY DEF recover_dropped_client_masks
<1>2. IsFiniteSet(peers)
  BY ClientsAre
<1>3. ASSUME NEW p \in peers
      PROVE  /\ w[p] \in Int /\ v[p] \in Vectors
             /\ \A d \in Clients, j \in Chunks : v[p][Plain(d, j)] = 0
  <2>1. w[p] \in Int
    BY DEF Sign
  <2>. QED  BY <2>1, UnitIs, PlainIsItself DEF recovery_stream
<1>. HIDE DEF w, v
<1>4. recover_dropped_client_masks(c, peers, k) \in Vectors
  BY <1>1, <1>2, <1>3, CombineIs
<1>5. ASSUME NEW d \in Clients, NEW j \in Chunks
      PROVE  recover_dropped_client_masks(c, peers, k)[Plain(d, j)] = 0
  <2>1. Plain(d, j) \in Unknowns /\ \A p \in peers : v[p][Plain(d, j)] = 0
    BY <1>3, PlainIsItself
  <2>. QED  BY <1>1, <1>2, <1>3, <2>1, CombineIs
<1>. QED  BY <1>4, <1>5

(* A masked chunk holds its client's plaintext once, and no other. *)
LEMMA MaskedChunkIs ==
  ASSUME NEW kd \in {"device", "mock"}, NEW c \in Clients, NEW k \in Chunks
  PROVE  /\ MaskedChunk(kd, c, k) \in Vectors
         /\ \A d \in Clients :
              MaskedChunk(kd, c, k)[Plain(d, k)] = IF d = c THEN 1 ELSE 0
<1> DEFINE mask == IF kd = "device" THEN generate_chunk_mask(c, k) ELSE mock_mask(c, k)
<1>1. mask \in Vectors /\ \A d \in Clients : mask[Plain(d, k)] = 0
  BY MaskIs
<1>2. MaskedChunk(kd, c, k) = Plus(Unit(Plain(c, k)), mask)
  BY DEF MaskedChunk, apply_mask
<1>. HIDE DEF mask
<1>3. ASSUME NEW d \in Clients
      PROVE  MaskedChunk(kd, c, k)[Plain(d, k)] = IF d = c THEN 1 ELSE 0
  <2>1. Plain(d, k) \in Unknowns /\ (Plain(d, k) = Plain(c, k) <=> d = c)
    BY PlainIsItself
  <2>2. Unit(Plain(c, k))[Plain(d, k)] = IF d = c THEN 1 ELSE 0
    BY <2>1, UnitIs
  <2>3. (1 + 0) % FIELD_MODULUS = 1 /\ (0 + 0) % FIELD_MODULUS = 0
    BY DEF FIELD_MODULUS
  <2>. QED  BY <1>1, <1>2, <2>1, <2>2, <2>3, UnitIs, PlusIs
<1>. QED  BY <1>1, <1>2, <1>3, UnitIs, PlusIs
(* The client, who rounds up, counts at least the chunks of the server,    *)
(* who rounds down, and exactly those when nothing remains.                *)
LEMMA ChunkCounts ==
  ASSUME NEW m \in Nat, NEW c \in Nat, c > 0
  PROVE  /\ m \div c \in Nat /\ (m + c - 1) \div c \in Nat
         /\ m \div c <= (m + c - 1) \div c
         /\ m % c = 0 => m \div c = (m + c - 1) \div c
<1> DEFINE q == m \div c
           p == (m + c - 1) \div c
           y == c * q
           x == c * p
<1>0. m + c - 1 \in Nat
  OBVIOUS
<1>1. q \in Nat /\ y <= m /\ m < y + c /\ (m % c = 0 => m = y)
  BY DivBounds
<1>2. p \in Nat /\ x <= m + c - 1 /\ m + c - 1 < x + c
  BY <1>0, DivBounds
<1>. HIDE DEF q, p
<1>3. x \in Int /\ y \in Int
  BY <1>1, <1>2
<1>4. p < q => x + c <= y
  BY <1>1, <1>2, LessThenMultiple
<1>5. q < p => y + c <= x
  BY <1>1, <1>2, LessThenMultiple
<1>. HIDE DEF x, y
<1>6. q <= p
  BY <1>1, <1>2, <1>3, <1>4
<1>7. m % c = 0 => q = p
  BY <1>1, <1>2, <1>3, <1>5, <1>6
<1>. QED  BY <1>1, <1>2, <1>6, <1>7 DEF q, p

(* Inverses are numbers. *)
LEMMA InvField == \A x \in Int : inv(x) \in Int
BY InvType, FieldIsInt

(* What client d's plaintext of chunk k weighs in a sum over S *)
Contribution(S, w, v, k, d) == IF d \in S /\ v[d][Plain(d, k)] = 1 THEN w[d] ELSE 0

(* What an average makes of the coefficient of a plaintext *)
LEMMA AverageIs ==
  ASSUME NEW S \in SUBSET Clients, NEW w, NEW v, NEW k \in Chunks, NEW total \in Nat,
         \A c \in S : w[c] \in Nat /\ v[c] \in Vectors,
         \A c \in S : v[c][Plain(c, k)] \in {0, 1},
         \A c \in S : \A d \in Clients \ {c} : v[c][Plain(d, k)] = 0
  PROVE  /\ Divided(Combine(w, v, S), total) \in Vectors
         /\ total % FIELD_MODULUS # 0 =>
              \A d \in Clients :
                (Divided(Combine(w, v, S), total)[Plain(d, k)] * (total % FIELD_MODULUS))
                    % FIELD_MODULUS
                  = Contribution(S, w, v, k, d) % FIELD_MODULUS
<1> DEFINE C == Combine(w, v, S)
           D == Divided(C, total)
<1>1. IsFiniteSet(S)
  BY ClientsAre
<1>2. C \in Vectors
  BY <1>1, CombineIs
<1>3. ASSUME NEW d \in Clients
      PROVE  C[Plain(d, k)] = Contribution(S, w, v, k, d) % FIELD_MODULUS
  <2>1. Plain(d, k) \in Unknowns
    BY PlainIsItself
  <2>2. 0 % FIELD_MODULUS = 0
    BY DEF FIELD_MODULUS
  <2>3. CASE d \in S /\ v[d][Plain(d, k)] = 1
    <3>1. v[d][Plain(d, k)] = 1 /\ \A x \in S \ {d} : v[x][Plain(d, k)] = 0
      BY <2>3
    <3>2. C[Plain(d, k)] = w[d] % FIELD_MODULUS
      BY <1>1, <2>1, <2>3, <3>1, CombineIs
    <3>. QED  BY <2>3, <3>2 DEF Contribution
  <2>4. CASE ~(d \in S /\ v[d][Plain(d, k)] = 1)
    <3>1. \A x \in S : v[x][Plain(d, k)] = 0
      BY <2>4
    <3>2. C[Plain(d, k)] = 0
      BY <1>1, <2>1, <3>1, CombineIs
    <3>. QED  BY <2>2, <2>4, <3>2 DEF Contribution
  <2>. QED  BY <2>3, <2>4
<1>. HIDE DEF C
<1>4. \A u \in Unknowns :
        D[u] = IF total > 1 THEN (C[u] * inv(total)) % FIELD_MODULUS ELSE C[u]
  BY DEF Divided
<1>5. D = [u \in Unknowns |-> D[u]]
  BY DEF Divided
<1>. HIDE DEF D
<1>6. ASSUME NEW u \in Unknowns PROVE D[u] \in Field
  <2>1. C[u] \in Field /\ C[u] \in Int /\ inv(total) \in Int
    BY <1>2, FieldIsInt, InvField DEF Vectors
  <2>2. C[u] * inv(total) \in Int
    BY <2>1
  <2>3. (C[u] * inv(total)) % FIELD_MODULUS \in Field
    BY <2>2, ModIsField
  <2>. QED  BY <1>4, <2>1, <2>3
<1>7. D \in Vectors
  BY <1>5, <1>6 DEF Vectors
<1>8. ASSUME total % FIELD_MODULUS # 0, NEW d \in Clients
      PROVE  (D[Plain(d, k)] * (total % FIELD_MODULUS)) % FIELD_MODULUS
               = Contribution(S, w, v, k, d) % FIELD_MODULUS
  <2> DEFINE x == Contribution(S, w, v, k, d)
             y == x % FIELD_MODULUS
  <2>1. Plain(d, k) \in Unknowns
    BY PlainIsItself
  <2>2. x \in Int /\ total \in Int
    BY DEF Contribution
  <2>3. C[Plain(d, k)] = y
    BY <1>3
  <2>. HIDE DEF x
  <2>4. y \in Field /\ y \in Int /\ y % FIELD_MODULUS = y
    BY <2>2, ModIsField, FieldIsInt
  <2>5. CASE total > 1
    <3>1. (((y * inv(total)) % FIELD_MODULUS) * (total % FIELD_MODULUS)) % FIELD_MODULUS = y
      BY <1>8, <2>2, InvCancels
    <3>2. D[Plain(d, k)] = (y * inv(total)) % FIELD_MODULUS
      BY <1>4, <2>1, <2>3, <2>5
    <3>. QED  BY <3>1, <3>2 DEF x
  <2>6. CASE ~(total > 1)
    <3>1. total = 1
      <4>1. 0 % FIELD_MODULUS = 0
        BY DEF FIELD_MODULUS
      <4>. QED  BY <1>8, <2>6, <4>1
    <3>2. 1 % FIELD_MODULUS = 1
      BY DEF FIELD_MODULUS
    <3>3. D[Plain(d, k)] = y
      BY <1>4, <2>1, <2>3, <2>6
    <3>. HIDE DEF y
    <3>4. y * 1 = y
      BY <2>4
    <3>5. (D[Plain(d, k)] * (total % FIELD_MODULUS)) % FIELD_MODULUS = y
      BY <2>4, <3>1, <3>2, <3>3, <3>4
    <3>. QED  BY <3>5 DEF x, y
  <2>. QED  BY <2>5, <2>6
<1>. QED  BY <1>7, <1>8 DEF C, D

(* The total of the code is a number, and the reference's where either all *)
(* or none of the clients report samples.                                  *)
LEMMA TotalIs ==
  ASSUME NEW r, NEW S \in SUBSET Clients, r.samples \in [Clients -> Nat]
  PROVE  /\ TotalSamples(r, S) \in Nat
         /\ (\A c \in S : r.samples[c] = 0) \/ (\A c \in S : r.samples[c] > 0) =>
              TotalSamples(r, S)
                = SumOver([c \in S |-> IF r.samples[c] = 0 THEN 1 ELSE r.samples[c]], S)
<1> DEFINE f == r.samples
           P == {c \in S : f[c] > 0}
           g == [c \in S |-> IF f[c] = 0 THEN 1 ELSE f[c]]
<1>1. IsFiniteSet(S) /\ IsFiniteSet(P) /\ Cardinality(S) \in Nat
  <2>1. P \in SUBSET Clients
    OBVIOUS
  <2>. QED  BY <2>1, ClientsAre, FS_CardinalityType
<1>2. \A c \in S : f[c] \in Nat
  OBVIOUS
<1>3. SumSamples(r, S) = SumOver(f, P)
  BY DEF SumSamples
<1>4. SumOver(f, P) \in Nat /\ \A c \in P : SumOver(f, P) >= f[c]
  BY <1>1, <1>2, SumPositive
<1>5. TotalSamples(r, S) = IF SumOver(f, P) = 0 THEN Cardinality(S) ELSE SumOver(f, P)
  BY <1>3 DEF TotalSamples
<1>6. ASSUME \A c \in S : f[c] = 0 PROVE TotalSamples(r, S) = SumOver(g, S)
  <2>1. P = {}
    BY <1>6
  <2>2. SumOver(f, P) = 0
    BY <2>1, SumEmpty
  <2>3. \A c \in S : g[c] = 1
    BY <1>6
  <2>. HIDE DEF g
  <2>4. SumOver(g, S) = Cardinality(S)
    BY <1>1, <2>3, SumOnes
  <2>. QED  BY <1>5, <2>2, <2>4
<1>7. ASSUME \A c \in S : f[c] > 0, S # {} PROVE TotalSamples(r, S) = SumOver(g, S)
  <2>1. P = S
    BY <1>7
  <2>2. PICK c : c \in S
    BY <1>7
  <2>3. \A d \in S : f[d] = g[d]
    BY <1>2, <1>7
  <2>. HIDE DEF g, f, P
  <2>4. SumOver(f, P) # 0
    BY <1>2, <1>4, <1>7, <2>1, <2>2
  <2>5. SumOver(f, S) = SumOver(g, S)
    BY <1>1, <2>3, SumExtensional
  <2>. QED  BY <1>5, <2>1, <2>4, <2>5
<1>. HIDE DEF g, f, P
<1>8. TotalSamples(r, S) \in Nat
  BY <1>1, <1>4, <1>5
<1>9. (\A c \in S : f[c] = 0) \/ (\A c \in S : f[c] > 0) => TotalSamples(r, S) = SumOver(g, S)
  BY <1>6, <1>7
<1>. QED  BY <1>8, <1>9 DEF f, g

-----------------------------------------------------------------------------
(* The inductive invariant.  Everybody has read the same payload as the    *)
(* bridge.                                                                 *)
Nothing == <<0, 0, 0, 0, 0, 0, 0, 0>>
Params(p) == bridge_round_init(p)

ParamsInv ==
  \/ /\ params = [party \in Parties |-> Params(Nothing)]
     /\ table.clients = {} /\ table.dropouts = {} /\ table.num = 0
  \/ \E p \in Payloads :
       /\ params = [party \in Parties |-> Params(p)]
       /\ table.num = ServerChunks(Params(p))

TableInv ==
  /\ table = [clients |-> table.clients, chunks |-> table.chunks,
              completed |-> table.completed, samples |-> table.samples,
              dropouts |-> table.dropouts, secret |-> table.secret, num |-> table.num]
  /\ table.clients \subseteq Clients /\ table.completed \subseteq table.clients
  /\ table.dropouts \subseteq Clients
  /\ table.samples \in [Clients -> Nat]
  /\ DOMAIN table.chunks = Clients

(* The first n chunks of a client *)
Stored(kd, c, n) == [k \in 0..(n - 1) |-> MaskedChunk(kd, c, k)]

(* A client's chunks come in order and without gaps, and all that it       *)
(* counts have come when it completes.                                     *)
ChunksInv ==
  \A c \in Clients : \E n \in Nat :
    /\ streamed[c] = Stored(kind, c, n)
    /\ n = 0 \/ (Started /\ n <= ClientChunks(params["bridge"]))
    /\ c \in table.completed => n = ClientChunks(params["bridge"])

(* The server keeps what mock clients stream, and nothing of a device's. *)
KeptInv ==
  /\ DOMAIN streamed = Clients
  /\ \A c \in Clients :
       table.chunks[c] = IF kind = "mock" THEN streamed[c] ELSE <<>>

(* The table does not change under a published average. *)
OutInv ==
  IF Over THEN Started /\ out = Published(table, params["bridge"].threshold)
  ELSE out = [s \in Programs |-> Outcome("none", <<>>)]

PathInv ==
  /\ kind \in {"device", "mock"}
  /\ ParamsInv
  /\ TableInv
  /\ ChunksInv
  /\ KeptInv
  /\ OutInv

(* A payload's parameters *)
LEMMA ParamsAre ==
  ASSUME NEW p \in Payloads
  PROVE  /\ Params(p).chunk_size \in Nat /\ Params(p).chunk_size > 0
         /\ Params(p).model_size \in Nat
         /\ ServerChunks(Params(p)) \in Nat /\ ClientChunks(Params(p)) \in Nat
         /\ ServerChunks(Params(p)) <= ClientChunks(Params(p))
         /\ Params(p).model_size % Params(p).chunk_size = 0 =>
              ServerChunks(Params(p)) = ClientChunks(Params(p))
         /\ ClientChunks(Params(p)) <= MaxChunks
<1> DEFINE c == Params(p).chunk_size
           m == Params(p).model_size
<1>1. p \in [1..8 -> 0..255] /\ c # 0 /\ ClientChunks(Params(p)) <= MaxChunks
  BY DataPathAssumption DEF Params
<1>2. \A i \in 1..8 : p[i] \in Nat
  BY <1>1
<1>3. c = p[3] + 256 * p[4]
      /\ m = p[5] + 256 * p[6] + 65536 * p[7] + 16777216 * p[8]
  BY DEF Params, bridge_round_init
<1>4. c \in Nat /\ m \in Nat
  BY <1>2, <1>3
<1>5. ServerChunks(Params(p)) = m \div c /\ ClientChunks(Params(p)) = (m + c - 1) \div c
  BY DEF ServerChunks, ClientChunks
<1>. HIDE DEF c, m
<1>6. c > 0
  BY <1>1, <1>4
<1>. QED  BY <1>1, <1>4, <1>5, <1>6, ChunkCounts DEF c, m

(* All readers of ROUND_INIT compute the same parameters. *)
LEMMA ReadIs ==
  ASSUME NEW party \in Parties, NEW p
  PROVE  ReadBy(party, p) = Params(p)
BY DEF Parties, ReadBy, Params, bridge_round_init, mock_round_init, device_round_init

(* After publishing the round is over. *)
LEMMA PublishedIsOver ==
  ASSUME NEW r, NEW t
  PROVE  Published(r, t)["bridge"].status # "none"
BY DEF Published, Outcome, Programs

(* The invariant holds at first. *)
LEMMA PathInit == Init => PathInv
<1>. SUFFICES ASSUME Init PROVE PathInv
  OBVIOUS
<1>1. kind \in {"device", "mock"} /\ ParamsInv
  <2>1. params = [party \in Parties |-> Params(Nothing)]
    BY ReadIs DEF Init, Nothing
  <2>. QED  BY <2>1 DEF Init, ParamsInv
<1>2. TableInv
  BY DEF Init, TableInv
<1>3. ChunksInv
  <2>1. ASSUME NEW c \in Clients
        PROVE  streamed[c] = Stored(kind, c, 0) /\ c \notin table.completed
    <3>1. 0..(0 - 1) = 1..0 /\ 1..0 = {}
      OBVIOUS
    <3>2. streamed[c] = <<>> /\ c \notin table.completed
      BY DEF Init
    <3>3. Stored(kind, c, 0) = <<>>
      BY <3>1 DEF Stored
    <3>. QED  BY <3>2, <3>3
  <2>. QED  BY <2>1 DEF ChunksInv
<1>4. KeptInv
  BY DEF Init, KeptInv
<1>5. OutInv
  BY DEF Init, OutInv, Over, Outcome, Programs
<1>. QED  BY <1>1, <1>2, <1>3, <1>4, <1>5 DEF PathInv

(* A round that has started has read a payload. *)
LEMMA Known ==
  ASSUME PathInv, Started
  PROVE  \E p \in Payloads : /\ params = [party \in Parties |-> Params(p)]
                             /\ table.num = ServerChunks(Params(p))
<1>1. Params(Nothing).chunk_size = 0
  BY DEF Params, bridge_round_init, Nothing
<1>2. "bridge" \in Parties
  BY DEF Parties
<1>3. params # [party \in Parties |-> Params(Nothing)]
  BY <1>1, <1>2 DEF Started
<1>. QED  BY <1>3 DEF PathInv, ParamsInv

(* Before ROUND_INIT nothing has happened. *)
LEMMA NotStarted ==
  ASSUME PathInv, ~Started
  PROVE  /\ table.clients = {} /\ table.dropouts = {} /\ ~Over
<1>1. "bridge" \in Parties
  BY DEF Parties
<1>2. \A p \in Payloads : Params(p).chunk_size # 0
  BY DataPathAssumption DEF Params
<1>3. \A p \in Payloads : params # [party \in Parties |-> Params(p)]
  BY <1>1, <1>2 DEF Started
<1>. QED  BY <1>3 DEF PathInv, ParamsInv, OutInv

(* ROUND_INIT keeps the invariant: nothing has come yet. *)
LEMMA RoundInitKeeps ==
  ASSUME PathInv, NEW p \in Payloads, RoundInit(p)
  PROVE  PathInv'
<1>1. kind' = kind /\ out' = out /\ streamed' = streamed /\ ~Started
  BY DEF RoundInit
<1>2. params' = [party \in Parties |-> Params(p)]
  BY ReadIs DEF RoundInit
<1>3. params'["bridge"] = Params(p)
  BY <1>2 DEF Parties
<1>4. table' = [table EXCEPT !.num = ServerChunks(Params(p))]
  BY <1>3 DEF RoundInit
<1>5. /\ TableInv'
      /\ table'.num = ServerChunks(Params(p))
      /\ table'.chunks = table.chunks /\ table'.completed = table.completed
      /\ table'.clients = table.clients
  BY <1>4 DEF PathInv, TableInv
<1>6. ParamsInv'
  BY <1>2, <1>5 DEF ParamsInv
<1>7. ChunksInv'
  <2>1. table.completed = {}
    BY <1>1, NotStarted DEF PathInv, TableInv
  <2>2. ASSUME NEW c \in Clients
        PROVE  streamed[c] = Stored(kind, c, 0)
    BY <1>1 DEF PathInv, ChunksInv
  <2>. QED  BY <1>1, <1>5, <2>1, <2>2 DEF ChunksInv
<1>8. OutInv'
  <2>1. ~Over /\ Over' = Over
    BY <1>1, NotStarted DEF Over
  <2>. QED  BY <1>1, <2>1 DEF PathInv, OutInv
<1>9. KeptInv'
  BY <1>1, <1>5 DEF PathInv, KeptInv
<1>. QED  BY <1>1, <1>5, <1>6, <1>7, <1>8, <1>9 DEF PathInv

(* A new client has sent no chunks. *)
LEMMA PublicKeyKeeps ==
  ASSUME PathInv, NEW c \in Clients, PublicKey(c)
  PROVE  PathInv'
<1>1. /\ kind' = kind /\ params' = params /\ streamed' = streamed /\ out' = out
      /\ Started /\ ~Over
  BY DEF PublicKey
<1>2. table' = [table EXCEPT !.clients = @ \cup {c}]
  BY DEF PublicKey
<1>3. /\ TableInv'
      /\ table'.num = table.num
      /\ table'.chunks = table.chunks /\ table'.completed = table.completed
  BY <1>2 DEF PathInv, TableInv
<1>4. ParamsInv'
  BY <1>1, <1>3, Known DEF ParamsInv
<1>5. Started' /\ ~Over'
  BY <1>1 DEF Started, Over
<1>6. ChunksInv'
  BY <1>1, <1>3, <1>5 DEF PathInv, ChunksInv
<1>7. OutInv'
  BY <1>1, <1>5 DEF PathInv, OutInv
<1>8. KeptInv'
  BY <1>1, <1>3 DEF PathInv, KeptInv
<1>. QED  BY <1>1, <1>3, <1>4, <1>6, <1>7, <1>8 DEF PathInv

(* The parties of a started round have the same parameters. *)
LEMMA SameParams ==
  ASSUME PathInv, Started
  PROVE  /\ params[kind] = params["bridge"]
         /\ ClientChunks(params["bridge"]) \in Nat
         /\ ClientChunks(params["bridge"]) <= MaxChunks
<1>1. PICK p \in Payloads : params = [party \in Parties |-> Params(p)]
  BY Known
<1>2. kind \in Parties /\ "bridge" \in Parties
  BY DEF PathInv, Parties
<1>. QED  BY <1>1, <1>2, ParamsAre

(* A server stores what a mock client streams, and refuses a device's. *)
LEMMA StoresIs ==
  ASSUME PathInv, Started
  PROVE  Stores(kind, params[kind]) <=> kind = "mock"
<1>1. PICK p \in Payloads : params = [party \in Parties |-> Params(p)]
  BY Known
<1>2. params[kind] = Params(p) /\ kind \in {"device", "mock"}
  BY <1>1 DEF PathInv, Parties
<1>3. Params(p).chunk_size \in Nat /\ Params(p).chunk_size > 0
  BY ParamsAre
<1>. QED  BY <1>2, <1>3 DEF Stores, ChunkBytes

(* The chunks that a client has sent are as many as their numbers. *)
LEMMA StoredCount ==
  ASSUME NEW kd, NEW c, NEW n \in Nat
  PROVE  /\ DOMAIN Stored(kd, c, n) = 0..(n - 1)
         /\ Cardinality(DOMAIN Stored(kd, c, n)) = n
<1>1. DOMAIN Stored(kd, c, n) = 0..(n - 1)
  BY DEF Stored
<1>2. Cardinality(0..(n - 1)) = n
  BY FS_Interval
<1>. QED  BY <1>1, <1>2

(* Clients register only in a round that has started. *)
LEMMA ClientMeansStarted ==
  ASSUME PathInv, NEW c \in table.clients
  PROVE  Started
BY NotStarted

(* The next chunk goes behind the last one. *)
LEMMA MaskChunkKeeps ==
  ASSUME PathInv, NEW c \in Clients, MaskChunk(c)
  PROVE  PathInv'
<1>1. kind' = kind /\ params' = params /\ out' = out /\ ~Over /\ c \in table.clients
  BY DEF MaskChunk
<1>2. Started
  BY <1>1, ClientMeansStarted
<1>3. PICK n \in Nat :
        /\ streamed[c] = Stored(kind, c, n)
        /\ n = 0 \/ (Started /\ n <= ClientChunks(params["bridge"]))
        /\ c \in table.completed => n = ClientChunks(params["bridge"])
  BY DEF PathInv, ChunksInv
<1>4. DOMAIN streamed[c] = 0..(n - 1) /\ Cardinality(DOMAIN streamed[c]) = n
  BY <1>3, StoredCount
<1> DEFINE new == [j \in (0..(n - 1)) \cup {n} |->
                     IF j = n THEN MaskedChunk(kind, c, n) ELSE streamed[c][j]]
<1>5. /\ n < ClientChunks(params[kind])
      /\ streamed' = [streamed EXCEPT ![c] = new]
      /\ table' = IF Stores(kind, params[kind])
                  THEN [table EXCEPT !.chunks[c] = Extended(@, n, MaskedChunk(kind, c, n))]
                  ELSE table
  BY <1>4 DEF MaskChunk, Extended
<1>6. new = Stored(kind, c, n + 1)
  <2>1. (0..(n - 1)) \cup {n} = 0..((n + 1) - 1)
    OBVIOUS
  <2>2. \A j \in 0..(n - 1) : streamed[c][j] = MaskedChunk(kind, c, j)
    BY <1>3 DEF Stored
  <2>3. \A j \in (0..(n - 1)) \cup {n} : new[j] = MaskedChunk(kind, c, j)
    BY <2>2
  <2>. QED  BY <2>1, <2>3 DEF Stored
<1>. HIDE DEF new
<1>7. /\ TableInv'
      /\ table'.num = table.num /\ table'.completed = table.completed
  BY <1>5 DEF PathInv, TableInv
<1>8. /\ streamed'[c] = new /\ DOMAIN streamed' = Clients
       /\ \A d \in Clients \ {c} : streamed'[d] = streamed[d]
  BY <1>5 DEF PathInv, KeptInv
<1>9. ParamsInv'
  BY <1>1, <1>2, <1>7, Known DEF ParamsInv
<1>10. Started' /\ ~Over'
  BY <1>1, <1>2 DEF Started, Over
<1>11. ChunksInv'
  <2> DEFINE L == ClientChunks(params["bridge"])
  <2>1. L \in Nat /\ n < L
    BY <1>2, <1>5, SameParams
  <2>2. n + 1 \in Nat /\ n + 1 <= L /\ c \notin table.completed
    BY <1>3, <2>1
  <2>. HIDE DEF L
  <2>3. ASSUME NEW d \in Clients
        PROVE  \E i \in Nat :
                 /\ streamed'[d] = Stored(kind, d, i)
                 /\ i = 0 \/ i <= L
                 /\ d \in table.completed => i = L
    <3>1. CASE d = c
      BY <1>6, <1>8, <2>2, <3>1
    <3>2. CASE d # c
      <4>1. streamed'[d] = streamed[d]
        BY <1>8, <3>2
      <4>. QED  BY <4>1 DEF PathInv, ChunksInv, L
    <3>. QED  BY <3>1, <3>2
  <2>. QED  BY <1>1, <1>7, <1>10, <2>3 DEF ChunksInv, L
<1>12. OutInv'
  BY <1>1, <1>10 DEF PathInv, OutInv
<1>13. KeptInv'
  <2>1. CASE kind = "mock"
    <3>1. Stores(kind, params[kind]) /\ table.chunks[c] = streamed[c]
      BY <1>2, <2>1, StoresIs DEF PathInv, KeptInv
    <3>2. Extended(table.chunks[c], n, MaskedChunk(kind, c, n)) = new
      BY <1>4, <3>1 DEF Extended, new
    <3>3. table' = [table EXCEPT !.chunks[c] = new]
      BY <1>5, <3>1, <3>2
    <3>4. table'.chunks[c] = new /\ \A d \in Clients \ {c} : table'.chunks[d] = table.chunks[d]
      BY <3>3 DEF PathInv, TableInv
    <3>. QED  BY <1>1, <1>8, <2>1, <3>4 DEF PathInv, KeptInv
  <2>2. CASE kind # "mock"
    <3>1. table' = table
      BY <1>2, <1>5, <2>2, StoresIs
    <3>. QED  BY <1>1, <1>8, <2>2, <3>1 DEF PathInv, KeptInv
  <2>. QED  BY <2>1, <2>2
<1>. QED  BY <1>1, <1>7, <1>9, <1>11, <1>12, <1>13 DEF PathInv

(* The check for the end of a round publishes from the table that the      *)
(* message has left.                                                       *)
LEMMA CheckKeeps ==
  ASSUME PathInv, Started, ~Over, params' = params, Check(table')
  PROVE  OutInv'
<1>1. Started'
  BY DEF Started
<1>2. out = [s \in Programs |-> Outcome("none", <<>>)]
  BY DEF PathInv, OutInv
<1>3. out' = out \/ out' = Published(table', params["bridge"].threshold)
  BY DEF Check
<1>4. CASE out' = out
  BY <1>2, <1>4 DEF OutInv, Over
<1>5. CASE out' = Published(table', params["bridge"].threshold)
  <2>1. Over'
    BY <1>5, PublishedIsOver DEF Over
  <2>. QED  BY <1>1, <1>5, <2>1 DEF OutInv
<1>. QED  BY <1>3, <1>4, <1>5

(* Who completes has sent all its chunks. *)
LEMMA ClientCompleteKeeps ==
  ASSUME PathInv, NEW c \in Clients, NEW n \in SampleCounts \cup {NoCount},
         ClientComplete(c, n)
  PROVE  PathInv'
<1>1. /\ kind' = kind /\ params' = params /\ streamed' = streamed /\ ~Over
      /\ c \in table.clients /\ c \notin table.completed
      /\ Check(table')
      /\ Cardinality(DOMAIN streamed[c]) = ClientChunks(params[kind])
  BY DEF ClientComplete
<1>2. Started
  BY <1>1, ClientMeansStarted
<1> DEFINE count == IF n = NoCount THEN table.samples[c] ELSE n
<1>3. count \in Nat
  BY DataPathAssumption DEF PathInv, TableInv
<1>4. table' = [table EXCEPT !.completed = @ \cup {c}, !.samples[c] = count]
  BY DEF ClientComplete
<1>. HIDE DEF count
<1>5. /\ TableInv'
      /\ table'.num = table.num /\ table'.chunks = table.chunks
      /\ table'.completed = table.completed \cup {c}
  BY <1>1, <1>3, <1>4 DEF PathInv, TableInv
<1>6. ParamsInv'
  BY <1>1, <1>2, <1>5, Known DEF ParamsInv
<1>7. ChunksInv'
  <2>1. Started'
    BY <1>1, <1>2 DEF Started
  <2>2. ASSUME NEW d \in Clients
        PROVE  \E i \in Nat :
                 /\ streamed[d] = Stored(kind, d, i)
                 /\ i = 0 \/ i <= ClientChunks(params["bridge"])
                 /\ d \in table.completed \cup {c} => i = ClientChunks(params["bridge"])
    <3>1. PICK i \in Nat :
            /\ streamed[d] = Stored(kind, d, i)
            /\ i = 0 \/ (Started /\ i <= ClientChunks(params["bridge"]))
            /\ d \in table.completed => i = ClientChunks(params["bridge"])
      BY DEF PathInv, ChunksInv
    <3>2. d = c => i = ClientChunks(params["bridge"])
      BY <1>1, <1>2, <3>1, StoredCount, SameParams
    <3>. QED  BY <3>1, <3>2
  <2>. QED  BY <1>1, <1>5, <2>1, <2>2 DEF ChunksInv
<1>8. OutInv'
  BY <1>1, <1>2, CheckKeeps
<1>9. KeptInv'
  BY <1>1, <1>5 DEF PathInv, KeptInv
<1>. QED  BY <1>1, <1>5, <1>6, <1>7, <1>8, <1>9 DEF PathInv

(* A dropout changes no chunk, only who is averaged. *)
LEMMA DropoutNotifyKeeps ==
  ASSUME PathInv, NEW d \in Clients, DropoutNotify(d)
  PROVE  PathInv'
<1>1. /\ kind' = kind /\ params' = params /\ streamed' = streamed
      /\ Started /\ ~Over /\ Check(table')
  BY DEF DropoutNotify
<1>2. table' = [table EXCEPT !.dropouts = @ \cup {d}]
  BY DEF DropoutNotify
<1>3. /\ TableInv'
      /\ table'.num = table.num
      /\ table'.chunks = table.chunks /\ table'.completed = table.completed
  BY <1>2 DEF PathInv, TableInv
<1>4. ParamsInv'
  BY <1>1, <1>3, Known DEF ParamsInv
<1>5. Started'
  BY <1>1 DEF Started
<1>6. ChunksInv'
  BY <1>1, <1>3, <1>5 DEF PathInv, ChunksInv
<1>7. OutInv'
  BY <1>1, CheckKeeps
<1>8. KeptInv'
  BY <1>1, <1>3 DEF PathInv, KeptInv
<1>. QED  BY <1>1, <1>3, <1>4, <1>6, <1>7, <1>8 DEF PathInv

(* Every step keeps the invariant. *)
LEMMA PathStep == PathInv /\ [Next]_vars => PathInv'
<1>. SUFFICES ASSUME PathInv, [Next]_vars PROVE PathInv'
  OBVIOUS
<1>1. CASE UNCHANGED vars
  <2>1. /\ kind' = kind /\ params' = params /\ streamed' = streamed
        /\ table' = table /\ out' = out
    BY <1>1 DEF vars
  <2>2. Started' = Started /\ Over' = Over
    BY <2>1 DEF Started, Over
  <2>. QED  BY <2>1, <2>2 DEF PathInv, ParamsInv, TableInv, ChunksInv, KeptInv, OutInv
<1>2. CASE Next
  BY <1>2, RoundInitKeeps, PublicKeyKeeps, MaskChunkKeeps, ClientCompleteKeeps,
     DropoutNotifyKeeps DEF Next
<1>. QED  BY <1>1, <1>2

(* The invariant always holds. *)
LEMMA PathAlways == Spec => []PathInv
BY PathInit, PathStep, PTL DEF Spec

-----------------------------------------------------------------------------
(* The server counts no more chunks than the bound. *)
LEMMA CountedChunk ==
  ASSUME PathInv, Started, NEW k \in 0..(table.num - 1)
  PROVE  k \in Chunks
<1>1. PICK p \in Payloads : table.num = ServerChunks(Params(p))
  BY Known
<1>2. ServerChunks(Params(p)) \in Nat /\ ClientChunks(Params(p)) \in Nat
      /\ ServerChunks(Params(p)) <= ClientChunks(Params(p))
      /\ ClientChunks(Params(p)) <= MaxChunks
  BY ParamsAre
<1>. QED  BY <1>1, <1>2, MaskAlgebraAssumption DEF Chunks

(* What the server holds of a completed mock client, for a chunk it        *)
(* averages                                                                *)
LEMMA CompletedChunk ==
  ASSUME PathInv, Started, kind = "mock", NEW c \in table.completed, NEW k \in 0..(table.num - 1)
  PROVE  /\ k \in Chunks /\ k \in DOMAIN table.chunks[c]
         /\ table.chunks[c][k] = MaskedChunk(kind, c, k)
<1>1. PICK p \in Payloads : /\ params = [party \in Parties |-> Params(p)]
                            /\ table.num = ServerChunks(Params(p))
  BY Known
<1> DEFINE L == ClientChunks(params["bridge"])
<1>2. L = ClientChunks(Params(p))
  BY <1>1 DEF Parties
<1>3. table.num \in Nat /\ L \in Nat /\ table.num <= L /\ L <= MaxChunks
  BY <1>1, <1>2, ParamsAre
<1>4. c \in Clients
  BY DEF PathInv, TableInv
<1>5. table.chunks[c] = Stored(kind, c, L)
  BY <1>4 DEF PathInv, ChunksInv, KeptInv
<1>. HIDE DEF L
<1>6. k \in 0..(L - 1) /\ k \in 0..(MaxChunks - 1)
  BY <1>3, MaskAlgebraAssumption
<1>. QED  BY <1>5, <1>6 DEF Stored, Chunks

(* With or without the recovered masks of a dropped client, that chunk     *)
(* holds its own plaintext once and nobody else's.                         *)
LEMMA MockChunk ==
  ASSUME PathInv, Started, kind = "mock",
         NEW c \in table.completed, NEW k \in 0..(table.num - 1),
         NEW r, r.clients = table.clients, r.dropouts = table.dropouts,
         r.chunks = table.chunks
  PROVE  /\ Chunk(r, c, k) \in Vectors /\ Unmasked(r, c, k) \in Vectors
         /\ \A d \in Clients :
              /\ Chunk(r, c, k)[Plain(d, k)] = IF d = c THEN 1 ELSE 0
              /\ Unmasked(r, c, k)[Plain(d, k)] = IF d = c THEN 1 ELSE 0
         /\ c \notin table.dropouts => Unmasked(r, c, k) = Chunk(r, c, k)
<1> DEFINE v == MaskedChunk(kind, c, k)
           rec == recover_dropped_client_masks(c, table.clients \ {c}, k)
<1>1. /\ k \in Chunks /\ k \in DOMAIN table.chunks[c] /\ table.chunks[c][k] = v
  BY CompletedChunk
<1>2. c \in Clients /\ table.clients \ {c} \in SUBSET Clients /\ kind \in {"device", "mock"}
  BY DEF PathInv, TableInv
<1>3. Chunk(r, c, k) = v
  BY <1>1 DEF Chunk
<1>4. Unmasked(r, c, k) = IF c \in table.dropouts THEN Plus(v, rec) ELSE v
  BY <1>1, <1>3 DEF Unmasked
<1>5. v \in Vectors /\ \A d \in Clients : v[Plain(d, k)] = IF d = c THEN 1 ELSE 0
  BY <1>1, <1>2, MaskedChunkIs
<1>6. rec \in Vectors /\ \A d \in Clients : rec[Plain(d, k)] = 0
  BY <1>1, <1>2, RecoveryIs
<1>. HIDE DEF v, rec
<1>7. Plus(v, rec) \in Vectors
  BY <1>5, <1>6, PlusIs
<1>8. ASSUME NEW d \in Clients
      PROVE  Plus(v, rec)[Plain(d, k)] = IF d = c THEN 1 ELSE 0
  <2>1. Plain(d, k) \in Unknowns
    BY <1>1, PlainIsItself
  <2>2. Plus(v, rec)[Plain(d, k)] = (v[Plain(d, k)] + rec[Plain(d, k)]) % FIELD_MODULUS
    BY <1>5, <1>6, <2>1, PlusIs
  <2>3. (1 + 0) % FIELD_MODULUS = 1 /\ (0 + 0) % FIELD_MODULUS = 0
    BY DEF FIELD_MODULUS
  <2>. QED  BY <1>5, <1>6, <2>2, <2>3
<1>. QED  BY <1>3, <1>4, <1>5, <1>7, <1>8

(* Of a device the servers average zeros. *)
LEMMA DeviceChunk ==
  ASSUME PathInv, kind = "device", NEW c \in Clients, NEW k,
         NEW r, r.chunks = table.chunks
  PROVE  Chunk(r, c, k) = Zero /\ Unmasked(r, c, k) = Zero
<1>1. r.chunks[c] = <<>>
  BY DEF PathInv, KeptInv
<1>2. k \notin DOMAIN r.chunks[c]
  BY <1>1
<1>. QED  BY <1>2 DEF Chunk, Unmasked

(* What a chunk holds of its own client's plaintext *)
Share == IF kind = "mock" THEN 1 ELSE 0

(* So a chunk that is averaged holds nobody else's plaintext. *)
LEMMA AveragedChunk ==
  ASSUME PathInv, Started, NEW c \in table.completed, NEW k \in 0..(table.num - 1),
         NEW r, r.clients = table.clients, r.dropouts = table.dropouts,
         r.chunks = table.chunks
  PROVE  /\ Chunk(r, c, k) \in Vectors /\ Unmasked(r, c, k) \in Vectors
         /\ \A d \in Clients :
              /\ Chunk(r, c, k)[Plain(d, k)] = IF d = c THEN Share ELSE 0
              /\ Unmasked(r, c, k)[Plain(d, k)] = IF d = c THEN Share ELSE 0
         /\ c \notin table.dropouts => Unmasked(r, c, k) = Chunk(r, c, k)
<1>1. CASE kind = "mock"
  <2>1. Share = 1
    BY <1>1 DEF Share
  <2>. QED  BY <1>1, <2>1, MockChunk
<1>2. CASE kind = "device"
  <2>1. Share = 0 /\ c \in Clients
    BY <1>2 DEF Share, PathInv, TableInv
  <2>2. Chunk(r, c, k) = Zero /\ Unmasked(r, c, k) = Zero
    BY <1>2, <2>1, DeviceChunk
  <2>3. \A d \in Clients : Plain(d, k) \in Unknowns
    BY CountedChunk, PlainIsItself
  <2>. QED  BY <2>1, <2>2, <2>3, ZeroIs
<1>. QED  BY <1>1, <1>2 DEF PathInv

(* The table that the averages are made from *)
AtEnd == [table EXCEPT !.secret = table.clients]

(* Whose chunks each server averages *)
LEMMA AveragedSets ==
  ASSUME PathInv
  PROVE  /\ AtEnd.clients = table.clients /\ AtEnd.dropouts = table.dropouts
         /\ AtEnd.chunks = table.chunks /\ AtEnd.completed = table.completed
         /\ AtEnd.samples = table.samples /\ AtEnd.num = table.num
         /\ Unmaskable(AtEnd) \cap AtEnd.completed = table.completed
         /\ classical_unmaskable(AtEnd) \cap AtEnd.completed = table.completed
         /\ (AtEnd.clients \ AtEnd.dropouts) \cap AtEnd.completed
              = table.completed \ table.dropouts
<1>1. /\ AtEnd.clients = table.clients /\ AtEnd.dropouts = table.dropouts
      /\ AtEnd.chunks = table.chunks /\ AtEnd.completed = table.completed
      /\ AtEnd.samples = table.samples /\ AtEnd.num = table.num
      /\ AtEnd.secret = table.clients
  BY DEF PathInv, TableInv, AtEnd
<1>2. table.completed \subseteq table.clients
  BY DEF PathInv, TableInv
<1>. HIDE DEF AtEnd
<1>. QED  BY <1>1, <1>2 DEF Unmaskable, classical_unmaskable

(* A published average, of all three servers in one form *)
Mean(S, v) ==
  [k \in 0..(table.num - 1) |->
     Divided(Combine([c \in S |-> Weight(AtEnd, c)], [c \in S |-> v[k][c]], S),
             TotalSamples(AtEnd, S))]

ChunkOf == [k \in 0..(table.num - 1) |-> [c \in table.completed |-> Chunk(AtEnd, c, k)]]
UnmaskedOf == [k \in 0..(table.num - 1) |-> [c \in table.completed |-> Unmasked(AtEnd, c, k)]]

(* A server that publishes averages the completed clients in that form,    *)
(* the bridge only when no registered client was dropped.                  *)
LEMMA PublishedAre ==
  ASSUME PathInv, NEW s \in Programs, Publishes(s)
  PROVE  /\ Started /\ Averaged(s) = table.completed
         /\ s = "bridge" => table.dropouts \cap table.clients = {}
         /\ out[s].chunks =
              Mean(table.completed, IF s = "bridge" THEN ChunkOf ELSE UnmaskedOf)
<1> DEFINE t == params["bridge"].threshold
           raises == \E d \in AtEnd.dropouts : Cardinality(AtEnd.secret \ {d}) >= t
<1>1. Started /\ out = Published(table, t)
  <2>1. Over
    <3>1. out[s].status # "none"
      BY DEF Publishes
    <3>2. out # [x \in Programs |-> Outcome("none", <<>>)]
      BY <3>1 DEF Outcome
    <3>. QED  BY <3>2 DEF PathInv, OutInv
  <2>. QED  BY <2>1 DEF PathInv, OutInv
<1>2. out[s] =
        IF raises \/ (s = "bridge" /\ AtEnd.dropouts \cap AtEnd.clients # {})
        THEN Outcome("raises", <<>>)
        ELSE Outcome("average", CASE s = "bridge" -> finalize_aggregation(AtEnd)
                                  [] s = "incoming" -> compute_fedavg(AtEnd)
                                  [] s = "classical" -> classical_fedavg(AtEnd))
  BY <1>1 DEF Published, AtEnd
<1>3. ~(raises \/ (s = "bridge" /\ AtEnd.dropouts \cap AtEnd.clients # {}))
  BY <1>2 DEF Publishes, Outcome
<1>. HIDE DEF raises
<1>4. out[s].chunks =
        CASE s = "bridge" -> finalize_aggregation(AtEnd)
          [] s = "incoming" -> compute_fedavg(AtEnd)
          [] s = "classical" -> classical_fedavg(AtEnd)
  BY <1>2, <1>3 DEF Programs, Outcome
<1>5. s = "bridge" => table.dropouts \cap table.clients = {}
  BY <1>3, AveragedSets
<1>6. table.completed \subseteq table.clients
  BY DEF PathInv, TableInv
<1>7. Averaged(s) = table.completed
  BY <1>5, <1>6 DEF Averaged
<1>8. CASE s = "bridge"
  <2>1. (AtEnd.clients \ AtEnd.dropouts) \cap AtEnd.completed = table.completed
    BY <1>5, <1>6, <1>8, AveragedSets
  <2>2. finalize_aggregation(AtEnd) = Mean(table.completed, ChunkOf)
    BY <2>1, AveragedSets DEF finalize_aggregation, Mean, ChunkOf
  <2>. QED  BY <1>1, <1>4, <1>5, <1>7, <1>8, <2>2
<1>9. CASE s = "incoming"
  <2>1. compute_fedavg(AtEnd) = Mean(table.completed, UnmaskedOf)
    BY AveragedSets DEF compute_fedavg, Mean, UnmaskedOf
  <2>. QED  BY <1>1, <1>4, <1>5, <1>7, <1>9, <2>1
<1>10. CASE s = "classical"
  <2>1. classical_fedavg(AtEnd) = Mean(table.completed, UnmaskedOf)
    BY AveragedSets DEF classical_fedavg, Mean, UnmaskedOf
  <2>. QED  BY <1>1, <1>4, <1>5, <1>7, <1>10, <2>1
<1>. QED  BY <1>8, <1>9, <1>10 DEF Programs

(* The values of that form *)
LEMMA MeanIs ==
  ASSUME PathInv, Started, NEW u \in {ChunkOf, UnmaskedOf}, NEW k \in 0..(table.num - 1)
  PROVE  /\ DOMAIN Mean(table.completed, u) = 0..(table.num - 1)
         /\ Mean(table.completed, u)[k] \in Vectors
         /\ Divisible(table.completed) =>
              \A c \in Clients :
                (Mean(table.completed, u)[k][Plain(c, k)]
                   * (RefTotal(table.completed) % FIELD_MODULUS)) % FIELD_MODULUS
                  = (IF kind = "mock" /\ c \in table.completed THEN RefWeight(c) ELSE 0) % FIELD_MODULUS
<1> DEFINE S == table.completed
           w == [c \in S |-> Weight(AtEnd, c)]
           v == [c \in S |-> u[k][c]]
           total == TotalSamples(AtEnd, S)
<1>1. S \in SUBSET Clients /\ table.samples \in [Clients -> Nat]
  BY DEF PathInv, TableInv
<1>2. AtEnd.samples = table.samples
  BY AveragedSets
<1>3. ASSUME NEW c \in S PROVE w[c] \in Nat /\ w[c] = RefWeight(c)
  <2>1. table.samples[c] \in Nat
    BY <1>1
  <2>. QED  BY <1>2, <2>1 DEF Weight, RefWeight
<1>4. ASSUME NEW c \in S
      PROVE  /\ v[c] \in Vectors
             /\ \A d \in Clients : v[c][Plain(d, k)] = IF d = c THEN Share ELSE 0
  <2>1. v[c] = Chunk(AtEnd, c, k) \/ v[c] = Unmasked(AtEnd, c, k)
    <3>1. v[c] = u[k][c]
      OBVIOUS
    <3>2. ChunkOf[k][c] = Chunk(AtEnd, c, k) /\ UnmaskedOf[k][c] = Unmasked(AtEnd, c, k)
      BY DEF ChunkOf, UnmaskedOf
    <3>3. u = ChunkOf \/ u = UnmaskedOf
      OBVIOUS
    <3>. QED  BY <3>1, <3>2, <3>3
  <2>2. /\ AtEnd.clients = table.clients /\ AtEnd.dropouts = table.dropouts
        /\ AtEnd.chunks = table.chunks
    BY AveragedSets
  <2>. HIDE DEF v
  <2>3. /\ Chunk(AtEnd, c, k) \in Vectors /\ Unmasked(AtEnd, c, k) \in Vectors
        /\ \A d \in Clients :
             /\ Chunk(AtEnd, c, k)[Plain(d, k)] = IF d = c THEN Share ELSE 0
             /\ Unmasked(AtEnd, c, k)[Plain(d, k)] = IF d = c THEN Share ELSE 0
    BY <2>2, AveragedChunk
  <2>. QED  BY <2>1, <2>3
<1>5. total \in Nat
  BY <1>1, <1>2, TotalIs
<1>6. Divisible(S) => total = RefTotal(S) /\ total % FIELD_MODULUS # 0
  <2>1. ASSUME Divisible(S) PROVE total = RefTotal(S)
    <3>1. (\A c \in S : table.samples[c] = 0) \/ (\A c \in S : table.samples[c] > 0)
      BY <2>1 DEF Divisible
    <3>2. total = SumOver([c \in S |-> IF table.samples[c] = 0 THEN 1 ELSE table.samples[c]], S)
      BY <1>1, <1>2, <3>1, TotalIs
    <3>. QED  BY <3>2 DEF RefTotal, RefWeight
  <2>. QED  BY <2>1 DEF Divisible
<1>7. /\ DOMAIN Mean(S, u) = 0..(table.num - 1)
      /\ Mean(S, u)[k] = Divided(Combine(w, v, S), total)
  BY DEF Mean
<1>8. k \in Chunks
  BY CountedChunk
<1>. HIDE DEF w, v, total
<1>9. Share \in {0, 1} /\ (Share = 1 <=> kind = "mock")
  BY DEF Share
<1>10. /\ Divided(Combine(w, v, S), total) \in Vectors
       /\ total % FIELD_MODULUS # 0 =>
            \A d \in Clients :
              (Divided(Combine(w, v, S), total)[Plain(d, k)] * (total % FIELD_MODULUS))
                  % FIELD_MODULUS
                = Contribution(S, w, v, k, d) % FIELD_MODULUS
  <2>1. \A c \in S : w[c] \in Nat /\ v[c] \in Vectors
    BY <1>3, <1>4
  <2>2. \A c \in S : v[c][Plain(c, k)] \in {0, 1}
    BY <1>1, <1>4, <1>9
  <2>3. \A c \in S : \A d \in Clients \ {c} : v[c][Plain(d, k)] = 0
    BY <1>4
  <2>4. S \in SUBSET Clients
    BY <1>1
  <2>. HIDE DEF S
  <2>. QED  BY <1>5, <1>8, <2>1, <2>2, <2>3, <2>4, AverageIs
<1>11. ASSUME NEW c \in Clients
       PROVE  Contribution(S, w, v, k, c) = IF kind = "mock" /\ c \in S THEN RefWeight(c) ELSE 0
  BY <1>1, <1>3, <1>4, <1>9 DEF Contribution
<1>12. ASSUME Divisible(S), NEW c \in Clients
       PROVE  (Mean(S, u)[k][Plain(c, k)] * (RefTotal(S) % FIELD_MODULUS)) % FIELD_MODULUS
                = (IF kind = "mock" /\ c \in S THEN RefWeight(c) ELSE 0) % FIELD_MODULUS
  <2>1. total = RefTotal(S) /\ total % FIELD_MODULUS # 0
    BY <1>6, <1>12
  <2>2. (Mean(S, u)[k][Plain(c, k)] * (RefTotal(S) % FIELD_MODULUS)) % FIELD_MODULUS
          = Contribution(S, w, v, k, c) % FIELD_MODULUS
    BY <1>7, <1>10, <1>12, <2>1, Zenon
  <2>. QED  BY <1>11, <2>2
<1>. QED  BY <1>7, <1>10, <1>12

(* Types: every published average has field elements for every chunk that  *)
(* the server counts, for any number of clients, chunks and samples.       *)
THEOREM PathTypes == Spec => []PathTypeOK
<1>1. ASSUME PathInv PROVE PathTypeOK
  <2>1. /\ kind \in {"device", "mock"}
        /\ table.completed \subseteq table.clients /\ table.clients \subseteq Clients
    BY <1>1 DEF PathInv, TableInv
  <2>2. ASSUME NEW c \in Clients PROVE DOMAIN table.chunks[c] \subseteq Chunks
    <3>1. PICK n \in Nat : /\ streamed[c] = Stored(kind, c, n)
                           /\ n = 0 \/ (Started /\ n <= ClientChunks(params["bridge"]))
      BY <1>1 DEF PathInv, ChunksInv
    <3>2. n <= MaxChunks
      BY <1>1, <3>1, SameParams, MaskAlgebraAssumption
    <3>3. DOMAIN streamed[c] = 0..(n - 1)
      BY <3>1, StoredCount
    <3>4. table.chunks[c] = streamed[c] \/ table.chunks[c] = <<>>
      BY <1>1 DEF PathInv, KeptInv
    <3>. QED  BY <3>2, <3>3, <3>4, MaskAlgebraAssumption DEF Chunks
  <2>3. ASSUME NEW s \in Programs, Publishes(s)
        PROVE  out[s].chunks \in [0..(table.num - 1) -> [Unknowns -> Field]]
    <3> DEFINE u == IF s = "bridge" THEN ChunkOf ELSE UnmaskedOf
               M == Mean(table.completed, u)
    <3>1. Started /\ out[s].chunks = M
      BY <1>1, <2>3, PublishedAre
    <3>2. u \in {ChunkOf, UnmaskedOf}
      OBVIOUS
    <3>3. M = [k \in 0..(table.num - 1) |-> M[k]]
      BY DEF Mean
    <3>. HIDE DEF u
    <3>4. \A k \in 0..(table.num - 1) : M[k] \in Vectors
      BY <1>1, <3>1, <3>2, MeanIs
    <3>. HIDE DEF M
    <3>. QED  BY <3>1, <3>3, <3>4 DEF Vectors
  <2>. QED  BY <2>1, <2>2, <2>3 DEF PathTypeOK
<1>. QED  BY <1>1, PathAlways, PTL

(* Each mock client's share in every published average is its samples over *)
(* all samples, and a device's is nothing, for any number of clients and   *)
(* chunks, any counts and any order of the messages.                       *)
THEOREM AveragesAreWeighted == Spec => []WeightedMean
<1>1. ASSUME PathInv PROVE WeightedMean
  <2>1. ASSUME NEW s \in Programs, Publishes(s), Divisible(Averaged(s)),
               NEW k \in 0..(table.num - 1), NEW c \in Clients
        PROVE  (out[s].chunks[k][Plain(c, k)] * (RefTotal(Averaged(s)) % FIELD_MODULUS))
                   % FIELD_MODULUS
                 = (IF kind = "mock" /\ c \in Averaged(s) THEN RefWeight(c) ELSE 0) % FIELD_MODULUS
    <3> DEFINE u == IF s = "bridge" THEN ChunkOf ELSE UnmaskedOf
    <3>1. /\ Started /\ Averaged(s) = table.completed
          /\ out[s].chunks = Mean(table.completed, u)
      BY <1>1, <2>1, PublishedAre
    <3>2. u \in {ChunkOf, UnmaskedOf}
      OBVIOUS
    <3>. HIDE DEF u
    <3>3. Divisible(table.completed)
      BY <2>1, <3>1
    <3>4. (Mean(table.completed, u)[k][Plain(c, k)]
             * (RefTotal(table.completed) % FIELD_MODULUS)) % FIELD_MODULUS
            = (IF kind = "mock" /\ c \in table.completed THEN RefWeight(c) ELSE 0) % FIELD_MODULUS
      BY <1>1, <3>1, <3>2, <3>3, MeanIs
    <3>. QED  BY <3>1, <3>4
  <2>. QED  BY <2>1 DEF WeightedMean
<1>. QED  BY <1>1, PathAlways, PTL

(* The three servers agree, chunk by chunk, unless a registered client was *)
(* dropped.                                                                *)
THEOREM ServersAgree == Spec => []SidesAgree
<1>1. ASSUME PathInv, table.dropouts \cap table.clients = {}
      PROVE  \A s \in Programs : out[s] = out["bridge"]
  <2>1. CASE ~Over
    BY <1>1, <2>1 DEF PathInv, OutInv, Programs
  <2>2. CASE Over
    <3> DEFINE t == params["bridge"].threshold
               raises == \E d \in AtEnd.dropouts : Cardinality(AtEnd.secret \ {d}) >= t
    <3>1. Started /\ out = Published(table, t)
      BY <1>1, <2>2 DEF PathInv, OutInv
    <3>2. AtEnd.dropouts \cap AtEnd.clients = {}
      BY <1>1, AveragedSets
    <3>3. ASSUME NEW s \in Programs
          PROVE  out[s] =
                   IF raises THEN Outcome("raises", <<>>)
                   ELSE Outcome("average", CASE s = "bridge" -> finalize_aggregation(AtEnd)
                                             [] s = "incoming" -> compute_fedavg(AtEnd)
                                             [] s = "classical" -> classical_fedavg(AtEnd))
      <4>1. out[s] =
              IF raises \/ (s = "bridge" /\ AtEnd.dropouts \cap AtEnd.clients # {})
              THEN Outcome("raises", <<>>)
              ELSE Outcome("average", CASE s = "bridge" -> finalize_aggregation(AtEnd)
                                        [] s = "incoming" -> compute_fedavg(AtEnd)
                                        [] s = "classical" -> classical_fedavg(AtEnd))
        BY <3>1 DEF Published, AtEnd
      <4>. HIDE DEF raises
      <4>. QED  BY <3>2, <4>1
    <3>. HIDE DEF raises
    <3>4. \A k \in 0..(table.num - 1), c \in table.completed :
            Unmasked(AtEnd, c, k) = Chunk(AtEnd, c, k)
      <4>1. /\ AtEnd.clients = table.clients /\ AtEnd.dropouts = table.dropouts
            /\ AtEnd.chunks = table.chunks
        BY <1>1, AveragedSets
      <4>2. \A c \in table.completed : c \notin table.dropouts
        BY <1>1 DEF PathInv, TableInv
      <4>. QED  BY <1>1, <3>1, <4>1, <4>2, AveragedChunk
    <3>5. (AtEnd.clients \ AtEnd.dropouts) \cap AtEnd.completed = table.completed
      BY <1>1, AveragedSets DEF PathInv, TableInv
    <3>6. finalize_aggregation(AtEnd) = Mean(table.completed, ChunkOf)
      BY <1>1, <3>5, AveragedSets DEF finalize_aggregation, Mean, ChunkOf
    <3>7. compute_fedavg(AtEnd) = Mean(table.completed, UnmaskedOf)
      BY <1>1, AveragedSets DEF compute_fedavg, Mean, UnmaskedOf
    <3>8. classical_fedavg(AtEnd) = Mean(table.completed, UnmaskedOf)
      BY <1>1, AveragedSets DEF classical_fedavg, Mean, UnmaskedOf
    <3>9. UnmaskedOf = ChunkOf
      BY <3>4 DEF UnmaskedOf, ChunkOf
    <3>. QED  BY <3>3, <3>6, <3>7, <3>8, <3>9 DEF Programs
  <2>. QED  BY <2>1, <2>2
<1>2. PathInv => SidesAgree
  BY <1>1 DEF SidesAgree
<1>. QED  BY <1>2, PathAlways, PTL

(* When chunk_size divides model_size the server counts the chunks that    *)
(* the client counts, and averages all it was sent.                        *)
THEOREM NoChunkIsLost == Spec => []WholeModelAveraged
<1>1. ASSUME PathInv, Started,
             params["bridge"].model_size % params["bridge"].chunk_size = 0,
             NEW s \in Programs, Publishes(s), NEW c \in table.completed
      PROVE  DOMAIN streamed[c] = DOMAIN out[s].chunks
  <2>1. PICK p \in Payloads : /\ params = [party \in Parties |-> Params(p)]
                              /\ table.num = ServerChunks(Params(p))
    BY <1>1, Known
  <2>2. params["bridge"] = Params(p)
    BY <2>1 DEF Parties
  <2>3. table.num = ClientChunks(params["bridge"]) /\ table.num \in Nat
    BY <1>1, <2>1, <2>2, ParamsAre
  <2>4. c \in Clients
    BY <1>1 DEF PathInv, TableInv
  <2>5. streamed[c] = Stored(kind, c, table.num)
    BY <1>1, <2>3, <2>4 DEF PathInv, ChunksInv
  <2>6. DOMAIN streamed[c] = 0..(table.num - 1)
    BY <2>3, <2>5, StoredCount
  <2> DEFINE u == IF s = "bridge" THEN ChunkOf ELSE UnmaskedOf
  <2>7. out[s].chunks = Mean(table.completed, u)
    BY <1>1, PublishedAre
  <2>8. DOMAIN Mean(table.completed, u) = 0..(table.num - 1)
    BY DEF Mean
  <2>. QED  BY <2>6, <2>7, <2>8
<1>2. PathInv => WholeModelAveraged
  BY <1>1 DEF WholeModelAveraged
<1>. QED  BY <1>2, PathAlways, PTL
=============================================================================
