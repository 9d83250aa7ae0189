---------------------------- MODULE MaskAlgebra -----------------------------
(***************************************************************************)
(* Seeds, masks and masked chunks as symbols.  HKDF and AES-CTR are free   *)
(* functions: a seed is the tuple of what it is derived from, and the mask *)
(* stream of a seed is an unknown of its own.  A chunk element is then a   *)
(* linear combination, modulo FIELD_MODULUS, of the clients' plaintexts    *)
(* and of mask streams: what holds of the coefficients holds for every     *)
(* plaintext and every output of the generators.                           *)
(*                                                                         *)
(* One round.  The device hashes label, round, a, b; the host label, a, b, *)
(* round: the layout is part of a seed.  Both ends of a pair of devices    *)
(* are taken to hold the same pairwise secret.                             *)
(***************************************************************************)
EXTENDS FieldSums

CONSTANTS
  Clients,     \* client ids
  MaxChunks    \* bound: chunks of a client

ASSUME MaskAlgebraAssumption ==
  /\ Clients \subseteq 0..255 /\ IsFiniteSet(Clients)
  /\ MaxChunks \in Nat \ {0}

-----------------------------------------------------------------------------
(* Secrets: of a pair of devices, of a client with the server *)
PairSecret(a, b) == <<"pair", {a, b}>>
ServerSecret(c) == <<"server", c>>

(* derive_pairwise_seed: both ids, the lower one first, and the round *)
PairwiseSeed(layout, secret, a, b) == <<layout, secret, {a, b}>>

recovery_pairwise(secret, a, b) == PairwiseSeed("host", secret, a, b)
device_pairwise(secret, a, b) == PairwiseSeed("device", secret, a, b)

(* derive_stream_seed: the id of the client that masks, and the chunk *)
StreamSeed(layout, seed, c, k) == <<layout, seed, c, k>>

recovery_stream(seed, c, k) == StreamSeed("host", seed, c, k)
mock_stream(seed, c, k) == StreamSeed("host", seed, c, k)
device_stream(seed, c, k) == StreamSeed("device", seed, c, k)

-----------------------------------------------------------------------------
Chunks == 0..(MaxChunks - 1)
Pairs == {p \in Clients \X Clients : p[1] # p[2]}

DeviceStreams ==
  {device_stream(device_pairwise(PairSecret(p[1], p[2]), p[1], p[2]), p[1], k) :
     p \in Pairs, k \in Chunks}
MockStreams == {mock_stream(ServerSecret(c), c, k) : c \in Clients, k \in Chunks}
RecoveryStreams ==
  {recovery_stream(recovery_pairwise(ServerSecret(p[1]), p[1], p[2]), p[1], k) :
     p \in Pairs, k \in Chunks}
Streams == DeviceStreams \cup MockStreams \cup RecoveryStreams

(* The unknowns: the element of client c's chunk k, and the mask streams *)
Plain(c, k) == <<"plain", c, k>>
Plains == {Plain(c, k) : c \in Clients, k \in Chunks}
Unknowns == Plains \cup Streams

Zero == [u \in Unknowns |-> 0]
Unit(u) == [Zero EXCEPT ![u] = 1]

(* The sum of w[x] * v[x] for x in S, element-wise modulo FIELD_MODULUS *)
Combine(w, v, S) ==
  [u \in Unknowns |->
     SumOver([x \in S |-> ((w[x] % FIELD_MODULUS) * v[x][u]) % FIELD_MODULUS], S)
       % FIELD_MODULUS]

Plus(v, w) == [u \in Unknowns |-> (v[u] + w[u]) % FIELD_MODULUS]

-----------------------------------------------------------------------------
(* The lower id of a pair adds its mask, the higher one subtracts it. *)
Sign(c, p) == IF c < p THEN 1 ELSE -1

(* mask_protocol_generate_chunk_mask, over the pairwise seeds of all peers *)
generate_chunk_mask(c, k) ==
  LET peers == Clients \ {c}
  IN  Combine([p \in peers |-> Sign(c, p)],
              [p \in peers |-> Unit(device_stream(
                                  device_pairwise(PairSecret(c, p), c, p), c, k))],
              peers)

(* mask_protocol_apply_mask *)
apply_mask(v, mask) == Plus(v, mask)

(* run_client of mock_client.py masks with the stream of its own secret    *)
(* with the server.                                                        *)
mock_mask(c, k) == Unit(mock_stream(ServerSecret(c), c, k))

(* The words of a masked chunk, as the client holds them; how they go on   *)
(* the wire is the subject of DataPath.                                    *)
MaskedChunk(kind, c, k) ==
  apply_mask(Unit(Plain(c, k)),
             IF kind = "device" THEN generate_chunk_mask(c, k) ELSE mock_mask(c, k))

(* recover_dropped_client_masks: peers are the other registered clients,   *)
(* the secret is the one the dropped client has with the server.           *)
recover_dropped_client_masks(d, peers, k) ==
  Combine([p \in peers |-> Sign(d, p)],
          [p \in peers |-> Unit(recovery_stream(
                              recovery_pairwise(ServerSecret(d), d, p), d, k))],
          peers)
=============================================================================
