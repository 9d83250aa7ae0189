------------------------------- MODULE FedAvg -------------------------------
(***************************************************************************)
(* The averages of the repository over masked chunks, as linear            *)
(* combinations (MaskAlgebra).  r is a round's table at one server:        *)
(*                                                                         *)
(*   clients    registered            chunks     what each has sent        *)
(*   completed  sent CLIENT_COMPLETE  samples    the counts they sent      *)
(*   dropouts   reported dropped      secret     those with a secret       *)
(*   num        model_size // chunk_size                                   *)
(***************************************************************************)
EXTENDS MaskAlgebra

Weight(r, c) == IF r.samples[c] > 0 THEN r.samples[c] ELSE 1

SumSamples(r, S) ==
  SumOver(r.samples, {c \in S : r.samples[c] > 0})

(* Mutant: no total when no client has reported samples. *)
Mut_TotalSamples(r, S) == SumSamples(r, S)

(* The samples of the clients in S; their number, if none reported any *)
TotalSamples(r, S) ==
  IF SumSamples(r, S) = 0 THEN Cardinality(S) ELSE SumSamples(r, S)

(* Mutant: the product is not reduced. *)
Mut_Divided(v, total) ==
  [u \in Unknowns |-> IF total > 1 THEN v[u] * inv(total) ELSE v[u]]

(* A total of 0 or 1 is not divided by. *)
Divided(v, total) ==
  [u \in Unknowns |->
     IF total > 1 THEN (v[u] * inv(total)) % FIELD_MODULUS ELSE v[u]]

Chunk(r, c, k) == IF k \in DOMAIN r.chunks[c] THEN r.chunks[c][k] ELSE Zero

(* What a server that unmasks takes for client c's chunk k: a dropped      *)
(* client's recovered masks are added to it, if it has sent the chunk.     *)
Unmasked(r, c, k) ==
  IF c \in r.dropouts /\ k \in DOMAIN r.chunks[c]
  THEN Plus(r.chunks[c][k], recover_dropped_client_masks(c, r.clients \ {c}, k))
  ELSE Chunk(r, c, k)

(* Mutant: a client without samples weighs nothing. *)
Mut_finalize_aggregation(r) ==
  LET surviving == (r.clients \ r.dropouts) \cap r.completed
  IN  [k \in 0..(r.num - 1) |->
         Divided(Combine([c \in surviving |-> r.samples[c]],
                         [c \in surviving |-> Chunk(r, c, k)], surviving),
                 TotalSamples(r, r.completed))]

(* _finalize_aggregation of the HEAD side, which publishes only when no    *)
(* registered client was dropped (Bridge: otherwise it raises)             *)
finalize_aggregation(r) ==
  LET surviving == (r.clients \ r.dropouts) \cap r.completed
  IN  [k \in 0..(r.num - 1) |->
         Divided(Combine([c \in surviving |-> Weight(r, c)],
                         [c \in surviving |-> Chunk(r, c, k)], surviving),
                 TotalSamples(r, r.completed))]

(* _unmask_client_chunks: whose chunks are averaged *)
Unmaskable(r) == (r.clients \ r.dropouts) \cup (r.dropouts \cap r.secret)

(* _compute_fedavg of the incoming side *)
compute_fedavg(r) ==
  LET S == Unmaskable(r) \cap r.completed
  IN  [k \in 0..(r.num - 1) |->
         Divided(Combine([c \in S |-> Weight(r, c)],
                         [c \in S |-> Unmasked(r, c, k)], S),
                 TotalSamples(r, S))]

(* The same two functions in baseline_server.py *)
classical_unmaskable(r) == (r.clients \ r.dropouts) \cup (r.dropouts \cap r.secret)

classical_fedavg(r) ==
  LET S == classical_unmaskable(r) \cap r.completed
  IN  [k \in 0..(r.num - 1) |->
         Divided(Combine([c \in S |-> Weight(r, c)],
                         [c \in S |-> Unmasked(r, c, k)], S),
                 TotalSamples(r, S))]
=============================================================================
