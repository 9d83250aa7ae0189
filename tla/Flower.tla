------------------------------- MODULE Flower -------------------------------
(***************************************************************************)
(* ChunkedFedAvg of flower_server.py: the models of a round's results are  *)
(* cut into chunks, averaged chunk by chunk and put together again.  A     *)
(* model is a sequence of arrays, given by their sizes.  Each client has   *)
(* one value, at every place of its arrays: what is at flat position e of  *)
(* client c is that value times a mark <<c, e>>, so that an element of the *)
(* average, a function of the marks, shows what came from where and with   *)
(* which factor.                                                           *)
(***************************************************************************)
EXTENDS FieldSums, Sequences

CONSTANTS
  FitClients,   \* the clients of a round, numbered from 1
  Shapes,       \* models: sequences of array sizes
  Examples,     \* values of num_examples
  Values,       \* element values, in halves
  ChunkSize,    \* elements of a chunk
  MaxRounds     \* bound: rounds

ASSUME FlowerAssumption ==
  /\ FitClients \in Nat \ {0} /\ ChunkSize \in Nat \ {0} /\ MaxRounds \in Nat
  /\ Examples \subseteq Nat /\ Values \subseteq Int
  /\ \A s \in Shapes : s \in Seq(Nat \ {0})

VARIABLES
  current,    \* current_round
  samples,    \* client_samples: a set, since the key is the value
  expected,   \* expected_chunks, by the same keys
  stored,     \* client_chunks of the round: client -> chunk indices
  whole,      \* what process_chunked_update has last returned
  fit,        \* the results the last round was given
  model       \* the arrays it has returned

fvars == <<current, samples, expected, stored, whole, fit, model>>

Modulus == FIELD_MODULUS
Ids == 1..FitClients
Indices == 0..1   \* bound: chunk numbers of an update

-----------------------------------------------------------------------------
Size(shape) == SumOver(shape, 1..Len(shape))

(* Where array a begins *)
Offset(shape, a) == SumOver(shape, 1..(a - 1))

Units(shape) == Ids \X (0..(Size(shape) - 1))
ZeroElem(shape) == [u \in Units(shape) |-> 0]
Elem(shape, c, e, word) == [ZeroElem(shape) EXCEPT ![<<c, e>>] = word]

(* astype(np.int16): the fraction is cut off, and a number outside of 16   *)
(* bits wraps.  For a float outside of them that is what x86 does; C says  *)
(* nothing.                                                                *)
int16(x) ==
  LET whole_part == IF x < 0 THEN -((-x) \div 2) ELSE x \div 2
  IN  ((whole_part + 32768) % 65536) - 32768

NumChunks(shape) == (Size(shape) + ChunkSize - 1) \div ChunkSize

(* Mutant: the last chunk, if it is not full, is not made. *)
Mut_model_to_chunks(shape, c, x) ==
  [k \in 0..(NumChunks(shape) - 1) |->
     [j \in 0..(ChunkSize - 1) |->
        IF (k + 1) * ChunkSize <= Size(shape)
        THEN Elem(shape, c, k * ChunkSize + j, int16(x)) ELSE ZeroElem(shape)]]

(* _model_to_chunks: int16 words, the last chunk padded with zeros *)
model_to_chunks(shape, c, x) ==
  [k \in 0..(NumChunks(shape) - 1) |->
     [j \in 0..(ChunkSize - 1) |->
        IF k * ChunkSize + j < Size(shape)
        THEN Elem(shape, c, k * ChunkSize + j, int16(x)) ELSE ZeroElem(shape)]]

(* _chunks_to_model: the arrays are cut from the chunks one after another; *)
(* their elements are numbers below the modulus in any type.               *)
chunks_to_model(shape, chunks) ==
  [a \in 1..Len(shape) |->
     [i \in 0..(shape[a] - 1) |->
        LET e == Offset(shape, a) + i
        IN  chunks[e \div ChunkSize][e % ChunkSize]]]

(* pow(total, Modulus - 2, Modulus) *)
inv_total(x) == inv(x)

(* The chunk sums of aggregate_fit, each client weighted by its examples,  *)
(* times the inverse of the total if there is one                          *)
Aggregated(f, total) ==
  [k \in 0..(NumChunks(f.shape) - 1) |->
     [j \in 0..(ChunkSize - 1) |->
        [u \in Units(f.shape) |->
           LET sum == SumOver(
                        [c \in Ids |->
                           ((f.examples[c] % Modulus)
                              * model_to_chunks(f.shape, c, f.values[c])[k][j][u])
                             % Modulus],
                        Ids) % Modulus
           IN  IF total > 0 THEN (sum * inv_total(total)) % Modulus ELSE sum]]]

FlowerInit ==
  /\ current = 0 /\ samples = {} /\ expected = <<>> /\ stored = [c \in Ids |-> {}]
  /\ whole = FALSE /\ fit = <<>> /\ model = <<>>

ConfigureFit ==
  /\ current < MaxRounds
  /\ current' = current + 1
  /\ samples' = {} /\ expected' = <<>> /\ stored' = [c \in Ids |-> {}]
  /\ UNCHANGED <<whole, fit, model>>

(* The key of client_samples is num_examples itself: equal counts are one  *)
(* entry, and the total is the sum of the different counts.                *)
aggregate_fit(shape, examples, values) ==
  LET f == [shape |-> shape, examples |-> examples, values |-> values]
      seen == samples \cup {examples[c] : c \in Ids}
  IN  /\ current > 0
      /\ samples' = seen
      /\ expected' = [n \in seen |-> NumChunks(shape)]
      /\ fit' = <<f>>
      /\ model' = chunks_to_model(shape, Aggregated(f, SumOver([n \in seen |-> n], seen)))
      /\ UNCHANGED <<current, stored, whole>>

(* expected_chunks is asked for the client, but its keys are the counts. *)
process_chunked_update(c, k) ==
  /\ current > 0
  /\ stored' = [stored EXCEPT ![c] = @ \cup {k}]
  /\ whole' = (Cardinality(stored'[c])
                = IF c \in DOMAIN expected THEN expected[c] ELSE 0)
  /\ UNCHANGED <<current, samples, expected, fit, model>>

(* Flower asks for one aggregate after each configure_fit. *)
FlowerNext ==
  \/ ConfigureFit
  \/ \E shape \in Shapes, examples \in [Ids -> Examples], values \in [Ids -> Values] :
       samples = {} /\ aggregate_fit(shape, examples, values)
  \/ \E c \in Ids, k \in Indices : process_chunked_update(c, k)

FlowerSpec == FlowerInit /\ [][FlowerNext]_fvars

-----------------------------------------------------------------------------
(* A round whose clients all report different counts, with a total that    *)
(* has an inverse, returns arrays of the sizes it was given, and each      *)
(* element of them is the mean, modulo 3329, of the int16 words of the     *)
(* clients' elements at the same place, weighted by their examples:        *)
(* cutting, padding and putting together move nothing, across array and    *)
(* chunk boundaries, in every round.  It is not the mean of the elements:  *)
(* a model of fractions comes back as zeros, a negative mean as a large    *)
(* number.                                                                 *)
FlowerMean ==
  fit # <<>> =>
    LET f == fit[1]
        total == SumOver(f.examples, Ids)
    IN  /\ Cardinality({f.examples[c] : c \in Ids}) = FitClients
        /\ total % Modulus # 0
        => /\ Len(model) = Len(f.shape)
           /\ \A a \in 1..Len(model) :
                /\ DOMAIN model[a] = 0..(f.shape[a] - 1)
                /\ \A i \in DOMAIN model[a], u \in Units(f.shape) :
                     (model[a][i][u] * (total % Modulus)) % Modulus
                       = IF u[2] = Offset(f.shape, a) + i
                         THEN (f.examples[u[1]] * int16(f.values[u[1]])) % Modulus ELSE 0
=============================================================================
