------------------------------ MODULE DataPath ------------------------------
(***************************************************************************)
(* What becomes of the clients' values in a round: ROUND_INIT is written   *)
(* as bytes and read by clients and server, the clients mask chunks, the   *)
(* server stores them with the sample counts, and each of the three        *)
(* servers averages what it has.  The interleaving of the server's tasks   *)
(* is the subject of Bridge and Servers; here a message is one step and    *)
(* every key is usable.                                                    *)
(*                                                                         *)
(* Both kinds of clients make a chunk when a MASK_CHUNK asks for it, in    *)
(* order; who asks is not part of the repository, nor is who sends         *)
(* CLIENT_COMPLETE for them.  The mock client packs its words big-endian,  *)
(* as the servers unpack them.  The device leaves its words in its own     *)
(* byte order and counts chunk_size in bytes: its chunks have half the     *)
(* length a server asks for, and are refused before the order matters.     *)
(***************************************************************************)
EXTENDS FedAvg

CONSTANTS
  Payloads,      \* ROUND_INIT payloads: sequences of 8 bytes
  SampleCounts   \* counts a CLIENT_COMPLETE may carry

NoCount == -1   \* a CLIENT_COMPLETE too short to carry a count

VARIABLES
  kind,      \* whether the clients are devices or mock clients
  params,    \* what each party has read from ROUND_INIT
  streamed,  \* per client, the chunks it has masked, in its own words
  table,     \* the round's table at the server (FedAvg)
  out        \* what each server publishes from that table

vars == <<kind, params, streamed, table, out>>

Parties == {"bridge", "mock", "device"}
Programs == {"bridge", "incoming", "classical"}

-----------------------------------------------------------------------------
(* ROUND_INIT, as the server reads it (the two other servers have the same *)
(* text), the mock client and the device: low bytes first                  *)
bridge_round_init(p) ==
  [expected |-> p[1], threshold |-> p[2],
   chunk_size |-> p[3] + 256 * p[4],
   model_size |-> p[5] + 256 * p[6] + 65536 * p[7] + 16777216 * p[8]]

mock_round_init(p) ==
  [expected |-> p[1], threshold |-> p[2],
   chunk_size |-> p[3] + 256 * p[4],
   model_size |-> p[5] + 256 * p[6] + 65536 * p[7] + 16777216 * p[8]]

device_round_init(p) ==
  [expected |-> p[1], threshold |-> p[2],
   chunk_size |-> p[3] + 256 * p[4],
   model_size |-> p[5] + 256 * p[6] + 65536 * p[7] + 16777216 * p[8]]

ReadBy(party, p) ==
  CASE party = "bridge" -> bridge_round_init(p)
    [] party = "mock" -> mock_round_init(p)
    [] party = "device" -> device_round_init(p)

(* Mutant: the last chunk is left out. *)
Mut_ServerChunks(q) == (q.model_size - 1) \div q.chunk_size

(* The client counts a last partial chunk, the server does not. *)
ClientChunks(q) == (q.model_size + q.chunk_size - 1) \div q.chunk_size
ServerChunks(q) == q.model_size \div q.chunk_size

(* The bytes of a chunk: chunk_size words from a mock client, chunk_size   *)
(* bytes from a device; a server stores chunks of chunk_size words only.   *)
ChunkBytes(kd, q) == IF kd = "device" THEN q.chunk_size ELSE 2 * q.chunk_size
Stores(kd, q) == ChunkBytes(kd, q) = 2 * q.chunk_size

(* Every party divides by chunk_size; no sum of the device's 32-bit words  *)
(* wraps; MaxChunks bounds the chunks of a client.                         *)
ASSUME DataPathAssumption ==
  /\ \A p \in Payloads :
       /\ p \in [1..8 -> 0..255] /\ p[8] # 255
       /\ bridge_round_init(p).chunk_size # 0
       /\ ClientChunks(bridge_round_init(p)) <= MaxChunks
  /\ SampleCounts \subseteq Nat

Outcome(status, chunks) == [status |-> status, chunks |-> chunks]

Started == params["bridge"].chunk_size # 0
Over == out["bridge"].status # "none"
Publishes(s) == out[s].status = "average"

Init ==
  /\ kind \in {"device", "mock"}
  /\ params = [party \in Parties |->
                 ReadBy(party, <<0, 0, 0, 0, 0, 0, 0, 0>>)]
  /\ streamed = [c \in Clients |-> <<>>]
  /\ table = [clients |-> {}, chunks |-> [c \in Clients |-> <<>>],
              completed |-> {}, samples |-> [c \in Clients |-> 0],
              dropouts |-> {}, secret |-> {}, num |-> 0]
  /\ out = [s \in Programs |-> Outcome("none", <<>>)]

RoundInit(p) ==
  /\ ~Started
  /\ params' = [party \in Parties |-> ReadBy(party, p)]
  /\ table' = [table EXCEPT !.num = ServerChunks(params'["bridge"])]
  /\ UNCHANGED <<kind, streamed, out>>

PublicKey(c) ==
  /\ Started /\ ~Over
  /\ c \notin table.clients
  /\ table' = [table EXCEPT !.clients = @ \cup {c}]
  /\ UNCHANGED <<kind, params, streamed, out>>

Extended(f, k, v) == [j \in (DOMAIN f) \cup {k} |-> IF j = k THEN v ELSE f[j]]

(* A client masks the next of the chunks it counts; the server stores it   *)
(* under its number when its length is right.                              *)
MaskChunk(c) ==
  /\ c \in table.clients /\ ~Over
  /\ LET k == Cardinality(DOMAIN streamed[c])
         v == MaskedChunk(kind, c, k)
     IN  /\ k < ClientChunks(params[kind])
         /\ streamed' = [streamed EXCEPT ![c] = Extended(@, k, v)]
         /\ table' = IF Stores(kind, params[kind])
                     THEN [table EXCEPT !.chunks[c] = Extended(@, k, v)] ELSE table
  /\ UNCHANGED <<kind, params, out>>

(* Every server's average, or the exception it raises instead: see Bridge  *)
(* for recovery and for the HEAD side's.                                   *)
Published(r, threshold) ==
  LET t == [r EXCEPT !.secret = r.clients]
      raises == \E d \in t.dropouts : Cardinality(t.secret \ {d}) >= threshold
  IN  [s \in Programs |->
         IF raises \/ (s = "bridge" /\ t.dropouts \cap t.clients # {})
         THEN Outcome("raises", <<>>)
         ELSE Outcome("average", CASE s = "bridge" -> finalize_aggregation(t)
                                   [] s = "incoming" -> compute_fedavg(t)
                                   [] s = "classical" -> classical_fedavg(t))]

(* _check_round_completion *)
Check(r) ==
  LET q == params["bridge"]
      surviving == q.expected - Cardinality(r.dropouts)
  IN  out' = IF surviving >= q.threshold /\ Cardinality(r.completed) >= surviving
             THEN Published(r, q.threshold) ELSE out

ClientComplete(c, n) ==
  /\ c \in table.clients \ table.completed /\ ~Over
  /\ Cardinality(DOMAIN streamed[c]) = ClientChunks(params[kind])
  /\ table' = [table EXCEPT !.completed = @ \cup {c},
                            !.samples[c] = IF n = NoCount THEN @ ELSE n]
  /\ Check(table')
  /\ UNCHANGED <<kind, params, streamed>>

DropoutNotify(d) ==
  /\ Started /\ ~Over /\ table.dropouts = {}
  /\ table' = [table EXCEPT !.dropouts = @ \cup {d}]
  /\ Check(table')
  /\ UNCHANGED <<kind, params, streamed>>

Next ==
  \/ \E p \in Payloads : RoundInit(p)
  \/ \E c \in Clients :
       \/ PublicKey(c) \/ MaskChunk(c)
       \/ \E n \in SampleCounts \cup {NoCount} : ClientComplete(c, n)
       \/ DropoutNotify(c)

Spec == Init /\ [][Next]_vars

-----------------------------------------------------------------------------
(* The table is well formed, and an average is one of field elements for   *)
(* every chunk the server counts.                                          *)
PathTypeOK ==
  /\ kind \in {"device", "mock"}
  /\ table.completed \subseteq table.clients /\ table.clients \subseteq Clients
  /\ \A c \in Clients : DOMAIN table.chunks[c] \subseteq Chunks
  /\ \A s \in Programs : Publishes(s) =>
         out[s].chunks \in [0..(table.num - 1) -> [Unknowns -> Field]]

(* The clients of an average: all that completed and were not dropped, and *)
(* dropped ones where the server unmasks                                   *)
Averaged(s) ==
  IF s = "bridge" THEN table.completed \ table.dropouts ELSE table.completed

RefWeight(c) == IF table.samples[c] = 0 THEN 1 ELSE table.samples[c]
RefTotal(S) == SumOver([c \in S |-> RefWeight(c)], S)

(* Counts that the code averages correctly: all zero or all positive, and  *)
(* a total that has an inverse                                             *)
Divisible(S) ==
  /\ (\A c \in S : table.samples[c] = 0) \/ (\A c \in S : table.samples[c] > 0)
  /\ RefTotal(S) % FIELD_MODULUS # 0

(* For every chunk that mock clients stream in full, and whatever the     *)
(* plaintexts and the masks are, client c's value enters a published       *)
(* average with c's samples divided by all samples, dropped or not: the    *)
(* modular inverse, the weight of 1 for no samples and the recovery of     *)
(* dropped clients change no client's share in it.  Of a device nothing    *)
(* enters an average.                                                      *)
WeightedMean ==
  \A s \in Programs :
    Publishes(s) /\ Divisible(Averaged(s)) =>
      \A k \in 0..(table.num - 1), c \in Clients :
        (out[s].chunks[k][Plain(c, k)] * (RefTotal(Averaged(s)) % FIELD_MODULUS)) % FIELD_MODULUS
          = (IF kind = "mock" /\ c \in Averaged(s) THEN RefWeight(c) ELSE 0) % FIELD_MODULUS

(* The three servers publish the same average from the same messages when  *)
(* nobody was dropped, although one divides after adding up chunks and the *)
(* others collect them per client first.                                   *)
SidesAgree ==
  table.dropouts \cap table.clients = {} =>
    \A x, y \in Programs : out[x] = out[y]

(* A whole chunk is never left out: when model_size is a multiple of       *)
(* chunk_size, every chunk a mock client has streamed is in the average.   *)
WholeModelAveraged ==
  /\ kind = "mock" /\ Started
  /\ params["bridge"].model_size % params["bridge"].chunk_size = 0
  => \A s \in Programs : Publishes(s) =>
       \A c \in table.completed : DOMAIN streamed[c] = DOMAIN out[s].chunks

(* The masks that all devices have put on a chunk cancel when the chunks   *)
(* are added up: threat_model.md, "Pairwise masks cancel exactly           *)
(* (sum = 0)".                                                             *)
MasksCancel ==
  kind = "device" =>
    \A k \in Chunks : (\A c \in Clients : k \in DOMAIN streamed[c]) =>
      \A u \in Streams :
        SumOver([c \in Clients |-> streamed[c][k][u]], Clients) % FIELD_MODULUS = 0
=============================================================================
