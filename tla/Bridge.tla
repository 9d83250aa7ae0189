------------------------------- MODULE Bridge -------------------------------
(***************************************************************************)
(* The server, host_server/protocol_bridge.py, during one round: an        *)
(* asyncio task per client connection, all of them sharing the RoundState  *)
(* and the table of writers.  A task runs alone until it awaits: the next  *)
(* message, or the drain of a writer it has written to.  At a drain other  *)
(* tasks run, and the drain raises ConnectionResetError when the peer has  *)
(* gone.  Every exception ends the task and closes its own connection.     *)
(*                                                                         *)
(* round_state.clients and client_writers are filled together, in the same *)
(* order, by _handle_public_key: one sequence stands for both dicts.       *)
(***************************************************************************)
EXTENDS Integers, Sequences, FiniteSets

CONSTANTS
  Clients,    \* the client ids; client c speaks on the connection of task c
  Expected,   \* round_state.expected_clients
  Threshold,  \* round_state.threshold
  NumChunks,  \* model_size // chunk_size
  Misfits,    \* clients whose chunks are not 2 * chunk_size bytes long
  MockWaits,  \* clients wait for KEM_CIPHERTEXT before they stream
  MaxFaults,  \* bound: connections lost or ended by an unknown message
  MaxNotes,   \* bound: DROPOUT_NOTIFY messages
  MaxDups,    \* bound: repeated CLIENT_COMPLETE messages
  MaxOddKeys, \* bound: PUBLIC_KEY messages without a usable key
  MaxMishaps  \* bound: all of these together

ASSUME BridgeAssumption ==
  /\ IsFiniteSet(Clients)
  /\ Expected \in Nat /\ Threshold \in Nat \ {0} /\ NumChunks \in Nat \ {0}
  /\ Misfits \subseteq Clients /\ MockWaits \in BOOLEAN
  /\ MaxFaults \in Nat /\ MaxNotes \in Nat /\ MaxDups \in Nat
  /\ MaxOddKeys \in Nat /\ MaxMishaps \in Nat

VARIABLES
  round,      \* the round is in self.rounds
  stage,      \* round_state.stage
  clients,    \* keys of round_state.clients, in insertion order
  key,        \* per client, its public_key: good, empty, or one that
              \* _encapsulate refuses (bad)
  secret,     \* the clients whose shared_secret is set
  chunks,     \* per client, the keys of received_chunks
  completed,  \* the clients whose completed flag is set
  dropouts,   \* round_state.dropout_clients
  pc,         \* per task: read, closed, or the loop at whose drain it waits
  at,         \* per task: the position of its loop over a dict
  seq,        \* per task: seq_num of its broadcast loop
  size,       \* per task: the size of the dict when its loop began
  up,         \* the connections that are open
  pos,        \* per client: how far its script has come
  keyed,      \* history: the clients a KEM_CIPHERTEXT was written to
  agg,        \* history: the clients summed in the last aggregate
  skipped,    \* history: the completed clients it left out
  got,        \* history: per client, the result chunks written to it
  used        \* [faults, notes, dups, keys]: how much of each bound is used

table == <<round, clients, key, secret, chunks, completed, dropouts>>
tasks == <<pc, at, seq, size>>
published == <<agg, skipped, got>>
vars == <<table, stage, tasks, up, pos, keyed, published, used>>

Registered == {clients[i] : i \in 1..Len(clients)}
Seqs == 0..(NumChunks - 1)
Stages == {"INIT", "UNMASKING", "MASK_SETUP", "ROUND_COMPLETE", "ERROR"}
Keys == {"good", "empty", "bad"}
KeyLoops == {"keys", "pairs", "orch"}   \* pairs and orch: see Servers
Loops == KeyLoops \cup {"send"}
PCs == {"read", "closed"} \cup Loops
UsedType == [faults : 0..MaxFaults, notes : 0..MaxNotes, dups : 0..MaxDups,
             keys : 0..MaxOddKeys]
Done == NumChunks + 2   \* pos of a client that has sent CLIENT_COMPLETE

TypeOK ==
  /\ round \in BOOLEAN
  /\ stage \in Stages
  /\ clients \in Seq(Clients)
  /\ \A i, j \in 1..Len(clients) : clients[i] = clients[j] => i = j
  /\ key \in [Clients -> Keys \cup {"none"}]
  /\ \A c \in Clients : key[c] # "none" <=> c \in Registered
  /\ secret \subseteq Registered /\ completed \subseteq Registered
  /\ chunks \in [Clients -> SUBSET Seqs]
  /\ dropouts \subseteq Clients
  /\ pc \in [Clients -> PCs]
  /\ at \in [Clients -> Nat] /\ seq \in [Clients -> Nat]
  /\ size \in [Clients -> Nat]
  /\ up \subseteq Clients /\ keyed \subseteq Clients
  /\ agg \subseteq Clients /\ skipped \subseteq Clients
  /\ pos \in [Clients -> 0..Done]
  /\ got \in [Clients -> SUBSET Seqs]
  /\ used \in UsedType

Init ==
  /\ round = FALSE /\ stage = "INIT"
  /\ clients = <<>> /\ secret = {} /\ completed = {} /\ dropouts = {}
  /\ key = [c \in Clients |-> "none"] /\ chunks = [c \in Clients |-> {}]
  /\ pc = [c \in Clients |-> "read"]
  /\ at = [c \in Clients |-> 0] /\ seq = [c \in Clients |-> 0]
  /\ size = [c \in Clients |-> 0]
  /\ up = Clients /\ pos = [c \in Clients |-> 0]
  /\ keyed = {} /\ agg = {} /\ skipped = {} /\ got = [c \in Clients |-> {}]
  /\ used = [faults |-> 0, notes |-> 0, dups |-> 0, keys |-> 0]

-----------------------------------------------------------------------------
(* An uncaught exception, or ConnectionResetError: the finally clause of   *)
(* _handle_client closes the task's own writer.                            *)
Die(c) ==
  /\ pc' = [pc EXCEPT ![c] = "closed"]
  /\ up' = up \ {c}
  /\ UNCHANGED <<at, seq, size>>

Stays == UNCHANGED <<pc, at, seq, size, up>>

(* Task c stops at a drain of its loop p, which began over n entries, with *)
(* the i-th writer.                                                        *)
AwaitDrain(c, p, i, q, n) ==
  /\ pc' = [pc EXCEPT ![c] = p]
  /\ at' = [at EXCEPT ![c] = i]
  /\ seq' = [seq EXCEPT ![c] = q]
  /\ size' = [size EXCEPT ![c] = n]
  /\ UNCHANGED up

(* The size check of a dict iterator when the loop asks for the next item *)
Resized(c) == size[c] # Len(clients)

(***************************************************************************)
(* _trigger_recovery.  What it collects as the shares of dropped client d  *)
(* are HKDF outputs of 32 bytes, one per other client with a secret; with  *)
(* at least threshold of them it calls reconstruct_secret_bytes, which     *)
(* refuses every share that is not 64 bytes long.                          *)
(***************************************************************************)
ShareBytes == 32
ReconstructBytes == 64

Shares(d) == secret \ {d}

RecoveryRaises(drops) ==
  \E d \in drops : /\ Cardinality(Shares(d)) >= Threshold
                   /\ ShareBytes # ReconstructBytes

(* Writing result chunk q to the i-th of n writers, then its drain *)
WriteResult(c, i, q, n) ==
  /\ got' = [got EXCEPT ![clients[i]] =
               IF clients[i] \in up THEN @ \cup {q} ELSE @]
  /\ AwaitDrain(c, "send", i, q, n)

(* Mutant: every dropped client is left out, with a secret or without. *)
Mut_Aggregate(c) ==
  IF RecoveryRaises(dropouts')
  THEN /\ stage' = "MASK_SETUP"
       /\ Die(c)
       /\ UNCHANGED published
  ELSE /\ stage' = "ROUND_COMPLETE"
       /\ agg' = completed' \ dropouts' /\ skipped' = completed' \cap dropouts'
       /\ WriteResult(c, 1, 0, Len(clients))

(***************************************************************************)
(* The rest of _unmask_and_aggregate once every client with a key has a    *)
(* secret, up to the first drain of the broadcast: the pair loops find no  *)
(* two clients with keys of which one has no secret, stage becomes         *)
(* MASK_SETUP, recovery runs, and _finalize_aggregation sums the completed *)
(* survivors.  For a dropped client with a secret it calls                 *)
(* recover_dropped_client_masks, a name not bound there; one without a     *)
(* secret it passes over.                                                  *)
(***************************************************************************)
Aggregate(c) ==
  IF RecoveryRaises(dropouts') \/ dropouts' \cap secret # {}
  THEN /\ stage' = "MASK_SETUP"
       /\ Die(c)
       /\ UNCHANGED published
  ELSE /\ stage' = "ROUND_COMPLETE"
       /\ agg' = completed' \ dropouts' /\ skipped' = completed' \cap dropouts'
       /\ WriteResult(c, 1, 0, Len(clients))

(* The clients from position i on that the loop encapsulates for: those    *)
(* with a public_key and without a shared_secret                           *)
Pending(i) ==
  {j \in i..Len(clients) : key[clients[j]] # "empty" /\ clients[j] \notin secret}

(* _setup_keys_and_masks from position i on: the next client with a key    *)
(* and without a secret gets one and is sent its ciphertext, or            *)
(* _encapsulate refuses the key.                                           *)
SetupKeys(c, i) ==
  \/ /\ Pending(i) = {}
     /\ Aggregate(c)
     /\ UNCHANGED <<secret, keyed>>
  \/ \E j \in Pending(i) :
       /\ \A k \in Pending(i) : j <= k
       /\ stage' = IF pc[c] = "read" THEN "UNMASKING" ELSE stage
       /\ UNCHANGED published
       /\ \/ /\ key[clients[j]] = "bad"
             /\ Die(c)
             /\ UNCHANGED <<secret, keyed>>
          \/ /\ key[clients[j]] # "bad"
             /\ secret' = secret \cup {clients[j]}
             /\ keyed' = keyed \cup ({clients[j]} \cap up)
             /\ AwaitDrain(c, "keys", j, 0, Len(clients))

(* _handle_round_failure: MSG_TYPE_ERROR is not defined in the module, so  *)
(* the first writer that is still open raises NameError.                   *)
Fail(c) ==
  /\ stage' = "ERROR"
  /\ IF Registered \cap up # {} THEN Die(c) ELSE Stays
  /\ UNCHANGED <<secret, keyed, published>>

(* Mutant: all registered clients are counted, not the completed ones. *)
Mut_CheckRegistered(c) ==
  LET surviving == Expected - Cardinality(dropouts')
  IN  \/ /\ Len(clients) >= surviving /\ surviving >= Threshold
         /\ SetupKeys(c, 1)
      \/ /\ surviving < Threshold
         /\ Fail(c)
      \/ /\ surviving >= Threshold /\ Len(clients) < surviving
         /\ Stays
         /\ UNCHANGED <<stage, secret, keyed, published>>

(* Mutant: the last client to complete is not waited for. *)
Mut_CheckEarly(c) ==
  LET surviving == Expected - Cardinality(dropouts') - 1
  IN  \/ /\ Cardinality(completed') >= surviving /\ surviving >= Threshold
         /\ SetupKeys(c, 1)
      \/ /\ surviving < Threshold
         /\ Fail(c)
      \/ /\ surviving >= Threshold /\ Cardinality(completed') < surviving
         /\ Stays
         /\ UNCHANGED <<stage, secret, keyed, published>>

(* _check_round_completion, run by task c *)
CheckRoundCompletion(c) ==
  LET surviving == Expected - Cardinality(dropouts')
  IN  \/ /\ Cardinality(completed') >= surviving /\ surviving >= Threshold
         /\ SetupKeys(c, 1)
      \/ /\ surviving < Threshold
         /\ Fail(c)
      \/ /\ surviving >= Threshold /\ Cardinality(completed') < surviving
         /\ Stays
         /\ UNCHANGED <<stage, secret, keyed, published>>

-----------------------------------------------------------------------------
(***************************************************************************)
(* Messages.  Client c runs its script: a public key, NumChunks chunks and *)
(* CLIENT_COMPLETE; the header's client_id is its own.                     *)
(***************************************************************************)
(* One more mishap fits in the bound of them all. *)
Spare == used.faults + used.notes + used.dups + used.keys < MaxMishaps

Reads(c) == pc[c] = "read" /\ c \in up

Advance(c) == pos' = [pos EXCEPT ![c] = @ + 1]

(* ROUND_INIT comes on another connection; a second one is ignored. *)
HandleRoundInit ==
  /\ ~round /\ round' = TRUE
  /\ UNCHANGED <<stage, clients, key, secret, chunks, completed, dropouts, tasks,
                 up, pos, keyed, published, used>>

(* public_key := payload, whatever its length, for a client that is then   *)
(* registered; an empty payload is an empty key.                           *)
HandlePublicKey(c, k) ==
  /\ Reads(c) /\ pos[c] = 0
  /\ \/ k = "good" /\ UNCHANGED used
     \/ /\ k # "good" /\ used.keys < MaxOddKeys /\ Spare
        /\ used' = [used EXCEPT !.keys = @ + 1]
  /\ Advance(c)
  /\ clients' = IF round /\ c \notin Registered THEN Append(clients, c)
                                               ELSE clients
  /\ key' = IF round THEN [key EXCEPT ![c] = k] ELSE key
  /\ UNCHANGED <<round, stage, secret, chunks, completed, dropouts, tasks, up,
                 keyed, published>>

(* Mutant: sequence numbers are counted from one. *)
Mut_HandleMaskChunk(c) ==
  /\ Reads(c) /\ pos[c] \in 1..NumChunks
  /\ MockWaits => c \in keyed
  /\ Advance(c)
  /\ chunks' = IF c \in Registered \ Misfits
               THEN [chunks EXCEPT ![c] = @ \cup {pos[c]}] ELSE chunks
  /\ UNCHANGED <<round, stage, clients, key, secret, completed, dropouts, tasks,
                 up, keyed, published, used>>

(* A chunk of a registered client is kept when its length is right. *)
HandleMaskChunk(c) ==
  /\ Reads(c) /\ pos[c] \in 1..NumChunks
  /\ MockWaits => c \in keyed
  /\ Advance(c)
  /\ chunks' = IF c \in Registered \ Misfits
               THEN [chunks EXCEPT ![c] = @ \cup {pos[c] - 1}] ELSE chunks
  /\ UNCHANGED <<round, stage, clients, key, secret, completed, dropouts, tasks,
                 up, keyed, published, used>>

HandleClientComplete(c) ==
  /\ Reads(c)
  /\ \/ pos[c] = NumChunks + 1 /\ Advance(c) /\ UNCHANGED used
     \/ /\ pos[c] = Done /\ used.dups < MaxDups /\ Spare
        /\ used' = [used EXCEPT !.dups = @ + 1]
        /\ UNCHANGED pos
  /\ UNCHANGED <<round, clients, key, chunks, dropouts>>
  /\ IF c \in Registered
     THEN /\ completed' = completed \cup {c}
          /\ CheckRoundCompletion(c)
     ELSE UNCHANGED <<stage, secret, completed, tasks, up, keyed, published>>

(* DROPOUT_NOTIFY on connection c, whose header names client d *)
HandleDropoutNotify(c, d) ==
  /\ Reads(c) /\ round /\ used.notes < MaxNotes /\ Spare
  /\ used' = [used EXCEPT !.notes = @ + 1]
  /\ dropouts' = dropouts \cup {d}
  /\ UNCHANGED <<round, clients, key, chunks, completed, pos>>
  /\ IF RecoveryRaises(dropouts')
     THEN Die(c) /\ UNCHANGED <<stage, secret, keyed, published>>
     ELSE CheckRoundCompletion(c)

(* The dispatcher calls _handle_pairwise_pubkey or _ciphertext, which the  *)
(* class does not have: AttributeError.                                    *)
HandlePairwise(c) ==
  /\ Reads(c) /\ used.faults < MaxFaults /\ Spare
  /\ used' = [used EXCEPT !.faults = @ + 1]
  /\ Die(c)
  /\ UNCHANGED <<table, stage, pos, keyed, published>>

(* The peer closes or resets the connection: a reading task ends, one that *)
(* is at the drain of another writer goes on.                              *)
LoseConnection(c) ==
  /\ c \in up /\ used.faults < MaxFaults /\ Spare
  /\ used' = [used EXCEPT !.faults = @ + 1]
  /\ up' = up \ {c}
  /\ pc' = [pc EXCEPT ![c] = IF @ = "read" THEN "closed" ELSE @]
  /\ UNCHANGED <<table, stage, at, seq, size, pos, keyed, published>>

-----------------------------------------------------------------------------
(* The drain in _setup_keys_and_masks returns or raises. *)
ResumeKeys(c) ==
  /\ pc[c] = "keys"
  /\ UNCHANGED <<round, clients, key, chunks, completed, dropouts, pos, used>>
  /\ \/ /\ clients[at[c]] \notin up \/ Resized(c)
        /\ Die(c)
        /\ UNCHANGED <<stage, secret, keyed, published>>
     \/ /\ clients[at[c]] \in up /\ ~Resized(c)
        /\ SetupKeys(c, at[c] + 1)

(* Mutant: seq_num is not reset for the next writer. *)
Mut_ResumeSendSeq(c) ==
  LET more == seq[c] < NumChunks - 1 IN
  /\ pc[c] = "send"
  /\ UNCHANGED <<table, stage, pos, keyed, agg, skipped, used>>
  /\ \/ /\ more /\ WriteResult(c, at[c], seq[c] + 1, size[c])
     \/ /\ ~more /\ at[c] < Len(clients) /\ WriteResult(c, at[c] + 1, seq[c], size[c])
     \/ /\ ~more /\ at[c] = Len(clients)
        /\ pc' = [pc EXCEPT ![c] = "read"]
        /\ UNCHANGED <<at, seq, size, up, got>>

(* Mutant: the last writer is left out of the broadcast. *)
Mut_ResumeSendLast(c) ==
  LET more == seq[c] < NumChunks - 1 IN
  /\ pc[c] = "send"
  /\ UNCHANGED <<table, stage, pos, keyed, agg, skipped, used>>
  /\ \/ /\ more /\ WriteResult(c, at[c], seq[c] + 1, size[c])
     \/ /\ ~more /\ at[c] < Len(clients) - 1 /\ WriteResult(c, at[c] + 1, 0, size[c])
     \/ /\ ~more /\ at[c] >= Len(clients) - 1
        /\ pc' = [pc EXCEPT ![c] = "read"]
        /\ UNCHANGED <<at, seq, size, up, got>>

(* The drain in the broadcast of _unmask_and_aggregate returns or raises. *)
ResumeSend(c) ==
  LET more == seq[c] < NumChunks - 1 IN
  /\ pc[c] = "send"
  /\ UNCHANGED <<table, stage, pos, keyed, agg, skipped, used>>
  /\ \/ /\ clients[at[c]] \notin up \/ (~more /\ Resized(c))
        /\ Die(c) /\ UNCHANGED got
     \/ /\ clients[at[c]] \in up /\ more
        /\ WriteResult(c, at[c], seq[c] + 1, size[c])
     \/ /\ clients[at[c]] \in up /\ ~more /\ ~Resized(c)
        /\ at[c] < Len(clients)
        /\ WriteResult(c, at[c] + 1, 0, size[c])
     \/ /\ clients[at[c]] \in up /\ ~more /\ ~Resized(c)
        /\ at[c] = Len(clients)
        /\ pc' = [pc EXCEPT ![c] = IF c \in up THEN "read" ELSE "closed"]
        /\ UNCHANGED <<at, seq, size, up, got>>

Next ==
  \/ HandleRoundInit
  \/ \E c \in Clients :
       \/ \E k \in Keys : HandlePublicKey(c, k)
       \/ HandleMaskChunk(c) \/ HandleClientComplete(c)
       \/ \E d \in Clients : HandleDropoutNotify(c, d)
       \/ HandlePairwise(c) \/ LoseConnection(c)
       \/ ResumeKeys(c) \/ ResumeSend(c)

Spec == Init /\ [][Next]_vars

(***************************************************************************)
(* The event loop resumes every task whose drain is over (peers read their *)
(* sockets, or are lost), and clients run their scripts to the end.        *)
(***************************************************************************)
Fairness ==
  /\ WF_vars(HandleRoundInit)
  /\ \A c \in Clients :
       /\ WF_vars(ResumeKeys(c)) /\ WF_vars(ResumeSend(c))
       /\ WF_vars(\E k \in Keys : HandlePublicKey(c, k)) /\ WF_vars(HandleMaskChunk(c))
       /\ WF_vars(HandleClientComplete(c) /\ pos[c] # Done)

FairSpec == Spec /\ Fairness

-----------------------------------------------------------------------------
(***************************************************************************)
(* Properties                                                              *)
(***************************************************************************)

(* Every result the server publishes counts at least threshold clients and *)
(* no fewer than the expected ones that were not reported dropped, all of  *)
(* them completed, although the round state changes while                  *)
(* _unmask_and_aggregate waits at its drains.  They are all in the sum but *)
(* for clients that were reported dropped, and a client in the sum whose   *)
(* chunks have the right length has delivered all of them.                 *)
Counted == agg \cup skipped
AggregateIsWhole ==
  Counted # {} => /\ Cardinality(Counted) >= Threshold
                  /\ Cardinality(Counted) >= Expected - Cardinality(dropouts)
                  /\ Counted \subseteq completed /\ skipped \subseteq dropouts
                  /\ \A c \in agg \ Misfits : chunks[c] = Seqs

(* A counted client that is not in the sum registered with an empty key:   *)
(* a dropped client with a usable key has a secret by the time the sum is  *)
(* made, and then _finalize_aggregation raises.  So with usable keys the   *)
(* sum is over at least threshold clients; with empty keys it need not be. *)
OnlyKeylessSkipped == \A c \in skipped : key[c] = "empty"

(* The tasks together keep the promise of a round.  A round may be         *)
(* aggregated again, by a repeated CLIENT_COMPLETE or by a client that     *)
(* completes late, and several tasks may broadcast at once: a client that  *)
(* one result counts is counted by every later one, even when it is        *)
(* reported dropped in between, and what is sent to a client follows the   *)
(* order of seq_num without a gap.                                         *)
Service == INSTANCE RoundService WITH members <- agg, results <- got
ServiceSpec == Service!Spec

(* Two tasks never run _unmask_and_aggregate at the same time, as long as  *)
(* no connection fails, no client completes twice and none is reported     *)
(* dropped: only then are the broadcast's drains free of other broadcasts. *)
Undisturbed == used.faults = 0 /\ used.notes = 0 /\ used.dups = 0
SingleAggregator ==
  Undisturbed =>
    \A c, d \in Clients : (pc[c] \in Loops /\ pc[d] \in Loops) => c = d

(* When all clients are registered, every client is sent the whole result, *)
(* unless something disturbs the round or a key is refused.  This is about *)
(* clients that stream without waiting for KEM_CIPHERTEXT (MockWaits is    *)
(* FALSE); for the clients of the repository, which wait, the server never *)
(* comes to aggregate (AggregationReached).                                *)
Delivered == \A c \in Clients : got[c] = Seqs
RegisteredAreServed ==
  (Registered = Clients)
    ~> (Delivered \/ ~Undisturbed \/ \E c \in Clients : key[c] = "bad")

(* protocol.md: "Aggregation completes if surviving clients >= threshold". *)
DropoutResilience ==
  (/\ dropouts # {} /\ Expected - Cardinality(dropouts) >= Threshold
   /\ Registered \ dropouts \subseteq completed
   /\ Cardinality(completed) >= Expected - Cardinality(dropouts))
    ~> (stage = "ROUND_COMPLETE")

(* test_full_round.py: clients that wait for their ciphertext before they  *)
(* stream bring the server to aggregation.                                 *)
AggregationReached == (Registered = Clients) ~> (agg # {})
=============================================================================
