------------------------------ MODULE Servers -------------------------------
(***************************************************************************)
(* The two other servers of the repository, over the state and tasks of    *)
(* Bridge:                                                                 *)
(*                                                                         *)
(*   incoming   the second side of the merge in protocol_bridge.py, lines  *)
(*              670-1274, read with the markers removed and typing.Any     *)
(*              imported                                                   *)
(*   classical  baseline_server.py, the X25519 comparison server, read     *)
(*              with _dispatch_message indented into its class             *)
(*                                                                         *)
(* Both unmask in a function of their own (_unmask_client_chunks), which   *)
(* imports what it calls, and average with _compute_fedavg.  The classical *)
(* server alone has the two pairwise handlers: a client can replace its    *)
(* public key, by an empty one or one that X25519 refuses too, and can set *)
(* its own shared secret.  A client that gives its key after the key loop  *)
(* has passed it is served by one of the two pair loops, which have drains *)
(* of their own.  A function whose text is the one Bridge models is        *)
(* defined by that action of Bridge.                                       *)
(***************************************************************************)
EXTENDS Bridge

VARIABLES
  server,   \* which of the two programs runs
  cts       \* history: per client, the KEM_CIPHERTEXTs written for it

svars == <<vars, server, cts>>

ServersTypeOK ==
  /\ TypeOK
  /\ server \in {"incoming", "classical"}
  /\ cts \in [Clients -> Nat]

InitServers ==
  /\ Init
  /\ server \in {"incoming", "classical"}
  /\ cts = [c \in Clients |-> 0]

-----------------------------------------------------------------------------
(* Mutant: dropped clients are left out, as on the HEAD side. *)
Mut_UnmaskHead(drops) == Registered \ drops

(* Mutant: the test of shared_secret comes first. *)
Mut_UnmaskSecret(drops) == Registered \cap secret

(* _unmask_client_chunks: the clients that were not dropped, and those     *)
(* that were and have a secret to recover their masks from                 *)
UnmaskClientChunks(drops) == (Registered \ drops) \cup (drops \cap secret)

(* _unmask_and_aggregate after the keys: recovery, unmasking, averaging    *)
(* over the completed clients, first write of the broadcast.  Every        *)
(* seq_num is a key of what _compute_fedavg returns.                       *)
UnmaskAndAggregate(c) ==
  \/ /\ RecoveryRaises(dropouts')
     /\ stage' = "MASK_SETUP"
     /\ Die(c)
     /\ UNCHANGED published
  \/ /\ ~RecoveryRaises(dropouts')
     /\ stage' = "ROUND_COMPLETE"
     /\ agg' = completed' \cap UnmaskClientChunks(dropouts')
     /\ skipped' = completed' \ agg'
     /\ WriteResult(c, 1, 0, Len(clients))

(* Task c, in loop p, encapsulates for the j-th client: _encapsulate       *)
(* refuses the key, or the secret is stored, the ciphertext is written and *)
(* the task waits at its drain.                                            *)
Encapsulate(c, p, j, q, n) ==
  /\ stage' = IF pc[c] = "read" THEN "UNMASKING" ELSE stage
  /\ UNCHANGED published
  /\ \/ /\ key[clients[j]] # "good"
        /\ Die(c)
        /\ UNCHANGED <<secret, keyed, cts>>
     \/ /\ key[clients[j]] = "good"
        /\ secret' = secret \cup {clients[j]}
        /\ keyed' = keyed \cup ({clients[j]} \cap up)
        /\ cts' = [cts EXCEPT ![clients[j]] = @ + 1]
        /\ AwaitDrain(c, p, j, q, n)

(***************************************************************************)
(* The pair loops.  Both walk the pairs of a list that is made when the    *)
(* loop begins, so that its length n stays; PairNo is the place of a pair  *)
(* in that walk.  A pair is worked on when both of its clients have a key  *)
(* and one has no secret: first the client with the smaller id, then the   *)
(* other one, whose key is not looked at again after the drain.            *)
(***************************************************************************)
PairsOf(n) == {p \in (1..n) \X (1..n) : p[1] < p[2]}
PairNo(p, n) == (p[1] - 1) * n + p[2]
Initiator(p) == IF clients[p[1]] < clients[p[2]] THEN p[1] ELSE p[2]
Responder(p) == IF clients[p[1]] < clients[p[2]] THEN p[2] ELSE p[1]

OpenPairs(k, n) ==
  {p \in PairsOf(n) : /\ PairNo(p, n) >= k
                      /\ key[clients[p[1]]] # "empty" /\ key[clients[p[2]]] # "empty"
                      /\ ~({clients[p[1]], clients[p[2]]} \subseteq secret)}

(* The first open pair from place k on *)
WorkOnPair(c, l, k, n) ==
  \E p \in OpenPairs(k, n) :
    /\ \A r \in OpenPairs(k, n) : PairNo(p, n) <= PairNo(r, n)
    /\ LET j == IF clients[Initiator(p)] \notin secret THEN Initiator(p)
                                                      ELSE Responder(p)
       IN  Encapsulate(c, l, j, PairNo(p, n), n)

(* _orchestrate_pairwise_kem from place k on *)
OrchestratePairwiseKem(c, k, n) ==
  \/ /\ OpenPairs(k, n) = {}
     /\ UnmaskAndAggregate(c)
     /\ UNCHANGED <<secret, keyed, cts>>
  \/ WorkOnPair(c, "orch", k, n)

(* The pair loop of _setup_keys_and_masks from place k on *)
PairLoop(c, k, n) ==
  \/ OpenPairs(k, n) = {} /\ OrchestratePairwiseKem(c, 1, Len(clients))
  \/ WorkOnPair(c, "pairs", k, n)

(* Mutant: the secret is stored after the drain, with the next one. *)
Mut_StoreLate(c, i) ==
  \/ /\ Pending(i) = {}
     /\ UnmaskAndAggregate(c)
     /\ secret' = Registered /\ UNCHANGED <<keyed, cts>>
  \/ \E j \in Pending(i) :
       /\ \A k \in Pending(i) : j <= k
       /\ secret' = secret \cup {clients[k] : k \in 1..(j - 1)}
       /\ keyed' = keyed \cup ({clients[j]} \cap up)
       /\ cts' = [cts EXCEPT ![clients[j]] = @ + 1]
       /\ stage' = IF pc[c] = "read" THEN "UNMASKING" ELSE stage
       /\ AwaitDrain(c, "keys", j, 0, Len(clients))
       /\ UNCHANGED published

(* _setup_keys_and_masks from position i of its key loop on *)
SetupKeysAndMasks(c, i) ==
  \/ Pending(i) = {} /\ PairLoop(c, 1, Len(clients))
  \/ \E j \in Pending(i) :
       /\ \A k \in Pending(i) : j <= k
       /\ Encapsulate(c, "keys", j, 0, Len(clients))

(* Mutant: registered clients are counted, not completed ones. *)
Mut_CheckCompletion(c) ==
  LET surviving == Expected - Cardinality(dropouts')
  IN  \/ /\ Len(clients) >= surviving /\ surviving >= Threshold
         /\ SetupKeysAndMasks(c, 1)
      \/ /\ surviving < Threshold
         /\ Fail(c) /\ UNCHANGED cts
      \/ /\ surviving >= Threshold /\ Len(clients) < surviving
         /\ Stays
         /\ UNCHANGED <<stage, secret, keyed, published, cts>>

(* _check_round_completion *)
CheckCompletion(c) ==
  LET surviving == Expected - Cardinality(dropouts')
  IN  \/ /\ Cardinality(completed') >= surviving /\ surviving >= Threshold
         /\ SetupKeysAndMasks(c, 1)
      \/ /\ surviving < Threshold
         /\ Fail(c) /\ UNCHANGED cts
      \/ /\ surviving >= Threshold /\ Cardinality(completed') < surviving
         /\ Stays
         /\ UNCHANGED <<stage, secret, keyed, published, cts>>

-----------------------------------------------------------------------------
(* The handlers of the incoming side *)
InRoundInit == HandleRoundInit /\ UNCHANGED <<server, cts>>
InPublicKey(c, k) == HandlePublicKey(c, k) /\ UNCHANGED <<server, cts>>
InMaskChunk(c) == HandleMaskChunk(c) /\ UNCHANGED <<server, cts>>

InClientComplete(c) ==
  /\ Reads(c)
  /\ \/ pos[c] = NumChunks + 1 /\ Advance(c) /\ UNCHANGED used
     \/ /\ pos[c] = Done /\ used.dups < MaxDups /\ Spare
        /\ used' = [used EXCEPT !.dups = @ + 1]
        /\ UNCHANGED pos
  /\ UNCHANGED <<round, clients, key, chunks, dropouts, server>>
  /\ IF c \in Registered
     THEN completed' = completed \cup {c} /\ CheckCompletion(c)
     ELSE UNCHANGED <<stage, secret, completed, tasks, up, keyed, published, cts>>

InDropoutNotify(c, d) ==
  /\ Reads(c) /\ round /\ used.notes < MaxNotes /\ Spare
  /\ used' = [used EXCEPT !.notes = @ + 1]
  /\ dropouts' = dropouts \cup {d}
  /\ UNCHANGED <<round, clients, key, chunks, completed, pos, server>>
  /\ IF RecoveryRaises(dropouts')
     THEN Die(c) /\ UNCHANGED <<stage, secret, keyed, published, cts>>
     ELSE CheckCompletion(c)

(* The incoming side has no pairwise handlers: AttributeError. *)
InPairwise(c) == HandlePairwise(c) /\ UNCHANGED <<server, cts>>

InLoseConnection(c) == LoseConnection(c) /\ UNCHANGED <<server, cts>>

InResumeKeys(c) ==
  /\ pc[c] = "keys"
  /\ UNCHANGED <<round, clients, key, chunks, completed, dropouts, pos, used, server>>
  /\ \/ /\ clients[at[c]] \notin up \/ Resized(c)
        /\ Die(c)
        /\ UNCHANGED <<stage, secret, keyed, published, cts>>
     \/ /\ clients[at[c]] \in up /\ ~Resized(c)
        /\ SetupKeysAndMasks(c, at[c] + 1)

(* The drain in a pair loop returns or raises; the pair's second client is *)
(* next, or the next pair.  On the incoming side no task gets there: a     *)
(* client without a secret after the key loop has an empty key for good.   *)
InResumePairs(c) ==
  /\ pc[c] \in {"pairs", "orch"}
  /\ UNCHANGED <<round, clients, key, chunks, completed, dropouts, pos, used,
                 server>>
  /\ \/ /\ clients[at[c]] \notin up
        /\ Die(c)
        /\ UNCHANGED <<stage, secret, keyed, published, cts>>
     \/ /\ clients[at[c]] \in up
        /\ \E p \in PairsOf(size[c]) :
             /\ PairNo(p, size[c]) = seq[c]
             /\ clients[Responder(p)] \notin secret
             /\ Encapsulate(c, pc[c], Responder(p), seq[c], size[c])
     \/ /\ clients[at[c]] \in up
        /\ \E p \in PairsOf(size[c]) :
             /\ PairNo(p, size[c]) = seq[c]
             /\ clients[Responder(p)] \in secret
        /\ \/ pc[c] = "pairs" /\ PairLoop(c, seq[c] + 1, size[c])
           \/ pc[c] = "orch" /\ OrchestratePairwiseKem(c, seq[c] + 1, size[c])

InResumeSend(c) == ResumeSend(c) /\ UNCHANGED <<server, cts>>

NextIncoming ==
  \/ InRoundInit
  \/ \E c \in Clients :
       \/ \E k \in Keys : InPublicKey(c, k)
       \/ InMaskChunk(c) \/ InClientComplete(c)
       \/ \E d \in Clients : InDropoutNotify(c, d)
       \/ InPairwise(c) \/ InLoseConnection(c)
       \/ InResumeKeys(c) \/ InResumeSend(c)

-----------------------------------------------------------------------------
(* The handlers of the classical server; all but the pairwise ones have    *)
(* the text of the incoming side.                                          *)
ClRoundInit == InRoundInit
ClPublicKey(c, k) == InPublicKey(c, k)
ClMaskChunk(c) == InMaskChunk(c)
ClClientComplete(c) == InClientComplete(c)
ClDropoutNotify(c, d) == InDropoutNotify(c, d)
ClLoseConnection(c) == InLoseConnection(c)
ClResumeKeys(c) == InResumeKeys(c)
ClResumePairs(c) == InResumePairs(c)
ClResumeSend(c) == InResumeSend(c)

(* Mutant: the client need not be registered. *)
Mut_PairwisePubkey(c, k) ==
  /\ Reads(c) /\ used.faults < MaxFaults /\ Spare
  /\ used' = [used EXCEPT !.faults = @ + 1]
  /\ key' = [key EXCEPT ![c] = k]
  /\ UNCHANGED <<round, clients, secret, chunks, completed, dropouts, stage,
                 tasks, up, pos, keyed, published, server, cts>>

(* _handle_pairwise_pubkey: public_key := payload, whatever it is, for a   *)
(* client that is registered.  The writer is the one it has.               *)
ClPairwisePubkey(c, k) ==
  /\ Reads(c) /\ used.faults < MaxFaults /\ Spare
  /\ used' = [used EXCEPT !.faults = @ + 1]
  /\ key' = IF c \in Registered THEN [key EXCEPT ![c] = k] ELSE key
  /\ UNCHANGED <<round, clients, secret, chunks, completed, dropouts, stage,
                 tasks, up, pos, keyed, published, server, cts>>

(* _handle_pairwise_ciphertext: the first 32 bytes of the payload become   *)
(* the shared secret.                                                      *)
ClPairwiseCiphertext(c) ==
  /\ Reads(c) /\ used.faults < MaxFaults /\ Spare
  /\ used' = [used EXCEPT !.faults = @ + 1]
  /\ secret' = secret \cup ({c} \cap Registered)
  /\ UNCHANGED <<round, clients, key, chunks, completed, dropouts, stage, tasks,
                 up, pos, keyed, published, server, cts>>

NextClassical ==
  \/ ClRoundInit
  \/ \E c \in Clients :
       \/ \E k \in Keys : ClPublicKey(c, k) \/ ClPairwisePubkey(c, k)
       \/ ClMaskChunk(c) \/ ClClientComplete(c)
       \/ \E d \in Clients : ClDropoutNotify(c, d)
       \/ ClPairwiseCiphertext(c) \/ ClLoseConnection(c)
       \/ ClResumeKeys(c) \/ ClResumePairs(c) \/ ClResumeSend(c)

NextServers ==
  \/ server = "incoming" /\ NextIncoming
  \/ server = "classical" /\ NextClassical

SpecServers == InitServers /\ [][NextServers]_svars

-----------------------------------------------------------------------------
(***************************************************************************)
(* Properties (and AggregateIsWhole and ServiceSpec of Bridge)             *)
(***************************************************************************)

(* However many tasks run _setup_keys_and_masks at once, stopped at any of *)
(* the drains of its three loops, and whatever keys are replaced there, no *)
(* client is encapsulated for twice: a second KEM_CIPHERTEXT would replace *)
(* the secret the client has derived from the first.                       *)
OneCiphertextEach == \A c \in Clients : cts[c] <= 1

(* The incoming side, where no key is ever replaced, leaves a counted      *)
(* client out of the sum only when it registered with an empty key: a      *)
(* dropped client with a secret stays in the sum.                          *)
IncomingSkipsKeyless == server = "incoming" => OnlyKeylessSkipped
=============================================================================
