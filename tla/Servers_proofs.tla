--------------------------- MODULE Servers_proofs ---------------------------
(***************************************************************************)
(* Proofs about Servers, for every set of clients, threshold, number of    *)
(* chunks and number of faults.  The invariant of Bridge_proofs is kept by *)
(* these servers too; it is extended by the sizes of their loops, which    *)
(* keep the pair loops inside the dict (LoopSizes), and by what a written  *)
(* ciphertext goes with (CtsInv).                                          *)
(***************************************************************************)
EXTENDS Servers, Bridge_proofs

(* A ciphertext is written once, and with the secret stored. *)
CtsInv ==
  /\ cts \in [Clients -> Nat]
  /\ \A c \in Clients : cts[c] = 0 \/ (cts[c] = 1 /\ c \in secret)

SInv == IInv /\ LoopSizes /\ CtsInv /\ server \in {"incoming", "classical"}

(* What a step of a task has to keep *)
TaskStep == TaskTypes' /\ TaskInv' /\ ServiceStep /\ LoopSizes' /\ CtsInv'

-----------------------------------------------------------------------------
USE DEF PCs, Loops, KeyLoops, published

(* A step that writes no ciphertext *)
LEMMA CtsStays ==
  ASSUME CtsInv, secret \subseteq secret', cts' = cts
  PROVE  CtsInv'
  BY DEF CtsInv

(* A task that ends, or goes on reading *)
LEMMA QuietStep ==
  ASSUME IInv, LoopSizes, CtsInv, Growing, NEW c \in Clients, Die(c) \/ Stays,
         stage' \in Stages, UNCHANGED <<secret, keyed, published, cts>>
  PROVE  TaskStep
<1>1. TaskTypes' /\ TaskInv' /\ ServiceStep
  BY QuietKeeps DEF IInv
<1>2. LoopSizes'
  BY DEF LoopSizes, Growing, Die, Stays
<1>3. CtsInv'
  BY CtsStays
<1>. QED  BY <1>1, <1>2, <1>3 DEF TaskStep

(* The completed clients a server does not unmask were reported dropped,   *)
(* so what it publishes counts all completed clients.                      *)
LEMMA UnmaskKeeps ==
  ASSUME IInv, LoopSizes, CtsInv, Growing, Checked', NEW c \in Clients,
         UnmaskAndAggregate(c), UNCHANGED <<secret, keyed, cts>>
  PROVE  TaskStep
<1>0. TableTypes /\ TaskTypes /\ TaskInv /\ Len(clients) \in Nat
  BY DEF IInv, TableTypes
<1>1. CASE Die(c) /\ stage' = "MASK_SETUP" /\ UNCHANGED published
  <2>1. stage' \in Stages
    BY <1>1 DEF Stages
  <2>. QED  BY <1>1, <2>1, QuietStep
<1>2. CASE /\ stage' = "ROUND_COMPLETE"
           /\ agg' = completed' \cap UnmaskClientChunks(dropouts')
           /\ skipped' = completed' \ agg'
           /\ WriteResult(c, 1, 0, Len(clients))
  <2>1. Counted' = completed' /\ agg' \cap skipped' = {}
    BY <1>2 DEF Counted
  <2>2. skipped' \subseteq dropouts'
    BY <1>2 DEF UnmaskClientChunks, Growing
  <2>3. TaskTypes' /\ TaskInv' /\ ServiceStep
    BY <1>0, <1>2, <2>1, <2>2, PublishKeeps
  <2>4. size' = [size EXCEPT ![c] = Len(clients)]
    BY <1>2 DEF WriteResult, AwaitDrain
  <2>5. LoopSizes'
    BY <1>0, <2>4 DEF LoopSizes, Growing, TaskTypes
  <2>6. CtsInv'
    BY CtsStays
  <2>. QED  BY <2>3, <2>5, <2>6 DEF TaskStep
<1>. QED  BY <1>1, <1>2 DEF UnmaskAndAggregate

(* A task encapsulates for a client that has no secret yet. *)
LEMMA EncapsulateKeeps ==
  ASSUME IInv, LoopSizes, CtsInv, Growing, Checked', NEW c \in Clients,
         NEW p \in KeyLoops, NEW j \in 1..Len(clients), clients[j] \notin secret,
         NEW q \in Nat, NEW n \in Nat, n <= Len(clients), Encapsulate(c, p, j, q, n)
  PROVE  TaskStep
<1>0. /\ TableTypes /\ TaskTypes /\ TaskInv /\ Len(clients) \in Nat
      /\ clients[j] \in Clients
  BY DEF IInv, TableTypes
<1>1. stage' \in Stages /\ UNCHANGED published
  BY <1>0 DEF Encapsulate, TaskTypes, Stages
<1>2. CASE Die(c) /\ UNCHANGED <<secret, keyed, cts>>
  BY <1>1, <1>2, QuietStep
<1>3. CASE /\ secret' = secret \cup {clients[j]}
           /\ keyed' = keyed \cup ({clients[j]} \cap up)
           /\ cts' = [cts EXCEPT ![clients[j]] = @ + 1]
           /\ AwaitDrain(c, p, j, q, n)
  <2>1. TaskTypes' /\ TaskInv' /\ ServiceStep
    BY <1>0, <1>1, <1>3, KeyDrainKeeps
  <2>2. size' = [size EXCEPT ![c] = n]
    BY <1>3 DEF AwaitDrain
  <2>3. LoopSizes'
    BY <1>0, <2>2 DEF LoopSizes, Growing, TaskTypes
  <2>4. cts[clients[j]] = 0
    BY <1>0 DEF CtsInv
  <2>5. CtsInv'
    BY <1>0, <1>3, <2>4 DEF CtsInv
  <2>. QED  BY <2>1, <2>3, <2>5 DEF TaskStep
<1>. QED  BY <1>2, <1>3 DEF Encapsulate

(* The two ends of a pair are positions in the dict. *)
LEMMA PairEnds ==
  ASSUME Len(clients) \in Nat, NEW n \in Nat, n <= Len(clients), NEW p \in PairsOf(n)
  PROVE  /\ Initiator(p) \in 1..Len(clients) /\ Responder(p) \in 1..Len(clients)
         /\ {p[1], p[2]} = {Initiator(p), Responder(p)}
         /\ PairNo(p, n) \in Nat
<1>1. p[1] \in 1..n /\ p[2] \in 1..n
  BY DEF PairsOf
<1>2. p[1] \in 1..Len(clients) /\ p[2] \in 1..Len(clients)
  BY <1>1
<1>3. (p[1] - 1) * n \in Nat
  <2>. DEFINE a == p[1] - 1
  <2>1. a \in Nat
    BY <1>1
  <2>. HIDE DEF a
  <2>2. a * n \in Nat
    BY <2>1
  <2>. QED  BY <2>2 DEF a
<1>4. PairNo(p, n) \in Nat
  BY <1>1, <1>3 DEF PairNo
<1>. QED  BY <1>2, <1>4 DEF Initiator, Responder

(* The client a pair loop works for has no secret. *)
LEMMA WorkKeeps ==
  ASSUME IInv, LoopSizes, CtsInv, Growing, Checked', NEW c \in Clients,
         NEW l \in KeyLoops, NEW k, NEW n \in Nat, n <= Len(clients),
         WorkOnPair(c, l, k, n)
  PROVE  TaskStep
<1>0. Len(clients) \in Nat
  BY DEF IInv, TableTypes
<1>. DEFINE end(p) == IF clients[Initiator(p)] \notin secret THEN Initiator(p)
                                                            ELSE Responder(p)
<1>1. PICK p \in OpenPairs(k, n) : Encapsulate(c, l, end(p), PairNo(p, n), n)
  BY DEF WorkOnPair
<1>2. p \in PairsOf(n) /\ ~({clients[p[1]], clients[p[2]]} \subseteq secret)
  BY DEF OpenPairs
<1>3. /\ Initiator(p) \in 1..Len(clients) /\ Responder(p) \in 1..Len(clients)
      /\ {p[1], p[2]} = {Initiator(p), Responder(p)}
      /\ PairNo(p, n) \in Nat
  BY <1>0, <1>2, PairEnds
<1>4. end(p) \in 1..Len(clients) /\ clients[end(p)] \notin secret
  BY <1>2, <1>3
<1>. HIDE DEF end
<1>. QED  BY <1>1, <1>3, <1>4, EncapsulateKeeps

(* The pair loops, entered or resumed at any place *)
LEMMA PairLoopsKeep ==
  ASSUME IInv, LoopSizes, CtsInv, Growing, Checked', NEW c \in Clients,
         NEW k, NEW n \in Nat, n <= Len(clients),
         OrchestratePairwiseKem(c, k, n) \/ PairLoop(c, k, n)
  PROVE  TaskStep
<1>0. Len(clients) \in Nat
  BY DEF IInv, TableTypes
<1>1. CASE UnmaskAndAggregate(c) /\ UNCHANGED <<secret, keyed, cts>>
  BY <1>1, UnmaskKeeps
<1>2. ASSUME NEW l \in KeyLoops, NEW i, NEW m \in Nat, m <= Len(clients),
             WorkOnPair(c, l, i, m)
      PROVE  TaskStep
  BY <1>2, WorkKeeps
<1>3. ASSUME NEW i, NEW m \in Nat, m <= Len(clients), OrchestratePairwiseKem(c, i, m)
      PROVE  TaskStep
  BY <1>1, <1>2, <1>3 DEF OrchestratePairwiseKem
<1>. QED  BY <1>0, <1>2, <1>3 DEF PairLoop

(* The key loop, entered or resumed at i *)
LEMMA SetupMasksKeep ==
  ASSUME IInv, LoopSizes, CtsInv, Growing, Checked', NEW c \in Clients,
         NEW i \in Nat \ {0}, SetupKeysAndMasks(c, i)
  PROVE  TaskStep
<1>0. Len(clients) \in Nat
  BY DEF IInv, TableTypes
<1>1. CASE PairLoop(c, 1, Len(clients))
  BY <1>0, <1>1, PairLoopsKeep
<1>2. ASSUME NEW j \in Pending(i), Encapsulate(c, "keys", j, 0, Len(clients))
      PROVE  TaskStep
  <2>1. j \in 1..Len(clients) /\ clients[j] \notin secret /\ "keys" \in KeyLoops
    BY <1>0 DEF Pending
  <2>. QED  BY <1>0, <1>2, <2>1, EncapsulateKeeps
<1>. QED  BY <1>1, <1>2 DEF SetupKeysAndMasks

(* _check_round_completion of both servers, whatever it decides *)
LEMMA CheckMasksKeep ==
  ASSUME IInv, LoopSizes, CtsInv, Growing, NEW c \in Clients, CheckCompletion(c)
  PROVE  TaskStep
<1>. DEFINE surviving == Expected - Cardinality(dropouts')
<1>0. completed' \subseteq Clients /\ dropouts' \subseteq Clients
  BY RegisteredClients DEF IInv, TableTypes, Growing
<1>1. /\ Cardinality(completed') \in Nat /\ Cardinality(dropouts') \in Nat
      /\ Expected \in Nat /\ Threshold \in Nat
  BY <1>0, ClientSets, BridgeAssumption
<1>2. CASE /\ Cardinality(completed') >= surviving /\ surviving >= Threshold
           /\ SetupKeysAndMasks(c, 1)
  <2>1. Checked'
    BY <1>1, <1>2 DEF Checked
  <2>. QED  BY <1>2, <2>1, SetupMasksKeep
<1>3. CASE /\ Die(c) \/ Stays
           /\ stage' \in Stages /\ UNCHANGED <<secret, keyed, published, cts>>
  BY <1>3, QuietStep
<1>. QED  BY <1>2, <1>3 DEF CheckCompletion, Fail, Stages, IInv, TaskTypes

-----------------------------------------------------------------------------
(***************************************************************************)
(* The actions                                                             *)
(***************************************************************************)

(* CLIENT_COMPLETE *)
LEMMA InCompleteKeeps ==
  ASSUME SInv, NEW c \in Clients, InClientComplete(c)
  PROVE  SInv' /\ ServiceStep
<1>0. IInv /\ LoopSizes /\ CtsInv /\ TableTypes /\ TaskTypes /\ TaskInv /\ Scripted
  BY DEF SInv, IInv
<1>1. completed' = IF c \in Registered THEN completed \cup {c} ELSE completed
  BY DEF InClientComplete
<1>2. TableTypes' /\ Scripted' /\ Growing
  BY <1>0, <1>1, CompleteTable DEF InClientComplete
<1>3. TaskStep
  <2>1. CASE c \in Registered
    BY <1>0, <1>2, <2>1, CheckMasksKeep DEF InClientComplete
  <2>2. CASE c \notin Registered
    <3>1. UNCHANGED <<stage, secret, completed, tasks, up, keyed, published, cts>>
      BY <2>2 DEF InClientComplete
    <3>2. stage' \in Stages /\ Stays
      BY <1>0, <3>1 DEF TaskTypes, Stays, tasks
    <3>. QED  BY <1>0, <1>2, <3>1, <3>2, QuietStep
  <2>. QED  BY <2>1, <2>2
<1>. QED  BY <1>2, <1>3 DEF SInv, IInv, TaskStep, InClientComplete

(* DROPOUT_NOTIFY *)
LEMMA InNotifyKeeps ==
  ASSUME SInv, NEW c \in Clients, NEW d \in Clients, InDropoutNotify(c, d)
  PROVE  SInv' /\ ServiceStep
<1>0. IInv /\ LoopSizes /\ CtsInv /\ TableTypes /\ TaskTypes /\ TaskInv /\ Scripted
  BY DEF SInv, IInv
<1>1. TableTypes' /\ Scripted' /\ Growing
  BY <1>0, NotifyTable DEF InDropoutNotify
<1>2. CASE Die(c) /\ UNCHANGED <<stage, secret, keyed, published, cts>>
  <2>1. stage' \in Stages
    BY <1>0, <1>2 DEF TaskTypes
  <2>2. TaskStep
    BY <1>0, <1>1, <1>2, <2>1, QuietStep
  <2>. QED  BY <1>1, <2>2 DEF SInv, IInv, TaskStep, InDropoutNotify
<1>3. CASE CheckCompletion(c)
  <2>1. TaskStep
    BY <1>0, <1>1, <1>3, CheckMasksKeep
  <2>. QED  BY <1>1, <2>1 DEF SInv, IInv, TaskStep, InDropoutNotify
<1>. QED  BY <1>2, <1>3 DEF InDropoutNotify

(* The drain of a ciphertext, in any of the three loops, is over. *)
LEMMA InDrainsKeep ==
  ASSUME SInv, NEW c \in Clients, InResumeKeys(c) \/ InResumePairs(c)
  PROVE  SInv' /\ ServiceStep
<1>0. IInv /\ LoopSizes /\ CtsInv /\ TableTypes /\ TaskTypes /\ TaskInv /\ Scripted
  BY DEF SInv, IInv
<1>1. /\ pc[c] \in KeyLoops
      /\ UNCHANGED <<round, clients, key, chunks, completed, dropouts, pos, used,
                     server>>
  BY DEF InResumeKeys, InResumePairs
<1>2. Registered' = Registered
  BY <1>1 DEF Registered
<1>3. TableTypes' /\ Scripted' /\ Growing
  BY <1>0, <1>1, <1>2 DEF TableTypes, Scripted, Growing
<1>4. Checked'
  BY <1>0, <1>1, <1>3, CheckedStays DEF TaskInv, Enough
<1>5. at[c] + 1 \in Nat \ {0} /\ size[c] \in Nat /\ seq[c] \in Nat
  BY <1>0 DEF TaskTypes
<1>6. size[c] <= Len(clients) /\ Len(clients) \in Nat
  BY <1>0 DEF LoopSizes, TableTypes
<1>7. TaskStep
  <2>1. CASE Die(c) /\ UNCHANGED <<stage, secret, keyed, published, cts>>
    <3>1. stage' \in Stages
      BY <1>0, <2>1 DEF TaskTypes
    <3>. QED  BY <1>0, <1>3, <2>1, <3>1, QuietStep
  <2>2. CASE SetupKeysAndMasks(c, at[c] + 1)
    BY <1>0, <1>3, <1>4, <1>5, <2>2, SetupMasksKeep
  <2>3. ASSUME NEW p \in PairsOf(size[c]), clients[Responder(p)] \notin secret,
               Encapsulate(c, pc[c], Responder(p), seq[c], size[c])
        PROVE  TaskStep
    <3>1. Responder(p) \in 1..Len(clients)
      BY <1>5, <1>6, PairEnds
    <3>. QED  BY <1>0, <1>1, <1>3, <1>4, <1>5, <1>6, <2>3, <3>1, EncapsulateKeeps
  <2>4. CASE \/ PairLoop(c, seq[c] + 1, size[c])
             \/ OrchestratePairwiseKem(c, seq[c] + 1, size[c])
    BY <1>0, <1>3, <1>4, <1>5, <1>6, <2>4, PairLoopsKeep
  <2>. QED  BY <2>1, <2>2, <2>3, <2>4 DEF InResumeKeys, InResumePairs
<1>. QED  BY <1>1, <1>3, <1>7 DEF SInv, IInv, TaskStep

(* The actions shared with Bridge *)
LEMMA SharedActions ==
  ASSUME SInv, NEW c \in Clients,
         \/ \E k \in Keys : InPublicKey(c, k)
         \/ InRoundInit \/ InMaskChunk(c)
         \/ InPairwise(c) \/ InLoseConnection(c) \/ InResumeSend(c)
  PROVE  SInv' /\ ServiceStep
<1>0. /\ IInv /\ LoopSizes /\ CtsInv /\ TaskTypes
      /\ clients \in Seq(Clients) /\ Len(clients) \in Nat
  BY DEF SInv, IInv, TableTypes
<1>. SUFFICES /\ IInv' /\ ServiceStep /\ LoopSizes'
              /\ secret' = secret /\ UNCHANGED <<server, cts>>
  BY <1>0, CtsStays DEF SInv
<1>1. CASE InRoundInit
  <2>1. IInv' /\ ServiceStep
    BY <1>0, <1>1, RoundInitInv DEF InRoundInit
  <2>. QED
    BY <1>0, <1>1, <2>1 DEF InRoundInit, HandleRoundInit, LoopSizes, tasks
<1>2. ASSUME NEW k \in Keys, InPublicKey(c, k)
      PROVE  /\ IInv' /\ ServiceStep /\ LoopSizes'
             /\ secret' = secret /\ UNCHANGED <<server, cts>>
  <2>1. IInv' /\ ServiceStep
    BY <1>0, <1>2, PublicKeyInv DEF InPublicKey
  <2>2. UNCHANGED <<secret, size, server, cts>>
    BY <1>2 DEF InPublicKey, HandlePublicKey, tasks
  <2>3. clients' = clients \/ clients' = Append(clients, c)
    BY <1>2 DEF InPublicKey, HandlePublicKey
  <2>4. Len(clients) <= Len(clients') /\ Len(clients') \in Nat
    BY <1>0, <2>3
  <2>5. LoopSizes'
    BY <1>0, <2>2, <2>4 DEF LoopSizes, TaskTypes
  <2>. QED  BY <2>1, <2>2, <2>5
<1>3. CASE InMaskChunk(c)
  <2>1. IInv' /\ ServiceStep
    BY <1>0, <1>3, MaskChunkInv DEF InMaskChunk
  <2>. QED
    BY <1>0, <1>3, <2>1 DEF InMaskChunk, HandleMaskChunk, LoopSizes, tasks
<1>4. CASE InPairwise(c)
  <2>1. IInv' /\ ServiceStep
    BY <1>0, <1>4, PairwiseInv DEF InPairwise
  <2>. QED
    BY <1>0, <1>4, <2>1 DEF InPairwise, HandlePairwise, Die, LoopSizes, table
<1>5. CASE InLoseConnection(c)
  <2>1. IInv' /\ ServiceStep
    BY <1>0, <1>5, LoseConnectionInv DEF InLoseConnection
  <2>. QED
    BY <1>0, <1>5, <2>1 DEF InLoseConnection, LoseConnection, LoopSizes, table
<1>6. CASE InResumeSend(c)
  <2>1. IInv' /\ ServiceStep
    BY <1>0, <1>6, ResumeSendInv DEF InResumeSend
  <2>2. UNCHANGED table /\ UNCHANGED <<server, cts>>
    BY <1>6 DEF InResumeSend, ResumeSend
  <2>3. size' = size
    BY <1>0, <1>6 DEF InResumeSend, ResumeSend, WriteResult, AwaitDrain, Die, TaskTypes
  <2>. QED  BY <1>0, <2>1, <2>2, <2>3 DEF LoopSizes, table
<1>. QED  BY <1>1, <1>2, <1>3, <1>4, <1>5, <1>6

(* The pairwise handlers of the classical server *)
LEMMA PairwiseHandlersKeep ==
  ASSUME SInv, NEW c \in Clients,
         ClPairwiseCiphertext(c) \/ \E k \in Keys : ClPairwisePubkey(c, k)
  PROVE  SInv' /\ ServiceStep
<1>0. /\ TableTypes /\ TaskTypes /\ TaskInv /\ Scripted /\ LoopSizes /\ CtsInv
      /\ key \in [Clients -> Keys \cup {"none"}]
  BY DEF SInv, IInv, TableTypes
<1>1. /\ used.faults < MaxFaults /\ used' = [used EXCEPT !.faults = @ + 1]
      /\ UNCHANGED <<round, clients, chunks, completed, dropouts, stage, tasks,
                     up, pos, keyed, published, server, cts>>
      /\ secret \subseteq secret' /\ secret' \subseteq secret \cup Registered
      /\ \/ key' = key
         \/ c \in Registered /\ \E k \in Keys : key' = [key EXCEPT ![c] = k]
  BY DEF ClPairwiseCiphertext, ClPairwisePubkey
<1>2. used \in UsedType /\ MaxFaults \in Nat
  BY <1>0, BridgeAssumption DEF TableTypes
<1>3. used' \in UsedType
  BY <1>1, <1>2 DEF UsedType
<1>4. Registered' = Registered
  BY <1>1 DEF Registered
<1>5. /\ key' \in [Clients -> Keys \cup {"none"}]
      /\ \A d \in Clients : key'[d] # "none" <=> key[d] # "none"
  <2>1. \A d \in Registered : d \in Clients => key[d] # "none"
    BY <1>0 DEF TableTypes
  <2>. QED  BY <1>0, <1>1, <2>1 DEF Keys
<1>6. TableTypes'
  BY <1>0, <1>1, <1>3, <1>4, <1>5 DEF TableTypes
<1>7. Scripted' /\ TaskTypes'
  BY <1>0, <1>1, <1>4 DEF Scripted, TaskTypes, tasks
<1>8. Counted' = Counted
  BY <1>1 DEF Counted
<1>9. TaskInv' /\ ServiceStep
  BY <1>0, <1>1, <1>8 DEF TaskInv, Enough, Checked, Placed, Sending, Published,
                          ServiceStep, tasks
<1>10. LoopSizes' /\ CtsInv'
  BY <1>0, <1>1, CtsStays DEF LoopSizes, tasks
<1>. QED  BY <1>1, <1>6, <1>7, <1>9, <1>10 DEF SInv, IInv

(* The invariant holds initially. *)
LEMMA ServersInit == InitServers => SInv /\ Service!Init
<1>. SUFFICES ASSUME InitServers PROVE SInv /\ Service!Init
  OBVIOUS
<1>1. IInv /\ Service!Init
  BY InitInv DEF InitServers
<1>2. LoopSizes /\ CtsInv
  BY DEF InitServers, Init, LoopSizes, CtsInv
<1>. QED  BY <1>1, <1>2 DEF SInv, InitServers

(* Every step of either server keeps it, and is a step of the service. *)
LEMMA ServersNext == SInv /\ [NextServers]_svars => SInv' /\ ServiceStep
<1>. SUFFICES ASSUME SInv, [NextServers]_svars PROVE SInv' /\ ServiceStep
  OBVIOUS
<1>1. CASE UNCHANGED svars
  <2>1. UNCHANGED vars /\ UNCHANGED <<server, cts>>
    BY <1>1 DEF svars
  <2>2. IInv' /\ ServiceStep
    BY <2>1, NextInv DEF SInv
  <2>3. LoopSizes' /\ CtsInv'
    BY <2>1 DEF SInv, LoopSizes, CtsInv, vars, table, tasks
  <2>. QED  BY <2>1, <2>2, <2>3 DEF SInv
<1>2. CASE InRoundInit
  <2>1. IInv' /\ ServiceStep
    BY <1>2, RoundInitInv DEF InRoundInit, SInv
  <2>2. LoopSizes' /\ CtsInv' /\ server' = server
    BY <1>2 DEF InRoundInit, HandleRoundInit, SInv, LoopSizes, CtsInv, tasks
  <2>. QED  BY <2>1, <2>2 DEF SInv
<1>3. ASSUME NEW c \in Clients,
             \/ \E k \in Keys : InPublicKey(c, k)
             \/ InMaskChunk(c) \/ InPairwise(c)
             \/ InLoseConnection(c) \/ InResumeSend(c)
      PROVE  SInv' /\ ServiceStep
  BY <1>3, SharedActions
<1>4. ASSUME NEW c \in Clients, InClientComplete(c) \/ InResumeKeys(c) \/ InResumePairs(c)
      PROVE  SInv' /\ ServiceStep
  BY <1>4, InCompleteKeeps, InDrainsKeep
<1>5. ASSUME NEW c \in Clients, NEW d \in Clients, InDropoutNotify(c, d)
      PROVE  SInv' /\ ServiceStep
  BY <1>5, InNotifyKeeps
<1>6. ASSUME NEW c \in Clients,
             ClPairwiseCiphertext(c) \/ \E k \in Keys : ClPairwisePubkey(c, k)
      PROVE  SInv' /\ ServiceStep
  BY <1>6, PairwiseHandlersKeep
<1>7. CASE NextIncoming
  BY <1>7, <1>2, <1>3, <1>4, <1>5 DEF NextIncoming
<1>8. CASE NextClassical
  BY <1>8, <1>2, <1>3, <1>4, <1>5, <1>6
     DEF NextClassical, ClRoundInit, ClPublicKey, ClMaskChunk, ClClientComplete,
         ClDropoutNotify, ClLoseConnection, ClResumeKeys, ClResumePairs,
         ClResumeSend
<1>. QED  BY <1>1, <1>7, <1>8 DEF NextServers

(* The invariant holds in every reachable state. *)
LEMMA ServersInductive == SpecServers => []SInv
  BY ServersInit, ServersNext, PTL DEF SpecServers

-----------------------------------------------------------------------------
(* The state of both servers keeps its types: the pair loops, too, stay    *)
(* inside the dict, and a key is only ever set for a registered client.    *)
THEOREM ServersTypeCorrect == SpecServers => []ServersTypeOK
<1>1. SInv => ServersTypeOK
  BY TypeParts DEF SInv, IInv, ServersTypeOK, CtsInv
<1>. QED  BY <1>1, ServersInductive, PTL

(* What either server publishes counts enough completed clients, although  *)
(* it is averaged after the drains of three loops, at which keys are       *)
(* replaced and clients are added, completed and reported dropped; it      *)
(* leaves out reported ones only.                                          *)
THEOREM ServersAggregateWhole == SpecServers => []AggregateIsWhole
<1>1. SInv => AggregateIsWhole
  BY InvWhole DEF SInv
<1>. QED  BY <1>1, ServersInductive, PTL

(* Both servers implement the round service. *)
THEOREM ServersImplementService == SpecServers => ServiceSpec
  BY ServersInit, ServersNext, PTL
     DEF SpecServers, ServiceSpec, Service!Spec, ServiceStep

(* However many tasks of a server set up keys at once, no client is        *)
(* encapsulated for twice.                                                 *)
THEOREM OneCiphertext == SpecServers => []OneCiphertextEach
<1>1. SInv => OneCiphertextEach
  BY DEF SInv, CtsInv, OneCiphertextEach
<1>. QED  BY <1>1, ServersInductive, PTL

-----------------------------------------------------------------------------
(***************************************************************************)
(* The incoming side replaces no key, so that what its key loop has passed *)
(* stays passed and its pair loops find nothing to do.                     *)
(***************************************************************************)

(* A loop over all clients finds every key used: no pair is open. *)
LEMMA NoOpenPair ==
  ASSUME Len(clients) \in Nat, NEW i \in Nat \ {0}, Passed(i), Pending(i) = {},
         NEW k, NEW n \in Nat, n <= Len(clients)
  PROVE  /\ OpenPairs(k, n) = {}
         /\ \A j \in 1..Len(clients) :
              clients[j] \in secret \/ key[clients[j]] = "empty"
<1>1. ASSUME NEW j \in 1..Len(clients)
      PROVE  clients[j] \in secret \/ key[clients[j]] = "empty"
  <2>1. CASE j < i
    BY <2>1 DEF Passed
  <2>2. CASE j \in i..Len(clients)
    BY <2>2 DEF Pending
  <2>. QED  BY <2>1, <2>2
<1>2. ASSUME NEW p \in OpenPairs(k, n) PROVE FALSE
  <2>1. p[1] \in 1..Len(clients) /\ p[2] \in 1..Len(clients)
    BY DEF OpenPairs, PairsOf
  <2>. QED  BY <1>1, <2>1 DEF OpenPairs
<1>. QED  BY <1>1, <1>2

(* The key loop from a position up to which it has passed the clients *)
LEMMA SetupMasksPassed ==
  ASSUME IInv, KeyInv, Growing, key' = key, NEW c \in Clients,
         NEW i \in Nat \ {0}, Passed(i), SetupKeysAndMasks(c, i)
  PROVE  KeyInv'
<1>0. Len(clients) \in Nat /\ TaskTypes
  BY DEF IInv, TableTypes
<1>1. ASSUME Die(c), secret' = secret, skipped' = skipped PROVE KeyInv'
  <2>1. \A d \in Clients : pc'[d] = "keys" => pc[d] = "keys"
    BY <1>0, <1>1 DEF Die, TaskTypes
  <2>. QED  BY <1>1, <2>1, KeysStay DEF Die, Growing
<1>2. CASE Pending(i) = {}
  <2>1. /\ OpenPairs(1, Len(clients)) = {}
        /\ \A j \in 1..Len(clients) :
             clients[j] \in secret \/ key[clients[j]] = "empty"
    BY <1>0, <1>2, NoOpenPair
  <2>2. UnmaskAndAggregate(c) /\ secret' = secret
    BY <1>2, <2>1 DEF SetupKeysAndMasks, PairLoop, OrchestratePairwiseKem, WorkOnPair
  <2>3. CASE Die(c) /\ UNCHANGED published
    BY <1>1, <2>2, <2>3
  <2>4. CASE /\ agg' = completed' \cap UnmaskClientChunks(dropouts')
             /\ skipped' = completed' \ agg'
             /\ WriteResult(c, 1, 0, Len(clients))
    <3>1. \A d \in skipped' : d \in Registered /\ d \notin secret
      BY <2>4 DEF UnmaskClientChunks, Growing
    <3>2. \A d \in skipped' : key[d] = "empty"
      BY <2>1, <3>1 DEF Registered
    <3>3. /\ pc'[c] = "send" /\ size'[c] = Len(clients)
          /\ \A d \in Clients \ {c} :
               pc'[d] = pc[d] /\ at'[d] = at[d] /\ size'[d] = size[d]
      BY <1>0, <2>4 DEF WriteResult, AwaitDrain, TaskTypes
    <3>4. LoopSizes'
      BY <1>0, <3>3 DEF KeyInv, LoopSizes, Growing
    <3>5. LoopsPassed'
      BY <2>2, <3>3 DEF KeyInv, LoopsPassed, Passed, Growing
    <3>. QED  BY <3>2, <3>4, <3>5 DEF KeyInv, OnlyKeylessSkipped
  <2>. QED  BY <2>2, <2>3, <2>4 DEF UnmaskAndAggregate
<1>3. ASSUME NEW j \in Pending(i), \A k \in Pending(i) : j <= k,
             Encapsulate(c, "keys", j, 0, Len(clients))
      PROVE  KeyInv'
  <2>1. skipped' = skipped
    BY <1>3 DEF Encapsulate
  <2>2. CASE Die(c) /\ UNCHANGED <<secret, keyed, cts>>
    BY <1>1, <2>1, <2>2
  <2>3. CASE /\ secret' = secret \cup {clients[j]}
             /\ AwaitDrain(c, "keys", j, 0, Len(clients))
    <3>1. /\ pc'[c] = "keys" /\ size'[c] = Len(clients) /\ at'[c] = j
          /\ \A d \in Clients \ {c} :
               pc'[d] = pc[d] /\ at'[d] = at[d] /\ size'[d] = size[d]
      BY <1>0, <2>3 DEF AwaitDrain, TaskTypes
    <3>2. LoopSizes'
      BY <1>0, <3>1 DEF KeyInv, LoopSizes, Growing
    <3>3. \A l \in 1..Len(clients) :
            l < j + 1 => clients[l] \in secret' \/ key[clients[l]] = "empty"
      <4>. SUFFICES ASSUME NEW l \in 1..Len(clients), l < j + 1
                    PROVE  clients[l] \in secret' \/ key[clients[l]] = "empty"
        OBVIOUS
      <4>0. j \in i..Len(clients)
        BY DEF Pending
      <4>1. CASE l < i
        BY <2>3, <4>1 DEF Passed
      <4>2. CASE l = j
        BY <2>3, <4>2
      <4>3. CASE l \in i..Len(clients) /\ ~(j <= l)
        BY <1>3, <2>3, <4>3 DEF Pending
      <4>. QED  BY <1>0, <4>0, <4>1, <4>2, <4>3
    <3>4. LoopsPassed'
      BY <2>3, <3>1, <3>3 DEF KeyInv, LoopsPassed, Passed, Growing
    <3>. QED  BY <2>1, <3>2, <3>4 DEF KeyInv, OnlyKeylessSkipped
  <2>. QED  BY <1>3, <2>2, <2>3 DEF Encapsulate
<1>. QED  BY <1>2, <1>3 DEF SetupKeysAndMasks

(* A check starts the key loop at the first client. *)
LEMMA CheckMasksPassed ==
  ASSUME IInv, KeyInv, Growing, key' = key, NEW c \in Clients, CheckCompletion(c)
  PROVE  KeyInv'
<1>1. CASE SetupKeysAndMasks(c, 1)
  <2>1. Passed(1)
    BY DEF Passed, IInv, TableTypes
  <2>. QED  BY <1>1, <2>1, SetupMasksPassed
<1>2. CASE (Die(c) \/ Stays) /\ UNCHANGED <<secret, keyed, published>>
  <2>1. \A d \in Clients : pc'[d] = "keys" => pc[d] = "keys"
    BY <1>2 DEF Die, Stays, IInv, TaskTypes
  <2>. QED  BY <1>2, <2>1, KeysStay DEF Die, Stays, Growing
<1>. QED  BY <1>1, <1>2 DEF CheckCompletion, Fail

(* Every step of the incoming side keeps KeyInv. *)
LEMMA IncomingStep ==
  ASSUME SInv, KeyInv, NextIncoming
  PROVE  KeyInv'
<1>0. IInv /\ TableTypes /\ TaskTypes /\ Scripted /\ Len(clients) \in Nat
  BY DEF SInv, IInv, TableTypes
<1>1. ASSUME Next PROVE KeyInv'
  BY <1>0, <1>1, KeyStep
<1>2. ASSUME NEW c \in Clients, Die(c) \/ Stays,
             UNCHANGED <<clients, key, secret, skipped>>
      PROVE  KeyInv'
  <2>1. \A d \in Clients : pc'[d] = "keys" => pc[d] = "keys"
    BY <1>0, <1>2 DEF Die, Stays, TaskTypes
  <2>. QED  BY <1>2, <2>1, KeysStay DEF Die, Stays
<1>3. CASE InRoundInit
  BY <1>1, <1>3 DEF InRoundInit, Next
<1>4. ASSUME NEW c \in Clients,
             \/ \E k \in Keys : InPublicKey(c, k)
             \/ InMaskChunk(c) \/ InPairwise(c)
             \/ InLoseConnection(c) \/ InResumeSend(c)
      PROVE  KeyInv'
  <2>1. Next
    BY <1>4 DEF InPublicKey, InMaskChunk, InPairwise, InLoseConnection,
                InResumeSend, Next
  <2>. QED  BY <1>1, <2>1
<1>5. ASSUME NEW c \in Clients, InClientComplete(c) PROVE KeyInv'
  <2>1. completed' = IF c \in Registered THEN completed \cup {c} ELSE completed
    BY <1>5 DEF InClientComplete
  <2>2. Growing
    BY <1>0, <1>5, <2>1, CompleteTable DEF InClientComplete
  <2>3. key' = key
    BY <1>5 DEF InClientComplete
  <2>4. CASE c \in Registered
    BY <1>0, <1>5, <2>2, <2>3, <2>4, CheckMasksPassed DEF InClientComplete
  <2>5. CASE c \notin Registered
    <3>1. Stays /\ UNCHANGED <<clients, key, secret, skipped>>
      BY <1>5, <2>5 DEF InClientComplete, Stays, tasks
    <3>. QED  BY <1>2, <3>1
  <2>. QED  BY <2>4, <2>5
<1>6. ASSUME NEW c \in Clients, NEW d \in Clients, InDropoutNotify(c, d) PROVE KeyInv'
  <2>1. Growing /\ UNCHANGED <<clients, key>>
    BY <1>0, <1>6, NotifyTable DEF InDropoutNotify
  <2>2. CASE Die(c) /\ UNCHANGED <<stage, secret, keyed, published, cts>>
    BY <1>2, <2>1, <2>2
  <2>3. CASE CheckCompletion(c)
    BY <1>0, <2>1, <2>3, CheckMasksPassed
  <2>. QED  BY <1>6, <2>2, <2>3 DEF InDropoutNotify
<1>7. ASSUME NEW c \in Clients, InResumeKeys(c) PROVE KeyInv'
  <2>1. pc[c] = "keys" /\ UNCHANGED <<clients, key, completed, dropouts>>
    BY <1>7 DEF InResumeKeys
  <2>2. CASE Die(c) /\ UNCHANGED <<stage, secret, keyed, published, cts>>
    BY <1>2, <2>1, <2>2
  <2>3. CASE ~Resized(c) /\ SetupKeysAndMasks(c, at[c] + 1)
    <3>1. Growing
      BY <1>0, <2>1 DEF Growing, TableTypes
    <3>2. Passed(at[c] + 1) /\ at[c] + 1 \in Nat \ {0}
      BY <1>0, <2>1, <2>3 DEF KeyInv, LoopsPassed, Resized, TaskTypes
    <3>. QED  BY <1>0, <2>1, <2>3, <3>1, <3>2, SetupMasksPassed
  <2>. QED  BY <1>7, <2>2, <2>3 DEF InResumeKeys
<1>. QED  BY <1>3, <1>4, <1>5, <1>6, <1>7 DEF NextIncoming

(* The incoming side leaves only clients with an empty key out of a sum. *)
THEOREM IncomingLeavesOutKeyless == SpecServers => []IncomingSkipsKeyless
<1>. DEFINE Inv == server = "incoming" => KeyInv
<1>1. InitServers => Inv
  BY DEF InitServers, Init, KeyInv, LoopSizes, LoopsPassed, OnlyKeylessSkipped
<1>2. SInv /\ Inv /\ [NextServers]_svars => Inv'
  <2>. SUFFICES ASSUME SInv, Inv, [NextServers]_svars, server' = "incoming" PROVE KeyInv'
    OBVIOUS
  <2>1. CASE UNCHANGED svars
    BY <2>1, KeysStay DEF svars, vars, table, tasks
  <2>2. CASE server = "incoming" /\ NextIncoming
    BY <2>2, IncomingStep
  <2>3. CASE server = "classical" /\ NextClassical
    <3>1. server' = server
      BY <2>3 DEF NextClassical, ClRoundInit, ClPublicKey, ClMaskChunk,
           ClClientComplete, ClDropoutNotify, ClLoseConnection, ClResumeKeys,
           ClResumePairs, ClResumeSend, ClPairwisePubkey, ClPairwiseCiphertext,
           InRoundInit, InPublicKey, InMaskChunk, InClientComplete,
           InDropoutNotify, InLoseConnection, InResumeKeys, InResumePairs,
           InResumeSend
    <3>. QED  BY <2>3, <3>1
  <2>. QED  BY <2>1, <2>2, <2>3 DEF NextServers
<1>3. Inv => IncomingSkipsKeyless
  BY DEF KeyInv, IncomingSkipsKeyless
<1>. QED  BY <1>1, <1>2, <1>3, ServersInductive, PTL DEF SpecServers
=============================================================================
