-------------------------- MODULE ClientSM_proofs --------------------------
(***************************************************************************)
(* Proofs about ClientSM, for every chunk-index width, peer limit, timeout *)
(* and set of round parameters, and for every content an overrun can leave.*)
(***************************************************************************)
EXTENDS ClientSM, SequenceTheorems, TLAPS

(* A function on an initial segment of the naturals is a sequence. *)
LEMMA SegmentIsSeq ==
  ASSUME NEW S, NEW n \in Nat, NEW f \in [1..n -> S]
  PROVE  f \in Seq(S) /\ Len(f) = n
<1>1. f \in Seq(S)
  BY SeqDef
<1>2. DOMAIN f = 1..n
  OBVIOUS
<1>3. DOMAIN f = 1..Len(f) /\ Len(f) \in Nat
  BY <1>1, LenProperties
<1>. QED  BY <1>1, <1>2, <1>3

(* Appending to a sequence: type, length and elements. *)
LEMMA AppendFacts ==
  ASSUME NEW S, NEW s \in Seq(S), NEW e \in S
  PROVE  /\ Append(s, e) \in Seq(S)
         /\ Len(Append(s, e)) = Len(s) + 1
         /\ Append(s, e)[Len(s) + 1] = e
         /\ \A i \in 1..Len(s) : Append(s, e)[i] = s[i]
  BY LenProperties

(* Integer division and remainder by a positive number *)
LEMMA ModRange ==
  ASSUME NEW a \in Int, NEW b \in Nat \ {0}
  PROVE  a % b \in 0..(b - 1)
  OBVIOUS

(* A quotient by a positive number is an integer. *)
LEMMA DivInt ==
  ASSUME NEW a \in Int, NEW b \in Nat \ {0}
  PROVE  a \div b \in Int
  OBVIOUS

(* A ROUND_INIT message carries round parameters. *)
LEMMA RoundInitPar ==
  ASSUME NEW m \in Message, m.type = "ROUND_INIT"
  PROVE  m.par \in RoundParams
  BY DEF Message

(* Round parameters are numbers and leave well-typed contexts behind. *)
LEMMA ParTypes ==
  ASSUME NEW par \in RoundParams
  PROVE  /\ par.threshold \in Nat
         /\ (par.expected + 255) % 256 \in Nat
         /\ par.size \in Nat
         /\ CeilDiv(par.model, par.size) % IdxMod \in 0..(IdxMod - 1)
<1>1. par \in [expected : 0..255, threshold : 0..255,
               size : Nat \ {0}, model : Nat]
  BY ClientAssumption
<1>2. par.threshold \in Nat /\ par.expected \in Nat /\ par.size \in Nat \ {0}
      /\ par.model \in Nat
  BY <1>1
<1>3. CeilDiv(par.model, par.size) \in Int
  BY <1>2, DivInt DEF CeilDiv
<1>4. CeilDiv(par.model, par.size) % IdxMod \in 0..(IdxMod - 1)
  BY <1>3, ModRange, ClientAssumption
<1>5. (par.expected + 255) % 256 \in Nat
  BY <1>2
<1>. QED  BY <1>2, <1>4, <1>5

(* A pairwise message comes from the server or from the client itself, and *)
(* either is a value that can be a peer id.                                *)
LEMMA PairwiseFrom ==
  ASSUME NEW m \in Message,
         m.type \in {"PAIRWISE_KEM_PUBKEY", "PAIRWISE_KEM_CIPHERTEXT"}
  PROVE  m.from \in PeerIds
  BY ClientAssumption DEF Message

(* MaxAge is a natural number above both timeouts. *)
LEMMA MaxAgeFacts ==
  MaxAge \in Nat /\ MaxAge > StateTimeout /\ MaxAge > DropoutTimeout
  BY ClientAssumption DEF MaxAge

-----------------------------------------------------------------------------
(* Overrun, seed derivation and decapsulation keep a list of peers. *)
LEMMA PeersKept ==
  ASSUME TypeOK
  PROVE  /\ \A i \in 1..Len(peers), ids \in [1..Len(peers) -> PeerIds] :
              Overrun(i, ids) \in Seq(Peer) /\ Len(Overrun(i, ids)) = Len(peers)
         /\ \A p \in PeerIds :
              Len(peers) < MaxPeers =>
                 /\ Append(peers, NewPeer(p)) \in Seq(Peer)
                 /\ Len(Append(peers, NewPeer(p))) <= MaxPeers
         /\ \A q \in Peer : [q EXCEPT !.seed = q.secret] \in Peer
         /\ \A q \in Peer : Decapsulated(q) \in Peer
<1>1. Len(peers) \in Nat /\ \A j \in 1..Len(peers) : peers[j] \in Peer
  BY LenProperties, ElementOfSeq DEF TypeOK
<1>2. ASSUME NEW i \in 1..Len(peers), NEW ids \in [1..Len(peers) -> PeerIds]
      PROVE  Overrun(i, ids) \in Seq(Peer) /\ Len(Overrun(i, ids)) = Len(peers)
  <2>1. Overrun(i, ids) \in [1..Len(peers) -> Peer]
    BY <1>1 DEF Overrun, Peer, Secrets, NONE
  <2>. QED  BY <1>1, <2>1, SegmentIsSeq
<1>3. ASSUME NEW p \in PeerIds, Len(peers) < MaxPeers
      PROVE  /\ Append(peers, NewPeer(p)) \in Seq(Peer)
             /\ Len(Append(peers, NewPeer(p))) <= MaxPeers
  <2>1. NewPeer(p) \in Peer
    BY DEF NewPeer, Peer, Secrets
  <2>2. peers \in Seq(Peer)
    BY DEF TypeOK
  <2>. QED  BY <1>1, <1>3, <2>1, <2>2, AppendFacts, ClientAssumption
<1>4. \A q \in Peer : [q EXCEPT !.seed = q.secret] \in Peer
  BY DEF Peer, Secrets
<1>5. \A q \in Peer : Decapsulated(q) \in Peer
  BY DEF Decapsulated, Peer, Secrets
<1>. QED  BY <1>2, <1>3, <1>4, <1>5

(* A peer list rebuilt slot by slot from peers is again a peer list. *)
LEMMA PeersMapped ==
  ASSUME TypeOK, NEW f, f \in [1..Len(peers) -> Peer]
  PROVE  f \in Seq(Peer) /\ Len(f) <= MaxPeers
<1>1. Len(peers) \in Nat
  BY LenProperties DEF TypeOK
<1>2. f \in Seq(Peer) /\ Len(f) = Len(peers)
  BY <1>1, SegmentIsSeq
<1>. QED  BY <1>2 DEF TypeOK

(* What the control part of a handler leaves in pc, at and target *)
LEMMA ControlType ==
  ASSUME TypeOK, Return \/ \E s \in States : Transition(s)
  PROVE  /\ pc' \in {"idle", "commit"}
         /\ at' = NONE
         /\ target' \in States \cup {NONE}
         /\ pc' = "commit" => target' \in States
  BY DEF Return, Transition

(* The data of a client after a key was stored for p *)
LEMMA StorePeerKeyType ==
  ASSUME TypeOK, NEW p \in PeerIds, StorePeerKey(p)
  PROVE  /\ peers' \in Seq(Peer) /\ Len(peers') <= MaxPeers
         /\ chunk' \in Chunk /\ shamir' \in Shamir
<1>1. \A s \in Spill : s.chunk \in Chunk /\ s.shamir \in Shamir
  BY ClientAssumption DEF Chunk, Shamir
<1>2. CASE \E i \in Slots(p) :
             /\ \E ids \in [1..Len(peers) -> PeerIds] : peers' = Overrun(i, ids)
             /\ \E s \in Spill : chunk' = s.chunk /\ shamir' = s.shamir
  <2>1. PICK i \in Slots(p), ids \in [1..Len(peers) -> PeerIds] :
           /\ peers' = Overrun(i, ids)
           /\ \E s \in Spill : chunk' = s.chunk /\ shamir' = s.shamir
    BY <1>2
  <2>2. i \in 1..Len(peers)
    BY DEF Slots
  <2>. QED  BY <1>1, <2>1, <2>2, PeersKept DEF TypeOK
<1>3. CASE /\ Len(peers) < MaxPeers
           /\ peers' = Append(peers, NewPeer(p))
           /\ \E s \in Spill : chunk' = s.chunk /\ shamir' = s.shamir
  BY <1>1, <1>3, PeersKept
<1>4. CASE UNCHANGED <<peers, chunk, shamir>>
  BY <1>4 DEF TypeOK
<1>. QED  BY <1>2, <1>3, <1>4 DEF StorePeerKey

-----------------------------------------------------------------------------
(* Type correctness is inductive. *)
LEMMA TypeStep ==
  ASSUME TypeOK, [Next]_vars
  PROVE  TypeOK'
<1>. USE DEF TypeOK
<1>1. CASE Receive \/ Dispatch
  BY <1>1, MaxAgeFacts DEF Receive, Dispatch, Stamp, Restamped, ctx, history
<1>2. ASSUME NEW m \in Message, HandleRoundInit(m) PROVE TypeOK'
  <2>1. CASE m.type = "ROUND_INIT"
    <3>1. m.par \in RoundParams
      BY <2>1, RoundInitPar
    <3>2. chunk' \in Chunk /\ shamir' \in Shamir /\ announced' \in Nat
      <4>1. /\ chunk' = [index |-> 0,
                         total |-> CeilDiv(m.par.model, m.par.size) % IdxMod,
                         size |-> m.par.size, final |-> FALSE]
            /\ shamir' = [threshold |-> m.par.threshold,
                          shares |-> (m.par.expected + 255) % 256]
            /\ announced' = m.par.threshold
        BY <1>2, <2>1 DEF HandleRoundInit
      <4>2. 0 \in 0..(IdxMod - 1)
        BY ClientAssumption
      <4>3. chunk' \in Chunk
        BY <3>1, <4>1, <4>2, ParTypes DEF Chunk
      <4>4. shamir' \in Shamir
        BY <3>1, <4>1, ParTypes DEF Shamir
      <4>. QED  BY <3>1, <4>1, <4>3, <4>4, ParTypes
    <3>3. Transition("KEY_SETUP") /\ Others /\ UNCHANGED <<keypair, peers, masked>>
      BY <1>2, <2>1 DEF HandleRoundInit
    <3>. QED  BY <3>2, <3>3, ControlType DEF Others, States
  <2>2. CASE m.type # "ROUND_INIT"
    BY <1>2, <2>2, ControlType DEF HandleRoundInit, Others
  <2>. QED  BY <2>1, <2>2
<1>3. ASSUME NEW m \in Message, HandleKeySetup(m) PROVE TypeOK'
  <2>1. Return \/ Transition("MASK_SETUP")
    BY <1>3 DEF HandleKeySetup
  <2>2. keypair' \in BOOLEAN
    BY <1>3 DEF HandleKeySetup
  <2>. QED  BY <1>3, <2>1, <2>2, ControlType DEF HandleKeySetup, Others, States
<1>4. ASSUME NEW m \in Message, HandleMaskSetup(m) PROVE TypeOK'
  <2>1. Return \/ Transition("LOCAL_TRAINING")
    BY <1>4 DEF HandleMaskSetup, DeriveSeedsThenTrain
  <2>2. \A i \in 1..Len(peers) : peers[i] \in Peer
    BY ElementOfSeq
  <2>3. /\ peers' \in Seq(Peer) /\ Len(peers') <= MaxPeers
        /\ chunk' \in Chunk /\ shamir' \in Shamir
    <3>1. CASE /\ m.type = "PAIRWISE_KEM_PUBKEY"
               /\ StorePeerKey(m.from)
      BY <3>1, StorePeerKeyType, PairwiseFrom
    <3>2. CASE OpenPeerCiphertext(m.from)
      <4>1. peers' \in [1..Len(peers) -> Peer]
        BY <3>2, <2>2, PeersKept DEF OpenPeerCiphertext
      <4>. QED  BY <3>2, <4>1, PeersMapped DEF OpenPeerCiphertext
    <3>3. CASE DeriveSeedsThenTrain /\ UNCHANGED <<chunk, shamir>>
      <4>1. CASE UNCHANGED peers
        BY <3>3, <4>1
      <4>2. CASE peers' = [i \in 1..Len(peers) |->
                             [peers[i] EXCEPT !.seed = peers[i].secret]]
        <5>1. peers' \in [1..Len(peers) -> Peer]
          BY <4>2, <2>2, PeersKept
        <5>. QED  BY <3>3, <5>1, PeersMapped
      <4>. QED  BY <3>3, <4>1, <4>2 DEF DeriveSeedsThenTrain
    <3>4. CASE UNCHANGED <<peers, chunk, shamir>>
      BY <3>4
    <3>. QED  BY <1>4, <3>1, <3>2, <3>3, <3>4 DEF HandleMaskSetup
  <2>. QED  BY <1>4, <2>1, <2>3, ControlType DEF HandleMaskSetup, Others, States
<1>5. CASE HandleLocalTraining
  BY <1>5, ControlType DEF HandleLocalTraining, Others, States
<1>6. ASSUME NEW m \in Message, HandleStream(m) PROVE TypeOK'
  <2>1. Return \/ Transition("CLIENT_COMPLETION")
    BY <1>6 DEF HandleStream, CompleteOrFail
  <2>2. chunk' \in Chunk /\ masked' \in Seq(0..(IdxMod - 1))
    <3>1. CASE StreamChunk
      <4>1. chunk.index \in 0..(IdxMod - 1)
            /\ (chunk.index + 1) % IdxMod \in 0..(IdxMod - 1)
            /\ chunk.total \in Int
        BY ClientAssumption DEF Chunk
      <4>. QED  BY <3>1, <4>1, AppendFacts DEF StreamChunk, Chunk
    <3>2. CASE UNCHANGED <<chunk, masked>>
      BY <3>2
    <3>. QED  BY <1>6, <3>1, <3>2 DEF HandleStream
  <2>. QED  BY <1>6, <2>1, <2>2, ControlType DEF HandleStream, Others, States
<1>7. ASSUME NEW m \in Message,
             HandleDropoutNotify(m) \/ HandleRecoveryComplete(m)
      PROVE  TypeOK'
  BY <1>7, ControlType
  DEF HandleDropoutNotify, HandleRecoveryComplete, HandleNotice, Others, States
<1>8. CASE HandleUnmask \/ HandleFedavg
  BY <1>8, ControlType DEF HandleUnmask, HandleFedavg, HandleAny, Others, States
<1>9. CASE HandleNothing
  BY <1>9, ControlType DEF HandleNothing, Others
<1>10. CASE Commit
  BY <1>10, MaxAgeFacts DEF Commit, Return, Stamp, Restamped
<1>11. CASE Tick
  BY <1>11, MaxAgeFacts DEF Tick, net, history
<1>12. CASE MonitorRead \/ MonitorCheck \/ MonitorWrite
  BY <1>12 DEF MonitorRead, MonitorCheck, MonitorWrite, ctx, net, history, States
<1>13. CASE TimerTest \/ TimerRead \/ TimerCheck \/ TimerWrite
  BY <1>13 DEF TimerTest, TimerRead, TimerCheck, TimerWrite, ctx, net, history,
               States
<1>14. CASE UNCHANGED vars
  BY <1>14 DEF vars
<1>. QED
  BY <1>1, <1>2, <1>3, <1>4, <1>5, <1>6, <1>7, <1>8, <1>9, <1>10, <1>11,
     <1>12, <1>13, <1>14 DEF Next, Handle

(* Every variable keeps its type: no handler, spill or wrap-around leaves  *)
(* a context that later handlers cannot read.                              *)
THEOREM TypeCorrect == Spec => []TypeOK
<1>1. Init => TypeOK
  <2>. SUFFICES ASSUME Init PROVE TypeOK
    OBVIOUS
  <2>1. 0 \in 0..(IdxMod - 1) /\ 0 \in 0..MaxAge /\ 0 <= MaxPeers
    BY MaxAgeFacts, ClientAssumption
  <2>2. peers \in Seq(Peer) /\ Len(peers) = 0 /\ masked \in Seq(0..(IdxMod - 1))
    BY EmptySeq DEF Init
  <2>3. chunk \in Chunk /\ shamir \in Shamir
    BY <2>1 DEF Init, Chunk, Shamir
  <2>. QED  BY <2>1, <2>2, <2>3 DEF Init, TypeOK, States
<1>2. TypeOK /\ [Next]_vars => TypeOK'
  BY TypeStep
<1>. QED  BY <1>1, <1>2, PTL DEF Spec

-----------------------------------------------------------------------------
(***************************************************************************)
(* Masking.  SeededBeforeMasking is not inductive: it says nothing of a    *)
(* client that has not masked anything yet.  The states are split into     *)
(* those before the seeds exist and those after, and the same is said of   *)
(* the state dispatched on and of the state about to be entered, which     *)
(* lag behind or run ahead of ctx->state when the timer comes between.     *)
(***************************************************************************)
Early == {"ROUND_INIT", "KEY_SETUP", "MASK_SETUP"}
Late == {"LOCAL_TRAINING", "MASKED_UPDATE_STREAM", "CLIENT_COMPLETION",
         "MASK_RECOVERY", "UNMASK", "FEDAVG", "ROUND_COMPLETE"}

MaskInv ==
  /\ (state \in Late \/ at \in Late \/ target \in Late \/ masked # <<>>)
       => Seeded
  /\ (state \in Early \/ at \in Early \/ target \in Early)
       => masked = <<>>

(* Deriving the seeds seeds every peer. *)
LEMMA DeriveSeeds ==
  ASSUME TypeOK, peers # <<>>,
         peers' = [i \in 1..Len(peers) |->
                     [peers[i] EXCEPT !.seed = peers[i].secret]]
  PROVE  Seeded'
<1>1. /\ Len(peers) \in Nat \ {0}
      /\ \A i \in 1..Len(peers) : peers[i] \in Peer
  BY EmptySeq, ElementOfSeq DEF TypeOK
<1>2. \A i \in 1..Len(peers) :
         [peers[i] EXCEPT !.seed = peers[i].secret] \in Peer
  BY <1>1, PeersKept
<1>3. peers' \in [1..Len(peers) -> Peer]
  BY <1>2
<1>4. peers' \in Seq(Peer) /\ Len(peers') = Len(peers)
  BY <1>1, <1>3, SegmentIsSeq
<1>5. peers' # <<>>
  BY <1>1, <1>4, EmptySeq
<1>6. \A i \in 1..Len(peers') : peers'[i].seed # NONE
  BY <1>1, <1>4 DEF Peer, Secrets, NONE
<1>. QED  BY <1>5, <1>6 DEF Seeded

(* MaskInv is preserved by every step. *)
LEMMA MaskStep ==
  ASSUME TypeOK, MaskInv, [Next]_vars
  PROVE  MaskInv'
<1>. USE DEF MaskInv, Early, Late
<1>a. ASSUME UNCHANGED peers PROVE Seeded' <=> Seeded
  BY <1>a DEF Seeded
<1>1. CASE Receive \/ Dispatch
  BY <1>1, <1>a DEF Receive, Dispatch, ctx, history
<1>2. ASSUME NEW m \in Message, HandleRoundInit(m) PROVE MaskInv'
  BY <1>2, <1>a
  DEF HandleRoundInit, Dispatched, Others, Return, Transition, NONE
<1>3. ASSUME NEW m \in Message, HandleKeySetup(m) PROVE MaskInv'
  BY <1>3, <1>a DEF HandleKeySetup, Dispatched, Others, Return, Transition, NONE
<1>4. ASSUME NEW m \in Message, HandleMaskSetup(m) PROVE MaskInv'
  <2>1. CASE state # "MASK_SETUP"
    BY <1>4, <2>1, <1>a
    DEF HandleMaskSetup, Dispatched, Others, Return, Transition, NONE
  <2>2. CASE state = "MASK_SETUP" /\ m.type = "PAIRWISE_CONFIRM"
    <3>1. CASE peers = <<>>
      BY <1>4, <2>2, <3>1, <1>a
      DEF HandleMaskSetup, Dispatched, Others, Return, DeriveSeedsThenTrain, NONE
    <3>2. CASE peers # <<>>
      <4>1. Seeded'
        BY <1>4, <2>2, <3>2, DeriveSeeds
        DEF HandleMaskSetup, DeriveSeedsThenTrain
      <4>. QED  BY <1>4, <2>2, <3>2, <4>1
                DEF HandleMaskSetup, Dispatched, Others, Transition,
                    DeriveSeedsThenTrain, NONE
    <3>. QED  BY <3>1, <3>2
  <2>3. CASE state = "MASK_SETUP" /\ m.type # "PAIRWISE_CONFIRM"
    BY <1>4, <2>3 DEF HandleMaskSetup, Dispatched, Others, Return, NONE
  <2>. QED  BY <2>1, <2>2, <2>3
<1>5. CASE HandleLocalTraining
  BY <1>5, <1>a
  DEF HandleLocalTraining, Dispatched, Others, Return, Transition, NONE
<1>6. ASSUME NEW m \in Message, HandleStream(m) PROVE MaskInv'
  <2>1. Seeded'
    BY <1>6, <1>a DEF HandleStream, Dispatched
  <2>2. CASE state # "MASKED_UPDATE_STREAM"
    BY <1>6, <2>1, <2>2 DEF HandleStream, Dispatched, Others, Return, NONE
  <2>3. CASE state = "MASKED_UPDATE_STREAM"
    <3>1. state' = state /\ at' = NONE
          /\ target' \in {NONE, "CLIENT_COMPLETION"}
      BY <1>6, <2>3
      DEF HandleStream, Others, Return, Transition, CompleteOrFail
    <3>. QED  BY <2>1, <2>3, <3>1 DEF NONE
  <2>. QED  BY <2>2, <2>3
<1>7. ASSUME NEW m \in Message,
             HandleDropoutNotify(m) \/ HandleRecoveryComplete(m)
      PROVE  MaskInv'
  BY <1>7, <1>a
  DEF HandleDropoutNotify, HandleRecoveryComplete, HandleNotice, Dispatched,
      Others, Return, Transition, NONE
<1>8. CASE HandleUnmask \/ HandleFedavg
  BY <1>8, <1>a
  DEF HandleUnmask, HandleFedavg, HandleAny, Dispatched, Others, Return,
      Transition, NONE
<1>9. CASE HandleNothing
  BY <1>9, <1>a DEF HandleNothing, Others, Return, NONE
<1>10. CASE Commit
  BY <1>10, <1>a DEF Commit, Return, NONE
<1>11. CASE Tick
  BY <1>11, <1>a DEF Tick, net, history
<1>12. CASE MonitorRead \/ MonitorCheck \/ MonitorWrite
  BY <1>12, <1>a DEF MonitorRead, MonitorCheck, MonitorWrite, ctx, net, history
<1>13. CASE TimerTest \/ TimerRead \/ TimerCheck \/ TimerWrite
  BY <1>13, <1>a DEF TimerTest, TimerRead, TimerCheck, TimerWrite, ctx, net,
                     history
<1>14. CASE UNCHANGED vars
  BY <1>14, <1>a DEF vars
<1>. QED
  BY <1>1, <1>2, <1>3, <1>4, <1>5, <1>6, <1>7, <1>8, <1>9, <1>10, <1>11,
     <1>12, <1>13, <1>14 DEF Next, Handle

(* No client masks a chunk before every registered peer has a seed and     *)
(* there is at least one peer, in any order of messages and interruptions. *)
THEOREM NoUnseededMask == Spec => []SeededBeforeMasking
<1>1. Init => MaskInv
  BY DEF Init, MaskInv, Late, NONE
<1>2. TypeOK /\ MaskInv /\ [Next]_vars => MaskInv'
  BY MaskStep
<1>3. MaskInv => SeededBeforeMasking
  BY DEF MaskInv, SeededBeforeMasking
<1>. QED  BY <1>1, <1>2, <1>3, TypeCorrect, PTL DEF Spec

-----------------------------------------------------------------------------
(* The order of the stream.  chunk_ctx is rewritten by ROUND_INIT and by a *)
(* stored key, but both only while nothing has been masked (MaskInv).      *)
LEMMA StreamStep ==
  ASSUME TypeOK, MaskInv, StreamOrder, [Next]_vars
  PROVE  StreamOrder'
<1>a. ASSUME UNCHANGED <<chunk, masked>> PROVE StreamOrder'
  BY <1>a DEF StreamOrder
<1>b. ASSUME masked = <<>>, UNCHANGED masked PROVE StreamOrder'
  BY <1>b, EmptySeq DEF StreamOrder
<1>1. ASSUME NEW m \in Message, HandleRoundInit(m) \/ HandleMaskSetup(m)
      PROVE  StreamOrder'
  <2>1. masked = <<>> /\ UNCHANGED masked
    BY <1>1
    DEF HandleRoundInit, HandleMaskSetup, Dispatched, MaskInv, Early
  <2>. QED  BY <2>1, <1>b
<1>2. ASSUME NEW m \in Message, HandleStream(m) PROVE StreamOrder'
  <2>1. CASE UNCHANGED <<chunk, masked>>
    BY <2>1, <1>a
  <2>2. CASE StreamChunk
    <3>1. /\ masked \in Seq(0..(IdxMod - 1)) /\ Len(masked) \in Nat
          /\ chunk \in Chunk /\ chunk.index \in 0..(IdxMod - 1)
      BY LenProperties DEF TypeOK, Chunk
    <3>2. /\ Len(masked') = Len(masked) + 1
          /\ masked'[Len(masked) + 1] = chunk.index
          /\ \A i \in 1..Len(masked) : masked'[i] = masked[i]
      BY <2>2, <3>1, AppendFacts DEF StreamChunk
    <3>3. chunk'.index = (chunk.index + 1) % IdxMod
      BY <2>2, <3>1 DEF StreamChunk, Chunk
    <3>4. ASSUME NEW i \in 1..(Len(masked') - 1)
          PROVE  masked'[i + 1] = (masked'[i] + 1) % IdxMod
      <4>1. CASE i < Len(masked)
        <5>1. i \in 1..(Len(masked) - 1)
          BY <3>1, <3>2, <4>1
        <5>. QED  BY <3>1, <3>2, <5>1 DEF StreamOrder
      <4>2. CASE i = Len(masked)
        <5>1. masked # <<>>
          BY <3>1, <3>2, <4>2, EmptySeq
        <5>2. masked'[i] = masked[Len(masked)]
          BY <3>1, <3>2, <4>2
        <5>. QED  BY <3>2, <4>2, <5>1, <5>2 DEF StreamOrder
      <4>. QED  BY <3>1, <3>2, <4>1, <4>2
    <3>. QED  BY <3>2, <3>3, <3>4 DEF StreamOrder
  <2>. QED  BY <1>2, <2>1, <2>2 DEF HandleStream
<1>3. CASE Receive \/ Dispatch
  BY <1>3, <1>a DEF Receive, Dispatch, ctx, history
<1>4. ASSUME NEW m \in Message,
             HandleKeySetup(m) \/ HandleLocalTraining \/ HandleNothing
      PROVE  StreamOrder'
  BY <1>4, <1>a DEF HandleKeySetup, HandleLocalTraining, HandleNothing
<1>5. ASSUME NEW m \in Message,
             HandleDropoutNotify(m) \/ HandleRecoveryComplete(m)
      PROVE  StreamOrder'
  BY <1>5, <1>a DEF HandleDropoutNotify, HandleRecoveryComplete, HandleNotice
<1>6. CASE HandleUnmask \/ HandleFedavg
  BY <1>6, <1>a DEF HandleUnmask, HandleFedavg, HandleAny
<1>7. CASE Commit \/ Tick
  BY <1>7, <1>a DEF Commit, Tick, history
<1>8. CASE MonitorRead \/ MonitorCheck \/ MonitorWrite
  BY <1>8, <1>a DEF MonitorRead, MonitorCheck, MonitorWrite, ctx, history
<1>9. CASE TimerTest \/ TimerRead \/ TimerCheck \/ TimerWrite
  BY <1>9, <1>a DEF TimerTest, TimerRead, TimerCheck, TimerWrite, ctx, history
<1>10. CASE UNCHANGED vars
  BY <1>10, <1>a DEF vars
<1>. QED
  BY <1>1, <1>2, <1>3, <1>4, <1>5, <1>6, <1>7, <1>8, <1>9, <1>10
  DEF Next, Handle

(* The chunks of a round are masked in index order without a gap, for      *)
(* every index width and whatever start a stored key left in chunk_ctx.    *)
THEOREM StreamInOrder == Spec => []StreamOrder
<1>1. Init => MaskInv
  BY DEF Init, MaskInv, Late, NONE
<1>2. Init => StreamOrder
  BY EmptySeq DEF Init, StreamOrder
<1>3. TypeOK /\ MaskInv /\ [Next]_vars => MaskInv'
  BY MaskStep
<1>4. TypeOK /\ MaskInv /\ StreamOrder /\ [Next]_vars => StreamOrder'
  BY StreamStep
<1>. QED  BY <1>1, <1>2, <1>3, <1>4, TypeCorrect, PTL DEF Spec

-----------------------------------------------------------------------------
(* What every handler does to the control: it returns, or it is about to   *)
(* store the phase that follows the one it was dispatched on.              *)
LEMMA HandlerControl ==
  ASSUME NEW m \in Message, Handle(m)
  PROVE  /\ pc = "handle" /\ NetMayRun /\ Others
         /\ \/ Return
            \/ \E s \in States : Lifecycle!Follows(s, at) /\ Transition(s)
<1>. USE DEF Lifecycle!Follows, States
<1>1. CASE HandleRoundInit(m)
  BY <1>1 DEF HandleRoundInit, Dispatched
<1>2. CASE HandleKeySetup(m)
  BY <1>2 DEF HandleKeySetup, Dispatched
<1>3. CASE HandleMaskSetup(m)
  BY <1>3 DEF HandleMaskSetup, Dispatched, DeriveSeedsThenTrain
<1>4. CASE HandleLocalTraining
  BY <1>4 DEF HandleLocalTraining, Dispatched
<1>5. CASE HandleStream(m)
  BY <1>5 DEF HandleStream, Dispatched, CompleteOrFail
<1>6. CASE HandleDropoutNotify(m) \/ HandleRecoveryComplete(m)
  BY <1>6
  DEF HandleDropoutNotify, HandleRecoveryComplete, HandleNotice, Dispatched
<1>7. CASE HandleUnmask \/ HandleFedavg
  BY <1>7 DEF HandleUnmask, HandleFedavg, HandleAny, Dispatched
<1>8. CASE HandleNothing
  BY <1>8 DEF HandleNothing
<1>. QED  BY <1>1, <1>2, <1>3, <1>4, <1>5, <1>6, <1>7, <1>8 DEF Handle

(* A phase that follows another is neither ERROR nor DROPOUT_DETECTION,    *)
(* and nothing follows those two.                                          *)
Out == {"ERROR", "DROPOUT_DETECTION"}

LEMMA FollowsFacts ==
  ASSUME NEW s, NEW r, Lifecycle!Follows(s, r)
  PROVE  s \in States \ Out /\ r \in States \ Out
  BY DEF Lifecycle!Follows, States, Out

-----------------------------------------------------------------------------
(***************************************************************************)
(* The life cycle.  The monitor has the lowest priority, so it stores      *)
(* ERROR only between two messages: a failed client has no handler under   *)
(* way, and the next one is dispatched on ERROR, or on DROPOUT_DETECTION   *)
(* if a callback has written over it.  Until then the state a handler was  *)
(* dispatched on is the last phase entered, whatever the callback writes.  *)
(***************************************************************************)
LifeInv ==
  /\ phase \notin Out
  /\ failed => state \in Out /\ at \in Out \cup {NONE} /\ pc # "commit"
  /\ ~failed => state \in {phase, "DROPOUT_DETECTION"}
  /\ pc = "handle" => at \in {phase} \cup Out
  /\ pc # "handle" => at = NONE
  /\ pc = "commit" => Lifecycle!Follows(target, phase)

(* Every step preserves LifeInv and is a step of the life cycle or leaves  *)
(* its variables alone.                                                    *)
LEMMA LifeStep ==
  ASSUME TypeOK, LifeInv, [Next]_vars
  PROVE  LifeInv' /\ [Lifecycle!Next]_<<state, phase, failed>>
<1>. USE DEF LifeInv
<1>1. CASE Receive
  BY <1>1 DEF Receive, history
<1>2. CASE Dispatch
  BY <1>2 DEF Dispatch, ctx, history, Out
<1>3. ASSUME NEW m \in Message, Handle(m)
      PROVE  LifeInv' /\ UNCHANGED <<state, phase, failed>>
  <2>1. pc = "handle" /\ Others
    BY <1>3, HandlerControl
  <2>2. CASE Return
    BY <2>1, <2>2 DEF Others, Return, NONE
  <2>3. CASE \E s \in States : Lifecycle!Follows(s, at) /\ Transition(s)
    <3>1. PICK s \in States : Lifecycle!Follows(s, at) /\ Transition(s)
      BY <2>3
    <3>2. at \notin Out
      BY <3>1, FollowsFacts
    <3>3. at = phase /\ ~failed
      BY <2>1, <3>2, <3>1 DEF Lifecycle!Follows, NONE
    <3>4. Return \/ (pc' = "commit" /\ target' = s /\ at' = NONE)
      BY <3>1 DEF Transition
    <3>. QED  BY <2>1, <2>2, <3>1, <3>3, <3>4 DEF Others
  <2>. QED  BY <1>3, <2>2, <2>3, HandlerControl
<1>4. CASE Commit
  <2>1. Lifecycle!Follows(target, phase) /\ ~failed
    BY <1>4 DEF Commit
  <2>2. /\ state' = target /\ phase' = target /\ failed' = failed
        /\ pc' = "idle" /\ at' = NONE
    BY <1>4 DEF Commit, Return
  <2>3. phase' \notin Out
    BY <2>1, <2>2, FollowsFacts
  <2>4. Lifecycle!Advance
    BY <2>1, <2>2 DEF Lifecycle!Advance
  <2>. QED  BY <2>1, <2>2, <2>3, <2>4 DEF Lifecycle!Next
<1>5. CASE Tick
  BY <1>5 DEF Tick, net, history
<1>6. CASE MonitorRead \/ MonitorCheck
  BY <1>6 DEF MonitorRead, MonitorCheck, ctx, net, history
<1>7. CASE MonitorWrite
  <2>1. pc = "idle"
    BY <1>7 DEF MonitorWrite, MonMayRun, MonPrio, NetPrio
  <2>2. /\ state' = "ERROR" /\ failed' = TRUE
        /\ UNCHANGED <<pc, at, target, phase>>
    BY <1>7 DEF MonitorWrite, net
  <2>3. Lifecycle!Fail
    BY <2>2 DEF Lifecycle!Fail
  <2>. QED  BY <2>1, <2>2, <2>3 DEF Lifecycle!Next, Out
<1>8. CASE TimerTest \/ TimerRead \/ TimerCheck
  BY <1>8 DEF TimerTest, TimerRead, TimerCheck, ctx, net, history
<1>9. CASE TimerWrite
  <2>1. /\ state' = "DROPOUT_DETECTION"
        /\ UNCHANGED <<pc, at, target, phase, failed>>
    BY <1>9 DEF TimerWrite, net, history
  <2>2. Lifecycle!Drop
    BY <2>1 DEF Lifecycle!Drop
  <2>. QED  BY <2>1, <2>2 DEF Lifecycle!Next, Out
<1>10. CASE UNCHANGED vars
  BY <1>10 DEF vars
<1>. QED
  BY <1>1, <1>2, <1>3, <1>4, <1>5, <1>6, <1>7, <1>8, <1>9, <1>10 DEF Next

LEMMA LifeInit == Init => LifeInv /\ Lifecycle!Init
  BY DEF Init, LifeInv, Lifecycle!Init, Out, NONE

(* The detailed client implements the abstract life cycle on every port:   *)
(* phases are entered in order and one at a time, also when a drop is      *)
(* undone, and a failed client enters none of them any more.               *)
THEOREM ImplementsLifecycle == Spec => LifecycleSpec
<1>1. TypeOK /\ LifeInv /\ [Next]_vars
        => LifeInv' /\ [Lifecycle!Next]_<<state, phase, failed>>
  BY LifeStep
<1>. QED
  BY <1>1, LifeInit, TypeCorrect, PTL DEF Spec, LifecycleSpec, Lifecycle!Spec

-----------------------------------------------------------------------------
(***************************************************************************)
(* The ERROR state.  Where the timer daemon outranks the monitor no ERROR  *)
(* is stored while a callback is under way, and none starts on an ERROR.   *)
(***************************************************************************)
ErrorInv == timerPrio > MonPrio /\ tmr # "idle" => state # "ERROR"

(* A failed client keeps its ERROR unless a late callback replaces it.     *)
LEMMA ErrorStep ==
  ASSUME TypeOK, LifeInv, ErrorInv, [Next]_vars
  PROVE  /\ ErrorInv'
         /\ state = "ERROR" =>
              \/ state' = "ERROR"
              \/ state' = "DROPOUT_DETECTION" /\ timerPrio <= MonPrio
<1>. USE DEF ErrorInv
<1>a. timerPrio \in Nat /\ UNCHANGED timerPrio
  <2>1. \A m \in Message : Handle(m) => UNCHANGED timerPrio
    BY HandlerControl DEF Others
  <2>. QED
    BY <2>1, ClientAssumption
    DEF TypeOK, Next, Receive, Dispatch, Commit, Tick, MonitorRead, MonitorCheck,
        MonitorWrite, TimerTest, TimerRead, TimerCheck, TimerWrite, vars
<1>1. CASE Receive
  <2>1. state' = state /\ (tmr' # "idle" => tmr # "idle")
    BY <1>1 DEF Receive, Stamp, Restamped
  <2>. QED  BY <1>a, <2>1
<1>2. CASE Dispatch
  BY <1>2, <1>a DEF Dispatch, ctx
<1>3. CASE \E m \in Message : Handle(m)
  BY <1>3, HandlerControl DEF Others
<1>4. CASE Commit
  <2>1. state # "ERROR" /\ state' # "ERROR"
    <3>1. ~failed /\ Lifecycle!Follows(target, phase) /\ state' = target
      BY <1>4 DEF Commit, LifeInv
    <3>. QED  BY <3>1, FollowsFacts DEF LifeInv, Out
  <2>. QED  BY <2>1
<1>5. CASE Tick
  BY <1>5, <1>a DEF Tick
<1>6. CASE MonitorRead \/ MonitorCheck
  BY <1>6, <1>a DEF MonitorRead, MonitorCheck, ctx
<1>7. CASE MonitorWrite
  <2>1. timerPrio > MonPrio => tmr' = "idle"
    BY <1>7, <1>a DEF MonitorWrite, MonMayRun, MonPrio
  <2>. QED  BY <1>7, <1>a, <2>1 DEF MonitorWrite
<1>8. CASE TimerTest \/ TimerRead \/ TimerCheck
  BY <1>8, <1>a DEF TimerTest, TimerRead, TimerCheck, ctx
<1>9. CASE TimerWrite
  BY <1>9, <1>a DEF TimerWrite, MonPrio
<1>10. CASE UNCHANGED vars
  BY <1>10 DEF vars
<1>. QED
  BY <1>1, <1>2, <1>3, <1>4, <1>5, <1>6, <1>7, <1>8, <1>9, <1>10 DEF Next

(* ERROR is final on every port whose timer daemon outranks the monitor;   *)
(* on the others only a late callback replaces it, by DROPOUT_DETECTION.   *)
THEOREM ErrorIsFinal == Spec => ErrorSticky
<1>1. Init => ErrorInv
  BY DEF Init, ErrorInv
<1>2. TypeOK /\ LifeInv /\ ErrorInv /\ [Next]_vars
        => /\ LifeInv' /\ ErrorInv'
           /\ [state = "ERROR" =>
                 \/ state' = "ERROR"
                 \/ state' = "DROPOUT_DETECTION" /\ timerPrio <= MonPrio]_vars
  BY LifeStep, ErrorStep
<1>. QED  BY <1>1, <1>2, LifeInit, TypeCorrect, PTL DEF Spec, ErrorSticky

-----------------------------------------------------------------------------
(***************************************************************************)
(* Dropped clients.  A timer daemon below the network task stores nothing  *)
(* while a message is handled.  One above it is never in the middle of its *)
(* callback when the network task runs, and finds the client just stamped. *)
(***************************************************************************)
DropInv ==
  /\ pc # "idle" /\ timerPrio > NetPrio => age = 0 /\ tmr \notin {"stale", "write"}
  /\ pc = "handle" /\ timerPrio # NetPrio => at = state
  /\ pc = "commit" /\ timerPrio # NetPrio => state # "DROPOUT_DETECTION"

(* A dropped client stays dropped or fails, unless the timer daemon has    *)
(* the network task's priority.                                            *)
LEMMA DropStep ==
  ASSUME TypeOK, DropInv, [Next]_vars
  PROVE  /\ DropInv'
         /\ state = "DROPOUT_DETECTION" =>
              \/ state' \in {"DROPOUT_DETECTION", "ERROR"}
              \/ timerPrio = NetPrio
<1>. USE DEF DropInv
<1>a. timerPrio \in Nat /\ DropoutTimeout \in Nat
  BY ClientAssumption DEF TypeOK
<1>b. NetMayRun /\ timerPrio > NetPrio => tmr = "idle"
  BY <1>a DEF NetMayRun, NetPrio
<1>1. CASE Receive
  <2>1. /\ pc' = "switch" /\ UNCHANGED <<state, timerPrio>> /\ age' = 0
        /\ timerPrio > NetPrio => tmr' = "idle"
    BY <1>1, <1>b DEF Receive, Stamp, Restamped
  <2>. QED  BY <2>1
<1>2. CASE Dispatch
  BY <1>2 DEF Dispatch, ctx
<1>3. ASSUME NEW m \in Message, Handle(m)
      PROVE  DropInv' /\ UNCHANGED state
  <2>1. pc = "handle" /\ Others
    BY <1>3, HandlerControl
  <2>2. CASE Return
    BY <2>1, <2>2 DEF Others, Return
  <2>3. CASE \E s \in States : Lifecycle!Follows(s, at) /\ Transition(s)
    <3>1. PICK s \in States : Lifecycle!Follows(s, at) /\ Transition(s)
      BY <2>3
    <3>2. at # "DROPOUT_DETECTION"
      BY <3>1, FollowsFacts DEF Out
    <3>3. Return \/ pc' = "commit"
      BY <3>1 DEF Transition
    <3>. QED  BY <2>1, <2>2, <3>2, <3>3 DEF Others
  <2>. QED  BY <1>3, <2>2, <2>3, HandlerControl
<1>4. CASE Commit
  BY <1>4 DEF Commit, Return
<1>5. CASE Tick
  BY <1>5 DEF Tick, net
<1>6. CASE MonitorRead \/ MonitorCheck
  BY <1>6 DEF MonitorRead, MonitorCheck, ctx, net
<1>7. CASE MonitorWrite
  BY <1>7 DEF MonitorWrite, MonMayRun, MonPrio, NetPrio, net
<1>8. CASE TimerTest
  BY <1>8 DEF TimerTest, ctx, net
<1>9. CASE TimerRead
  <2>1. UNCHANGED <<ctx, timerPrio, net>>
    BY <1>9 DEF TimerRead
  <2>2. age = 0 => tmr' = "fresh"
    BY <1>9, <1>a DEF TimerRead
  <2>. QED  BY <2>1, <2>2 DEF ctx, net
<1>10. CASE TimerCheck
  BY <1>10 DEF TimerCheck, ctx, net
<1>11. CASE TimerWrite
  <2>1. pc # "idle" => timerPrio = NetPrio
    BY <1>11, <1>a DEF TimerWrite, TmrMayRun, NetPrio
  <2>. QED  BY <1>11, <2>1, <1>a DEF TimerWrite, net, NetPrio
<1>12. CASE UNCHANGED vars
  BY <1>12 DEF vars
<1>. QED
  BY <1>1, <1>2, <1>3, <1>4, <1>5, <1>6, <1>7, <1>8, <1>9, <1>10, <1>11, <1>12
  DEF Next

(* A dropped client takes no further part in the round, on every port      *)
(* whose timer daemon has another priority than the network task.          *)
THEOREM DroppedIsOut == Spec => DroppedStaysOut
<1>1. Init => DropInv
  BY DEF Init, DropInv
<1>2. TypeOK /\ DropInv /\ [Next]_vars
        => /\ DropInv'
           /\ [state = "DROPOUT_DETECTION" =>
                 \/ state' \in {"DROPOUT_DETECTION", "ERROR"}
                 \/ timerPrio = NetPrio]_vars
  BY DropStep
<1>. QED  BY <1>1, <1>2, TypeCorrect, PTL DEF Spec, DroppedStaysOut
=============================================================================
