------------------------------ MODULE ClientSM ------------------------------
(***************************************************************************)
(* The client's protocol state machine (src/federated/state_machine.c) and *)
(* the three tasks that write its context without a lock:                  *)
(*                                                                         *)
(*   net  the network task, which runs state_machine_process_message       *)
(*   mon  the state_monitor task of core_rtos/main.c (STATE_TIMEOUT_MS)    *)
(*   tmr  the FreeRTOS timer daemon, which runs dropout_timer_callback     *)
(*        (DROPOUT_TIMEOUT_MS)                                             *)
(*                                                                         *)
(* The targets are single core, so tasks interleave only as the priorities *)
(* allow: a task in the middle of its job is interrupted by one of equal   *)
(* or higher priority, never by a lower one.  The steps of a job are the   *)
(* reads and writes of ctx->state and ctx->last_activity_tick that another *)
(* task can come between.  Nothing in the repository sets the priority of  *)
(* the timer daemon (configTIMER_TASK_PRIORITY): a behaviour picks one of  *)
(* TimerPrios and keeps it.                                                *)
(***************************************************************************)
EXTENDS Integers, Sequences, FiniteSets

CONSTANTS
  OwnId,           \* ctx->client_id
  PeerIds,         \* the byte values that occur as peer_client_id
  MaxPeers,        \* MAX_PEERS_PER_CLIENT
  IdxMod,          \* 2^16, the range of chunk_index
  MaxElementBytes, \* CHUNK_BUFFER_BYTES
  RoundParams,     \* ROUND_INIT payloads: [expected, threshold, size, model]
  Spill,           \* what an overrun can leave in chunk_ctx and shamir_ctx
  MsgLens,         \* payload lengths of MASK_CHUNK messages
  StateTimeout,    \* STATE_TIMEOUT_MS, in units of Tick
  DropoutTimeout,  \* DROPOUT_TIMEOUT_MS, in units of Tick
  TimerPrios,      \* values of configTIMER_TASK_PRIORITY on the ports
  MaxChunks        \* bound: MASK_CHUNK messages accepted in a behaviour

ASSUME ClientAssumption ==
  /\ PeerIds \subseteq Nat /\ OwnId \in PeerIds /\ 0 \in PeerIds
  /\ MaxPeers \in Nat \ {0} /\ IdxMod \in Nat \ {0}
  /\ MaxElementBytes \in Nat
  /\ RoundParams \subseteq [expected : 0..255, threshold : 0..255,
                            size : Nat \ {0}, model : Nat]
  /\ Spill \subseteq [chunk : [index : 0..(IdxMod - 1), total : 0..(IdxMod - 1),
                               size : Nat, final : BOOLEAN],
                      shamir : [threshold : Nat, shares : Nat]]
  /\ MsgLens \subseteq Nat
  /\ StateTimeout \in Nat /\ DropoutTimeout \in Nat
  /\ TimerPrios \subseteq Nat /\ MaxChunks \in Nat

NONE == "NONE"

States == {"ROUND_INIT", "KEY_SETUP", "MASK_SETUP", "LOCAL_TRAINING",
           "MASKED_UPDATE_STREAM", "CLIENT_COMPLETION", "AGGREGATION",
           "DROPOUT_DETECTION", "MASK_RECOVERY", "UNMASK", "FEDAVG",
           "ROUND_COMPLETE", "ERROR"}

(***************************************************************************)
(* The messages that pass the round_id and client_id checks at the head of *)
(* state_machine_process_message; one that fails them changes nothing.     *)
(* "fits" abstracts payload_length: it is the length the type requires.    *)
(***************************************************************************)
Message ==
  [type : {"ROUND_INIT"}, par : RoundParams]
    \cup [type : {"KEM_CIPHERTEXT"}, fits : BOOLEAN]
    \cup [type : {"PAIRWISE_KEM_PUBKEY", "PAIRWISE_KEM_CIPHERTEXT"},
          from : {0, OwnId}, fits : BOOLEAN]
    \cup [type : {"MASK_CHUNK"}, seq : 0..(IdxMod - 1), len : MsgLens]
    \cup [type : {"KEM_PUBLIC_KEY", "PAIRWISE_CONFIRM", "CLIENT_COMPLETE",
                  "DROPOUT_NOTIFY", "RECOVERY_COMPLETE", "ROUND_COMPLETE"}]

Chunk == [index : 0..(IdxMod - 1), total : 0..(IdxMod - 1),
          size : Nat, final : BOOLEAN]

Shamir == [threshold : Nat, shares : Nat]

Secrets == {"pubkey", "kem"}   \* what the 32 bytes of shared_secret hold

Peer == [id : PeerIds, secret : Secrets, seed : Secrets \cup {NONE}]

VARIABLES
  state,     \* ctx->state
  age,       \* tick count minus ctx->last_activity_tick, capped
  keypair,   \* ctx->kem_kp has been generated
  peers,     \* ctx->pairwise_ctx.peers[0 .. num_peers - 1]
  chunk,     \* ctx->chunk_ctx
  shamir,    \* ctx->shamir_ctx: threshold and num_shares
  timerPrio, \* configTIMER_TASK_PRIORITY of this port
  pc,        \* where the network task is: idle, switch, handle or commit
  at,        \* the state the switch of process_message dispatched on
  target,    \* the state the handler is about to enter
  mon,       \* where the monitor is: idle, fresh, stale or write
  tmr,       \* where the callback is: idle, tested, fresh, stale or write
  masked,    \* history: the chunk indices masked so far
  announced, \* history: the threshold of the accepted ROUND_INIT, or -1
  phase,     \* history: the last phase a transition has entered
  failed     \* history: the monitor has stored ERROR

ctx == <<state, age, keypair, peers, chunk, shamir>>
net == <<pc, at, target>>
history == <<masked, announced, phase, failed>>
vars == <<state, age, keypair, peers, chunk, shamir, timerPrio, pc, at,
          target, mon, tmr, masked, announced, phase, failed>>

MaxAge == (IF StateTimeout > DropoutTimeout THEN StateTimeout
                                            ELSE DropoutTimeout) + 1

TypeOK ==
  /\ state \in States
  /\ age \in 0..MaxAge
  /\ keypair \in BOOLEAN
  /\ peers \in Seq(Peer) /\ Len(peers) <= MaxPeers
  /\ chunk \in Chunk
  /\ shamir \in Shamir
  /\ timerPrio \in TimerPrios
  /\ pc \in {"idle", "switch", "handle", "commit"}
  /\ at \in States \cup {NONE}
  /\ target \in States \cup {NONE} /\ (pc = "commit" => target \in States)
  /\ mon \in {"idle", "fresh", "stale", "write"}
  /\ tmr \in {"idle", "tested", "fresh", "stale", "write"}
  /\ masked \in Seq(0..(IdxMod - 1))
  /\ announced \in Nat \cup {-1}
  /\ phase \in States
  /\ failed \in BOOLEAN

(***************************************************************************)
(* Priorities.  app_main gives the network task priority 2 and the monitor *)
(* priority 1; the timer daemon's comes from the port's FreeRTOSConfig.    *)
(***************************************************************************)
NetPrio == 2

(* Mutant: the monitor gets the priority of the network task. *)
Mut_MonPrio == 2

MonPrio == 1

NetMayRun == tmr # "idle" => NetPrio >= timerPrio
MonMayRun == /\ pc # "idle" => MonPrio >= NetPrio
             /\ tmr # "idle" => MonPrio >= timerPrio
TmrMayRun == /\ pc # "idle" => timerPrio >= NetPrio
             /\ mon # "idle" => timerPrio >= MonPrio

(***************************************************************************)
(* state_machine_init; registration happens before the tasks start.        *)
(***************************************************************************)
Init ==
  /\ state = "ROUND_INIT" /\ age = 0
  /\ keypair = FALSE
  /\ peers = <<>>
  /\ chunk = [index |-> 0, total |-> 0, size |-> 0, final |-> FALSE]
  /\ shamir = [threshold |-> 0, shares |-> 0]
  /\ pc = "idle" /\ at = NONE /\ target = NONE
  /\ timerPrio \in TimerPrios
  /\ mon = "idle" /\ tmr = "idle"
  /\ masked = <<>> /\ announced = -1
  /\ phase = "ROUND_INIT" /\ failed = FALSE

-----------------------------------------------------------------------------
(***************************************************************************)
(* The network task.                                                       *)
(***************************************************************************)

(***************************************************************************)
(* ctx->last_activity_tick = xTaskGetTickCount().  The monitor and the     *)
(* callback read the tick count first and last_activity_tick afterwards.   *)
(* One that is between the two reads finds a difference of zero when the   *)
(* tick is still the one it has read; otherwise the unsigned difference    *)
(* wraps and exceeds every timeout.                                        *)
(***************************************************************************)
Restamped(task) ==
  IF task \in {"fresh", "stale"} THEN {"fresh", "stale"} ELSE {task}

Stamp ==
  /\ age' = 0
  /\ mon' \in Restamped(mon)
  /\ tmr' \in Restamped(tmr)

(* Mutant: process_message does not stamp the activity. *)
Mut_Receive ==
  /\ pc = "idle" /\ NetMayRun
  /\ pc' = "switch"
  /\ UNCHANGED <<ctx, timerPrio, at, target, mon, tmr, history>>

(* process_message up to its switch, which reads ctx->state *)
Receive ==
  /\ pc = "idle" /\ NetMayRun
  /\ Stamp
  /\ pc' = "switch"
  /\ UNCHANGED <<state, keypair, peers, chunk, shamir, timerPrio, at,
                 target, history>>

Dispatch ==
  /\ pc = "switch" /\ NetMayRun
  /\ pc' = "handle" /\ at' = state
  /\ UNCHANGED <<ctx, timerPrio, target, mon, tmr, history>>

Dispatched(s) == pc = "handle" /\ at = s /\ NetMayRun

(* A handler returns to the caller and leaves ctx->state alone. *)
Return ==
  /\ pc' = "idle" /\ at' = NONE /\ target' = NONE

(* state_machine_transition up to its ERROR check; Commit is the rest. *)
Transition(s) ==
  IF state = "ERROR"
  THEN Return
  ELSE pc' = "commit" /\ target' = s /\ at' = NONE

(* What no handler touches before it calls state_machine_transition *)
Others == UNCHANGED <<state, age, timerPrio, mon, tmr, phase, failed>>

Commit ==
  /\ pc = "commit" /\ NetMayRun
  /\ state' = target /\ phase' = target
  /\ Stamp
  /\ Return
  /\ UNCHANGED <<keypair, peers, chunk, shamir, timerPrio, masked, announced,
                 failed>>

CeilDiv(a, b) == (a + b - 1) \div b

HandleRoundInit(m) ==
  /\ Dispatched("ROUND_INIT")
  /\ Others
  /\ UNCHANGED <<keypair, peers, masked>>
  /\ \/ /\ m.type = "ROUND_INIT"
        /\ chunk' = [index |-> 0,
                     total |-> CeilDiv(m.par.model, m.par.size) % IdxMod,
                     size |-> m.par.size,
                     final |-> FALSE]
        /\ shamir' = [threshold |-> m.par.threshold,
                      shares |-> (m.par.expected + 255) % 256]
        /\ announced' = m.par.threshold
        /\ Transition("KEY_SETUP")
     \/ /\ m.type # "ROUND_INIT"
        /\ Return
        /\ UNCHANGED <<chunk, shamir, announced>>

HandleKeySetup(m) ==
  /\ Dispatched("KEY_SETUP")
  /\ Others
  /\ UNCHANGED <<peers, chunk, shamir, masked, announced>>
  /\ \/ /\ state = "KEY_SETUP" /\ m.type = "KEM_PUBLIC_KEY"
        /\ keypair' \in {keypair, TRUE}   \* key generation may fail
        /\ Return
     \/ /\ state = "KEY_SETUP" /\ m.type = "KEM_CIPHERTEXT"
        /\ IF m.fits /\ keypair THEN Transition("MASK_SETUP") ELSE Return
        /\ UNCHANGED keypair
     \/ /\ \/ state # "KEY_SETUP"
           \/ m.type \notin {"KEM_PUBLIC_KEY", "KEM_CIPHERTEXT"}
        /\ Return
        /\ UNCHANGED keypair

(***************************************************************************)
(* PAIRWISE_KEM_PUBKEY.  The handler copies the ML_KEM_768_PUBLIC_KEY_BYTES*)
(* = 1184 bytes of the payload to peers[i].shared_secret, a field of 32    *)
(* bytes in a 72-byte record.  From slot 0 on, the copy covers the records *)
(* of all later slots and the chunk_ctx and shamir_ctx that follow the     *)
(* array; what they hold afterwards are bytes of the key.                  *)
(***************************************************************************)
Overrun(i, ids) ==
  [j \in 1..Len(peers) |->
     IF j < i THEN peers[j]
     ELSE [id |-> IF j = i THEN peers[i].id ELSE ids[j],
           secret |-> "pubkey", seed |-> NONE]]

NewPeer(p) == [id |-> p, secret |-> "pubkey", seed |-> NONE]

(* The slots the handler's search finds for p; it stops at the first. *)
Slots(p) == {i \in 1..Len(peers) : peers[i].id = p}

StorePeerKey(p) ==
  \/ \E i \in Slots(p) :
       /\ \A j \in Slots(p) : i <= j
       /\ \E ids \in [1..Len(peers) -> PeerIds] : peers' = Overrun(i, ids)
       /\ \E s \in Spill : chunk' = s.chunk /\ shamir' = s.shamir
  \/ /\ Slots(p) = {} /\ Len(peers) < MaxPeers
     /\ peers' = Append(peers, NewPeer(p))
     /\ \E s \in Spill : chunk' = s.chunk /\ shamir' = s.shamir
  \/ /\ Slots(p) = {} /\ Len(peers) >= MaxPeers
     /\ UNCHANGED <<peers, chunk, shamir>>

(* kem_adapter_decapsulate with the stored bytes as the secret key: the    *)
(* length it is given is that of a public key, and only the length of a    *)
(* secret key is accepted.                                                 *)
PublicKeyBytes == 1184
SecretKeyBytes == 2400

Decapsulated(q) ==
  IF PublicKeyBytes = SecretKeyBytes THEN [q EXCEPT !.secret = "kem"] ELSE q

OpenPeerCiphertext(p) ==
  /\ peers' = [i \in 1..Len(peers) |->
                 IF i \in Slots(p) /\ \A j \in Slots(p) : i <= j
                 THEN Decapsulated(peers[i]) ELSE peers[i]]
  /\ UNCHANGED <<chunk, shamir>>

(* Mutant: the num_peers == 0 check of derive_pairwise_seeds is missing. *)
Mut_DeriveSeedsThenTrain ==
  /\ peers' = [i \in 1..Len(peers) |->
                 [peers[i] EXCEPT !.seed = peers[i].secret]]
  /\ Transition("LOCAL_TRAINING")

(* PAIRWISE_CONFIRM: mask_protocol_derive_pairwise_seeds, then training *)
DeriveSeedsThenTrain ==
  \/ /\ peers # <<>>
     /\ peers' = [i \in 1..Len(peers) |->
                    [peers[i] EXCEPT !.seed = peers[i].secret]]
     /\ Transition("LOCAL_TRAINING")
  \/ /\ peers = <<>>
     /\ UNCHANGED peers
     /\ Return

HandleMaskSetup(m) ==
  /\ Dispatched("MASK_SETUP")
  /\ Others
  /\ UNCHANGED <<keypair, masked, announced>>
  /\ \/ /\ state = "MASK_SETUP" /\ m.type = "PAIRWISE_KEM_PUBKEY"
        /\ IF m.fits THEN StorePeerKey(m.from)
                       ELSE UNCHANGED <<peers, chunk, shamir>>
        /\ Return
     \/ /\ state = "MASK_SETUP" /\ m.type = "PAIRWISE_KEM_CIPHERTEXT"
        /\ IF m.fits THEN OpenPeerCiphertext(m.from)
                       ELSE UNCHANGED <<peers, chunk, shamir>>
        /\ Return
     \/ /\ state = "MASK_SETUP" /\ m.type = "PAIRWISE_CONFIRM"
        /\ UNCHANGED <<chunk, shamir>>
        /\ DeriveSeedsThenTrain
     \/ /\ \/ state # "MASK_SETUP"
           \/ m.type \notin {"PAIRWISE_KEM_PUBKEY", "PAIRWISE_KEM_CIPHERTEXT",
                               "PAIRWISE_CONFIRM"}
        /\ Return
        /\ UNCHANGED <<peers, chunk, shamir>>

HandleLocalTraining ==
  /\ Dispatched("LOCAL_TRAINING")
  /\ Others
  /\ UNCHANGED <<keypair, peers, chunk, shamir, masked, announced>>
  /\ IF state = "LOCAL_TRAINING"
     THEN Transition("MASKED_UPDATE_STREAM")
     ELSE Return

(* The length test of handle_stream_chunk, and the size limit of the mask  *)
(* buffer that mask_protocol_generate_chunk_mask enforces.                 *)
LengthFits(len) ==
  /\ len = chunk.size \/ (chunk.final /\ len < chunk.size)
  /\ chunk.size \div 2 <= MaxElementBytes \div 2

(* Mutant: chunk_index is wider than the 16 bits of the wire format. *)
Mut_StreamChunkWide ==
  /\ masked' = Append(masked, chunk.index)
  /\ chunk' = [chunk EXCEPT !.index = @ + 1,
                            !.final = @ \/ chunk.index + 1 >= chunk.total - 1]

(* Mutant: the index is advanced only while the chunk is not final. *)
Mut_StreamChunkFinal ==
  /\ masked' = Append(masked, chunk.index)
  /\ LET next == IF chunk.final THEN chunk.index
                                ELSE (chunk.index + 1) % IdxMod
     IN  chunk' = [chunk EXCEPT !.index = next,
                                !.final = @ \/ next >= chunk.total - 1]

StreamChunk ==
  /\ masked' = Append(masked, chunk.index)
  /\ LET next == (chunk.index + 1) % IdxMod
     IN  chunk' = [chunk EXCEPT !.index = next,
                                !.final = @ \/ next >= chunk.total - 1]

(* handle_completion: shamir_share_bytes accepts the parameters and the    *)
(* random coefficients are drawn, or the client stays in the stream state. *)
CompleteOrFail ==
  \/ /\ shamir.threshold # 0 /\ shamir.shares >= shamir.threshold
     /\ Transition("CLIENT_COMPLETION")
  \/ Return

HandleStream(m) ==
  /\ Dispatched("MASKED_UPDATE_STREAM")
  /\ Others
  /\ UNCHANGED <<keypair, peers, shamir, announced>>
  /\ \/ /\ state = "MASKED_UPDATE_STREAM" /\ m.type = "MASK_CHUNK"
        /\ Len(masked) < MaxChunks
        /\ IF m.seq = chunk.index /\ LengthFits(m.len)
           THEN StreamChunk
           ELSE UNCHANGED <<chunk, masked>>
        /\ Return
     \/ /\ state = "MASKED_UPDATE_STREAM" /\ m.type = "CLIENT_COMPLETE"
        /\ UNCHANGED <<chunk, masked>>
        /\ CompleteOrFail
     \/ /\ \/ state # "MASKED_UPDATE_STREAM"
           \/ m.type \notin {"MASK_CHUNK", "CLIENT_COMPLETE"}
        /\ Return
        /\ UNCHANGED <<chunk, masked>>

(* CLIENT_COMPLETION and MASK_RECOVERY wait for one message type each. *)
HandleNotice(m, s, type, next) ==
  /\ Dispatched(s)
  /\ Others
  /\ UNCHANGED <<keypair, peers, chunk, shamir, masked, announced>>
  /\ IF state = s /\ m.type = type THEN Transition(next) ELSE Return

(* UNMASK and FEDAVG advance on any message and do not re-read the state. *)
HandleAny(s, next) ==
  /\ Dispatched(s)
  /\ Others
  /\ UNCHANGED <<keypair, peers, chunk, shamir, masked, announced>>
  /\ Transition(next)

(* The default case of the switch: ERR_INVALID_STATE *)
HandleNothing ==
  /\ pc = "handle" /\ NetMayRun
  /\ at \in {"AGGREGATION", "DROPOUT_DETECTION", "ROUND_COMPLETE", "ERROR"}
  /\ Others
  /\ UNCHANGED <<keypair, peers, chunk, shamir, masked, announced>>
  /\ Return

HandleDropoutNotify(m) ==
  HandleNotice(m, "CLIENT_COMPLETION", "DROPOUT_NOTIFY", "MASK_RECOVERY")

HandleRecoveryComplete(m) ==
  HandleNotice(m, "MASK_RECOVERY", "RECOVERY_COMPLETE", "UNMASK")

HandleUnmask == HandleAny("UNMASK", "FEDAVG")
HandleFedavg == HandleAny("FEDAVG", "ROUND_COMPLETE")

Handle(m) ==
  \/ HandleRoundInit(m)
  \/ HandleKeySetup(m)
  \/ HandleMaskSetup(m)
  \/ HandleLocalTraining
  \/ HandleStream(m)
  \/ HandleDropoutNotify(m)
  \/ HandleRecoveryComplete(m)
  \/ HandleUnmask
  \/ HandleFedavg
  \/ HandleNothing

-----------------------------------------------------------------------------
(***************************************************************************)
(* Time, the monitor and the timer.  A handler is shorter than either      *)
(* timeout, so no unit of time passes while one runs.                      *)
(***************************************************************************)
Tick ==
  /\ pc = "idle" /\ age < MaxAge
  /\ age' = age + 1
  /\ UNCHANGED <<state, keypair, peers, chunk, shamir, timerPrio, net, mon, tmr,
                 history>>

(***************************************************************************)
(* protocol_check_timeouts of main.c: the read of the tick count, the      *)
(* comparison, which reads last_activity_tick, and the store.  It looks at *)
(* no state.  "stale" and "fresh" are what the comparison will find; only  *)
(* a Stamp changes it.                                                     *)
(***************************************************************************)
MonitorRead ==
  /\ mon = "idle" /\ MonMayRun
  /\ mon' = IF age > StateTimeout THEN "stale" ELSE "fresh"
  /\ UNCHANGED <<ctx, timerPrio, net, tmr, history>>

(* Mutant: the monitor leaves dropped clients to the timer. *)
Mut_MonitorCheck ==
  /\ mon \in {"fresh", "stale"} /\ MonMayRun
  /\ mon' = IF mon = "stale" /\ state # "DROPOUT_DETECTION"
            THEN "write" ELSE "idle"
  /\ UNCHANGED <<ctx, timerPrio, net, tmr, history>>

MonitorCheck ==
  /\ mon \in {"fresh", "stale"} /\ MonMayRun
  /\ mon' = IF mon = "stale" THEN "write" ELSE "idle"
  /\ UNCHANGED <<ctx, timerPrio, net, tmr, history>>

MonitorWrite ==
  /\ mon = "write" /\ MonMayRun
  /\ state' = "ERROR" /\ failed' = TRUE
  /\ mon' = "idle"
  /\ UNCHANGED <<age, keypair, peers, chunk, shamir, timerPrio, net, tmr, masked,
                 announced, phase>>

(***************************************************************************)
(* dropout_timer_callback: the test of the state, then as the monitor.     *)
(***************************************************************************)

(* Mutant: the callback skips finished clients but not failed ones. *)
Mut_TimerTest ==
  /\ tmr = "idle" /\ TmrMayRun
  /\ state # "ROUND_COMPLETE"
  /\ tmr' = "tested"
  /\ UNCHANGED <<ctx, timerPrio, net, mon, history>>

TimerTest ==
  /\ tmr = "idle" /\ TmrMayRun
  /\ state \notin {"ROUND_COMPLETE", "ERROR"}
  /\ tmr' = "tested"
  /\ UNCHANGED <<ctx, timerPrio, net, mon, history>>

TimerRead ==
  /\ tmr = "tested" /\ TmrMayRun
  /\ tmr' = IF age > DropoutTimeout THEN "stale" ELSE "fresh"
  /\ UNCHANGED <<ctx, timerPrio, net, mon, history>>

TimerCheck ==
  /\ tmr \in {"fresh", "stale"} /\ TmrMayRun
  /\ tmr' = IF tmr = "stale" THEN "write" ELSE "idle"
  /\ UNCHANGED <<ctx, timerPrio, net, mon, history>>

TimerWrite ==
  /\ tmr = "write" /\ TmrMayRun
  /\ state' = "DROPOUT_DETECTION"
  /\ tmr' = "idle"
  /\ UNCHANGED <<age, keypair, peers, chunk, shamir, timerPrio, net, mon,
                 history>>

-----------------------------------------------------------------------------
Next ==
  \/ Receive
  \/ Dispatch
  \/ \E m \in Message : Handle(m)
  \/ Commit
  \/ Tick
  \/ MonitorRead \/ MonitorCheck \/ MonitorWrite
  \/ TimerTest \/ TimerRead \/ TimerCheck \/ TimerWrite

(***************************************************************************)
(* The scheduler runs every ready task and time passes.  The timer daemon  *)
(* fires once a second and is done in microseconds, so the monitor gets to *)
(* run between two callbacks: strong fairness.  Nothing obliges the        *)
(* network to deliver a message, so Receive has no fairness.               *)
(***************************************************************************)
Fairness ==
  /\ WF_vars(Tick)
  /\ WF_vars(Dispatch) /\ WF_vars(\E m \in Message : Handle(m)) /\ WF_vars(Commit)
  /\ SF_vars(MonitorRead) /\ SF_vars(MonitorCheck) /\ SF_vars(MonitorWrite)
  /\ WF_vars(TimerTest) /\ WF_vars(TimerRead)
  /\ WF_vars(TimerCheck) /\ WF_vars(TimerWrite)

Spec == Init /\ [][Next]_vars

FairSpec == Spec /\ Fairness

-----------------------------------------------------------------------------
(***************************************************************************)
(* Properties                                                              *)
(***************************************************************************)
Seeded == peers # <<>> /\ \A i \in 1..Len(peers) : peers[i].seed # NONE

(* No chunk is masked by an empty or partly initialised set of pairwise    *)
(* seeds: once handle_stream_chunk has masked one, every registered peer   *)
(* has had its seed derived and there is at least one, whatever order the  *)
(* key, ciphertext and confirm messages came in.                           *)
SeededBeforeMasking == masked # <<>> => Seeded

(* handle_stream_chunk masks the chunks in the order of their indices and  *)
(* skips none, so that no index comes back before all 2^16 were used.      *)
StreamOrder ==
  /\ \A i \in 1..(Len(masked) - 1) : masked[i + 1] = (masked[i] + 1) % IdxMod
  /\ masked # <<>> => chunk.index = (masked[Len(masked)] + 1) % IdxMod

(* The ERROR state is final on every port whose timer daemon outranks the  *)
(* monitor: state_machine_transition refuses to leave it and the callback  *)
(* passes over it.  On the others a callback that has tested the state     *)
(* before the monitor's store still writes DROPOUT_DETECTION, and nothing  *)
(* else ever replaces an ERROR.                                            *)
ErrorSticky ==
  [][state = "ERROR" =>
       \/ state' = "ERROR"
       \/ state' = "DROPOUT_DETECTION" /\ timerPrio <= MonPrio]_vars

(* A client that was declared dropped takes no further part in the round.  *)
(* The only exception is a port whose timer daemon has exactly the network *)
(* task's priority: there the callback's store can come between a          *)
(* handler's test of the state and the store of state_machine_transition,  *)
(* which undoes it.                                                        *)
DroppedStaysOut ==
  [][state = "DROPOUT_DETECTION" =>
       \/ state' \in {"DROPOUT_DETECTION", "ERROR"}
       \/ timerPrio = NetPrio]_vars

(* A client that stops receiving is failed by the monitor again whatever   *)
(* the callback writes over it, for the monitor looks at the age alone;    *)
(* and it stays failed where the timer daemon outranks the monitor.        *)
SilentClientFails ==
  <>[](pc = "idle") =>
     /\ []<>(state = "ERROR")
     /\ timerPrio > MonPrio => <>[](state = "ERROR")

(* The life cycle the state machine promises on every port: the phases are *)
(* entered in order, each at most once, also when a store of the callback  *)
(* is undone, and a failed client enters none of them any more.            *)
Lifecycle == INSTANCE ClientLifecycle
LifecycleSpec == Lifecycle!Spec

(* protocol.md: ROUND_INIT fixes the round parameters.  The threshold the  *)
(* client shares its secret with is the one the server announced.          *)
ThresholdAsAnnounced ==
  announced # -1 => shamir.threshold = announced

(* protocol.md: the server ends the round by sending ROUND_COMPLETE to all *)
(* clients; a client waiting in CLIENT_COMPLETION then completes.          *)
RoundCompleteIsHonoured ==
  [][\A m \in Message :
       (/\ m.type = "ROUND_COMPLETE"
        /\ at = "CLIENT_COMPLETION" /\ Handle(m))
          => target' = "ROUND_COMPLETE"]_vars
=============================================================================
