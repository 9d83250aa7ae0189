-------------------------- MODULE ClientLifecycle --------------------------
(***************************************************************************)
(* What the client's state machine promises to the rest of the firmware on *)
(* every port: a round moves forward through its phases one at a time.  A  *)
(* client may be declared dropped at any time, and as nothing locks its    *)
(* state a transition that was under way may still take it to the next     *)
(* phase.  Any client may fail, and a failed client enters no phase again. *)
(***************************************************************************)
VARIABLES
  state,   \* what the rest of the firmware reads
  phase,   \* the last phase entered
  failed   \* a timeout has failed the client

(* The phase that follows each phase; ROUND_COMPLETE is the last. *)
Follows(next, s) ==
  \/ s = "ROUND_INIT" /\ next = "KEY_SETUP"
  \/ s = "KEY_SETUP" /\ next = "MASK_SETUP"
  \/ s = "MASK_SETUP" /\ next = "LOCAL_TRAINING"
  \/ s = "LOCAL_TRAINING" /\ next = "MASKED_UPDATE_STREAM"
  \/ s = "MASKED_UPDATE_STREAM" /\ next = "CLIENT_COMPLETION"
  \/ s = "CLIENT_COMPLETION" /\ next = "MASK_RECOVERY"
  \/ s = "MASK_RECOVERY" /\ next = "UNMASK"
  \/ s = "UNMASK" /\ next = "FEDAVG"
  \/ s = "FEDAVG" /\ next = "ROUND_COMPLETE"

Init == state = "ROUND_INIT" /\ phase = "ROUND_INIT" /\ failed = FALSE

Advance ==
  /\ ~failed
  /\ state \in {phase, "DROPOUT_DETECTION"}
  /\ Follows(phase', phase) /\ state' = phase'
  /\ UNCHANGED failed

Drop == state' = "DROPOUT_DETECTION" /\ UNCHANGED <<phase, failed>>

Fail == state' = "ERROR" /\ failed' = TRUE /\ UNCHANGED phase

Next == Advance \/ Drop \/ Fail

Spec == Init /\ [][Next]_<<state, phase, failed>>
=============================================================================
