------------------------------ MODULE MCBridge ------------------------------
(* Instances of Bridge for TLC.  Clients are numbers, as on the wire; the  *)
(* dicts are walked in insertion order, so no symmetry is used.            *)
EXTENDS Bridge
=============================================================================
