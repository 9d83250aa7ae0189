----------------------------- MODULE MCClientSM -----------------------------
(* Instances of ClientSM for TLC: client 1, two peer slots, a chunk index  *)
(* of three values, and timeouts that one and two ticks exceed.            *)
EXTENDS ClientSM

MCRoundParams ==
  {[expected |-> 4, threshold |-> 2, size |-> 2, model |-> 5],
   [expected |-> 0, threshold |-> 2, size |-> 2, model |-> 2]}

(* Representative contents of chunk_ctx and shamir_ctx after a key is      *)
(* copied over them: a usable context, an exhausted one, an unusable one.  *)
MCSpill ==
  {[chunk |-> [index |-> 0, total |-> 2, size |-> 2, final |-> FALSE],
    shamir |-> [threshold |-> 2, shares |-> 3]],
   [chunk |-> [index |-> 2, total |-> 1, size |-> 1, final |-> TRUE],
    shamir |-> [threshold |-> 1, shares |-> 1]],
   [chunk |-> [index |-> 1, total |-> 0, size |-> 8, final |-> TRUE],
    shamir |-> [threshold |-> 3, shares |-> 2]]}
=============================================================================
