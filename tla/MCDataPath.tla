----------------------------- MODULE MCDataPath -----------------------------
(* ROUND_INIT for three clients: one chunk, two chunks, and a model that   *)
(* is not a multiple of the chunk size.  A behaviour is one of the bridge  *)
(* or one of the Flower server: flower_server.py makes a bridge that it    *)
(* never starts, so the two share nothing.                                 *)
EXTENDS DataPath, Flower

MCPayloads ==
  {<<3, 2, 2, 0, 2, 0, 0, 0>>, <<3, 2, 0, 1, 0, 2, 0, 0>>,
   <<3, 2, 2, 0, 3, 0, 0, 0>>}

(* Arrays that end at, before and behind the end of a chunk of 2 elements *)
MCShapes == {<<2, 2>>, <<1, 3, 1>>}

(* A negative fraction, and a value that 16 bits do not hold *)
MCValues == {-5, 131075}

MCInit == Init /\ FlowerInit
MCNext ==
  \/ current = 0 /\ Next /\ UNCHANGED fvars
  \/ ~Started /\ FlowerNext /\ UNCHANGED vars
MCSpec == MCInit /\ [][MCNext]_<<vars, fvars>>
=============================================================================
