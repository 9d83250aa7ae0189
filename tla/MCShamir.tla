------------------------------ MODULE MCShamir ------------------------------
(* Instances of Shamir for TLC.  Share numbers up to 46 keep every product *)
(* of Horner's rule below 153133, the first value that barrett_reduce gets *)
(* wrong.                                                                  *)
EXTENDS Shamir
=============================================================================
