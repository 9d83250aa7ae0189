----------------------------- MODULE MCServers ------------------------------
(* Instances of Servers for TLC: one behaviour per server and interleaving *)
EXTENDS Servers
=============================================================================
