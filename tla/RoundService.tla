---------------------------- MODULE RoundService ----------------------------
(***************************************************************************)
(* What a round of the server promises to its clients, whichever server    *)
(* runs it: a result counts at least Threshold clients, which are summed   *)
(* or skipped; it may be published again, with no client missing that was  *)
(* counted before; every client is sent the chunks of the result in their  *)
(* order, and none before there is a result.                               *)
(***************************************************************************)
EXTENDS Integers, FiniteSets

CONSTANTS Clients, Threshold, NumChunks

VARIABLES
  members,   \* the clients summed in the published result
  skipped,   \* the clients it counts and leaves out of the sum
  results    \* per client, the result chunks sent to it

Init == members = {} /\ skipped = {} /\ results = [c \in Clients |-> {}]

Counted == members \cup skipped

Publish ==
  /\ Counted \subseteq Counted' /\ Counted' \subseteq Clients
  /\ members' \cap skipped' = {}
  /\ Cardinality(Counted') >= Threshold

Send(c) ==
  /\ Counted' # {}
  /\ \E q \in 0..(NumChunks - 1) :
       /\ 0..(q - 1) \subseteq results[c]
       /\ results' = [results EXCEPT ![c] = @ \cup {q}]

Next ==
  /\ Publish \/ UNCHANGED <<members, skipped>>
  /\ results' = results \/ \E c \in Clients : Send(c)

Spec == Init /\ [][Next]_<<members, skipped, results>>
=============================================================================
