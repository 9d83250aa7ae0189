--------------------------- MODULE Bridge_proofs ---------------------------
(***************************************************************************)
(* Proofs about Bridge, for every set of clients, threshold, number of     *)
(* chunks and number of faults.                                            *)
(*                                                                         *)
(* What is published is decided by a check of the round state, but the     *)
(* tasks publish it after drains at which the round state changes.  The    *)
(* invariant says what a task may still rely on after a drain: the counts  *)
(* it has checked (Enough), the place of its loop (Placed), and what the   *)
(* writer it has written to was sent (Sending).                            *)
(***************************************************************************)
EXTENDS Bridge, FiniteSetTheorems, SequenceTheorems, TLAPS

(* The part of TypeOK that the messages write, and the part the tasks write *)
TableTypes ==
  /\ round \in BOOLEAN
  /\ clients \in Seq(Clients)
  /\ \A i, j \in 1..Len(clients) : clients[i] = clients[j] => i = j
  /\ key \in [Clients -> Keys \cup {"none"}]
  /\ \A c \in Clients : key[c] # "none" <=> c \in Registered
  /\ completed \subseteq Registered
  /\ chunks \in [Clients -> SUBSET Seqs]
  /\ dropouts \subseteq Clients
  /\ pos \in [Clients -> 0..Done]
  /\ used \in UsedType

TaskTypes ==
  /\ stage \in Stages
  /\ secret \subseteq Registered
  /\ pc \in [Clients -> PCs]
  /\ at \in [Clients -> Nat] /\ seq \in [Clients -> Nat]
  /\ size \in [Clients -> Nat]
  /\ up \subseteq Clients /\ keyed \subseteq Clients
  /\ agg \subseteq Clients /\ skipped \subseteq Clients
  /\ got \in [Clients -> SUBSET Seqs]

(* What a task at a drain may rely on *)
Checked ==
  /\ Cardinality(completed) >= Threshold
  /\ Cardinality(completed) >= Expected - Cardinality(dropouts)
Enough == \A c \in Clients : pc[c] \in KeyLoops => Checked
Placed == \A c \in Clients : pc[c] \in Loops => at[c] \in 1..Len(clients)
Sending ==
  \A c \in Clients : pc[c] = "send" =>
    /\ Counted # {} /\ seq[c] \in Seqs
    /\ clients[at[c]] \in up => 0..seq[c] \subseteq got[clients[at[c]]]

Published ==
  Counted # {} => /\ Cardinality(Counted) >= Threshold
                  /\ Cardinality(Counted) >= Expected - Cardinality(dropouts)
                  /\ Counted \subseteq completed /\ skipped \subseteq dropouts

(* A registered client's chunks are those its script has sent. *)
Scripted ==
  /\ \A c \in Registered : pos[c] # 0
  /\ \A c \in completed : pos[c] = Done
  /\ \A c \in Registered \ Misfits : chunks[c] = {q \in Seqs : q + 1 < pos[c]}
  /\ \A c \in Clients \ Registered : chunks[c] = {}

TaskInv == Enough /\ Placed /\ Sending /\ Published
IInv == TableTypes /\ TaskTypes /\ TaskInv /\ Scripted

ServiceStep == [Service!Next]_<<agg, skipped, got>>

-----------------------------------------------------------------------------
USE DEF PCs, Loops, KeyLoops, published

(* The two parts are the type invariant. *)
LEMMA TypeParts == TypeOK <=> TableTypes /\ TaskTypes
  BY DEF TypeOK, TableTypes, TaskTypes

(* Sets of clients are finite, and a larger one has at least as many. *)
LEMMA ClientSets ==
  ASSUME NEW T \in SUBSET Clients, NEW S \in SUBSET T
  PROVE  /\ IsFiniteSet(T) /\ IsFiniteSet(S)
         /\ Cardinality(T) \in Nat /\ Cardinality(S) \in Nat
         /\ Cardinality(S) <= Cardinality(T)
<1>1. IsFiniteSet(T)
  BY BridgeAssumption, FS_Subset
<1>. QED  BY <1>1, FS_Subset, FS_CardinalityType

(* Registered clients are clients. *)
LEMMA RegisteredClients ==
  ASSUME clients \in Seq(Clients)
  PROVE  Registered \subseteq Clients
  BY DEF Registered

(* The service counts as this module does. *)
LEMMA SameCardinality == \A S : Service!Cardinality(S) = Cardinality(S)
  BY DEF Service!Cardinality, Cardinality

(* A set with members has a positive number of them. *)
LEMMA SomeMember ==
  ASSUME NEW S \in SUBSET Clients, Cardinality(S) >= Threshold
  PROVE  S # {}
<1>1. Threshold \in Nat \ {0}
  BY BridgeAssumption
<1>. QED  BY <1>1, FS_EmptySet

-----------------------------------------------------------------------------
(* The invariant and the abstract service hold initially. *)
LEMMA InitInv == Init => IInv /\ Service!Init
<1>. SUFFICES ASSUME Init PROVE IInv /\ Service!Init
  OBVIOUS
<1>. USE BridgeAssumption DEF Init
<1>1. Registered = {}
  BY DEF Registered
<1>2. TableTypes
  <2>1. round \in BOOLEAN /\ completed \subseteq Registered
    BY Zenon
  <2>2. clients \in Seq(Clients) /\ Len(clients) = 0 /\ dropouts \subseteq Clients
    OBVIOUS
  <2>3. chunks \in [Clients -> SUBSET Seqs]
    OBVIOUS
  <2>4. pos \in [Clients -> 0..Done]
    BY DEF Done
  <2>5. used \in UsedType
    BY DEF UsedType
  <2>6. key \in [Clients -> Keys \cup {"none"}] /\ \A c \in Clients : key[c] = "none"
    OBVIOUS
  <2>7. \A c \in Clients : key[c] # "none" <=> c \in Registered
    BY <1>1, <2>6
  <2>. QED  BY <2>1, <2>2, <2>3, <2>4, <2>5, <2>6, <2>7 DEF TableTypes
<1>3. TaskTypes
  BY <1>1 DEF TaskTypes, Stages
<1>4. TaskInv
  BY DEF TaskInv, Enough, Placed, Sending, Published, Counted
<1>5. Scripted
  BY <1>1 DEF Scripted
<1>6. Service!Init
  BY DEF Service!Init
<1>. QED  BY <1>2, <1>3, <1>4, <1>5, <1>6 DEF IInv

-----------------------------------------------------------------------------
(***************************************************************************)
(* Steps of tasks.  Growing states what messages do to the round state in  *)
(* the same step: completions and dropouts are added, never taken away.    *)
(***************************************************************************)
Growing ==
  /\ clients' = clients
  /\ completed \subseteq completed' /\ completed' \subseteq Registered
  /\ dropouts \subseteq dropouts' /\ dropouts' \subseteq Clients

(* Counts that were checked stay checked while the round state grows. *)
LEMMA CheckedStays ==
  ASSUME TableTypes, TaskTypes, Growing
  PROVE  /\ Checked => Checked'
         /\ (Published /\ UNCHANGED <<agg, skipped>>) => Published'
<1>1. completed' \subseteq Clients /\ dropouts' \subseteq Clients
  BY RegisteredClients DEF TableTypes, Growing
<1>2. /\ Cardinality(completed) <= Cardinality(completed')
      /\ Cardinality(completed) \in Nat /\ Cardinality(completed') \in Nat
  BY <1>1, ClientSets DEF Growing
<1>3. /\ Cardinality(dropouts) <= Cardinality(dropouts')
      /\ Cardinality(dropouts) \in Nat /\ Cardinality(dropouts') \in Nat
  BY <1>1, ClientSets DEF Growing
<1>4. Expected \in Nat /\ Threshold \in Nat
  BY BridgeAssumption
<1>5. Counted \subseteq Clients
  BY DEF TaskTypes, Counted
<1>6. Cardinality(Counted) \in Nat
  BY <1>5, ClientSets
<1>7. ASSUME Published, UNCHANGED <<agg, skipped>> PROVE Published'
  <2>1. Counted' = Counted
    BY <1>7 DEF Counted
  <2>. QED  BY <1>3, <1>4, <1>6, <1>7, <2>1 DEF Published, Growing
<1>8. Checked => Checked'
  BY <1>2, <1>3, <1>4 DEF Checked
<1>. QED  BY <1>7, <1>8

(* A task that ends, or goes back to reading, leaves what others rely on. *)
LEMMA QuietKeeps ==
  ASSUME TableTypes, TaskTypes, TaskInv, Growing, NEW c \in Clients,
         UNCHANGED <<secret, keyed, published>>, stage' \in Stages,
         Die(c) \/ Stays
  PROVE  TaskTypes' /\ TaskInv' /\ ServiceStep
<1>1. Registered' = Registered
  BY DEF Registered, Growing
<1>2. TaskTypes'
  BY <1>1 DEF TaskTypes, Die, Stays
<1>3. \A d \in Clients : pc'[d] \in Loops =>
        /\ pc'[d] = pc[d] /\ at'[d] = at[d] /\ seq'[d] = seq[d]
  BY DEF TaskTypes, Die, Stays
<1>4. Enough'
  BY <1>3, CheckedStays DEF TaskInv, Enough
<1>5. Placed'
  BY <1>3 DEF TaskInv, Placed, Growing
<1>6. up' \subseteq up
  BY DEF Die, Stays
<1>7. Sending'
  BY <1>3, <1>6 DEF TaskInv, Sending, Growing, Counted
<1>8. Published'
  BY CheckedStays DEF TaskInv
<1>. QED  BY <1>2, <1>4, <1>5, <1>7, <1>8 DEF TaskInv, ServiceStep

(* Stopping at a drain keeps the places of all loops. *)
LEMMA DrainKeeps ==
  ASSUME TableTypes, TaskTypes, Placed, clients' = clients, NEW c \in Clients,
         NEW p \in Loops, NEW i \in 1..Len(clients), NEW q \in Nat, NEW n \in Nat,
         AwaitDrain(c, p, i, q, n)
  PROVE  /\ pc' \in [Clients -> PCs]
         /\ at' \in [Clients -> Nat] /\ seq' \in [Clients -> Nat]
         /\ size' \in [Clients -> Nat] /\ up' = up
         /\ pc'[c] = p /\ at'[c] = i /\ seq'[c] = q
         /\ \A d \in Clients \ {c} :
              pc'[d] = pc[d] /\ at'[d] = at[d] /\ seq'[d] = seq[d]
         /\ Placed'
<1>1. Len(clients) \in Nat
  BY DEF TableTypes
<1>2. /\ pc' \in [Clients -> PCs]
      /\ at' \in [Clients -> Nat] /\ seq' \in [Clients -> Nat]
      /\ size' \in [Clients -> Nat] /\ up' = up
  BY <1>1 DEF TaskTypes, AwaitDrain
<1>3. /\ pc'[c] = p /\ at'[c] = i /\ seq'[c] = q
      /\ \A d \in Clients \ {c} :
           pc'[d] = pc[d] /\ at'[d] = at[d] /\ seq'[d] = seq[d]
  BY DEF TaskTypes, AwaitDrain
<1>4. Placed'
  BY <1>3 DEF Placed
<1>. QED  BY <1>2, <1>3, <1>4

(* Writing a result chunk whose predecessors the writer was sent is a step *)
(* of the service.                                                         *)
LEMMA WriteKeeps ==
  ASSUME TableTypes, TaskTypes, Placed, Sending, clients' = clients,
         NEW c \in Clients, NEW i \in 1..Len(clients), NEW q \in Seqs,
         0..(q - 1) \subseteq got[clients[i]], Counted' # {},
         NEW n \in Nat, WriteResult(c, i, q, n)
  PROVE  /\ pc' \in [Clients -> PCs]
         /\ at' \in [Clients -> Nat] /\ seq' \in [Clients -> Nat]
         /\ size' \in [Clients -> Nat] /\ up' = up
         /\ got' \in [Clients -> SUBSET Seqs]
         /\ Placed' /\ Sending'
         /\ \A d \in Clients : pc'[d] \in KeyLoops => pc'[d] = pc[d]
         /\ got' = got \/ \E e \in Clients : Service!Send(e)
<1>. DEFINE e == clients[i]
<1>0. e \in Clients /\ q \in Nat /\ got \in [Clients -> SUBSET Seqs]
  BY DEF TableTypes, TaskTypes, Seqs
<1>1. AwaitDrain(c, "send", i, q, n)
  BY DEF WriteResult
<1>2. /\ pc' \in [Clients -> PCs]
      /\ at' \in [Clients -> Nat] /\ seq' \in [Clients -> Nat]
      /\ size' \in [Clients -> Nat] /\ up' = up
      /\ pc'[c] = "send" /\ at'[c] = i /\ seq'[c] = q
      /\ \A d \in Clients \ {c} :
           pc'[d] = pc[d] /\ at'[d] = at[d] /\ seq'[d] = seq[d]
      /\ Placed'
  BY <1>0, <1>1, DrainKeeps
<1>3. got' = [got EXCEPT ![e] = IF e \in up THEN got[e] \cup {q} ELSE got[e]]
  BY DEF WriteResult
<1>4. got' \in [Clients -> SUBSET Seqs]
  BY <1>0, <1>3
<1>5. \A d \in Clients : got[d] \subseteq got'[d]
  BY <1>0, <1>3
<1>6. e \in up => 0..q \subseteq got'[e]
  <2>. SUFFICES ASSUME e \in up, NEW k \in 0..q PROVE k \in got'[e]
    OBVIOUS
  <2>1. got'[e] = got[e] \cup {q}
    BY <1>0, <1>3
  <2>2. k = q \/ k \in 0..(q - 1)
    BY <1>0
  <2>. QED  BY <2>1, <2>2
<1>7. Sending'
  <2>. SUFFICES ASSUME NEW d \in Clients, pc'[d] = "send"
                PROVE  /\ Counted' # {} /\ seq'[d] \in Seqs
                       /\ clients'[at'[d]] \in up' =>
                            0..seq'[d] \subseteq got'[clients'[at'[d]]]
    BY DEF Sending, Seqs
  <2>1. CASE d = c
    BY <2>1, <1>2, <1>6
  <2>2. CASE d # c
    <3>1. pc[d] = "send" /\ at'[d] = at[d] /\ seq'[d] = seq[d]
      BY <2>2, <1>2
    <3>2. seq[d] \in Seqs /\ (clients[at[d]] \in up => 0..seq[d] \subseteq got[clients[at[d]]])
      BY <3>1 DEF Sending
    <3>3. at[d] \in 1..Len(clients)
      BY <3>1 DEF Placed
    <3>4. clients[at[d]] \in Clients
      BY <3>3 DEF TableTypes
    <3>. QED  BY <3>1, <3>2, <3>4, <1>2, <1>5
  <2>. QED  BY <2>1, <2>2
<1>8. got' = got \/ \E d \in Clients : Service!Send(d)
  <2>1. CASE e \in up
    <3>1. got' = [got EXCEPT ![e] = got[e] \cup {q}]
      BY <2>1, <1>3
    <3>2. Service!Send(e)
      BY <3>1, <1>0 DEF Service!Send, Service!Counted, Counted, Seqs
    <3>. QED  BY <3>2, <1>0
  <2>2. CASE e \notin up
    BY <2>2, <1>0, <1>3
  <2>. QED  BY <2>1, <2>2
<1>. QED  BY <1>2, <1>4, <1>7, <1>8

(* Publishing a result that counts the completed clients after a check:    *)
(* they are enough, and none is missing that was counted before.           *)
LEMMA PublishKeeps ==
  ASSUME TableTypes, TaskTypes, TaskInv, Growing, Checked', NEW c \in Clients,
         stage' = "ROUND_COMPLETE", Counted' = completed',
         agg' \cap skipped' = {}, skipped' \subseteq dropouts',
         WriteResult(c, 1, 0, Len(clients)), UNCHANGED <<secret, keyed>>
  PROVE  TaskTypes' /\ TaskInv' /\ ServiceStep
<1>1. completed' \subseteq Clients
  BY RegisteredClients DEF TableTypes, Growing
<1>2. Counted' # {}
  BY <1>1, SomeMember DEF Checked
<1>3. Published'
  BY DEF Published, Checked
<1>4. Counted \subseteq Counted'
  BY DEF TaskInv, Published, Growing
<1>5. 1 \in 1..Len(clients) /\ Len(clients) \in Nat
  <2>1. PICK e \in completed' : TRUE
    BY <1>2
  <2>2. PICK j \in 1..Len(clients) : clients[j] = e
    BY <2>1 DEF Growing, Registered
  <2>. QED  BY <2>2 DEF TableTypes
<1>6. 0 \in Seqs /\ 0..(0 - 1) \subseteq got[clients[1]]
  BY BridgeAssumption DEF Seqs
<1>7. /\ pc' \in [Clients -> PCs]
      /\ at' \in [Clients -> Nat] /\ seq' \in [Clients -> Nat]
      /\ size' \in [Clients -> Nat] /\ up' = up
      /\ got' \in [Clients -> SUBSET Seqs]
      /\ Placed' /\ Sending'
      /\ got' = got \/ \E d \in Clients : Service!Send(d)
  BY <1>2, <1>5, <1>6, WriteKeeps DEF TaskInv, Growing
<1>8. Registered' = Registered /\ agg' \subseteq Clients /\ skipped' \subseteq Clients
  BY <1>1 DEF Registered, Growing, Counted
<1>9. TaskTypes'
  BY <1>7, <1>8 DEF TaskTypes, Stages
<1>10. Enough'
  BY DEF Enough
<1>11. ServiceStep
  <2>1. Service!Counted = Counted /\ Service!Counted' = Counted'
    BY DEF Service!Counted, Counted
  <2>2. Service!Publish
    BY <1>1, <1>4, <2>1, SameCardinality DEF Service!Publish, Checked
  <2>. QED  BY <2>2, <1>7 DEF ServiceStep, Service!Next
<1>. QED  BY <1>3, <1>7, <1>9, <1>10, <1>11 DEF TaskInv

(* _unmask_and_aggregate raises or counts all completed clients. *)
LEMMA AggregateKeeps ==
  ASSUME TableTypes, TaskTypes, TaskInv, Growing, Checked', NEW c \in Clients,
         Aggregate(c), UNCHANGED <<secret, keyed>>
  PROVE  TaskTypes' /\ TaskInv' /\ ServiceStep
<1>. DEFINE raises == RecoveryRaises(dropouts') \/ dropouts' \cap secret # {}
<1>1. CASE raises
  <2>1. stage' \in Stages /\ Die(c) /\ UNCHANGED published
    BY <1>1 DEF Aggregate, Stages
  <2>. QED  BY <2>1, QuietKeeps
<1>2. CASE ~raises
  <2>1. /\ stage' = "ROUND_COMPLETE"
        /\ agg' = completed' \ dropouts' /\ skipped' = completed' \cap dropouts'
        /\ WriteResult(c, 1, 0, Len(clients))
    BY <1>2 DEF Aggregate
  <2>2. /\ Counted' = completed' /\ agg' \cap skipped' = {}
        /\ skipped' \subseteq dropouts'
    BY <2>1 DEF Counted
  <2>. QED  BY <2>1, <2>2, PublishKeeps
<1>. QED  BY <1>1, <1>2

(* Stopping at the drain of a ciphertext after a check *)
LEMMA KeyDrainKeeps ==
  ASSUME TableTypes, TaskTypes, TaskInv, Growing, Checked', NEW c \in Clients,
         NEW p \in KeyLoops, NEW j \in 1..Len(clients), NEW q \in Nat,
         NEW n \in Nat, stage' \in Stages,
         secret' = secret \cup {clients[j]},
         keyed' = keyed \cup ({clients[j]} \cap up),
         AwaitDrain(c, p, j, q, n), UNCHANGED published
  PROVE  TaskTypes' /\ TaskInv' /\ ServiceStep
<1>0. p \in Loops /\ p # "send"
  BY DEF Loops, KeyLoops
<1>1. /\ pc' \in [Clients -> PCs]
      /\ at' \in [Clients -> Nat] /\ seq' \in [Clients -> Nat]
      /\ size' \in [Clients -> Nat] /\ up' = up
      /\ pc'[c] = p
      /\ \A d \in Clients \ {c} :
           pc'[d] = pc[d] /\ at'[d] = at[d] /\ seq'[d] = seq[d]
      /\ Placed'
  BY <1>0, DrainKeeps DEF TaskInv, Growing
<1>2. Registered' = Registered /\ clients[j] \in Registered
  BY DEF Registered, Growing
<1>3. secret' \subseteq Registered' /\ keyed' \subseteq Clients
  BY <1>2 DEF TaskTypes
<1>4. TaskTypes'
  BY <1>1, <1>3 DEF TaskTypes, published
<1>5. Enough'
  BY DEF Enough
<1>6. Sending'
  BY <1>0, <1>1 DEF TaskInv, Sending, Growing, published, Counted
<1>7. Published'
  BY CheckedStays DEF TaskInv, published
<1>8. ServiceStep
  BY DEF ServiceStep, published
<1>. QED  BY <1>1, <1>4, <1>5, <1>6, <1>7, <1>8 DEF TaskInv

(* The key loop of _setup_keys_and_masks, from any position on *)
LEMMA SetupKeysKeeps ==
  ASSUME TableTypes, TaskTypes, TaskInv, Growing, Checked', NEW c \in Clients,
         NEW i \in Nat \ {0}, SetupKeys(c, i)
  PROVE  TaskTypes' /\ TaskInv' /\ ServiceStep
<1>1. CASE Aggregate(c) /\ UNCHANGED <<secret, keyed>>
  BY <1>1, AggregateKeeps
<1>2. ASSUME NEW j \in Pending(i),
             stage' = IF pc[c] = "read" THEN "UNMASKING" ELSE stage,
             UNCHANGED published,
             \/ Die(c) /\ UNCHANGED <<secret, keyed>>
             \/ /\ secret' = secret \cup {clients[j]}
                /\ keyed' = keyed \cup ({clients[j]} \cap up)
                /\ AwaitDrain(c, "keys", j, 0, Len(clients))
      PROVE  TaskTypes' /\ TaskInv' /\ ServiceStep
  <2>1. stage' \in Stages
    BY <1>2 DEF TaskTypes, Stages
  <2>2. Len(clients) \in Nat /\ j \in i..Len(clients)
    BY DEF Pending, TableTypes
  <2>3. j \in 1..Len(clients)
    BY <2>2
  <2>4. CASE Die(c) /\ UNCHANGED <<secret, keyed>>
    BY <1>2, <2>1, <2>4, QuietKeeps
  <2>5. "keys" \in KeyLoops /\ 0 \in Nat
    BY DEF KeyLoops
  <2>. QED  BY <1>2, <2>1, <2>2, <2>3, <2>4, <2>5, KeyDrainKeeps
<1>. QED  BY <1>1, <1>2 DEF SetupKeys

(* _check_round_completion, whatever it decides *)
LEMMA CheckKeeps ==
  ASSUME TableTypes, TaskTypes, TaskInv, Growing, NEW c \in Clients,
         CheckRoundCompletion(c)
  PROVE  TaskTypes' /\ TaskInv' /\ ServiceStep
<1>. DEFINE surviving == Expected - Cardinality(dropouts')
<1>0. completed' \subseteq Clients /\ dropouts' \subseteq Clients
  BY RegisteredClients DEF TableTypes, Growing
<1>1. /\ Cardinality(completed') \in Nat /\ Cardinality(dropouts') \in Nat
      /\ Expected \in Nat /\ Threshold \in Nat
  BY <1>0, ClientSets, BridgeAssumption
<1>2. CASE Cardinality(completed') >= surviving /\ surviving >= Threshold /\ SetupKeys(c, 1)
  <2>1. Checked'
    BY <1>1, <1>2 DEF Checked
  <2>. QED  BY <1>2, <2>1, SetupKeysKeeps
<1>3. CASE Fail(c)
  BY <1>3, QuietKeeps DEF Fail, Stages
<1>4. CASE Stays /\ UNCHANGED <<stage, secret, keyed, published>>
  BY <1>4, QuietKeeps DEF TaskTypes
<1>. QED  BY <1>2, <1>3, <1>4 DEF CheckRoundCompletion

-----------------------------------------------------------------------------
(***************************************************************************)
(* The actions                                                             *)
(***************************************************************************)

(* A step that leaves the round state and the scripts alone *)
LEMMA TableStays ==
  ASSUME TableTypes, Scripted, UNCHANGED <<table, pos>>,
         used' \in UsedType
  PROVE  TableTypes' /\ Scripted' /\ Growing
<1>1. Registered' = Registered
  BY DEF Registered, table
<1>2. TableTypes'
  BY <1>1 DEF TableTypes, table
<1>3. Scripted'
  BY <1>1 DEF Scripted, table
<1>. QED  BY <1>2, <1>3 DEF Growing, TableTypes, table

(* A step that leaves the tasks alone, and adds clients at most *)
LEMMA TasksStay ==
  ASSUME TableTypes, TaskTypes, TaskInv, clients' \in Seq(Clients),
         Len(clients) <= Len(clients'),
         \A i \in 1..Len(clients) : clients'[i] = clients[i],
         UNCHANGED <<stage, secret, completed, dropouts, tasks, up, keyed, published>>
  PROVE  TaskTypes' /\ TaskInv' /\ Registered \subseteq Registered' /\ ServiceStep
<1>0. Len(clients) \in Nat /\ Len(clients') \in Nat
  BY DEF TableTypes
<1>1. Registered \subseteq Registered'
  BY <1>0 DEF Registered
<1>2. TaskTypes'
  BY <1>1 DEF TaskTypes, tasks
<1>3. Enough'
  BY DEF TaskInv, Enough, Checked, tasks
<1>4. Placed'
  BY <1>0 DEF TaskInv, Placed, tasks
<1>5. Sending'
  BY DEF TaskInv, Placed, Sending, tasks, Counted
<1>6. Published'
  BY DEF TaskInv, Published, Counted
<1>. QED  BY <1>1, <1>2, <1>3, <1>4, <1>5, <1>6 DEF TaskInv, ServiceStep

(* ROUND_INIT creates the round. *)
LEMMA RoundInitInv ==
  ASSUME IInv, HandleRoundInit
  PROVE  IInv' /\ ServiceStep
<1>. USE DEF HandleRoundInit
<1>1. round' \in BOOLEAN
  BY Zenon
<1>2. Registered' = Registered
  BY DEF Registered
<1>3. TableTypes'
  BY <1>1, <1>2 DEF IInv, TableTypes
<1>4. Scripted'
  BY <1>2 DEF IInv, Scripted
<1>5. TaskTypes' /\ TaskInv' /\ ServiceStep
  BY TasksStay DEF IInv, TableTypes
<1>. QED  BY <1>3, <1>4, <1>5 DEF IInv

(* A public key registers its client, at the end of both dicts. *)
LEMMA PublicKeyInv ==
  ASSUME IInv, NEW c \in Clients, NEW k \in Keys, HandlePublicKey(c, k)
  PROVE  IInv' /\ ServiceStep
<1>. USE DEF HandlePublicKey
<1>1. clients \in Seq(Clients) /\ Len(clients) \in Nat /\ pos \in [Clients -> 0..Done]
  BY DEF IInv, TableTypes
<1>2. NumChunks \in Nat \ {0}
  BY BridgeAssumption
<1>3. pos[c] = 0 /\ pos' = [pos EXCEPT ![c] = 1]
  BY <1>1 DEF Advance
<1>4. pos' \in [Clients -> 0..Done] /\ pos'[c] = 1
  BY <1>1, <1>2, <1>3 DEF Done
<1>5. c \notin Registered /\ c \notin completed
  BY <1>3 DEF IInv, Scripted, TableTypes
<1>6. used \in UsedType /\ MaxOddKeys \in Nat
  BY BridgeAssumption DEF IInv, TableTypes
<1>7. used' \in UsedType
  BY <1>6 DEF UsedType
<1>8. used' \in UsedType /\ key \in [Clients -> Keys \cup {"none"}] /\ k # "none"
  BY <1>7 DEF IInv, TableTypes, Keys
<1>9. CASE ~round
  <2>0. clients' = clients /\ key' = key
    BY <1>9
  <2>1. Registered' = Registered
    BY <2>0 DEF Registered
  <2>2. TableTypes'
    BY <1>4, <1>8, <2>0, <2>1 DEF IInv, TableTypes
  <2>3. Scripted'
    BY <1>3, <1>1, <1>5, <2>1 DEF IInv, Scripted
  <2>4. TaskTypes' /\ TaskInv' /\ ServiceStep
    BY <1>1, <2>0, TasksStay DEF IInv
  <2>. QED  BY <2>2, <2>3, <2>4 DEF IInv
<1>10. CASE round
  <2>0. clients' = Append(clients, c) /\ key' = [key EXCEPT ![c] = k]
    BY <1>5, <1>10
  <2>1. /\ clients' \in Seq(Clients) /\ Len(clients') = Len(clients) + 1
        /\ clients'[Len(clients) + 1] = c
        /\ \A i \in 1..Len(clients) : clients'[i] = clients[i]
    BY <1>1, <2>0
  <2>2. Registered' = Registered \cup {c}
    <3>1. Registered' \subseteq Registered \cup {c}
      <4>. SUFFICES ASSUME NEW i \in 1..Len(clients') PROVE clients'[i] \in Registered \cup {c}
        BY DEF Registered
      <4>1. i = Len(clients) + 1 \/ i \in 1..Len(clients)
        BY <1>1, <2>1
      <4>. QED  BY <4>1, <2>1 DEF Registered
    <3>2. Len(clients) + 1 \in 1..Len(clients')
      BY <1>1, <2>1
    <3>3. c \in Registered'
      BY <2>1, <3>2 DEF Registered
    <3>4. \A i \in 1..Len(clients) : i \in 1..Len(clients')
      BY <1>1, <2>1
    <3>5. Registered \subseteq Registered'
      BY <2>1, <3>4 DEF Registered
    <3>. QED  BY <3>1, <3>3, <3>5
  <2>3. \A i, j \in 1..Len(clients') : clients'[i] = clients'[j] => i = j
    <3>. SUFFICES ASSUME NEW i \in 1..Len(clients'), NEW j \in 1..Len(clients'),
                         clients'[i] = clients'[j]
                  PROVE  i = j
      OBVIOUS
    <3>1. /\ i = Len(clients) + 1 \/ i \in 1..Len(clients)
          /\ j = Len(clients) + 1 \/ j \in 1..Len(clients)
      BY <1>1, <2>1
    <3>2. \A l \in 1..Len(clients) : clients[l] # c
      BY <1>5 DEF Registered
    <3>. QED  BY <3>1, <3>2, <2>1 DEF IInv, TableTypes
  <2>4. /\ key' \in [Clients -> Keys \cup {"none"}]
        /\ \A d \in Clients : key'[d] # "none" <=> d \in Registered'
    BY <1>8, <2>0, <2>2 DEF IInv, TableTypes
  <2>5. TableTypes'
    BY <1>4, <1>8, <2>1, <2>2, <2>3, <2>4 DEF IInv, TableTypes
  <2>6. chunks'[c] = {q \in Seqs : q + 1 < pos'[c]}
    BY <1>4, <1>5, <1>2 DEF IInv, Scripted, Seqs
  <2>7. Scripted'
    BY <1>1, <1>3, <1>4, <1>5, <2>2, <2>6 DEF IInv, Scripted
  <2>8. TaskTypes' /\ TaskInv' /\ ServiceStep
    BY <1>1, <2>1, TasksStay DEF IInv
  <2>. QED  BY <2>5, <2>7, <2>8 DEF IInv
<1>. QED  BY <1>9, <1>10

(* A mask chunk is the next one of its client's script. *)
LEMMA MaskChunkInv ==
  ASSUME IInv, NEW c \in Clients, HandleMaskChunk(c)
  PROVE  IInv' /\ ServiceStep
<1>. USE DEF HandleMaskChunk
<1>1. NumChunks \in Nat \ {0} /\ pos \in [Clients -> 0..Done]
      /\ chunks \in [Clients -> SUBSET Seqs]
  BY BridgeAssumption DEF IInv, TableTypes
<1>2. /\ pos[c] \in 1..NumChunks
      /\ pos' \in [Clients -> 0..Done] /\ pos'[c] = pos[c] + 1
      /\ \A d \in Clients \ {c} : pos'[d] = pos[d]
  BY <1>1 DEF Advance, Done
<1>3. pos[c] - 1 \in Seqs
  BY <1>1, <1>2 DEF Seqs
<1>4. Registered' = Registered /\ Registered \subseteq Clients
  BY RegisteredClients DEF Registered, IInv, TableTypes
<1>5. chunks' \in [Clients -> SUBSET Seqs]
  BY <1>1, <1>3
<1>6. TableTypes'
  BY <1>2, <1>4, <1>5 DEF IInv, TableTypes
<1>7. c \notin completed
  BY <1>1, <1>2 DEF IInv, Scripted, Done
<1>8. \A d \in Registered \ Misfits : chunks'[d] = {q \in Seqs : q + 1 < pos'[d]}
  <2>. SUFFICES ASSUME NEW d \in Registered \ Misfits
                PROVE  chunks'[d] = {q \in Seqs : q + 1 < pos'[d]}
    OBVIOUS
  <2>1. chunks[d] = {q \in Seqs : q + 1 < pos[d]} /\ d \in Clients
    BY <1>4 DEF IInv, Scripted
  <2>2. CASE d = c
    <3>1. chunks'[c] = chunks[c] \cup {pos[c] - 1}
      BY <1>1, <2>2
    <3>2. Seqs \subseteq Int
      BY DEF Seqs
    <3>3. \A q \in Seqs : q + 1 < pos[c] + 1 <=> q + 1 < pos[c] \/ q = pos[c] - 1
      BY <1>1, <1>2, <3>2
    <3>4. pos'[d] = pos[c] + 1
      BY <1>2, <2>2
    <3>. QED  BY <1>3, <2>1, <2>2, <3>1, <3>3, <3>4
  <2>3. CASE d # c
    BY <1>1, <1>2, <2>1, <2>3
  <2>. QED  BY <2>2, <2>3
<1>9. \A d \in Clients \ Registered : chunks'[d] = {}
  BY <1>1 DEF IInv, Scripted
<1>10. /\ \A d \in Registered : pos'[d] # 0
       /\ \A d \in completed : pos'[d] = Done
  BY <1>1, <1>2, <1>4, <1>7 DEF IInv, Scripted, TableTypes
<1>11. Scripted'
  BY <1>4, <1>8, <1>9, <1>10 DEF Scripted, Seqs
<1>12. TaskTypes' /\ TaskInv' /\ ServiceStep
  BY TasksStay DEF IInv, TableTypes
<1>. QED  BY <1>6, <1>11, <1>12 DEF IInv

(* What CLIENT_COMPLETE does to the round state: it ends the script, all   *)
(* chunks have been sent.                                                  *)
LEMMA CompleteTable ==
  ASSUME TableTypes, Scripted, NEW c \in Clients,
         \/ pos[c] = NumChunks + 1 /\ Advance(c) /\ UNCHANGED used
         \/ /\ pos[c] = Done /\ used.dups < MaxDups /\ Spare
            /\ used' = [used EXCEPT !.dups = @ + 1]
            /\ UNCHANGED pos,
         UNCHANGED <<round, clients, key, chunks, dropouts>>,
         completed' = IF c \in Registered THEN completed \cup {c} ELSE completed
  PROVE  TableTypes' /\ Scripted' /\ Growing
<1>1. /\ NumChunks \in Nat \ {0} /\ pos \in [Clients -> 0..Done]
      /\ used \in UsedType
      /\ MaxDups \in Nat
  BY BridgeAssumption DEF TableTypes
<1>2. /\ pos[c] \in {NumChunks + 1, Done} /\ pos' = [pos EXCEPT ![c] = Done]
      /\ used' \in UsedType
  <2>1. CASE pos[c] = NumChunks + 1 /\ Advance(c) /\ UNCHANGED used
    <3>1. pos' = [pos EXCEPT ![c] = pos[c] + 1]
      BY <2>1 DEF Advance
    <3>2. pos[c] + 1 = Done
      BY <1>1, <2>1 DEF Done
    <3>. QED  BY <1>1, <2>1, <3>1, <3>2
  <2>2. CASE /\ pos[c] = Done /\ used.dups < MaxDups /\ Spare
             /\ used' = [used EXCEPT !.dups = @ + 1] /\ UNCHANGED pos
    BY <1>1, <2>2 DEF UsedType
  <2>. QED  BY <2>1, <2>2
<1>3. /\ pos' \in [Clients -> 0..Done] /\ pos'[c] = Done
      /\ \A d \in Clients \ {c} : pos'[d] = pos[d]
  BY <1>1, <1>2 DEF Done
<1>4. Registered' = Registered /\ Registered \subseteq Clients
  BY RegisteredClients DEF Registered, TableTypes
<1>5. completed' \subseteq Registered /\ completed \subseteq completed'
      /\ completed' \subseteq completed \cup {c}
  BY DEF TableTypes
<1>6. TableTypes'
  BY <1>2, <1>3, <1>4, <1>5 DEF TableTypes
<1>7. Scripted'
  <2>1. \A d \in Registered : pos'[d] # 0
    BY <1>1, <1>3, <1>4 DEF Scripted, Done
  <2>2. \A d \in completed' : pos'[d] = Done
    BY <1>3, <1>4, <1>5 DEF Scripted
  <2>3. \A d \in Registered \ Misfits : chunks[d] = {q \in Seqs : q + 1 < pos'[d]}
    <3>. SUFFICES ASSUME NEW d \in Registered \ Misfits
                  PROVE  chunks[d] = {q \in Seqs : q + 1 < pos'[d]}
      OBVIOUS
    <3>1. chunks[d] = {q \in Seqs : q + 1 < pos[d]} /\ d \in Clients
      BY <1>4 DEF Scripted
    <3>2. CASE d = c
      <4>1. \A q \in Seqs : q + 1 < pos[c] <=> q + 1 < Done
        BY <1>1, <1>2 DEF Seqs, Done
      <4>. QED  BY <1>3, <3>1, <3>2, <4>1
    <3>3. CASE d # c
      BY <1>3, <3>1, <3>3
    <3>. QED  BY <3>2, <3>3
  <2>4. \A d \in Clients \ Registered : chunks[d] = {}
    BY DEF Scripted
  <2>. QED  BY <1>4, <2>1, <2>2, <2>3, <2>4 DEF Scripted, Seqs
<1>. QED  BY <1>5, <1>6, <1>7 DEF Growing, TableTypes

(* CLIENT_COMPLETE of a registered client is followed by a check. *)
LEMMA ClientCompleteInv ==
  ASSUME IInv, NEW c \in Clients, HandleClientComplete(c)
  PROVE  IInv' /\ ServiceStep
<1>1. completed' = IF c \in Registered THEN completed \cup {c} ELSE completed
  BY DEF HandleClientComplete
<1>2. TableTypes' /\ Scripted' /\ Growing
  BY <1>1, CompleteTable DEF HandleClientComplete, IInv
<1>3. TaskTypes' /\ TaskInv' /\ ServiceStep
  <2>1. CASE c \in Registered
    BY <1>2, <2>1, CheckKeeps DEF HandleClientComplete, IInv
  <2>2. CASE c \notin Registered
    BY <2>2, TasksStay DEF HandleClientComplete, IInv, TableTypes
  <2>. QED  BY <2>1, <2>2
<1>. QED  BY <1>2, <1>3 DEF IInv

(* What DROPOUT_NOTIFY does to the round state *)
LEMMA NotifyTable ==
  ASSUME TableTypes, Scripted, NEW d \in Clients,
         UNCHANGED <<round, clients, key, chunks, completed, pos>>,
         dropouts' = dropouts \cup {d},
         used.notes < MaxNotes, used' = [used EXCEPT !.notes = @ + 1]
  PROVE  TableTypes' /\ Scripted' /\ Growing
<1>1. /\ used \in UsedType
      /\ MaxNotes \in Nat
  BY BridgeAssumption DEF TableTypes
<1>2. used' \in UsedType
  BY <1>1 DEF UsedType
<1>3. Registered' = Registered
  BY DEF Registered
<1>4. TableTypes'
  BY <1>2, <1>3 DEF TableTypes
<1>5. Scripted'
  BY <1>3 DEF Scripted
<1>. QED  BY <1>4, <1>5 DEF Growing, TableTypes

(* DROPOUT_NOTIFY adds a dropout, and may fail or end the round. *)
LEMMA DropoutNotifyInv ==
  ASSUME IInv, NEW c \in Clients, NEW d \in Clients, HandleDropoutNotify(c, d)
  PROVE  IInv' /\ ServiceStep
<1>1. TableTypes' /\ Scripted' /\ Growing
  BY NotifyTable DEF HandleDropoutNotify, IInv
<1>2. TaskTypes' /\ TaskInv' /\ ServiceStep
  <2>1. CASE Die(c) /\ UNCHANGED <<stage, secret, keyed, published>>
    <3>1. stage' \in Stages
      BY <2>1 DEF IInv, TaskTypes
    <3>. QED  BY <1>1, <2>1, <3>1, QuietKeeps DEF IInv
  <2>2. CASE CheckRoundCompletion(c)
    BY <1>1, <2>2, CheckKeeps DEF IInv
  <2>. QED  BY <2>1, <2>2 DEF HandleDropoutNotify
<1>. QED  BY <1>1, <1>2 DEF IInv

(* A pairwise message ends its task. *)
LEMMA PairwiseInv ==
  ASSUME IInv, NEW c \in Clients, HandlePairwise(c)
  PROVE  IInv' /\ ServiceStep
<1>. USE DEF HandlePairwise
<1>0. /\ used \in UsedType
      /\ MaxFaults \in Nat /\ used.faults < MaxFaults
      /\ used' = [used EXCEPT !.faults = @ + 1]
  BY BridgeAssumption DEF IInv, TableTypes
<1>1. used' \in UsedType
  BY <1>0 DEF UsedType
<1>2. TableTypes' /\ Scripted' /\ Growing
  BY <1>1, TableStays DEF IInv
<1>3. stage' \in Stages
  BY DEF IInv, TaskTypes
<1>4. TaskTypes' /\ TaskInv' /\ ServiceStep
  BY <1>2, <1>3, QuietKeeps DEF IInv, table
<1>. QED  BY <1>2, <1>4 DEF IInv

(* A lost connection ends its task at once only if it reads. *)
LEMMA LoseConnectionInv ==
  ASSUME IInv, NEW c \in Clients, LoseConnection(c)
  PROVE  IInv' /\ ServiceStep
<1>. USE DEF LoseConnection
<1>0. /\ used \in UsedType
      /\ MaxFaults \in Nat /\ used.faults < MaxFaults
      /\ used' = [used EXCEPT !.faults = @ + 1]
  BY BridgeAssumption DEF IInv, TableTypes
<1>1. used' \in UsedType
  BY <1>0 DEF UsedType
<1>2. TableTypes' /\ Scripted' /\ Growing
  BY <1>1, TableStays DEF IInv
<1>3. Registered' = Registered
  BY <1>2 DEF Registered, Growing
<1>4. TaskTypes'
  BY <1>3 DEF IInv, TaskTypes, table
<1>5. \A d \in Clients : pc'[d] \in Loops => pc'[d] = pc[d]
  BY DEF IInv, TaskTypes
<1>6. Enough'
  BY <1>2, <1>5, CheckedStays DEF IInv, TaskInv, Enough
<1>7. Placed'
  BY <1>2, <1>5 DEF IInv, TaskInv, Placed, Growing
<1>8. Sending'
  BY <1>2, <1>5 DEF IInv, TaskInv, Sending, Growing, Counted
<1>9. Published'
  BY <1>2, CheckedStays DEF IInv, TaskInv
<1>10. ServiceStep
  BY DEF ServiceStep
<1>. QED  BY <1>2, <1>4, <1>6, <1>7, <1>8, <1>9, <1>10 DEF IInv, TaskInv

(* After the drain of a ciphertext the counts are still those checked. *)
LEMMA ResumeKeysInv ==
  ASSUME IInv, NEW c \in Clients, ResumeKeys(c)
  PROVE  IInv' /\ ServiceStep
<1>1. /\ pc[c] = "keys"
      /\ UNCHANGED <<round, clients, key, chunks, completed, dropouts, pos, used>>
  BY DEF ResumeKeys
<1>2. Registered' = Registered
  BY <1>1 DEF Registered
<1>3. TableTypes' /\ Scripted' /\ Growing
  BY <1>1, <1>2 DEF IInv, TableTypes, Scripted, Growing
<1>4. Checked'
  BY <1>1, <1>3, CheckedStays DEF IInv, TaskInv, Enough
<1>5. CASE Die(c) /\ UNCHANGED <<stage, secret, keyed, published>>
  <2>1. stage' \in Stages
    BY <1>5 DEF IInv, TaskTypes
  <2>. QED  BY <1>3, <1>5, <2>1, QuietKeeps DEF IInv
<1>6. CASE SetupKeys(c, at[c] + 1)
  <2>1. at[c] + 1 \in Nat \ {0}
    BY DEF IInv, TaskTypes
  <2>. QED  BY <1>3, <1>4, <1>6, <2>1, SetupKeysKeeps DEF IInv
<1>. QED  BY <1>5, <1>6 DEF ResumeKeys

(* After the drain of a result chunk the next one may be written. *)
LEMMA ResumeSendInv ==
  ASSUME IInv, NEW c \in Clients, ResumeSend(c)
  PROVE  IInv' /\ ServiceStep
<1>. DEFINE more == seq[c] < NumChunks - 1
<1>0. /\ pc[c] = "send" /\ UNCHANGED <<table, stage, pos, keyed, agg, skipped, used>>
  BY DEF ResumeSend
<1>1. TableTypes' /\ Scripted' /\ Growing
  BY <1>0, TableStays DEF IInv, TableTypes
<1>2. Registered' = Registered /\ clients' = clients
      /\ UNCHANGED <<secret, completed, dropouts>>
  BY <1>0 DEF Registered, table
<1>3. /\ at[c] \in 1..Len(clients) /\ seq[c] \in Seqs /\ Counted' # {}
      /\ clients[at[c]] \in up => 0..seq[c] \subseteq got[clients[at[c]]]
  BY <1>0 DEF IInv, TaskInv, Placed, Sending, Counted
<1>4. NumChunks \in Nat \ {0} /\ Len(clients) \in Nat /\ size[c] \in Nat
  BY BridgeAssumption DEF IInv, TableTypes, TaskTypes
<1>5. Published'
  BY <1>0, <1>1, CheckedStays DEF IInv, TaskInv
<1>6. ASSUME NEW i \in 1..Len(clients), NEW q \in Seqs,
             0..(q - 1) \subseteq got[clients[i]],
             WriteResult(c, i, q, size[c])
      PROVE  IInv' /\ ServiceStep
  <2>1. /\ pc' \in [Clients -> PCs]
        /\ at' \in [Clients -> Nat] /\ seq' \in [Clients -> Nat]
        /\ size' \in [Clients -> Nat] /\ up' = up
        /\ got' \in [Clients -> SUBSET Seqs]
        /\ Placed' /\ Sending'
        /\ \A d \in Clients : pc'[d] \in KeyLoops => pc'[d] = pc[d]
        /\ got' = got \/ \E e \in Clients : Service!Send(e)
    BY <1>2, <1>3, <1>4, <1>6, WriteKeeps DEF IInv, TaskInv
  <2>2. TaskTypes'
    BY <1>0, <1>2, <2>1 DEF IInv, TaskTypes
  <2>3. Enough'
    BY <1>1, <2>1, CheckedStays DEF IInv, TaskInv, Enough
  <2>4. ServiceStep
    BY <1>0, <2>1 DEF ServiceStep, Service!Next
  <2>. QED  BY <1>1, <1>5, <2>1, <2>2, <2>3, <2>4 DEF IInv, TaskInv
<1>7. CASE Die(c) /\ UNCHANGED got
  <2>1. stage' \in Stages /\ UNCHANGED <<secret, keyed, published>>
    BY <1>0, <1>2, <1>7 DEF IInv, TaskTypes
  <2>. QED  BY <1>1, <1>7, <2>1, QuietKeeps DEF IInv
<1>8. CASE clients[at[c]] \in up /\ more /\ WriteResult(c, at[c], seq[c] + 1, size[c])
  <2>1. seq[c] + 1 \in Seqs /\ (seq[c] + 1) - 1 = seq[c]
    BY <1>3, <1>4, <1>8 DEF Seqs
  <2>2. 0..((seq[c] + 1) - 1) \subseteq got[clients[at[c]]]
    BY <1>3, <1>8, <2>1
  <2>. QED  BY <1>3, <1>6, <1>8, <2>1, <2>2
<1>9. CASE at[c] < Len(clients) /\ WriteResult(c, at[c] + 1, 0, size[c])
  <2>1. at[c] + 1 \in 1..Len(clients) /\ 0 \in Seqs
    BY <1>3, <1>4, <1>9 DEF Seqs
  <2>2. 0..(0 - 1) \subseteq got[clients[at[c] + 1]]
    OBVIOUS
  <2>. QED  BY <1>6, <1>9, <2>1, <2>2
<1>10. CASE /\ pc' = [pc EXCEPT ![c] = IF c \in up THEN "read" ELSE "closed"]
            /\ UNCHANGED <<at, seq, size, up, got>>
  <2>1. \A d \in Clients : pc'[d] \in Loops => pc'[d] = pc[d]
    BY <1>10 DEF IInv, TaskTypes
  <2>2. TaskTypes'
    BY <1>0, <1>2, <1>10 DEF IInv, TaskTypes
  <2>3. Enough' /\ Placed'
    BY <1>1, <1>2, <1>10, <2>1, CheckedStays DEF IInv, TaskInv, Enough, Placed
  <2>4. Sending'
    BY <1>0, <1>2, <1>10, <2>1 DEF IInv, TaskInv, Sending, Counted
  <2>5. ServiceStep
    BY <1>0, <1>10 DEF ServiceStep
  <2>. QED  BY <1>1, <1>5, <2>2, <2>3, <2>4, <2>5 DEF IInv, TaskInv
<1>. QED  BY <1>7, <1>8, <1>9, <1>10 DEF ResumeSend

(* Every step keeps the invariant and is a step of the service. *)
LEMMA NextInv == IInv /\ [Next]_vars => IInv' /\ ServiceStep
<1>. SUFFICES ASSUME IInv, [Next]_vars PROVE IInv' /\ ServiceStep
  OBVIOUS
<1>1. CASE HandleRoundInit
  BY <1>1, RoundInitInv
<1>2. CASE \E c \in Clients, k \in Keys : HandlePublicKey(c, k)
  BY <1>2, PublicKeyInv
<1>3. CASE \E c \in Clients : HandleMaskChunk(c)
  BY <1>3, MaskChunkInv
<1>4. CASE \E c \in Clients : HandleClientComplete(c)
  BY <1>4, ClientCompleteInv
<1>5. CASE \E c, d \in Clients : HandleDropoutNotify(c, d)
  BY <1>5, DropoutNotifyInv
<1>6. CASE \E c \in Clients : HandlePairwise(c)
  BY <1>6, PairwiseInv
<1>7. CASE \E c \in Clients : LoseConnection(c)
  BY <1>7, LoseConnectionInv
<1>8. CASE \E c \in Clients : ResumeKeys(c)
  BY <1>8, ResumeKeysInv
<1>9. CASE \E c \in Clients : ResumeSend(c)
  BY <1>9, ResumeSendInv
<1>10. CASE UNCHANGED vars
  <2>1. Registered' = Registered
    BY <1>10 DEF Registered, vars, table
  <2>2. TableTypes' /\ TaskTypes' /\ Scripted'
    BY <1>10, <2>1 DEF IInv, TableTypes, TaskTypes, Scripted, vars, table, tasks
  <2>3. TaskInv' /\ ServiceStep
    BY <1>10 DEF IInv, TaskInv, Enough, Checked, Placed, Sending, Published,
                 Counted, ServiceStep, vars, table, tasks
  <2>. QED  BY <2>2, <2>3 DEF IInv
<1>. QED
  BY <1>1, <1>2, <1>3, <1>4, <1>5, <1>6, <1>7, <1>8, <1>9, <1>10 DEF Next

-----------------------------------------------------------------------------
(* The invariant holds in every reachable state. *)
LEMMA Inductive == Spec => []IInv
  BY InitInv, NextInv, PTL DEF Spec

(* The round state, the tasks of protocol_bridge.py and their loops keep   *)
(* their types: no loop index leaves the dict it iterates over.            *)
THEOREM TypeCorrect == Spec => []TypeOK
<1>1. IInv => TypeOK
  BY TypeParts DEF IInv
<1>. QED  BY <1>1, Inductive, PTL

(* An aggregate that satisfies the invariant is whole. *)
LEMMA InvWhole == IInv => AggregateIsWhole
<1>. SUFFICES ASSUME IInv, Counted # {} PROVE AggregateIsWhole!2
  BY DEF AggregateIsWhole
<1>1. /\ Cardinality(Counted) >= Threshold
      /\ Cardinality(Counted) >= Expected - Cardinality(dropouts)
      /\ Counted \subseteq completed /\ skipped \subseteq dropouts
  BY DEF IInv, TaskInv, Published
<1>2. \A c \in agg \ Misfits : chunks[c] = Seqs
  <2>. SUFFICES ASSUME NEW c \in agg \ Misfits PROVE chunks[c] = Seqs
    OBVIOUS
  <2>1. c \in Registered /\ pos[c] = Done
    BY <1>1 DEF IInv, TableTypes, Scripted, Counted
  <2>2. chunks[c] = {q \in Seqs : q + 1 < Done}
    BY <2>1 DEF IInv, Scripted
  <2>3. \A q \in Seqs : q + 1 < Done
    BY BridgeAssumption DEF Seqs, Done
  <2>. QED  BY <2>2, <2>3
<1>. QED  BY <1>1, <1>2

(* What _unmask_and_aggregate publishes is whole, for any number of        *)
(* clients, chunks, lost connections, dropout notices and repetitions.     *)
THEOREM AggregateWhole == Spec => []AggregateIsWhole
  BY InvWhole, Inductive, PTL

(* The tasks of the server together implement the round service: no        *)
(* published client is ever lost and results are sent in order.            *)
THEOREM ImplementsService == Spec => ServiceSpec
  BY InitInv, NextInv, PTL DEF Spec, ServiceSpec, Service!Spec, ServiceStep

-----------------------------------------------------------------------------
(***************************************************************************)
(* One aggregation at a time.  When no more clients than expected take     *)
(* part, a task aggregates only once all of them have completed, and then  *)
(* no CLIENT_COMPLETE is left that could start another one.                *)
(***************************************************************************)
AtDrain(c) == pc[c] \in Loops
OwnTask(c) == \A d \in Clients \ {c} : pc'[d] = pc[d]

Settled ==
  /\ dropouts = {}
  /\ \A c \in Clients : AtDrain(c) => completed = Clients
  /\ \A c, d \in Clients : AtDrain(c) /\ AtDrain(d) => c = d
SingleInv == Undisturbed => Settled

(* Key set-up moves the task that runs it and no other. *)
LEMMA SetupOwn ==
  ASSUME TaskTypes, NEW c \in Clients, NEW i, SetupKeys(c, i)
  PROVE  OwnTask(c)
<1>1. CASE Die(c)
  BY <1>1 DEF Die, OwnTask, TaskTypes
<1>2. ASSUME NEW p, NEW j, NEW q, NEW n, AwaitDrain(c, p, j, q, n) PROVE OwnTask(c)
  BY <1>2 DEF AwaitDrain, OwnTask, TaskTypes
<1>3. CASE Aggregate(c)
  BY <1>1, <1>2, <1>3 DEF Aggregate, WriteResult
<1>. QED  BY <1>1, <1>2, <1>3 DEF SetupKeys

(* A check moves the task that runs it to a drain only when it has counted *)
(* enough completed clients.                                               *)
LEMMA CheckOwn ==
  ASSUME TaskTypes, NEW c \in Clients, pc[c] = "read", CheckRoundCompletion(c)
  PROVE  /\ OwnTask(c)
         /\ AtDrain(c)' => Cardinality(completed') >= Expected - Cardinality(dropouts')
<1>1. CASE Cardinality(completed') >= Expected - Cardinality(dropouts') /\ SetupKeys(c, 1)
  BY <1>1, SetupOwn
<1>2. CASE Die(c) \/ Stays
  BY <1>2 DEF Die, Stays, OwnTask, AtDrain, TaskTypes
<1>. QED  BY <1>1, <1>2 DEF CheckRoundCompletion, Fail

(* Every step keeps SingleInv. *)
LEMMA SingleStep ==
  ASSUME Cardinality(Clients) <= Expected, IInv, SingleInv, [Next]_vars
  PROVE  SingleInv'
<1>. SUFFICES ASSUME Undisturbed' PROVE Settled'
  BY DEF SingleInv
<1>0. used \in UsedType
  BY DEF IInv, TableTypes
<1>1. ASSUME UNCHANGED <<used, dropouts, pc, completed>> PROVE Settled'
  BY <1>1 DEF SingleInv, Settled, Undisturbed, AtDrain
<1>2. ASSUME NEW c \in Clients, AtDrain(c), OwnTask(c),
             UNCHANGED <<used, dropouts, completed>>
      PROVE  Settled'
  BY <1>2 DEF SingleInv, Settled, Undisturbed, AtDrain, OwnTask
<1>3. ASSUME NEW c \in Clients, HandleClientComplete(c) PROVE Settled'
  <2>1. pos[c] = NumChunks + 1 /\ UNCHANGED used /\ dropouts' = dropouts
    BY <1>0, <1>3 DEF HandleClientComplete, Undisturbed, UsedType
  <2>2. c \notin completed
    BY <2>1, BridgeAssumption DEF IInv, Scripted, Done
  <2>3. dropouts = {} /\ \A d \in Clients : ~AtDrain(d)
    BY <2>1, <2>2 DEF SingleInv, Settled, Undisturbed
  <2>4. CASE c \notin Registered
    BY <1>1, <1>3, <2>1, <2>4 DEF HandleClientComplete, tasks
  <2>5. CASE c \in Registered
    <3>1. /\ CheckRoundCompletion(c) /\ pc[c] = "read"
          /\ completed' = completed \cup {c}
      BY <1>3, <2>5 DEF HandleClientComplete, Reads
    <3>2. /\ OwnTask(c)
          /\ AtDrain(c)' => Cardinality(completed') >= Expected - Cardinality(dropouts')
      BY <3>1, CheckOwn DEF IInv
    <3>3. completed' \subseteq Clients
      BY <3>1, RegisteredClients DEF IInv, TableTypes
    <3>4. Cardinality(dropouts') = 0 /\ dropouts' = {}
      BY <2>1, <2>3, FS_EmptySet
    <3>5. /\ Cardinality(completed') \in Nat /\ Cardinality(Clients) \in Nat
          /\ Cardinality(completed') <= Cardinality(Clients) /\ Expected \in Nat
      BY <3>3, ClientSets, BridgeAssumption
    <3>6. Cardinality(completed') = Cardinality(Clients) => completed' = Clients
      BY <3>3, BridgeAssumption, FS_Subset
    <3>7. AtDrain(c)' => completed' = Clients
      BY <3>2, <3>4, <3>5, <3>6
    <3>8. \A d \in Clients : AtDrain(d)' => d = c
      BY <2>3, <3>2 DEF OwnTask, AtDrain
    <3>. QED  BY <3>4, <3>7, <3>8 DEF Settled, AtDrain
  <2>. QED  BY <2>4, <2>5
<1>4. ASSUME NEW c \in Clients, NEW d \in Clients, HandleDropoutNotify(c, d)
      PROVE  FALSE
  BY <1>0, <1>4 DEF HandleDropoutNotify, Undisturbed, UsedType
<1>5. ASSUME NEW c \in Clients, HandlePairwise(c) \/ LoseConnection(c) PROVE FALSE
  BY <1>0, <1>5 DEF HandlePairwise, LoseConnection, Undisturbed, UsedType
<1>6. ASSUME NEW c \in Clients, ResumeKeys(c) PROVE Settled'
  <2>1. AtDrain(c) /\ UNCHANGED <<used, dropouts, completed>>
    BY <1>6 DEF ResumeKeys, AtDrain
  <2>2. OwnTask(c)
    <3>1. CASE Die(c)
      BY <3>1 DEF Die, OwnTask, IInv, TaskTypes
    <3>2. CASE SetupKeys(c, at[c] + 1)
      BY <3>2, SetupOwn DEF IInv
    <3>. QED  BY <1>6, <3>1, <3>2 DEF ResumeKeys
  <2>. QED  BY <1>2, <2>1, <2>2
<1>7. ASSUME NEW c \in Clients, ResumeSend(c) PROVE Settled'
  <2>1. AtDrain(c) /\ UNCHANGED <<used, dropouts, completed>>
    BY <1>7 DEF ResumeSend, AtDrain, table
  <2>2. \E p : pc' = [pc EXCEPT ![c] = p]
    BY <1>7 DEF ResumeSend, WriteResult, AwaitDrain, Die
  <2>3. OwnTask(c)
    BY <2>2 DEF OwnTask, IInv, TaskTypes
  <2>. QED  BY <1>2, <2>1, <2>3
<1>8. ASSUME NEW c \in Clients,
             (\E k \in Keys : HandlePublicKey(c, k)) \/ HandleMaskChunk(c)
      PROVE  Settled'
  <2>1. CASE HandleMaskChunk(c)
    BY <1>1, <2>1 DEF HandleMaskChunk, tasks
  <2>2. ASSUME NEW k \in Keys, HandlePublicKey(c, k) PROVE Settled'
    <3>1. /\ UNCHANGED <<dropouts, pc, completed>> /\ used'.faults = used.faults
          /\ used'.notes = used.notes /\ used'.dups = used.dups
      BY <1>0, <2>2 DEF HandlePublicKey, tasks, UsedType
    <3>. QED  BY <3>1 DEF SingleInv, Settled, Undisturbed, AtDrain
  <2>. QED  BY <1>8, <2>1, <2>2
<1>9. CASE HandleRoundInit \/ UNCHANGED vars
  BY <1>1, <1>9 DEF HandleRoundInit, tasks, vars, table
<1>. QED  BY <1>3, <1>4, <1>5, <1>6, <1>7, <1>8, <1>9 DEF Next

(* At most one task of the server is in _unmask_and_aggregate, for any     *)
(* number of clients, as long as no more of them than expected take part   *)
(* and nothing disturbs the round.                                         *)
THEOREM OneAggregator ==
  ASSUME Cardinality(Clients) <= Expected
  PROVE  Spec => []SingleAggregator
<1>1. Init => SingleInv
  BY DEF Init, SingleInv, Settled, AtDrain
<1>2. IInv /\ SingleInv /\ [Next]_vars => SingleInv'
  BY SingleStep
<1>3. SingleInv => SingleAggregator
  BY DEF SingleInv, Settled, SingleAggregator, AtDrain
<1>. QED  BY <1>1, <1>2, <1>3, Inductive, PTL DEF Spec

-----------------------------------------------------------------------------
(***************************************************************************)
(* Who is left out of a sum.  A task in the key loop relies on what it has *)
(* passed: every client there has a secret or an empty key.  This holds as *)
(* long as the dict has the size it had when the loop began; when it has   *)
(* not, the loop raises before it relies on it.                            *)
(***************************************************************************)
Passed(i) == \A j \in 1..Len(clients) :
               j < i => clients[j] \in secret \/ key[clients[j]] = "empty"
LoopSizes == \A c \in Clients : size[c] <= Len(clients)
LoopsPassed ==
  \A c \in Clients : pc[c] = "keys" /\ size[c] = Len(clients) => Passed(at[c] + 1)
KeyInv == LoopSizes /\ LoopsPassed /\ OnlyKeylessSkipped

(* A step that moves no task into the key loop and skips nobody new *)
LEMMA KeysStay ==
  ASSUME KeyInv, UNCHANGED <<clients, key, at, size, skipped>>, secret \subseteq secret',
         \A d \in Clients : pc'[d] = "keys" => pc[d] = "keys"
  PROVE  KeyInv'
  BY DEF KeyInv, LoopSizes, LoopsPassed, Passed, OnlyKeylessSkipped

(* Writing a result chunk in a loop over the current writers *)
LEMMA WriteKeysStay ==
  ASSUME KeyInv, TaskTypes, UNCHANGED <<clients, key, secret, skipped>>,
         NEW c \in Clients, NEW i, NEW q, NEW n, n <= Len(clients),
         WriteResult(c, i, q, n)
  PROVE  KeyInv'
<1>1. /\ pc'[c] = "send" /\ size'[c] = n
      /\ \A d \in Clients \ {c} :
           pc'[d] = pc[d] /\ at'[d] = at[d] /\ size'[d] = size[d]
  BY DEF WriteResult, AwaitDrain, TaskTypes
<1>2. LoopSizes'
  BY <1>1 DEF KeyInv, LoopSizes
<1>3. LoopsPassed'
  BY <1>1 DEF KeyInv, LoopsPassed, Passed
<1>. QED  BY <1>2, <1>3 DEF KeyInv, OnlyKeylessSkipped

(* The key loop from a position up to which it has passed the clients *)
LEMMA SetupKeysPassed ==
  ASSUME IInv, KeyInv, Growing, key' = key, NEW c \in Clients,
         NEW i \in Nat \ {0}, Passed(i), SetupKeys(c, i)
  PROVE  KeyInv'
<1>0. Len(clients) \in Nat /\ TaskTypes
  BY DEF IInv, TableTypes
<1>1. ASSUME Die(c), secret' = secret, skipped' = skipped PROVE KeyInv'
  <2>1. \A d \in Clients : pc'[d] = "keys" => pc[d] = "keys"
    BY <1>0, <1>1 DEF Die, TaskTypes
  <2>. QED  BY <1>1, <2>1, KeysStay DEF Die, Growing
<1>2. ASSUME Pending(i) = {}, Aggregate(c), UNCHANGED <<secret, keyed>> PROVE KeyInv'
  <2>1. CASE Die(c) /\ UNCHANGED published
    BY <1>1, <1>2, <2>1
  <2>2. CASE /\ dropouts' \cap secret = {} /\ skipped' = completed' \cap dropouts'
             /\ WriteResult(c, 1, 0, Len(clients))
    <3>1. \A d \in skipped' : key[d] = "empty"
      <4>. SUFFICES ASSUME NEW d \in skipped' PROVE key[d] = "empty"
        OBVIOUS
      <4>1. d \notin secret /\ d \in Registered
        BY <2>2 DEF Growing
      <4>2. PICK j \in 1..Len(clients) : clients[j] = d
        BY <4>1 DEF Registered
      <4>3. CASE j < i
        BY <4>1, <4>2, <4>3 DEF Passed
      <4>4. CASE ~(j < i)
        <5>1. j \in i..Len(clients)
          BY <1>0, <4>4
        <5>. QED  BY <1>2, <4>1, <4>2, <5>1 DEF Pending
      <4>. QED  BY <4>3, <4>4
    <3>2. /\ pc'[c] = "send" /\ size'[c] = Len(clients)
          /\ \A d \in Clients \ {c} :
               pc'[d] = pc[d] /\ at'[d] = at[d] /\ size'[d] = size[d]
      BY <1>0, <2>2 DEF WriteResult, AwaitDrain, TaskTypes
    <3>3. LoopSizes'
      BY <1>0, <3>2 DEF KeyInv, LoopSizes, Growing
    <3>4. LoopsPassed'
      BY <1>2, <3>2 DEF KeyInv, LoopsPassed, Passed, Growing
    <3>. QED  BY <3>1, <3>3, <3>4 DEF KeyInv, OnlyKeylessSkipped
  <2>. QED  BY <1>2, <2>1, <2>2 DEF Aggregate
<1>3. ASSUME NEW j \in Pending(i), \A k \in Pending(i) : j <= k, skipped' = skipped,
             secret' = secret \cup {clients[j]},
             AwaitDrain(c, "keys", j, 0, Len(clients))
      PROVE  KeyInv'
  <2>1. /\ pc'[c] = "keys" /\ size'[c] = Len(clients) /\ at'[c] = j
        /\ \A d \in Clients \ {c} :
             pc'[d] = pc[d] /\ at'[d] = at[d] /\ size'[d] = size[d]
    BY <1>0, <1>3 DEF AwaitDrain, TaskTypes
  <2>2. LoopSizes'
    BY <1>0, <2>1 DEF KeyInv, LoopSizes, Growing
  <2>3. \A l \in 1..Len(clients) :
          l < j + 1 => clients[l] \in secret' \/ key[clients[l]] = "empty"
    <3>. SUFFICES ASSUME NEW l \in 1..Len(clients), l < j + 1
                  PROVE  clients[l] \in secret' \/ key[clients[l]] = "empty"
      OBVIOUS
    <3>0. j \in i..Len(clients)
      BY DEF Pending
    <3>1. CASE l < i
      BY <1>3, <3>1 DEF Passed
    <3>2. CASE l = j
      BY <1>3, <3>2
    <3>3. CASE l \in i..Len(clients) /\ ~(j <= l)
      BY <1>3, <3>3 DEF Pending
    <3>. QED  BY <1>0, <3>0, <3>1, <3>2, <3>3
  <2>4. LoopsPassed'
    BY <1>3, <2>1, <2>3 DEF KeyInv, LoopsPassed, Passed, Growing
  <2>. QED  BY <1>3, <2>2, <2>4 DEF KeyInv, OnlyKeylessSkipped
<1>4. ASSUME NEW j \in Pending(i), \A k \in Pending(i) : j <= k, UNCHANGED published,
             \/ Die(c) /\ UNCHANGED <<secret, keyed>>
             \/ /\ secret' = secret \cup {clients[j]}
                /\ AwaitDrain(c, "keys", j, 0, Len(clients))
      PROVE  KeyInv'
  BY <1>1, <1>3, <1>4
<1>. QED  BY <1>2, <1>4 DEF SetupKeys

(* A check starts the key loop at the first client. *)
LEMMA CheckPassed ==
  ASSUME IInv, KeyInv, Growing, key' = key, NEW c \in Clients, CheckRoundCompletion(c)
  PROVE  KeyInv'
<1>1. CASE SetupKeys(c, 1)
  <2>1. Passed(1)
    BY DEF Passed, IInv, TableTypes
  <2>. QED  BY <1>1, <2>1, SetupKeysPassed
<1>2. CASE (Die(c) \/ Stays) /\ UNCHANGED <<secret, keyed, published>>
  <2>1. \A d \in Clients : pc'[d] = "keys" => pc[d] = "keys"
    BY <1>2 DEF Die, Stays, IInv, TaskTypes
  <2>. QED  BY <1>2, <2>1, KeysStay DEF Die, Stays, Growing
<1>. QED  BY <1>1, <1>2 DEF CheckRoundCompletion, Fail

(* Every step keeps KeyInv. *)
LEMMA KeyStep ==
  ASSUME IInv, KeyInv, [Next]_vars
  PROVE  KeyInv'
<1>0. /\ clients \in Seq(Clients) /\ Len(clients) \in Nat
      /\ key \in [Clients -> Keys \cup {"none"}] /\ TaskTypes
  BY DEF IInv, TableTypes
<1>1. CASE HandleRoundInit \/ UNCHANGED vars
  BY <1>1, KeysStay DEF HandleRoundInit, vars, table, tasks
<1>2. ASSUME NEW c \in Clients, NEW k \in Keys, HandlePublicKey(c, k) PROVE KeyInv'
  <2>1. UNCHANGED <<secret, pc, at, size, skipped>>
    BY <1>2 DEF HandlePublicKey, tasks
  <2>2. CASE ~round
    BY <1>2, <2>1, <2>2, KeysStay DEF HandlePublicKey
  <2>3. CASE round
    <3>1. c \notin Registered
      BY <1>2 DEF HandlePublicKey, IInv, Scripted
    <3>2. /\ Len(clients') = Len(clients) + 1
          /\ \A d \in Clients \ {c} : key'[d] = key[d]
      BY <1>0, <1>2, <2>3, <3>1 DEF HandlePublicKey
    <3>3. skipped \subseteq Clients \ {c}
      <4>1. Counted = {} \/ Counted \subseteq completed
        BY DEF IInv, TaskInv, Published
      <4>. QED  BY <3>1, <4>1 DEF Counted, IInv, TableTypes, TaskTypes
    <3>4. OnlyKeylessSkipped'
      BY <2>1, <3>2, <3>3 DEF KeyInv, OnlyKeylessSkipped
    <3>5. \A d \in Clients : size'[d] \in Nat /\ size'[d] < Len(clients')
      BY <1>0, <2>1, <3>2 DEF KeyInv, LoopSizes, TaskTypes
    <3>6. LoopSizes' /\ LoopsPassed'
      BY <1>0, <3>2, <3>5 DEF LoopSizes, LoopsPassed
    <3>. QED  BY <3>4, <3>6 DEF KeyInv
  <2>. QED  BY <2>2, <2>3
<1>3. ASSUME NEW c \in Clients, HandleMaskChunk(c) PROVE KeyInv'
  BY <1>3, KeysStay DEF HandleMaskChunk, tasks
<1>4. ASSUME NEW c \in Clients, HandleClientComplete(c) PROVE KeyInv'
  <2>1. CASE c \in Registered
    <3>1. Growing /\ key' = key /\ CheckRoundCompletion(c)
      BY <1>4, <2>1 DEF HandleClientComplete, Growing, IInv, TableTypes
    <3>. QED  BY <3>1, CheckPassed
  <2>2. CASE c \notin Registered
    BY <1>4, <2>2, KeysStay DEF HandleClientComplete, tasks
  <2>. QED  BY <2>1, <2>2
<1>5. ASSUME NEW c \in Clients, NEW d \in Clients, HandleDropoutNotify(c, d) PROVE KeyInv'
  <2>1. Growing /\ key' = key
    BY <1>5 DEF HandleDropoutNotify, Growing, IInv, TableTypes
  <2>2. CASE CheckRoundCompletion(c)
    BY <2>1, <2>2, CheckPassed
  <2>3. CASE Die(c) /\ UNCHANGED <<stage, secret, keyed, published>>
    <3>1. \A e \in Clients : pc'[e] = "keys" => pc[e] = "keys"
      BY <1>0, <2>3 DEF Die, TaskTypes
    <3>. QED  BY <2>1, <2>3, <3>1, KeysStay DEF Die, Growing
  <2>. QED  BY <1>5, <2>2, <2>3 DEF HandleDropoutNotify
<1>6. ASSUME NEW c \in Clients, HandlePairwise(c) \/ LoseConnection(c) PROVE KeyInv'
  <2>1. \A e \in Clients : pc'[e] = "keys" => pc[e] = "keys"
    BY <1>0, <1>6 DEF HandlePairwise, LoseConnection, Die, TaskTypes
  <2>2. UNCHANGED <<clients, key, at, size, skipped, secret>>
    BY <1>6 DEF HandlePairwise, LoseConnection, Die, table
  <2>. QED  BY <2>1, <2>2, KeysStay
<1>7. ASSUME NEW c \in Clients, ResumeKeys(c) PROVE KeyInv'
  <2>1. Growing /\ key' = key
    BY <1>7 DEF ResumeKeys, Growing, IInv, TableTypes
  <2>2. CASE ~Resized(c) /\ SetupKeys(c, at[c] + 1)
    <3>1. Passed(at[c] + 1) /\ at[c] + 1 \in Nat \ {0}
      BY <1>0, <1>7, <2>2 DEF ResumeKeys, Resized, KeyInv, LoopsPassed, TaskTypes
    <3>. QED  BY <2>1, <2>2, <3>1, SetupKeysPassed
  <2>3. CASE Die(c) /\ UNCHANGED <<stage, secret, keyed, published>>
    <3>1. \A e \in Clients : pc'[e] = "keys" => pc[e] = "keys"
      BY <1>0, <2>3 DEF Die, TaskTypes
    <3>. QED  BY <2>1, <2>3, <3>1, KeysStay DEF Die, Growing
  <2>. QED  BY <1>7, <2>2, <2>3 DEF ResumeKeys
<1>8. ASSUME NEW c \in Clients, ResumeSend(c) PROVE KeyInv'
  <2>1. UNCHANGED <<clients, key, secret, skipped>> /\ size[c] <= Len(clients)
    BY <1>8 DEF ResumeSend, table, KeyInv, LoopSizes
  <2>2. ASSUME NEW i, NEW q, WriteResult(c, i, q, size[c]) PROVE KeyInv'
    BY <1>0, <2>1, <2>2, WriteKeysStay
  <2>3. ASSUME UNCHANGED <<at, size>>, NEW p \in {"read", "closed"},
               pc' = [pc EXCEPT ![c] = p]
        PROVE  KeyInv'
    <3>1. \A e \in Clients : pc'[e] = "keys" => pc[e] = "keys"
      BY <1>0, <2>3 DEF TaskTypes
    <3>. QED  BY <2>1, <2>3, <3>1, KeysStay
  <2>. QED  BY <1>8, <2>2, <2>3 DEF ResumeSend, Die
<1>. QED  BY <1>1, <1>2, <1>3, <1>4, <1>5, <1>6, <1>7, <1>8 DEF Next

(* Whatever happens at the drains, a completed client is left out of a sum *)
(* only when it registered with an empty key.                              *)
THEOREM OnlyKeylessLeftOut == Spec => []OnlyKeylessSkipped
<1>1. Init => KeyInv
  BY DEF Init, KeyInv, LoopSizes, LoopsPassed, OnlyKeylessSkipped
<1>2. IInv /\ KeyInv /\ [Next]_vars => KeyInv'
  BY KeyStep
<1>3. KeyInv => OnlyKeylessSkipped
  BY DEF KeyInv
<1>. QED  BY <1>1, <1>2, <1>3, Inductive, PTL DEF Spec
=============================================================================
