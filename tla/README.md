# DROPOUT / SwiftAgg: TLA+ models, checks and proofs

SwiftAgg is secure aggregation for federated learning: microcontroller clients
(C, FreeRTOS) mask their model updates pairwise, a Python asyncio server adds
them up, and Shamir shares let the server recover when a client drops out. This
directory models its protocol logic, the arithmetic under it and the scripts
that rewrite its tree in TLA+, checks the models with TLC and proves theorems
about them with TLAPS.

**Which code is modelled.** The commit holds unresolved merge conflicts.

- The firmware is read on the HEAD side of every conflict. That side does not
  build as it stands: the `MSG_TYPE_PAIRWISE_KEM_*` constants are not declared for
  the client, `kem_keypair_t` has no `shared_secret`, `protocol_register_context`
  is defined twice, `protocol_check_timeouts` is both static and global.
  `state_machine_process_message` has no caller yet; it is modelled as the job of
  the network task, the task it is written for.
- `protocol_bridge.py` is two programs. The HEAD side (up to line 669) is
  `Bridge`, the incoming side (670-1274) is one of the two in `Servers`, read with
  the markers removed and `typing.Any` imported. A raw NUL byte stands in the
  AES-CTR literal of the incoming side (line 947) and of `mock_client.py:70`; it is
  read as `\x00`. HEAD has the empty literal there (line 292).
- `baseline_server.py` is the other program in `Servers`, read with
  `_dispatch_message` indented into its class.

Where a missing name is what the code does at run time (in Python) it is
modelled as the exception it raises.

Source abbreviations: SM = `src/src/federated/state_machine.c`, MAIN =
`src/src/core_rtos/main.c`, PB = `src/host_server/protocol_bridge.py`, BS =
`src/host_server/baseline_server.py`, FL = `src/host_server/flower_server.py`, SR =
`src/host_server/shamir_recovery.py`.

## Inventory

| part | state | operations | interacts with |
|---|---|---|---|
| client state machine (SM) | `client_protocol_ctx_t`: state, key pair, peers, chunk and Shamir contexts, last activity | one handler per state, `transition`, `process_message` | KEM adapter, mask protocol, Shamir; its context is shared with the two timeout tasks without a lock |
| timeout tasks (MAIN, SM) | registered contexts | monitor every 100 ms, timer callback every 1 s | write `ctx->state` |
| KEM adapter | active variant and lengths | keypair, encapsulate, decapsulate, derivations | called by handlers and by the crypto worker |
| mask protocol | none (works on the peers) | derive seeds, make and apply a chunk mask | KEM adapter, mask generator |
| Shamir (shamir.c, SR) | none | share, reconstruct, byte variants | client at completion, server at recovery |
| server (PB, two sides) | rounds, clients, chunks, dropouts, writers | a task per connection; handlers; key set-up, recovery, averaging, broadcast | clients through sockets; tasks share the round state across awaits |
| classical server (BS) | the same, with X25519 keys | the same, and two pairwise handlers | the same |
| Flower strategy (FL) | samples, expected chunks, chunks per round and client | configure, aggregate, collect a chunked update | Flower's server loop |
| mock client | none | read ROUND_INIT, mask, stream | server |
| patch scripts (20 Python files in the root) | the files of the tree | write a file anew, replace text in it | each other, through the files |
| stream aggregator, crypto worker, telemetry | two queues, cycle counter | submit, work | DMA buffers, KEM adapter |
| DMA transport and interrupts | ping/pong index, pending flags | poll, queue, interrupt | stream task notification |
| mask generator, HKDF, NTT | block counter | init, get bytes | mask protocol |
| transport, impairment, codec | socket table | open, send, receive, frame | the wire |
| experiments | child processes, CSV files | start, measure, plot | the server and mock client as processes |

What is hard here: three client tasks that write one word without a lock;
server tasks that wait at a drain in the middle of a loop over shared dicts;
connections lost, messages repeated or reported late; exceptions that end the
wrong task; 16- and 32-bit arithmetic; buffers that are copied over their
neighbours; three copies of the averaging code; scripts that stop half way over
a tree another script has changed. `PROJECT.json` lists these hazards by line,
each with the properties aimed at it.

What makes each part correct. Client: it masks only with derived seeds, uses the
chunk indices in order, moves through the phases in order, and a failed or dropped
client stays out. Server: what it publishes is whole, reaches everyone, loses
no client when it is published again, and no client gets two secrets. Values:
what is published is the weighted mean, and masks cancel. Shamir: any threshold
of shares gives the secret back, fewer tell as little as possible. Scripts: an
interrupted or repeated script leaves declarations and definitions, imports and
exports together.

## Modules

| module | models |
|---|---|
| `ClientLifecycle` | abstract specification of a client: phases in order, Drop, Fail |
| `ClientSM` | the state machine, the monitor, the timer callback, priorities |
| `RoundService` | abstract specification of a round: what any server promises its clients |
| `Bridge` | the tasks of the HEAD server during one round |
| `Servers` | the incoming and the classical server, over the state of `Bridge` |
| `MaskAlgebra` | seeds, masks and masked chunks as linear combinations of unknowns |
| `FedAvg` | the three servers' averages over such chunks |
| `DataPath` | the values of one round, from the bytes of ROUND_INIT to the averages |
| `Flower` | `ChunkedFedAvg`: chunking, averaging, reassembly, chunked updates |
| `FieldSums` | the field of 3329 elements, sums over finite sets, the inverse as a power |
| `GF3329` | the C field arithmetic with its word sizes |
| `Shamir` | sharing on the device, reconstruction in C and in Python |
| `Patches` | the nineteen scripts that rewrite the tree |
| `ClientSM_proofs`, `Bridge_proofs`, `Servers_proofs`, `Patches_proofs`, `DataPath_proofs`, `Flower_proofs`, `Shamir_proofs` | the theorems |
| `FieldSums_proofs` | the lemmas on sums, congruences, recursion and interpolation they share |
| `MCClientSM`, `MCBridge`, `MCServers`, `MCDataPath`, `MCPatches`, `MCShamir` | instances for TLC |

`ClientSM` refines `ClientLifecycle`; `Bridge` and `Servers` both refine
`RoundService`. `Servers` extends `Bridge`, `DataPath` extends `FedAvg`,
`FedAvg` extends `MaskAlgebra`, `Shamir` extends `GF3329`; `MaskAlgebra`, `Flower` and `GF3329` share
`FieldSums`. `Servers_proofs` uses the lemmas of `Bridge_proofs`; `DataPath_proofs`,
`Flower_proofs` and `Shamir_proofs` those of `FieldSums_proofs`. `PROJECT.json` maps
every definition to its lines.

### ClientSM

One variable per field of the context that a property or a guard reads. The steps
of a task are the reads and writes of `ctx->state` and `ctx->last_activity_tick`
that another task can come between:

- the network task: `Receive` (stamp the activity), `Dispatch` (the switch reads the
  state), a `Handle...` action (the handler's tests and its work, up to and including
  the ERROR test of `state_machine_transition`), `Commit` (the store of the new state);
- the monitor: `MonitorRead` (the tick count), `MonitorCheck` (the comparison, which
  reads the last activity), `MonitorWrite`;
- the timer callback: `TimerTest` (of the state), `TimerRead`, `TimerCheck`, `TimerWrite`.

A message that is stamped between a task's read of the tick count and its read of
the last activity makes the unsigned difference wrap: the task takes a client that
has just been heard of for a silent one (`Restamped`).

A step of one task happens between two steps of another only if priorities allow
it; the targets have one core. The network task has priority 2 and the monitor 1.
Nothing in the repository sets `configTIMER_TASK_PRIORITY`, so every behaviour picks
its `timerPrio` from `TimerPrios`: 1 (the default of ESP-IDF, the monitor's), 2 (the
default of STM32Cube, the network task's) or 3 (above both). The properties say what
holds on which of them:

| | timer 1 | timer 2 | timer 3 |
|---|---|---|---|
| ERROR is final (`ErrorSticky`) | no: a callback that has tested the state stores DROPOUT_DETECTION over it | yes | yes |
| a dropped client is advanced by no message (`DroppedStaysOut`) | yes | no: the transition of a handler under way undoes it | yes |
| a silent client ends in ERROR (`SilentClientFails`) | again and again | for good | for good |
| phases in order, none entered by a failed client (`LifecycleSpec`) | yes | yes | yes |

The handler of PAIRWISE_KEM_PUBKEY copies 1184 bytes into a 32-byte field. What
later slots, `chunk_ctx` and `shamir_ctx` contain afterwards depends on the key,
so the model chooses from `Spill` and `PeerIds`. The array is 16 * 72 = 1152 bytes
long, so the copy passes its end from every slot, the first included.

A message that fails the round or client id test changes nothing and is not
modelled. `age` stands for the tick count minus the last activity, capped one
above both timeouts. Time does not pass while a handler runs (a handler is far
shorter than a timeout). `masked`, `announced`, `phase` and `failed` are history
variables; `ClientLifecycle` speaks of `state`, `phase` and `failed`.

### Bridge and Servers

A task runs alone until it awaits. It waits for a message (`pc` = read) or at a
drain of key set-up (keys) or of the broadcast (send); between two awaits
everything is one action, so `HandleClientComplete` runs through
`_check_round_completion`, `_setup_keys_and_masks`, recovery and
`_finalize_aggregation` to the first drain. A drain raises when the peer is gone;
a loop over a dict that has grown raises at its next item; both end the task that
runs, and close its own connection. Recovery and failure handling raise as the
code does: 32-byte shares where 64 are required, `recover_dropped_client_masks`
and `MSG_TYPE_ERROR` unbound, two handlers missing from the class.

Clients send their key, chunks and CLIENT_COMPLETE in order. Beyond the script,
connections are lost (`MaxFaults`), any connection reports any client as dropped
(`MaxNotes`), CLIENT_COMPLETE is repeated (`MaxDups`), a public key is empty or one
that encapsulation refuses (`key`, `MaxOddKeys`), and the chunks of `Misfits` have the
wrong length; `MaxMishaps` bounds the first four together. `keyed`, `agg`, `skipped`
and `got` are history variables.

The key loop (`SetupKeys`) encapsulates for the clients with a `public_key` and without
a `shared_secret` (`Pending`, PB:308); a refused key ends the task. `Aggregate` raises
when recovery does, or when a dropped client has a secret (PB:444); a dropped client
without one is passed over and counted in `skipped`. The bridge looks only at the
number of completed clients, so with an empty key it publishes sums of fewer clients
than the threshold: `AggregateIsWhole` and `RoundService` speak of the clients a
result counts, summed or skipped, and `OnlyKeylessSkipped` says who is skipped.

The other two servers import what they call inside the function that calls it
(`UnmaskClientChunks`) and have two more loops over pairs of clients with a drain in
each (`PairLoop`, `OrchestratePairwiseKem`, both by `WorkOnPair` over `OpenPairs`):
these find work only when a key changes after the key loop has passed its client.
The variable `server` says which of the two runs. The classical server also has the
two pairwise handlers: a client may replace its key, by an empty or a refused one
too, or set its own secret; so there a skipped client may have had a key once, and
`IncomingSkipsKeyless` is about the other server. A handler whose text equals HEAD's
is defined by HEAD's action. `cts` is a history variable.

### MaskAlgebra, FedAvg, DataPath, Flower

HKDF and AES-CTR are free functions: a seed is the tuple of what it is derived
from (`device` and `host` order the fields differently, so the layout is part of
it), and the stream of a seed is an unknown. A chunk element is a linear
combination modulo 3329 of plaintexts and streams; what holds of the coefficients
holds for every value. `DataPath` takes a message as one step (the interleaving
is the subject of `Bridge` and `Servers`, and so are odd keys) and computes what each
of the three servers would publish from the same table.

The clients of a round are devices or mock clients. Both make a chunk when they are
sent MASK_CHUNK (mock_client.py:195-208); who sends it, and who sends their
CLIENT_COMPLETE, is not in the repository. `streamed` is what a client has masked,
in its own words. A mock client packs chunk_size words big-endian, as the servers
unpack them (`>h`, PB:437). A device copies its words in its own byte order (SM:214)
and takes chunk_size for bytes (SM:194), so its chunks have half the length a server
asks for (PB:209-212) and are refused before their byte order could matter
(`ChunkBytes`, `Stores`). `WeightedMean` therefore says two things: mock clients are
averaged by weight, and of a device nothing enters an average. `MasksCancel` is about
what devices stream.

`Flower` follows `configure_fit`, `_chunk_parameters`, `aggregate_fit` and
`process_chunked_update`; a client's element is its value times a mark of client and
flat position, so "moves no element" is part of `FlowerMean`. Values are counted in
halves: `int16` is `astype(np.int16)` (FL:51), which cuts off fractions and wraps, and
`FlowerMean` is about the words that are left.

### Patches

A script is a sequence of steps, its functions or sections. Each step writes
a file anew or replaces text in it; a text that is not found is silently left
alone (`ab1_bind` binds the derivations of apply_batch1_fixes only in a file that has
the text it looks for). A file is represented by the facts on which its versions in
the tree and in the scripts differ: names declared, defined and imported, the AES-CTR
literal, how often an inserted text occurs. Init is the committed tree with the merge
resolved to either side. Any script may start whenever none runs. It may stop between
any two steps (`Fail`) or after `open(path, "w")` has emptied the step's file and
before anything is written to it (`Truncate`, `Targets`, `Emptied`), and the next one
starts from what it left.

### GF3329 and Shamir

A 32-bit word is a pair of 16-bit halves, because TLC's integers are 32 bits
signed. One of the 32 elements of a secret is modelled: the code treats them
independently. `byteApi`, chosen from `ByteApis`, says which function made the shares:
`shamir_share`, with 16-bit indices, or `shamir_share_bytes`, the one the firmware calls
(SM:246), which leaves 1, 0, 2, 0, 3... in the caller's array of bytes. Secrets are
16-bit words, as SM:232-247 shares them, not only field elements. Deliveries are in
any order, with losses and duplicates. `coeffs` is a history variable.

## Runs

Passing:

| run | instance | what it shows |
|---|---|---|
| `client` | 2 peer slots, timer at priority 1, 2 and 3, fair (337,092 states) | type, seeds before masks, index order; ERROR and DROPOUT_DETECTION are left only where priorities let a store overtake another; a silent client fails; implements the life cycle |
| `bridge_faults` | 3 clients, 2 chunks, a fault, a report, a repeat and an odd key, fair (1,004,536 states) | aggregates are whole, only clients without a key are skipped, implements the round service; undisturbed rounds have one aggregator and serve every client |
| `servers` | both other servers, 3 clients, 2 chunks, any three of the same mishaps (3,505,611 states) | whole aggregates, one ciphertext per client, the incoming side skips only clients without a key, implements the round service |
| `data_path` | 3 clients and 2 Flower clients | the three averages are the weighted mean of what mock clients stream and agree; no whole chunk is lost; Flower's chunking moves nothing and averages int16 words |
| `patches` | 19 scripts, up to 3 runs, interruptions (667,746 states) | telemetry.h declares nothing telemetry.c has lost, imports resolve, scripts idempotent, the literal stays repaired |
| `shamir_shares` | 2 and 3 of 5, both index layouts, up to four deliveries (374,882 states) | from 16-bit indices the host recovers the secret as a field element, from the firmware's the value at -1; one share of two tells a window of words |

Disagreements between the repository's documents or tests and its code, each a
run that TLC must find violated, with a finding that quotes the line:

| run | property | in short |
|---|---|---|
| `client_threshold` | `ThresholdAsAnnounced` | the key copy reaches the Shamir context |
| `client_complete` | `RoundCompleteIsHonoured` | ROUND_COMPLETE is refused in CLIENT_COMPLETION |
| `bridge_dropout` | `DropoutResilience` | recovery raises |
| `bridge_waits` | `AggregationReached` | ciphertexts are sent after completion |
| `masks_cancel` | `MasksCancel` | the two ends of a pair expand different streams |
| `shamir_device` | `DeviceRecovers` | the Barrett reduction overflows |

### Further disagreements

Visible in the models, without a run of their own:

- the priorities of the timer daemon: see the table above. That a message makes a task
  take a live client for a silent one (MAIN:46-47, SM:302-303) needs only the order of
  two reads;
- after 2^16 chunks the index wraps and its masks are used again (`StreamOrder` is
  modulo `IdxMod`; nothing limits the increment at SM:216);
- an empty public key lets a server publish the sum of fewer clients than the
  threshold, down to one client's own values: the client gets no secret (PB:308, :963,
  BS:309), and once it is reported dropped it is passed over (PB:444) while it still
  counts as completed;
- `RegisteredAreServed` holds for clients that stream without waiting for
  KEM_CIPHERTEXT. The repository's clients wait (test_full_round.py:78,
  mock_client.py:197), and for them `bridge_waits` shows that nothing is ever aggregated;
- a client whose chunks all had the wrong length is counted in the aggregate although
  nothing of it is there (`Misfits`, PB:210);
- so a device contributes nothing: its chunks are half as long as the server asks for
  (SM:194, PB:209-212), and if the lengths agreed its words would be read in the
  wrong byte order (SM:214, PB:437);
- ROUND_INIT is read little-endian by every party; message_format.md:55-56,
  test_full_round.py:133, test_dropout_recovery.py:216 and `_send_round_init` (FL:133-138)
  write it big-endian;
- shares of `shamir_share_bytes` do not give the secret back (`FirmwareSharesShift`):
  shamir.c:189 hands an 8-bit index array to a function that fills 16-bit indices, so
  the accepted shares are those of numbers 1, 3, 5... under the indices 1, 2, 3..., and
  the host computes the polynomial at -1. shamir_share_format.md:219-223 and
  crypto_test_results.md:159 say the secret comes back byte for byte;
- one share tells something (`OneShareTellsTheWindow`): `gf3329_add` subtracts 3329 once, so a
  share of a word s of 6658 or more lies in s-3329..s-1 and shows its high bits, against
  crypto_design.md:217 (fewer than t shares reveal nothing). The device shares raw
  16-bit words (SM:232-247). A threshold of two is checked and proved;
- the number of shares is a byte of ROUND_INIT minus one (SM:89, at most
  SHAMIR_MAX_SHARES = 255). From 47 on Horner's products pass what `barrett_reduce`
  gets right, and the recovery theorems stop there. (The arrays at SM:238-239 have room
  for 16 shares, and their 16-bit indices for 8.)
- seeds are derived from public-key bytes: decapsulation refuses the length it is
  given (`Decapsulated`; protocol.md:11 says KEM shared secrets);
- the monitor fails a finished client (`MonitorCheck` looks at no state;
  protocol.md:25-28 has no edge out of ROUND_COMPLETE);
- chunk_size is bytes on the client (`LengthFits`, SM:194) and elements on the server
  (PB:209) and in message_format.md:63; the client rounds the number of chunks up
  and the server down, so a partial last chunk is stored and never averaged;
- a dead peer ends the broadcast for the clients after it (`ResumeSend`, PB:542;
  protocol.md:20 says all clients);
- a repeated CLIENT_COMPLETE aggregates and broadcasts again
  (`HandleClientComplete`, PB:222; threat_model.md:98 says it is rejected);
- secret elements of 3329 or more come back reduced (`Share`, shamir.c:186;
  shamir_share_format.md:223 says byte-for-byte), and from 62208 on the last
  addition of Horner's rule may wrap at 16 bits (shamir.c:45), so that a share is
  not even congruent to the polynomial: the recovery properties are stated up to 62207;
- the average is no mean of the clients when some report a count of zero and others
  do not, or when the total is a multiple of 3329 (no inverse): `WeightedMean`
  is stated for the other cases;
- negative plaintexts come back as residues modulo 3329;
- recovery subtracts masks derived from the dropped client's secret with the
  server, which are not the masks the devices applied, and hashes round and ids in
  another order than the device does;
- Flower's `client_samples` is keyed by the count, so clients with equal
  `num_examples` count once in the total, and `expected_chunks` is keyed by the
  counts too (an update is found whole only when the client's id happens to be a
  count; nothing calls `process_chunked_update`); the bridge it holds is never started, so what
  `_send_round_init` writes reaches nobody; a model of fractions between -1 and 1 is
  averaged to zeros, and a negative mean comes back as a large number (FL:51);
- `verify_decapsulation` is lost from kem_adapter.c by batch2 and batch3 while a header
  of another version still declares it; a batch3 that is interrupted leaves an empty
  kem_adapter.c under a header that declares x25519; batch1 and phase2 interrupted
  between the codec's two files leave them with different signatures. A file that was
  empty when a replacing script came to it stays so: rerunning that script restores
  nothing. apply_batch1_fixes leaves the derivations of other versions of kem_adapter.c
  unbound without a word.

Found while reading, outside the models:

- a telemetry record is 60 bytes where message_format.md:44 and :80 say 64 and
  `run_benchmarks` reads the last 64 bytes of a payload;
- the device's codec puts a 32-byte MAC between header and payload
  (packet_codec.c:107); the host reads header and payload only;
- the experiment drivers start `python -m host_server.protocol_bridge`, which has no
  main program, and a mock client without the arguments it requires; rounds are
  recorded as successful all the same; nobody sends to the telemetry port 8889;
  `MetricsLogger.flush` raises ValueError, a telemetry port in use aborts the
  matrix and leaves processes behind; the five scripts under `experiments/scripts`
  have line breaks inside string literals and do not compile, and the plots expect
  CSV files nobody writes;
- some scripts' versions of a file lack what HEAD's headers declare: batch2 drops
  `verify_decapsulation`, batch3's stream_aggregator.c `stream_aggregator_init`,
  phase2's state_machine.c `protocol_register_context`, batch1's dropout_protocol.c
  `derive_mask_for_recovery`; the kem_adapter.c of batch2, batch3, apply_batch3 and
  integrate_pqm4 derive from the bare label again; update_task5 removes
  `recover_dropped_client_masks`, which `baseline_server.py` imports; and
  apply_final_fixes adds its text again at every run. `TelemetryIsDefined`,
  `ImportsResolve` and `RerunIsNoOp` say which names and scripts they are about.

### Bounds

Client: two peer slots (a key finds the list full once an overrun has rewritten an
id), a chunk index of three values (four chunks pass its wrap), timeouts of 0 and 1
ticks, exceeded at 1 and 2 (they differ and the monitor's is the shorter, as
STATE_TIMEOUT_MS 5000 and DROPOUT_TIMEOUT_MS 10000), round parameters with and without
an `expected - 1` that wraps, three kinds of spilled contexts (usable, exhausted,
unusable), all three ranks of the timer daemon. `MaxChunks` bounds the history.

Servers: three clients with threshold two are the smallest round in which a
dropout leaves enough survivors and a broadcast has a writer before and after the
one that fails; two chunks give `seq_num` an order. An odd key, a report, a repeat and
a fault can all happen in `bridge_faults`, any three of them in `servers`, where the pair
loops need a replaced key and a second aggregating task. `Misfits` = {3} puts a client
in the aggregate whose chunks were all discarded.

Values: ROUND_INIT payloads for one chunk, two chunks with sizes above one byte,
and a partial last chunk; counts of 1, 100 and 3328, so that totals pass 3329, and
messages without a count. Flower: arrays that end inside a chunk, on its border
and several in one chunk; a negative fraction and a value that 16 bits do not hold;
counts with a total that passes 3329; two rounds show what is left over; two chunk
numbers (`Indices`), for the outcome of an update depends on how many have come.

Scripts: three runs are two writers and the reader of what they leave, and a
script, an interruption and its rerun.

Shamir: secrets inside the field, at its border, above twice its size (where a share
tells high bits), the largest that recovery is about (62207) and the largest word;
both index layouts; four deliveries give one share more than the threshold. Share
numbers up to 46 keep Horner's products below the first value that `barrett_reduce`
gets wrong, so sharing is exact here and reconstruction in C is what fails.

Deadlock is checked for the client, which can always receive or wait. The servers,
the sharing, a round's values and the scripts really stop when their scripts end:
`CHECK_DEADLOCK FALSE`. Symmetry is not used: ids are ordered and dicts are walked
in insertion order.

### Fairness

Client: weak fairness for time, for the network task once a message has come and for
the timer, and strong fairness for the monitor, which higher-priority tasks interrupt again and again
but never starve: the callback runs once a second for microseconds. Receiving is
not fair. Server: weak fairness for every resumption (the event loop runs every
ready task) and for each client's next message in its script; faults, reports and
repetitions are not fair.

## Proofs

The theorems hold for every value of the constants that satisfies the module's
assumption.

**ClientSM** (`ClientAssumption`):

- `TypeCorrect`: `TypeOK` is inductive, whatever an overrun spills.
- `NoUnseededMask`: `SeededBeforeMasking` is not inductive, since storing a key
  removes seeds. `MaskInv` adds that nothing has been masked while the state, the
  dispatched state or the target is an early one, and that peers are seeded when
  one of them is a later one; so keys are stored only before masking.
- `StreamInOrder`: from `MaskInv`, `chunk_ctx` is rewritten only while nothing is
  masked.
- `ImplementsLifecycle`: with `LifeInv` (the monitor has the lowest priority, so a client
  that has failed has no handler under way; until then the state a handler was
  dispatched on is the last phase entered, whatever the callback writes) every step
  is a life-cycle step or a stutter.
- `ErrorIsFinal`: `ErrorInv` says that where the timer daemon outranks the monitor no
  callback is under way over an ERROR.
- `DroppedIsOut`: `DropInv` says that a daemon below the network task stores nothing
  while a message is handled, and that one above it finds the client just stamped.

None of these assumes anything of the timer daemon's priority: what depends on it is
in the properties.

**Bridge** (`BridgeAssumption`): one inductive invariant, `IInv`, gives three
theorems, `TypeCorrect`, `AggregateWhole` and `ImplementsService`. Beside types it
says what a task at a drain may rely on although others have run: enough clients
have completed (`Enough`, kept because completions and dropouts only grow), its
position is inside the dict (`Placed`), the chunks before its own are sent
(`Sending`), a published result counts completed clients and enough of them
(`Published`), and a client's chunks are those its script has sent (`Scripted`). Each
step is a lemma that gives `IInv'` and a step of `RoundService` together.

`OneAggregator` adds `SingleInv`: in a round in which nothing is lost, repeated or
reported only the last client to complete finds the count reached. It assumes
`Cardinality(Clients) <= Expected`, which PB:191-198 does not enforce: with more
connections than the round expects two of them can find it reached.

`OnlyKeylessLeftOut` adds `KeyInv`: the clients a task has passed in its key loop have a
secret or no key (`LoopsPassed`), so what is left without a secret when it aggregates has
an empty key.

**Servers**: `ServersTypeCorrect`, `ServersAggregateWhole`, `ServersImplementService` and
`OneCiphertext` from `SInv`, which is `IInv` with `LoopSizes` (a pair loop's list is no
longer than the dict) and `CtsInv` (a ciphertext is written once, with the secret
stored). The secret is stored before the drain: that is what makes `CtsInv` inductive
when several tasks are in the loops. `IncomingLeavesOutKeyless` uses `KeyInv`, and that
no pair is open where no key was replaced (`NoOpenPair`). The proofs cite the step
lemmas of `Bridge_proofs` for every handler the servers share.

**Patches** (`PatchesAssumption`): one inductive invariant, `PatchesInv`, gives
`PatchesTypes`, `TelemetryStaysDefined`, `ImportsStayResolved` and
`SecondRunChangesNothing`, for any number of runs of any of the scripts, cut short
between two writes or inside one (the run stops at three). The properties speak of
trees between writes; `PatchesInv` adds what holds in the middle of a script.
`HeaderInv` and `ImportInv` say which earlier write has made the next one harmless (a
header is emptied before its source loses a name). `RerunInv` says that the steps a
script has made would change nothing if made again: every step is idempotent
(`StepIsIdempotent`) and no two steps of a script write the same file (`TargetsDiffer`),
so a tree that a script has finished with is a fixed point of it. `CountInv` bounds the
handlers that apply_final_fixes adds. `LiteralIsKept` is an action property of the steps.

**FieldSums** (`PowerInverts`, that the power 3327 inverts each of the 3328 numbers,
which TLC evaluates for all of them on every run that extends the module).
The library's induction theorems take operators the provers cannot instantiate.
These proofs take a least counterexample instead: `LeastElement` and
`MinimalSubset` follow from the library's theorem that a well-founded relation has
minimal elements, which takes a set, and every induction, over numbers or over
finite sets, is a contradiction with a least element of the set of counterexamples.
From them: that `MapThenSumSet` is the sum it is meant to be (`SumRemove`,
`SumExtensional`, `SumImage`), that a function defined by recursion exists and keeps
its type (`RecursionExists`, `RecursionType`), congruences, and interpolation.

**DataPath** (`DataPathAssumption`, `MaskAlgebraAssumption`): `PathTypes`,
`AveragesAreWeighted`, `ServersAgree`, `NoChunkIsLost`, from
`PathInv`: all parties have the parameters of one payload (`ParamsInv`), the table is
well formed (`TableInv`), a client has masked its chunks in order and without
gaps, all of them when it has completed (`ChunksInv`), the server keeps a mock
client's and none of a device's (`KeptInv`), and what is published is what the
servers compute from the table as it is now (`OutInv`, needed because a property of
`out` speaks of the table, which must not change under it). They hold for any clients,
counts, payloads and message orders. The coefficient of a client's plaintext in an
average is computed symbolically by `CombineIs`, `AverageIs` and `MaskIs`: what the
servers subtract or recover has no plaintext in it.

**Flower** (`FlowerAssumption`): `FlowerAverages`, from `FlowerInv` (what was returned is
what the last round's results give), for any element values: the conversion to 16
bits is part of the statement. `PositionInModel`
and `PositionInChunk` show that flattening, cutting into chunks and putting the
arrays together again is the identity on positions, for any arrays and chunk size.

**Shamir** (`ShamirAssumption`):

- `AddInField`, `SubInField`: the 16-bit operations are those of the field.
  `BarrettExact`: `barrett_reduce` is exact up to 153132. The next value is the first
  that fails, and products of field elements go up to 3328^2: the bound is what
  `shamir_device` shows broken. `MulInField`: so multiplication is exact when
  one factor is at most 46, as in Horner's rule.
- `ShamirTypes`: `TypeOK` is inductive; no computation leaves its type.
- `OneShareTells`, for a threshold of two, at most 46 shares and words up to 62207:
  `SharedInv` says that the shares are values of one polynomial with the secret, as it
  is, in front. `LineValue` gives the share a line has at a number (`AddOnce`: the last
  addition subtracts 3329 at most once), `LineThrough` finds a line through the share
  for every word of the window, and `WindowIs` that there is none for the others.
- `HostRecoversSecret` and `FirmwareSharesAreShifted`, for at most 46 shares, any
  threshold and any coefficients: Lagrange interpolation is correct as the code does it,
  and what it gives depends on the indices. Both follow from `Recovered`: when the share
  under index x is the value at a*x + b, the host computes the value at b. With
  `shamir_share` the share under x is number x (`Number`), so that is the secret; with
  `shamir_share_bytes` it is number 2x - 1, and b is -1. The argument avoids
  polynomials: the divided difference (`DivDiff`) of a function over a set of more than
  n points is linear, loses the point r when the function is multiplied by x - r
  (`DividedStep`), and is zero for a constant (`DividedOne`), so it is zero for the
  result of n steps of Horner's rule at a*x + b (`Expand`, `DividedHorner`). Over the shares'
  indices and 0 this is interpolation at 0 (`InterpolateAtZero`, `SharesDetermine`).
  `ShareHorner` and `AddWide` show that the device computes Horner's rule up to
  congruence, `HostLagrangeIs` and `HostSumIs` that the loops of reconstruct_secret
  compute those coefficients and that sum in whatever order the shares came, and
  `HostInv` that the shares held do not change once it has run.

Only model-checked: the liveness properties `SilentClientFails` and
`RegisteredAreServed` (fairness is out of the prover's reach). The properties of the
violated runs are refuted, so there is nothing to prove about them. The firmware's own
reconstruction has no theorem beyond its types because it is not correct.

## Not modelled

- Cryptography: ML-KEM, HKDF, AES, NTT and the mask generator have no protocol
  state; seeds and streams are symbols.
- Dead code: `state_machine_handle_round_complete`, SM's `protocol_check_timeouts`,
  the helpers of dropout_protocol.c, the C baseline aggregator, `crypto_worker_submit`
  and `stream_aggregator_submit` with the tasks that would wait for them. Nothing
  calls these, so there is no behaviour to check.
- DMA: `dma_transport_queue_tx` and `dma_transport_get_rx_data` have no caller, and the
  buffer accessors are static inline in another file than their users, so it does
  not link.
- Transport, impairment and packet codec: nothing in the firmware opens a transport or
  decodes a frame. Loss, repetition and delay are faults of the protocol models; the
  layout of the messages both sides read is in `DataPath`.
- Experiments and the test generator: drivers and generated files without protocol
  state.
- In modelled parts: telemetry packing, several rounds at once, two connections that
  name the same client, Shamir payloads at completion, the mock client's key exchange.
- Clients and server as one system over a lossy channel. The two sides are checked
  against their own abstract specifications; together they stop at the first step
  where they disagree (`client_complete`, `bridge_waits`).

`PROJECT.json` gives the reason for every part.
