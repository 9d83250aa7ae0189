------------------------------ MODULE Patches -------------------------------
(***************************************************************************)
(* The scripts in the root directory that rewrite the repository: each one *)
(* is a sequence of functions (or of sections, where it is one long        *)
(* program), and each of those writes a file anew or replaces text in it.  *)
(* A replacement whose text is not found changes nothing and says nothing. *)
(* A file that cannot be opened ends a script between two of its steps,    *)
(* and one that stops while it writes leaves the empty file that           *)
(* open(path, "w") has made.  (What of a long text reaches the disk before *)
(* is not modelled.)                                                       *)
(*                                                                         *)
(* A file is modelled by what the properties tell apart: the names it      *)
(* declares, defines or imports among those on which its versions differ,  *)
(* the literal its AES-CTR stream is made of, how often a text occurs in   *)
(* it; any other file is named after the script that wrote it.             *)
(***************************************************************************)
EXTENDS Integers, FiniteSets

CONSTANTS
  Scripts,   \* the scripts that are run
  MaxRuns    \* bound: scripts started in a behaviour

AllScripts ==
  {"fix_aes_ctr", "fix_bytes2", "fix_empty_bytes", "fix_bytes3", "fix_bytes4",
   "fix_null", "batch1_fixes", "batch2_fixes", "batch3_fixes", "batch4_fixes",
   "phase2_fixes", "phase3_fixes", "create_phase4", "update_task5",
   "integrate_pqm4", "apply_batch1_fixes", "apply_batch3", "apply_batch4",
   "apply_final_fixes"}

ASSUME PatchesAssumption ==
  Scripts \subseteq AllScripts /\ MaxRuns \in Nat \ {0}

NONE == "none"

VARIABLES
  tree,     \* the files
  script,   \* the script that is running, or NONE
  step,     \* its next step
  runs,     \* how many have been started
  done,     \* history: the last script, if it ran to its end
  prev,     \* history: the value of done when the script was started
  before    \* history: the tree when the script was started

vars == <<tree, script, step, runs, done, prev, before>>

Kdfs == {"session", "pairwise", "stream", "shamir"}

(* A kem_adapter.c: the names it defines, the derivations that expand the  *)
(* bare label in the words that apply_batch1_fixes.py looks for, and how   *)
(* it calls ML-KEM: by its name, through the macros, through them with a   *)
(* workspace, or not at all                                                *)
KemC(defs, bare, calls) == [defines |-> defs, bare |-> bare, calls |-> calls]

Files ==
  {"state_machine.c", "impairment.c", "impairment.h", "main.c", "multi_node.resc",
   "dma_transport.c", "dma_stm32.c", "dma_esp32.c", "transport.h",
   "baselines.py", "metrics_logger.py", "run_benchmarks.py",
   "run_all_experiments.py", "dropout_protocol.c", "stream_aggregator.c",
   "kem_adapter.h", "kem_adapter.c", "packet_codec.h", "packet_codec.c",
   "telemetry.h", "telemetry.c", "protocol_bridge.py", "shamir_recovery.py",
   "mock_client.py", "platformio.ini", "baseline_server.py"}

(* The committed tree, with the merge resolved to either side *)
Committed(side) ==
  [f \in Files |->
     CASE f = "dropout_protocol.c" ->
            IF side = "HEAD" THEN {"derive_mask_for_recovery"} ELSE {"gen_shares"}
       [] f = "stream_aggregator.c" -> {"init"}
       [] f = "kem_adapter.h" -> IF side = "HEAD" THEN {"verify"} ELSE {"x25519"}
       [] f = "kem_adapter.c" ->
            KemC(IF side = "HEAD" THEN {"verify"} ELSE {"x25519"}, {}, "direct")
       [] f \in {"packet_codec.h", "packet_codec.c"} -> "mac_key"
       [] f \in {"telemetry.h", "telemetry.c"} -> {"cycle_measure"}
       [] f = "protocol_bridge.py" ->
            [imports |-> {"recover_dropped_client_masks"},
             aes |-> IF side = "HEAD" THEN "empty" ELSE "nul"]
       [] f = "shamir_recovery.py" -> {"recover_dropped_client_masks"}
       [] f = "mock_client.py" -> "nul"
       [] f = "platformio.ini" -> [envs |-> TRUE, pqm4 |-> TRUE, filter |-> 1]
       [] f = "baseline_server.py" -> [handlers |-> 1, consts |-> 1]
       [] OTHER -> "tree"]

(* A file of which nothing is left *)
Emptied(f) ==
  CASE f \in {"dropout_protocol.c", "stream_aggregator.c", "kem_adapter.h",
              "telemetry.h", "telemetry.c", "shamir_recovery.py"} -> {}
    [] f = "kem_adapter.c" -> KemC({}, {}, "none")
    [] f = "protocol_bridge.py" -> [imports |-> {}, aes |-> "absent"]
    [] f = "platformio.ini" -> [envs |-> FALSE, pqm4 |-> FALSE, filter |-> 0]
    [] f = "baseline_server.py" -> [handlers |-> 0, consts |-> 0]
    [] OTHER -> "empty"

Init ==
  /\ \E side \in {"HEAD", "incoming"} : tree = Committed(side)
  /\ script = NONE /\ step = 0 /\ runs = 0
  /\ done = NONE /\ prev = NONE /\ before = tree

-----------------------------------------------------------------------------
(* A step writes one file, whole or with text replaced in what it has read. *)
Write(t, f, content) == [t EXCEPT ![f] = content]

(* The AES-CTR literal of protocol_bridge.py: b"" yields no key stream, a  *)
(* raw NUL byte makes the file unreadable to Python, "\x00" is right.      *)
ReplaceAes(t, old, new) ==
  Write(t, "protocol_bridge.py",
        [t["protocol_bridge.py"] EXCEPT !.aes = IF @ = old THEN new ELSE @])

fix_aes_ctr(t) == ReplaceAes(t, "empty", "escaped")
fix_bytes2(t) == ReplaceAes(t, "empty", "escaped")
fix_empty_bytes(t) == ReplaceAes(t, "empty", "escaped")
fix_bytes3(t) == ReplaceAes(t, "empty", "escaped")
fix_bytes4(t) == t    \* prints what it finds
fix_null(t) == ReplaceAes(t, "nul", "empty")

(* batch1_fixes.py *)
b1_fix_dropout_protocol(t) == Write(t, "dropout_protocol.c", {"gen_shares"})
b1_fix_protocol_bridge(t) == ReplaceAes(t, "empty", "escaped")
b1_fix_packet_codec_h(t) == Write(t, "packet_codec.h", "mac_key")
b1_fix_packet_codec_c(t) == Write(t, "packet_codec.c", "mac_key")

batch1_fixes(k, t) ==
  CASE k = 1 -> b1_fix_dropout_protocol(t)
    [] k = 2 -> b1_fix_protocol_bridge(t)
    [] k = 3 -> b1_fix_packet_codec_h(t)
    [] k = 4 -> b1_fix_packet_codec_c(t)

(* batch2_fixes.py writes \x00 in a string literal that is not raw, so the *)
(* file gets the byte itself.                                              *)
b2_create_mock_client(t) == Write(t, "mock_client.py", "nul")
b2_fix_kem_adapter(t) ==
  Write(t, "kem_adapter.c", KemC({"x25519"}, Kdfs, "macro"))

batch2_fixes(k, t) ==
  CASE k = 1 -> b2_create_mock_client(t)
    [] k = 2 -> b2_fix_kem_adapter(t)

(* batch3_fixes.py; what it replaces in protocol_bridge.py is not there. *)
b3_fix_stream_aggregator_c(t) == Write(t, "stream_aggregator.c", {})
b3_fix_protocol_bridge_py(t) == t
b3_fix_kem_adapter_c(t) ==
  Write(t, "kem_adapter.c", KemC({"x25519"}, Kdfs, "macro"))
b3_fix_kem_adapter_h(t) == Write(t, "kem_adapter.h", {"x25519"})
b3_fix_dma_transport_c(t) == Write(t, "dma_transport.c", "batch3")
b3_create_renode_script(t) == Write(t, "multi_node.resc", "batch3")

batch3_fixes(k, t) ==
  CASE k = 1 -> b3_fix_stream_aggregator_c(t)
    [] k = 2 -> b3_fix_protocol_bridge_py(t)
    [] k = 3 -> b3_fix_kem_adapter_c(t)
    [] k = 4 -> b3_fix_kem_adapter_h(t)
    [] k = 5 -> b3_fix_dma_transport_c(t)
    [] k = 6 -> b3_create_renode_script(t)

(* batch4_fixes.py *)
b4_create_telemetry_header(t) == Write(t, "telemetry.h", {})
b4_create_telemetry_c(t) == Write(t, "telemetry.c", {})
b4_modify_main_c(t) == Write(t, "main.c", "batch4")
b4_create_renode_script(t) == Write(t, "multi_node.resc", "batch4")

(* Mutant: the source is written before the header. *)
Mut_batch4_fixes(k, t) ==
  CASE k = 1 -> b4_create_telemetry_c(t)
    [] k = 2 -> b4_create_telemetry_header(t)
    [] k = 3 -> b4_modify_main_c(t)
    [] k = 4 -> b4_create_renode_script(t)

batch4_fixes(k, t) ==
  CASE k = 1 -> b4_create_telemetry_header(t)
    [] k = 2 -> b4_create_telemetry_c(t)
    [] k = 3 -> b4_modify_main_c(t)
    [] k = 4 -> b4_create_renode_script(t)

(* phase2_fixes.py: a codec whose calls take no key *)
p2_fix_state_machine(t) == Write(t, "state_machine.c", "phase2")
p2_create_packet_codec_h(t) == Write(t, "packet_codec.h", "no_key")
p2_fix_packet_codec_c(t) == Write(t, "packet_codec.c", "no_key")
p2_create_impairment_c(t) == Write(t, "impairment.c", "phase2")
p2_create_impairment_h(t) == Write(t, "impairment.h", "phase2")

phase2_fixes(k, t) ==
  CASE k = 1 -> p2_fix_state_machine(t)
    [] k = 2 -> p2_create_packet_codec_h(t)
    [] k = 3 -> p2_fix_packet_codec_c(t)
    [] k = 4 -> p2_create_impairment_c(t)
    [] k = 5 -> p2_create_impairment_h(t)

(* Mutant: the literal is not escaped, as in batch2_fixes.py. *)
Mut_p3_fix_protocol_bridge(t) ==
  Write(t, "protocol_bridge.py", [imports |-> {}, aes |-> "nul"])

(* phase3_fixes.py *)
p3_fix_protocol_bridge(t) ==
  Write(t, "protocol_bridge.py", [imports |-> {}, aes |-> "escaped"])
p3_fix_shamir_recovery(t) ==
  Write(t, "shamir_recovery.py",
        {"recover_dropped_client_masks", "generate_shares"})

phase3_fixes(k, t) ==
  CASE k = 1 -> p3_fix_protocol_bridge(t)
    [] k = 2 -> p3_fix_shamir_recovery(t)

(* create_phase4.py *)
p4_create_baselines_py(t) == Write(t, "baselines.py", "phase4")
p4_create_metrics_logger(t) == Write(t, "metrics_logger.py", "phase4")
p4_create_run_benchmarks(t) == Write(t, "run_benchmarks.py", "phase4")

create_phase4(k, t) ==
  CASE k = 1 -> p4_create_baselines_py(t)
    [] k = 2 -> p4_create_metrics_logger(t)
    [] k = 3 -> p4_create_run_benchmarks(t)

(* update_task5.py: a bridge without a key stream of its own, a recovery   *)
(* without recover_dropped_client_masks                                    *)
t5_update_protocol_bridge(t) ==
  Write(t, "protocol_bridge.py", [imports |-> {}, aes |-> "absent"])
t5_update_shamir_recovery(t) ==
  Write(t, "shamir_recovery.py", {"generate_shares"})

(* Mutant: the module is written before its user. *)
Mut_update_task5(k, t) ==
  CASE k = 1 -> t5_update_shamir_recovery(t)
    [] k = 2 -> t5_update_protocol_bridge(t)

update_task5(k, t) ==
  CASE k = 1 -> t5_update_protocol_bridge(t)
    [] k = 2 -> t5_update_shamir_recovery(t)

(* Mutant: the source filter is inserted without a look. *)
Mut_pqm4_modify_platformio_ini(t) ==
  Write(t, "platformio.ini",
        [t["platformio.ini"] EXCEPT !.filter = @ + 1])

(* integrate_pqm4.py inserts its flags behind a text that they separate,   *)
(* and the source filter where there is none, in the environments that it  *)
(* finds.                                                                  *)
pqm4_modify_platformio_ini(t) ==
  LET ini == t["platformio.ini"] IN
    Write(t, "platformio.ini",
          [envs |-> ini.envs, pqm4 |-> ini.pqm4 \/ ini.envs,
           filter |-> IF ini.envs /\ ini.filter = 0 THEN 1 ELSE ini.filter])
pqm4_modify_kem_adapter_h(t) == Write(t, "kem_adapter.h", {})
pqm4_modify_kem_adapter_c(t) == Write(t, "kem_adapter.c", KemC({}, Kdfs, "macro"))

integrate_pqm4(k, t) ==
  CASE k = 1 -> pqm4_modify_platformio_ini(t)
    [] k = 2 -> pqm4_modify_kem_adapter_h(t)
    [] k = 3 -> pqm4_modify_kem_adapter_c(t)

(* apply_batch1_fixes.py: replacements in one reading of kem_adapter.c,    *)
(* written back once.  The workspace is added to calls through the macros, *)
(* and a derivation is replaced where its whole old text is found.         *)
ab1_calls(c) == [c EXCEPT !.calls = IF @ = "macro" THEN "workspace" ELSE @]
ab1_bind(c, kdf) ==
  IF kdf \in c.bare THEN [c EXCEPT !.bare = @ \ {kdf}] ELSE c
ab1_session(c) == ab1_bind(c, "session")
ab1_pairwise(c) == ab1_bind(c, "pairwise")
ab1_stream(c) == ab1_bind(c, "stream")
ab1_shamir(c) == ab1_bind(c, "shamir")

apply_batch1_fixes(t) ==
  Write(t, "kem_adapter.c",
        ab1_shamir(ab1_stream(ab1_pairwise(ab1_session(
          ab1_calls(t["kem_adapter.c"]))))))

(* apply_batch3.py: no version of stream_aggregator.c or of                *)
(* protocol_bridge.py has the texts it replaces; dma_transport.c is only   *)
(* read.                                                                   *)
ab3_stream_aggregator(t) == t
ab3_protocol_bridge(t) == t
ab3_kem_adapter(t) ==
  Write(t, "kem_adapter.c", KemC({"x25519"}, Kdfs, "direct"))
ab3_dma_transport(t) == t
ab3_multi_node(t) == Write(t, "multi_node.resc", "apply3")

apply_batch3(k, t) ==
  CASE k = 1 -> ab3_stream_aggregator(t)
    [] k = 2 -> ab3_protocol_bridge(t)
    [] k = 3 -> ab3_kem_adapter(t)
    [] k = 4 -> ab3_dma_transport(t)
    [] k = 5 -> ab3_multi_node(t)

(* apply_batch4.py *)
ab4_stm32(t) == Write(t, "dma_stm32.c", "apply4")
ab4_esp32(t) == Write(t, "dma_esp32.c", "apply4")
ab4_transport_h(t) == Write(t, "transport.h", "apply4")

apply_batch4(k, t) ==
  CASE k = 1 -> ab4_stm32(t)
    [] k = 2 -> ab4_esp32(t)
    [] k = 3 -> ab4_transport_h(t)

(* apply_final_fixes.py adds its handlers in front of a text that stays,   *)
(* and its two message types twice: every run adds them again, where there *)
(* is a text to add them to.                                               *)
fix_baseline_server_py(t) ==
  LET server == t["baseline_server.py"] IN
    Write(t, "baseline_server.py",
          IF server.handlers = 0 THEN server
          ELSE [handlers |-> server.handlers + 1, consts |-> server.consts + 2])
create_run_all_experiments_py(t) ==
  Write(t, "run_all_experiments.py", "final")

apply_final_fixes(k, t) ==
  CASE k = 1 -> fix_baseline_server_py(t)
    [] k = 2 -> create_run_all_experiments_py(t)

-----------------------------------------------------------------------------
(* How many steps a script has *)
Length(s) ==
  CASE s \in {"batch2_fixes", "phase3_fixes", "update_task5",
              "apply_final_fixes"} -> 2
    [] s \in {"create_phase4", "integrate_pqm4", "apply_batch4"} -> 3
    [] s \in {"batch1_fixes", "batch4_fixes"} -> 4
    [] s \in {"phase2_fixes", "apply_batch3"} -> 5
    [] s = "batch3_fixes" -> 6
    [] OTHER -> 1

(* The file that each step of a script writes *)
Targets(s) ==
  CASE s = "batch1_fixes" ->
         <<"dropout_protocol.c", "protocol_bridge.py", "packet_codec.h",
           "packet_codec.c">>
    [] s = "batch2_fixes" -> <<"mock_client.py", "kem_adapter.c">>
    [] s = "batch3_fixes" ->
         <<"stream_aggregator.c", "protocol_bridge.py", "kem_adapter.c",
           "kem_adapter.h", "dma_transport.c", "multi_node.resc">>
    [] s = "batch4_fixes" ->
         <<"telemetry.h", "telemetry.c", "main.c", "multi_node.resc">>
    [] s = "phase2_fixes" ->
         <<"state_machine.c", "packet_codec.h", "packet_codec.c",
           "impairment.c", "impairment.h">>
    [] s \in {"phase3_fixes", "update_task5"} ->
         <<"protocol_bridge.py", "shamir_recovery.py">>
    [] s = "create_phase4" ->
         <<"baselines.py", "metrics_logger.py", "run_benchmarks.py">>
    [] s = "integrate_pqm4" ->
         <<"platformio.ini", "kem_adapter.h", "kem_adapter.c">>
    [] s = "apply_batch1_fixes" -> <<"kem_adapter.c">>
    [] s = "apply_batch3" ->
         <<"stream_aggregator.c", "protocol_bridge.py", "kem_adapter.c",
           "dma_transport.c", "multi_node.resc">>
    [] s = "apply_batch4" -> <<"dma_stm32.c", "dma_esp32.c", "transport.h">>
    [] s = "apply_final_fixes" ->
         <<"baseline_server.py", "run_all_experiments.py">>
    [] OTHER -> <<"protocol_bridge.py">>

(* The steps that open their file only to read it; fix_bytes3.py writes it *)
(* where it has found what it looks for.                                   *)
ReadsOnly(s, k, t) ==
  \/ s = "fix_bytes4"
  \/ s = "fix_bytes3" /\ t["protocol_bridge.py"].aes # "empty"
  \/ s = "apply_batch3" /\ k = 4

(* The tree after step k of script s *)
After(s, k, t) ==
  CASE s = "fix_aes_ctr" -> fix_aes_ctr(t)
    [] s = "fix_bytes2" -> fix_bytes2(t)
    [] s = "fix_empty_bytes" -> fix_empty_bytes(t)
    [] s = "fix_bytes3" -> fix_bytes3(t)
    [] s = "fix_bytes4" -> fix_bytes4(t)
    [] s = "fix_null" -> fix_null(t)
    [] s = "batch1_fixes" -> batch1_fixes(k, t)
    [] s = "batch2_fixes" -> batch2_fixes(k, t)
    [] s = "batch3_fixes" -> batch3_fixes(k, t)
    [] s = "batch4_fixes" -> batch4_fixes(k, t)
    [] s = "phase2_fixes" -> phase2_fixes(k, t)
    [] s = "phase3_fixes" -> phase3_fixes(k, t)
    [] s = "create_phase4" -> create_phase4(k, t)
    [] s = "update_task5" -> update_task5(k, t)
    [] s = "integrate_pqm4" -> integrate_pqm4(k, t)
    [] s = "apply_batch1_fixes" -> apply_batch1_fixes(t)
    [] s = "apply_batch3" -> apply_batch3(k, t)
    [] s = "apply_batch4" -> apply_batch4(k, t)
    [] s = "apply_final_fixes" -> apply_final_fixes(k, t)

Start(s) ==
  /\ script = NONE /\ runs < MaxRuns
  /\ script' = s /\ step' = 1 /\ runs' = runs + 1
  /\ before' = tree /\ prev' = done /\ done' = NONE
  /\ UNCHANGED tree

Step ==
  /\ script # NONE
  /\ tree' = After(script, step, tree)
  /\ IF step < Length(script)
       THEN step' = step + 1 /\ UNCHANGED <<script, done>>
       ELSE step' = 0 /\ script' = NONE /\ done' = script
  /\ UNCHANGED <<runs, prev, before>>

(* A file cannot be opened, or the script is interrupted between two       *)
(* steps.                                                                  *)
Fail ==
  /\ script # NONE
  /\ script' = NONE /\ step' = 0
  /\ UNCHANGED <<tree, runs, done, prev, before>>

(* The script is interrupted after it has opened its file, which is empty  *)
(* then, and before anything is written to it.                             *)
Truncate ==
  /\ script # NONE /\ ~ReadsOnly(script, step, tree)
  /\ tree' = Write(tree, Targets(script)[step], Emptied(Targets(script)[step]))
  /\ script' = NONE /\ step' = 0
  /\ UNCHANGED <<runs, done, prev, before>>

Next == (\E s \in Scripts : Start(s)) \/ Step \/ Fail \/ Truncate

Spec == Init /\ [][Next]_vars

-----------------------------------------------------------------------------
(* The counts stay within what the started scripts can add, and a running  *)
(* script is at one of its steps.                                          *)
PatchesTypeOK ==
  /\ script \in Scripts \cup {NONE} /\ done \in Scripts \cup {NONE}
  /\ script # NONE => step \in 1..Length(script)
  /\ script = NONE => step = 0
  /\ tree["kem_adapter.c"].bare \subseteq Kdfs
  /\ tree["platformio.ini"].filter = IF tree["platformio.ini"].envs THEN 1 ELSE 0
  /\ tree["baseline_server.py"].handlers \in 0..(1 + runs)
  /\ tree["baseline_server.py"].handlers > 0 =>
       tree["baseline_server.py"].consts
         = 2 * tree["baseline_server.py"].handlers - 1

(* Whatever scripts were run, in whatever order and wherever they were cut *)
(* short, between two files or while a file was empty, telemetry.h         *)
(* declares no cycle counter that telemetry.c has lost: batch4_fixes.py    *)
(* writes the header first.  (kem_adapter.h is not so safe: batch2 and     *)
(* batch3 drop a function that it may still declare.)                      *)
TelemetryIsDefined == tree["telemetry.h"] \subseteq tree["telemetry.c"]

(* What protocol_bridge.py imports from shamir_recovery.py is there, also  *)
(* when phase3_fixes.py or update_task5.py is cut short between the two or *)
(* leaves one of them empty.                                               *)
ImportsResolve ==
  tree["protocol_bridge.py"].imports \subseteq tree["shamir_recovery.py"]

(* A script that has just run to its end changes nothing when it is run    *)
(* again; apply_final_fixes.py is the exception.                           *)
RerunIsNoOp ==
  done # NONE /\ done = prev /\ done # "apply_final_fixes" => tree = before

(* Once the AES-CTR literal is right no script breaks it: fix_null.py      *)
(* takes NUL bytes out of the file, not the escape.  The key stream may be *)
(* gone altogether, with update_task5.py or with an empty file.            *)
LiteralStays ==
  [][tree["protocol_bridge.py"].aes = "escaped" =>
       tree'["protocol_bridge.py"].aes \in {"escaped", "absent"}]_vars
=============================================================================
