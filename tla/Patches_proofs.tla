--------------------------- MODULE Patches_proofs ---------------------------
(***************************************************************************)
(* Proofs about the scripts that rewrite the repository, for every set of  *)
(* scripts and every number of runs.  Each step writes one file; the       *)
(* lemmas say which and what, script by script, and the inductive          *)
(* invariant relates the files that two steps of one script write.         *)
(***************************************************************************)
EXTENDS Patches, Sequences, TLAPS

(* What the files hold, and what every tree of a behaviour is like *)
Names == {"verify", "x25519"}
Calls == {"direct", "macro", "workspace", "none"}
Literals == {"empty", "nul", "escaped", "absent"}
KemSources == [defines : SUBSET Names, bare : SUBSET Kdfs, calls : Calls]
BridgeSources ==
  [imports : SUBSET {"recover_dropped_client_masks"}, aes : Literals]
Inis == {[envs |-> TRUE, pqm4 |-> TRUE, filter |-> 1],
         [envs |-> FALSE, pqm4 |-> FALSE, filter |-> 0]}
IsTree(t) == t = [f \in Files |-> t[f]]

Shaped(t) ==
  /\ IsTree(t)
  /\ t["kem_adapter.c"] \in KemSources
  /\ t["protocol_bridge.py"] \in BridgeSources
  /\ t["platformio.ini"] \in Inis
  /\ t["baseline_server.py"] \in [handlers : Nat, consts : Nat]

(* apply_batch1_fixes.py on the content of kem_adapter.c *)
ab1(c) == ab1_shamir(ab1_stream(ab1_pairwise(ab1_session(ab1_calls(c)))))
Workspace(a) == IF a = "macro" THEN "workspace" ELSE a

(* apply_final_fixes.py on the content of baseline_server.py *)
WithHandlers(b) ==
  IF b.handlers = 0 THEN b
  ELSE [handlers |-> b.handlers + 1, consts |-> b.consts + 2]

(* A kem_adapter.c is its three fields. *)
LEMMA KemSource ==
  /\ \A c \in KemSources : c = KemC(c.defines, c.bare, c.calls)
  /\ \A d \in SUBSET Names, b \in SUBSET Kdfs, a \in Calls : KemC(d, b, a) \in KemSources
  /\ \A d, b, a : KemC(d, b, a).bare = b /\ KemC(d, b, a).defines = d
                   /\ KemC(d, b, a).calls = a
BY DEF KemC, KemSources

(* A derivation that has been replaced, or was not there, is not bare. *)
LEMMA BindsOne ==
  ASSUME NEW d, NEW b, NEW a, NEW kdf
  PROVE  ab1_bind(KemC(d, b, a), kdf) = KemC(d, b \ {kdf}, a)
<1>1. CASE kdf \in b
  BY <1>1 DEF ab1_bind, KemC
<1>2. CASE kdf \notin b
  <2>1. b \ {kdf} = b
    BY <1>2
  <2>. QED  BY <1>2, <2>1 DEF ab1_bind, KemC
<1>. QED  BY <1>1, <1>2

(* The replacements of apply_batch1_fixes.py, one after the other, leave   *)
(* none of the old derivations.                                            *)
LEMMA BindsAll ==
  ASSUME NEW d, NEW b \in SUBSET Kdfs, NEW a
  PROVE  ab1(KemC(d, b, a)) = KemC(d, {}, Workspace(a))
<1> DEFINE b1 == b \ {"session"}
           b2 == b1 \ {"pairwise"}
           b3 == b2 \ {"stream"}
           b4 == b3 \ {"shamir"}
<1>0. b4 = {}
  BY DEF Kdfs
<1>. HIDE DEF b1, b2, b3, b4
<1>1. ab1_calls(KemC(d, b, a)) = KemC(d, b, Workspace(a))
  BY DEF ab1_calls, KemC, Workspace
<1>2. ab1_session(KemC(d, b, Workspace(a))) = KemC(d, b1, Workspace(a))
  BY BindsOne DEF ab1_session, b1
<1>3. ab1_pairwise(KemC(d, b1, Workspace(a))) = KemC(d, b2, Workspace(a))
  BY BindsOne DEF ab1_pairwise, b2
<1>4. ab1_stream(KemC(d, b2, Workspace(a))) = KemC(d, b3, Workspace(a))
  BY BindsOne DEF ab1_stream, b3
<1>5. ab1_shamir(KemC(d, b3, Workspace(a))) = KemC(d, b4, Workspace(a))
  BY BindsOne DEF ab1_shamir, b4
<1>. QED  BY <1>0, <1>1, <1>2, <1>3, <1>4, <1>5 DEF ab1

(* A second time they change nothing. *)
LEMMA BindsOnce ==
  ASSUME NEW c \in KemSources
  PROVE  /\ ab1(c) = KemC(c.defines, {}, Workspace(c.calls))
         /\ ab1(c) \in KemSources
         /\ ab1(ab1(c)) = ab1(c)
<1>1. /\ c = KemC(c.defines, c.bare, c.calls)
      /\ c.defines \in SUBSET Names /\ c.bare \in SUBSET Kdfs /\ c.calls \in Calls
  BY KemSource DEF KemSources
<1>2. ab1(c) = KemC(c.defines, {}, Workspace(c.calls))
  BY <1>1, BindsAll
<1>3. /\ Workspace(c.calls) \in Calls
      /\ Workspace(Workspace(c.calls)) = Workspace(c.calls)
  <2>1. \A a \in Calls : Workspace(a) \in Calls /\ Workspace(Workspace(a)) = Workspace(a)
    BY DEF Workspace, Calls
  <2>. QED  BY <2>1, <1>1
<1>0. {} \in SUBSET Kdfs
  OBVIOUS
<1>4. ab1(c) \in KemSources
  BY <1>0, <1>1, <1>2, <1>3, KemSource, Zenon
<1>5. ab1(KemC(c.defines, {}, Workspace(c.calls)))
        = KemC(c.defines, {}, Workspace(Workspace(c.calls)))
  BY <1>0, BindsAll
<1>. QED  BY <1>2, <1>3, <1>4, <1>5

(* integrate_pqm4.py finds its flags and its filter in place, or none of   *)
(* the environments that they belong to.                                   *)
LEMMA FlagsAreThere ==
  ASSUME NEW t, Shaped(t)
  PROVE  pqm4_modify_platformio_ini(t) = t
<1>1. t = [t EXCEPT !["platformio.ini"] = t["platformio.ini"]]
  BY DEF IsTree, Shaped, Files
<1>2. CASE t["platformio.ini"] = [envs |-> TRUE, pqm4 |-> TRUE, filter |-> 1]
  <2>1. pqm4_modify_platformio_ini(t) =
          Write(t, "platformio.ini", [envs |-> TRUE, pqm4 |-> TRUE, filter |-> 1])
    <3>1. /\ t["platformio.ini"].envs = TRUE /\ t["platformio.ini"].pqm4 = TRUE
          /\ t["platformio.ini"].filter = 1
      BY <1>2
    <3>. QED  BY <3>1, Zenon DEF pqm4_modify_platformio_ini
  <2>. QED  BY <1>1, <1>2, <2>1 DEF Write
<1>3. CASE t["platformio.ini"] = [envs |-> FALSE, pqm4 |-> FALSE, filter |-> 0]
  <2>1. pqm4_modify_platformio_ini(t) =
          Write(t, "platformio.ini", [envs |-> FALSE, pqm4 |-> FALSE, filter |-> 0])
    <3>1. /\ t["platformio.ini"].envs = FALSE /\ t["platformio.ini"].pqm4 = FALSE
          /\ t["platformio.ini"].filter = 0
      BY <1>3
    <3>. QED  BY <3>1, Zenon DEF pqm4_modify_platformio_ini
  <2>. QED  BY <1>1, <1>3, <2>1 DEF Write
<1>. QED  BY <1>2, <1>3 DEF Shaped, Inis

(* A replacement of the AES-CTR literal changes that literal alone. *)
LEMMA LiteralIsReplaced ==
  ASSUME NEW t, Shaped(t), NEW old, NEW new \in Literals,
         NEW u, u = ReplaceAes(t, old, new)
  PROVE  /\ DOMAIN u = Files
         /\ \A f \in Files \ {"protocol_bridge.py"} : u[f] = t[f]
         /\ u["protocol_bridge.py"] \in BridgeSources
         /\ u["protocol_bridge.py"].imports = t["protocol_bridge.py"].imports
         /\ u["protocol_bridge.py"].aes =
              IF t["protocol_bridge.py"].aes = old
                THEN new ELSE t["protocol_bridge.py"].aes
<1> DEFINE b == t["protocol_bridge.py"]
           a == IF b.aes = old THEN new ELSE b.aes
<1>1. b \in BridgeSources
  BY DEF Shaped
<1>2. a \in Literals
  BY <1>1 DEF BridgeSources
<1>3. u = [t EXCEPT !["protocol_bridge.py"] = [b EXCEPT !.aes = a]]
  BY DEF ReplaceAes, Write, IsTree, Shaped, Files
<1>. HIDE DEF a
<1>4. /\ [b EXCEPT !.aes = a] \in BridgeSources
      /\ [b EXCEPT !.aes = a].imports = b.imports
      /\ [b EXCEPT !.aes = a].aes = a
  BY <1>1, <1>2 DEF BridgeSources
<1>5. "protocol_bridge.py" \in Files /\ DOMAIN t = Files
  BY DEF IsTree, Shaped, Files
<1>. QED  BY <1>3, <1>4, <1>5 DEF a

(* Step k of a script writes no file but its target, and what it writes    *)
(* depends on nothing but the target's old content.                        *)
LEMMA TargetIsWritten ==
  ASSUME NEW t, Shaped(t), NEW u, Shaped(u),
         NEW s \in AllScripts, NEW k \in 1..Length(s)
  PROVE  /\ Targets(s)[k] \in Files
         /\ DOMAIN After(s, k, t) = Files
         /\ \A f \in Files \ {Targets(s)[k]} : After(s, k, t)[f] = t[f]
         /\ t[Targets(s)[k]] = u[Targets(s)[k]] =>
              After(s, k, t)[Targets(s)[k]] = After(s, k, u)[Targets(s)[k]]
<1>1. CASE s = "fix_aes_ctr"
  BY <1>1 DEF After, Length, fix_aes_ctr, ReplaceAes, Write, Targets, Files,
         IsTree, Shaped
<1>2. CASE s = "fix_bytes2"
  BY <1>2 DEF After, Length, fix_bytes2, ReplaceAes, Write, Targets, Files,
         IsTree, Shaped
<1>3. CASE s = "fix_empty_bytes"
  BY <1>3 DEF After, Length, fix_empty_bytes, ReplaceAes, Write, Targets,
         Files, IsTree, Shaped
<1>4. CASE s = "fix_bytes3"
  BY <1>4 DEF After, Length, fix_bytes3, ReplaceAes, Write, Targets, Files,
         IsTree, Shaped
<1>5. CASE s = "fix_bytes4"
  BY <1>5 DEF After, Length, fix_bytes4, Write, Targets, Files, IsTree, Shaped
<1>6. CASE s = "fix_null"
  BY <1>6 DEF After, Length, fix_null, ReplaceAes, Write, Targets, Files,
         IsTree, Shaped
<1>7. CASE s = "batch1_fixes"
  BY <1>7 DEF After, Length, batch1_fixes, b1_fix_dropout_protocol,
         b1_fix_protocol_bridge, b1_fix_packet_codec_h, b1_fix_packet_codec_c,
         ReplaceAes, Write, Targets, Files, IsTree, Shaped
<1>8. CASE s = "batch2_fixes"
  BY <1>8 DEF After, Length, batch2_fixes, b2_create_mock_client,
         b2_fix_kem_adapter, KemC, Write, Targets, Files, IsTree, Shaped
<1>9. CASE s = "batch3_fixes"
  BY <1>9 DEF After, Length, batch3_fixes, b3_fix_stream_aggregator_c,
         b3_fix_protocol_bridge_py, b3_fix_kem_adapter_c,
         b3_fix_kem_adapter_h, b3_fix_dma_transport_c,
         b3_create_renode_script, KemC, Write, Targets, Files, IsTree, Shaped
<1>10. CASE s = "batch4_fixes"
  BY <1>10 DEF After, Length, batch4_fixes, b4_create_telemetry_header,
         b4_create_telemetry_c, b4_modify_main_c, b4_create_renode_script,
         Write, Targets, Files, IsTree, Shaped
<1>11. CASE s = "phase2_fixes"
  BY <1>11 DEF After, Length, phase2_fixes, p2_fix_state_machine,
         p2_create_packet_codec_h, p2_fix_packet_codec_c,
         p2_create_impairment_c, p2_create_impairment_h, Write, Targets,
         Files, IsTree, Shaped
<1>12. CASE s = "phase3_fixes"
  BY <1>12 DEF After, Length, phase3_fixes, p3_fix_protocol_bridge,
         p3_fix_shamir_recovery, Write, Targets, Files, IsTree, Shaped
<1>13. CASE s = "create_phase4"
  BY <1>13 DEF After, Length, create_phase4, p4_create_baselines_py,
         p4_create_metrics_logger, p4_create_run_benchmarks, Write, Targets,
         Files, IsTree, Shaped
<1>14. CASE s = "update_task5"
  BY <1>14 DEF After, Length, update_task5, t5_update_protocol_bridge,
         t5_update_shamir_recovery, Write, Targets, Files, IsTree, Shaped
<1>15. CASE s = "integrate_pqm4"
  <2>1. pqm4_modify_platformio_ini(t) = t /\ pqm4_modify_platformio_ini(u) = u
    BY FlagsAreThere
  <2>. QED  BY <1>15, <2>1 DEF After, Length, integrate_pqm4,
            pqm4_modify_kem_adapter_h, pqm4_modify_kem_adapter_c, KemC,
            Write, Targets, Files, IsTree, Shaped
<1>16. CASE s = "apply_batch1_fixes"
  BY <1>16 DEF After, Length, apply_batch1_fixes, Write, Targets, Files,
         IsTree, Shaped
<1>17. CASE s = "apply_batch3"
  BY <1>17 DEF After, Length, apply_batch3, ab3_stream_aggregator,
         ab3_protocol_bridge, ab3_kem_adapter, ab3_dma_transport,
         ab3_multi_node, KemC, Write, Targets, Files, IsTree, Shaped
<1>18. CASE s = "apply_batch4"
  BY <1>18 DEF After, Length, apply_batch4, ab4_stm32, ab4_esp32,
         ab4_transport_h, Write, Targets, Files, IsTree, Shaped
<1>19. CASE s = "apply_final_fixes"
  BY <1>19 DEF After, Length, apply_final_fixes, fix_baseline_server_py,
         create_run_all_experiments_py, Write, Targets, Files, IsTree, Shaped
<1>. QED  BY <1>1, <1>2, <1>3, <1>4, <1>5, <1>6, <1>7, <1>8, <1>9, <1>10,
             <1>11, <1>12, <1>13, <1>14, <1>15, <1>16, <1>17, <1>18, <1>19 DEF
             AllScripts

(* Writing a file adds none and removes none. *)
LEMMA WriteIsTree ==
  ASSUME NEW t, IsTree(t), NEW f, NEW c
  PROVE  IsTree(Write(t, f, c))
BY DEF IsTree, Write

(* Nor does any step of a script. *)
LEMMA AfterIsTree ==
  ASSUME NEW t, IsTree(t), NEW s \in AllScripts, NEW k \in 1..Length(s)
  PROVE  IsTree(After(s, k, t))
<1>. \A f, c : IsTree(Write(t, f, c))
  BY WriteIsTree
<1>1. CASE s = "fix_aes_ctr"
  BY <1>1 DEF After, Length, fix_aes_ctr, ReplaceAes
<1>2. CASE s = "fix_bytes2"
  BY <1>2 DEF After, Length, fix_bytes2, ReplaceAes
<1>3. CASE s = "fix_empty_bytes"
  BY <1>3 DEF After, Length, fix_empty_bytes, ReplaceAes
<1>4. CASE s = "fix_bytes3"
  BY <1>4 DEF After, Length, fix_bytes3, ReplaceAes
<1>5. CASE s = "fix_bytes4"
  BY <1>5 DEF After, Length, fix_bytes4
<1>6. CASE s = "fix_null"
  BY <1>6 DEF After, Length, fix_null, ReplaceAes
<1>7. CASE s = "batch1_fixes"
  BY <1>7 DEF After, Length, batch1_fixes, b1_fix_dropout_protocol,
         b1_fix_protocol_bridge, b1_fix_packet_codec_h, b1_fix_packet_codec_c,
         ReplaceAes
<1>8. CASE s = "batch2_fixes"
  BY <1>8 DEF After, Length, batch2_fixes, b2_create_mock_client,
         b2_fix_kem_adapter, KemC
<1>9. CASE s = "batch3_fixes"
  BY <1>9 DEF After, Length, batch3_fixes, b3_fix_stream_aggregator_c,
         b3_fix_protocol_bridge_py, b3_fix_kem_adapter_c,
         b3_fix_kem_adapter_h, b3_fix_dma_transport_c,
         b3_create_renode_script, KemC
<1>10. CASE s = "batch4_fixes"
  BY <1>10 DEF After, Length, batch4_fixes, b4_create_telemetry_header,
         b4_create_telemetry_c, b4_modify_main_c, b4_create_renode_script
<1>11. CASE s = "phase2_fixes"
  BY <1>11 DEF After, Length, phase2_fixes, p2_fix_state_machine,
         p2_create_packet_codec_h, p2_fix_packet_codec_c,
         p2_create_impairment_c, p2_create_impairment_h
<1>12. CASE s = "phase3_fixes"
  BY <1>12 DEF After, Length, phase3_fixes, p3_fix_protocol_bridge,
         p3_fix_shamir_recovery
<1>13. CASE s = "create_phase4"
  BY <1>13 DEF After, Length, create_phase4, p4_create_baselines_py,
         p4_create_metrics_logger, p4_create_run_benchmarks
<1>14. CASE s = "update_task5"
  BY <1>14 DEF After, Length, update_task5, t5_update_protocol_bridge,
         t5_update_shamir_recovery
<1>15. CASE s = "integrate_pqm4"
  BY <1>15 DEF After, Length, integrate_pqm4,
         pqm4_modify_platformio_ini, pqm4_modify_kem_adapter_h,
         pqm4_modify_kem_adapter_c, KemC
<1>16. CASE s = "apply_batch1_fixes"
  BY <1>16 DEF After, Length, apply_batch1_fixes
<1>17. CASE s = "apply_batch3"
  BY <1>17 DEF After, Length, apply_batch3, ab3_stream_aggregator,
         ab3_protocol_bridge, ab3_kem_adapter, ab3_dma_transport,
         ab3_multi_node, KemC
<1>18. CASE s = "apply_batch4"
  BY <1>18 DEF After, Length, apply_batch4, ab4_stm32, ab4_esp32,
         ab4_transport_h
<1>19. CASE s = "apply_final_fixes"
  BY <1>19 DEF After, Length, apply_final_fixes, fix_baseline_server_py,
         create_run_all_experiments_py
<1>. QED  BY <1>1, <1>2, <1>3, <1>4, <1>5, <1>6, <1>7, <1>8, <1>9, <1>10,
             <1>11, <1>12, <1>13, <1>14, <1>15, <1>16, <1>17, <1>18, <1>19 DEF
             AllScripts

(* What each step does to the files that the invariants relate *)
LEMMA WhatIsWritten ==
  ASSUME NEW t, Shaped(t), NEW s \in AllScripts, NEW k \in 1..Length(s),
         NEW u, u = After(s, k, t)
  PROVE  /\ u["telemetry.h"] =
              IF s = "batch4_fixes" /\ k = 1 THEN {} ELSE t["telemetry.h"]
         /\ u["telemetry.c"] =
              IF s = "batch4_fixes" /\ k = 2 THEN {} ELSE t["telemetry.c"]
         /\ u["shamir_recovery.py"] =
              CASE s = "phase3_fixes" /\ k = 2 ->
                     {"recover_dropped_client_masks", "generate_shares"}
                [] s = "update_task5" /\ k = 2 -> {"generate_shares"}
                [] OTHER -> t["shamir_recovery.py"]
<1>1. CASE s = "fix_aes_ctr"
  BY <1>1 DEF After, Length, fix_aes_ctr, ReplaceAes, Write, Files, IsTree,
         Shaped
<1>2. CASE s = "fix_bytes2"
  BY <1>2 DEF After, Length, fix_bytes2, ReplaceAes, Write, Files, IsTree,
         Shaped
<1>3. CASE s = "fix_empty_bytes"
  BY <1>3 DEF After, Length, fix_empty_bytes, ReplaceAes, Write, Files,
         IsTree, Shaped
<1>4. CASE s = "fix_bytes3"
  BY <1>4 DEF After, Length, fix_bytes3, ReplaceAes, Write, Files, IsTree,
         Shaped
<1>5. CASE s = "fix_bytes4"
  BY <1>5 DEF After, Length, fix_bytes4, Write, Files, IsTree, Shaped
<1>6. CASE s = "fix_null"
  BY <1>6 DEF After, Length, fix_null, ReplaceAes, Write, Files, IsTree,
         Shaped
<1>7. CASE s = "batch1_fixes"
  BY <1>7 DEF After, Length, batch1_fixes, b1_fix_dropout_protocol,
         b1_fix_protocol_bridge, b1_fix_packet_codec_h, b1_fix_packet_codec_c,
         ReplaceAes, Write, Files, IsTree, Shaped
<1>8. CASE s = "batch2_fixes"
  BY <1>8 DEF After, Length, batch2_fixes, b2_create_mock_client,
         b2_fix_kem_adapter, KemC, Write, Files, IsTree, Shaped
<1>9. CASE s = "batch3_fixes"
  BY <1>9 DEF After, Length, batch3_fixes, b3_fix_stream_aggregator_c,
         b3_fix_protocol_bridge_py, b3_fix_kem_adapter_c,
         b3_fix_kem_adapter_h, b3_fix_dma_transport_c,
         b3_create_renode_script, KemC, Write, Files, IsTree, Shaped
<1>10. CASE s = "batch4_fixes"
  BY <1>10 DEF After, Length, batch4_fixes, b4_create_telemetry_header,
         b4_create_telemetry_c, b4_modify_main_c, b4_create_renode_script,
         Write, Files, IsTree, Shaped
<1>11. CASE s = "phase2_fixes"
  BY <1>11 DEF After, Length, phase2_fixes, p2_fix_state_machine,
         p2_create_packet_codec_h, p2_fix_packet_codec_c,
         p2_create_impairment_c, p2_create_impairment_h, Write, Files, IsTree,
         Shaped
<1>12. CASE s = "phase3_fixes"
  BY <1>12 DEF After, Length, phase3_fixes, p3_fix_protocol_bridge,
         p3_fix_shamir_recovery, Write, Files, IsTree, Shaped
<1>13. CASE s = "create_phase4"
  BY <1>13 DEF After, Length, create_phase4, p4_create_baselines_py,
         p4_create_metrics_logger, p4_create_run_benchmarks, Write, Files,
         IsTree, Shaped
<1>14. CASE s = "update_task5"
  BY <1>14 DEF After, Length, update_task5, t5_update_protocol_bridge,
         t5_update_shamir_recovery, Write, Files, IsTree, Shaped
<1>15. CASE s = "integrate_pqm4"
  <2>1. pqm4_modify_platformio_ini(t) = t
    BY FlagsAreThere
  <2>. QED  BY <1>15, <2>1 DEF After, Length, integrate_pqm4,
            pqm4_modify_kem_adapter_h, pqm4_modify_kem_adapter_c, KemC,
            Write, Files, IsTree, Shaped
<1>16. CASE s = "apply_batch1_fixes"
  BY <1>16 DEF After, Length, apply_batch1_fixes, Write, Files, IsTree, Shaped
<1>17. CASE s = "apply_batch3"
  BY <1>17 DEF After, Length, apply_batch3, ab3_stream_aggregator,
         ab3_protocol_bridge, ab3_kem_adapter, ab3_dma_transport,
         ab3_multi_node, KemC, Write, Files, IsTree, Shaped
<1>18. CASE s = "apply_batch4"
  BY <1>18 DEF After, Length, apply_batch4, ab4_stm32, ab4_esp32,
         ab4_transport_h, Write, Files, IsTree, Shaped
<1>19. CASE s = "apply_final_fixes"
  BY <1>19 DEF After, Length, apply_final_fixes, fix_baseline_server_py,
         create_run_all_experiments_py, Write, Files, IsTree, Shaped
<1>. QED  BY <1>1, <1>2, <1>3, <1>4, <1>5, <1>6, <1>7, <1>8, <1>9, <1>10,
             <1>11, <1>12, <1>13, <1>14, <1>15, <1>16, <1>17, <1>18, <1>19 DEF
             AllScripts

(* What each step does to kem_adapter.c *)
LEMMA KemIsWritten ==
  ASSUME NEW t, Shaped(t), NEW s \in AllScripts, NEW k \in 1..Length(s)
  PROVE  After(s, k, t)["kem_adapter.c"] =
           CASE s = "batch2_fixes" /\ k = 2 -> KemC({"x25519"}, Kdfs, "macro")
             [] s = "batch3_fixes" /\ k = 3 -> KemC({"x25519"}, Kdfs, "macro")
             [] s = "integrate_pqm4" /\ k = 3 -> KemC({}, Kdfs, "macro")
             [] s = "apply_batch3" /\ k = 3 -> KemC({"x25519"}, Kdfs, "direct")
             [] s = "apply_batch1_fixes" -> ab1(t["kem_adapter.c"])
             [] OTHER -> t["kem_adapter.c"]
<1>1. CASE s = "fix_aes_ctr"
  BY <1>1 DEF After, Length, fix_aes_ctr, ReplaceAes, Write, Files, IsTree,
         Shaped
<1>2. CASE s = "fix_bytes2"
  BY <1>2 DEF After, Length, fix_bytes2, ReplaceAes, Write, Files, IsTree,
         Shaped
<1>3. CASE s = "fix_empty_bytes"
  BY <1>3 DEF After, Length, fix_empty_bytes, ReplaceAes, Write, Files,
         IsTree, Shaped
<1>4. CASE s = "fix_bytes3"
  BY <1>4 DEF After, Length, fix_bytes3, ReplaceAes, Write, Files, IsTree,
         Shaped
<1>5. CASE s = "fix_bytes4"
  BY <1>5 DEF After, Length, fix_bytes4, Write, Files, IsTree, Shaped
<1>6. CASE s = "fix_null"
  BY <1>6 DEF After, Length, fix_null, ReplaceAes, Write, Files, IsTree,
         Shaped
<1>7. CASE s = "batch1_fixes"
  BY <1>7 DEF After, Length, batch1_fixes, b1_fix_dropout_protocol,
         b1_fix_protocol_bridge, b1_fix_packet_codec_h, b1_fix_packet_codec_c,
         ReplaceAes, Write, Files, IsTree, Shaped
<1>8. CASE s = "batch2_fixes"
  BY <1>8 DEF After, Length, batch2_fixes, b2_create_mock_client,
         b2_fix_kem_adapter, Write, Files, IsTree, Shaped
<1>9. CASE s = "batch3_fixes"
  BY <1>9 DEF After, Length, batch3_fixes, b3_fix_stream_aggregator_c,
         b3_fix_protocol_bridge_py, b3_fix_kem_adapter_c,
         b3_fix_kem_adapter_h, b3_fix_dma_transport_c,
         b3_create_renode_script, Write, Files, IsTree, Shaped
<1>10. CASE s = "batch4_fixes"
  BY <1>10 DEF After, Length, batch4_fixes, b4_create_telemetry_header,
         b4_create_telemetry_c, b4_modify_main_c, b4_create_renode_script,
         Write, Files, IsTree, Shaped
<1>11. CASE s = "phase2_fixes"
  BY <1>11 DEF After, Length, phase2_fixes, p2_fix_state_machine,
         p2_create_packet_codec_h, p2_fix_packet_codec_c,
         p2_create_impairment_c, p2_create_impairment_h, Write, Files, IsTree,
         Shaped
<1>12. CASE s = "phase3_fixes"
  BY <1>12 DEF After, Length, phase3_fixes, p3_fix_protocol_bridge,
         p3_fix_shamir_recovery, Write, Files, IsTree, Shaped
<1>13. CASE s = "create_phase4"
  BY <1>13 DEF After, Length, create_phase4, p4_create_baselines_py,
         p4_create_metrics_logger, p4_create_run_benchmarks, Write, Files,
         IsTree, Shaped
<1>14. CASE s = "update_task5"
  BY <1>14 DEF After, Length, update_task5, t5_update_protocol_bridge,
         t5_update_shamir_recovery, Write, Files, IsTree, Shaped
<1>15. CASE s = "integrate_pqm4"
  <2>1. pqm4_modify_platformio_ini(t) = t
    BY FlagsAreThere
  <2>. QED  BY <1>15, <2>1 DEF After, Length, integrate_pqm4,
            pqm4_modify_kem_adapter_h, pqm4_modify_kem_adapter_c,
            Write, Files, IsTree, Shaped
<1>16. CASE s = "apply_batch1_fixes"
  BY <1>16 DEF After, Length, apply_batch1_fixes, ab1, Write, Files, IsTree,
         Shaped
<1>17. CASE s = "apply_batch3"
  BY <1>17 DEF After, Length, apply_batch3, ab3_stream_aggregator,
         ab3_protocol_bridge, ab3_kem_adapter, ab3_dma_transport,
         ab3_multi_node, Write, Files, IsTree, Shaped
<1>18. CASE s = "apply_batch4"
  BY <1>18 DEF After, Length, apply_batch4, ab4_stm32, ab4_esp32,
         ab4_transport_h, Write, Files, IsTree, Shaped
<1>19. CASE s = "apply_final_fixes"
  BY <1>19 DEF After, Length, apply_final_fixes, fix_baseline_server_py,
         create_run_all_experiments_py, Write, Files, IsTree, Shaped
<1>. QED  BY <1>1, <1>2, <1>3, <1>4, <1>5, <1>6, <1>7, <1>8, <1>9, <1>10,
             <1>11, <1>12, <1>13, <1>14, <1>15, <1>16, <1>17, <1>18, <1>19 DEF
             AllScripts

(* What each step does to the files whose texts are counted *)
LEMMA CountsAreWritten ==
  ASSUME NEW t, Shaped(t), NEW s \in AllScripts, NEW k \in 1..Length(s)
  PROVE  /\ After(s, k, t)["platformio.ini"] = t["platformio.ini"]
         /\ IF s = "apply_final_fixes" /\ k = 1
              THEN After(s, k, t)["baseline_server.py"]
                     = WithHandlers(t["baseline_server.py"])
              ELSE After(s, k, t)["baseline_server.py"] = t["baseline_server.py"]
<1>1. CASE s = "fix_aes_ctr"
  BY <1>1 DEF After, Length, fix_aes_ctr, ReplaceAes, Write, Files, IsTree,
         Shaped
<1>2. CASE s = "fix_bytes2"
  BY <1>2 DEF After, Length, fix_bytes2, ReplaceAes, Write, Files, IsTree,
         Shaped
<1>3. CASE s = "fix_empty_bytes"
  BY <1>3 DEF After, Length, fix_empty_bytes, ReplaceAes, Write, Files,
         IsTree, Shaped
<1>4. CASE s = "fix_bytes3"
  BY <1>4 DEF After, Length, fix_bytes3, ReplaceAes, Write, Files, IsTree,
         Shaped
<1>5. CASE s = "fix_bytes4"
  BY <1>5 DEF After, Length, fix_bytes4, Write, Files, IsTree, Shaped
<1>6. CASE s = "fix_null"
  BY <1>6 DEF After, Length, fix_null, ReplaceAes, Write, Files, IsTree,
         Shaped
<1>7. CASE s = "batch1_fixes"
  BY <1>7 DEF After, Length, batch1_fixes, b1_fix_dropout_protocol,
         b1_fix_protocol_bridge, b1_fix_packet_codec_h, b1_fix_packet_codec_c,
         ReplaceAes, Write, Files, IsTree, Shaped
<1>8. CASE s = "batch2_fixes"
  BY <1>8 DEF After, Length, batch2_fixes, b2_create_mock_client,
         b2_fix_kem_adapter, KemC, Write, Files, IsTree, Shaped
<1>9. CASE s = "batch3_fixes"
  BY <1>9 DEF After, Length, batch3_fixes, b3_fix_stream_aggregator_c,
         b3_fix_protocol_bridge_py, b3_fix_kem_adapter_c,
         b3_fix_kem_adapter_h, b3_fix_dma_transport_c,
         b3_create_renode_script, KemC, Write, Files, IsTree, Shaped
<1>10. CASE s = "batch4_fixes"
  BY <1>10 DEF After, Length, batch4_fixes, b4_create_telemetry_header,
         b4_create_telemetry_c, b4_modify_main_c, b4_create_renode_script,
         Write, Files, IsTree, Shaped
<1>11. CASE s = "phase2_fixes"
  BY <1>11 DEF After, Length, phase2_fixes, p2_fix_state_machine,
         p2_create_packet_codec_h, p2_fix_packet_codec_c,
         p2_create_impairment_c, p2_create_impairment_h, Write, Files, IsTree,
         Shaped
<1>12. CASE s = "phase3_fixes"
  BY <1>12 DEF After, Length, phase3_fixes, p3_fix_protocol_bridge,
         p3_fix_shamir_recovery, Write, Files, IsTree, Shaped
<1>13. CASE s = "create_phase4"
  BY <1>13 DEF After, Length, create_phase4, p4_create_baselines_py,
         p4_create_metrics_logger, p4_create_run_benchmarks, Write, Files,
         IsTree, Shaped
<1>14. CASE s = "update_task5"
  BY <1>14 DEF After, Length, update_task5, t5_update_protocol_bridge,
         t5_update_shamir_recovery, Write, Files, IsTree, Shaped
<1>15. CASE s = "integrate_pqm4"
  <2>1. pqm4_modify_platformio_ini(t) = t
    BY FlagsAreThere
  <2>. QED  BY <1>15, <2>1 DEF After, Length, integrate_pqm4,
            pqm4_modify_kem_adapter_h, pqm4_modify_kem_adapter_c, KemC,
            Write, Files, IsTree, Shaped
<1>16. CASE s = "apply_batch1_fixes"
  BY <1>16 DEF After, Length, apply_batch1_fixes, Write, Files, IsTree, Shaped
<1>17. CASE s = "apply_batch3"
  BY <1>17 DEF After, Length, apply_batch3, ab3_stream_aggregator,
         ab3_protocol_bridge, ab3_kem_adapter, ab3_dma_transport,
         ab3_multi_node, KemC, Write, Files, IsTree, Shaped
<1>18. CASE s = "apply_batch4"
  BY <1>18 DEF After, Length, apply_batch4, ab4_stm32, ab4_esp32,
         ab4_transport_h, Write, Files, IsTree, Shaped
<1>19. CASE s = "apply_final_fixes"
  BY <1>19 DEF After, Length, apply_final_fixes, fix_baseline_server_py,
         create_run_all_experiments_py, WithHandlers, Write, Files, IsTree,
         Shaped
<1>. QED  BY <1>1, <1>2, <1>3, <1>4, <1>5, <1>6, <1>7, <1>8, <1>9, <1>10,
             <1>11, <1>12, <1>13, <1>14, <1>15, <1>16, <1>17, <1>18, <1>19 DEF
             AllScripts

(* What each step does to protocol_bridge.py *)
LEMMA BridgeIsWritten ==
  ASSUME NEW t, Shaped(t), NEW s \in AllScripts, NEW k \in 1..Length(s),
         NEW u, u = After(s, k, t)
  PROVE  /\ u["protocol_bridge.py"].imports =
              IF s \in {"phase3_fixes", "update_task5"} /\ k = 1
                THEN {} ELSE t["protocol_bridge.py"].imports
         /\ u["protocol_bridge.py"] \in BridgeSources
         /\ t["protocol_bridge.py"].aes = "escaped" =>
              u["protocol_bridge.py"].aes \in {"escaped", "absent"}
<1>1. CASE s = "fix_aes_ctr"
  <2>1. u = ReplaceAes(t, "empty", "escaped")
    BY <1>1 DEF After, fix_aes_ctr
  <2>2. /\ u["protocol_bridge.py"] \in BridgeSources
        /\ u["protocol_bridge.py"].imports = t["protocol_bridge.py"].imports
        /\ u["protocol_bridge.py"].aes =
             IF t["protocol_bridge.py"].aes = "empty"
               THEN "escaped" ELSE t["protocol_bridge.py"].aes
    BY <2>1, LiteralIsReplaced DEF Literals
  <2>. QED  BY <1>1, <2>2 DEF Literals
<1>2. CASE s = "fix_bytes2"
  <2>1. u = ReplaceAes(t, "empty", "escaped")
    BY <1>2 DEF After, fix_bytes2
  <2>2. /\ u["protocol_bridge.py"] \in BridgeSources
        /\ u["protocol_bridge.py"].imports = t["protocol_bridge.py"].imports
        /\ u["protocol_bridge.py"].aes =
             IF t["protocol_bridge.py"].aes = "empty"
               THEN "escaped" ELSE t["protocol_bridge.py"].aes
    BY <2>1, LiteralIsReplaced DEF Literals
  <2>. QED  BY <1>2, <2>2 DEF Literals
<1>3. CASE s = "fix_empty_bytes"
  <2>1. u = ReplaceAes(t, "empty", "escaped")
    BY <1>3 DEF After, fix_empty_bytes
  <2>2. /\ u["protocol_bridge.py"] \in BridgeSources
        /\ u["protocol_bridge.py"].imports = t["protocol_bridge.py"].imports
        /\ u["protocol_bridge.py"].aes =
             IF t["protocol_bridge.py"].aes = "empty"
               THEN "escaped" ELSE t["protocol_bridge.py"].aes
    BY <2>1, LiteralIsReplaced DEF Literals
  <2>. QED  BY <1>3, <2>2 DEF Literals
<1>4. CASE s = "fix_bytes3"
  <2>1. u = ReplaceAes(t, "empty", "escaped")
    BY <1>4 DEF After, fix_bytes3
  <2>2. /\ u["protocol_bridge.py"] \in BridgeSources
        /\ u["protocol_bridge.py"].imports = t["protocol_bridge.py"].imports
        /\ u["protocol_bridge.py"].aes =
             IF t["protocol_bridge.py"].aes = "empty"
               THEN "escaped" ELSE t["protocol_bridge.py"].aes
    BY <2>1, LiteralIsReplaced DEF Literals
  <2>. QED  BY <1>4, <2>2 DEF Literals
<1>5. CASE s = "fix_bytes4"
  BY <1>5 DEF After, Length, fix_bytes4, Write, Files, IsTree, Shaped,
         BridgeSources, Literals
<1>6. CASE s = "fix_null"
  <2>1. u = ReplaceAes(t, "nul", "empty")
    BY <1>6 DEF After, fix_null
  <2>2. /\ u["protocol_bridge.py"] \in BridgeSources
        /\ u["protocol_bridge.py"].imports = t["protocol_bridge.py"].imports
        /\ u["protocol_bridge.py"].aes =
             IF t["protocol_bridge.py"].aes = "nul"
               THEN "empty" ELSE t["protocol_bridge.py"].aes
    BY <2>1, LiteralIsReplaced DEF Literals
  <2>. QED  BY <1>6, <2>2 DEF Literals
<1>7. CASE s = "batch1_fixes"
  <2>1. CASE k = 2
    <3>1. u = ReplaceAes(t, "empty", "escaped")
      BY <1>7, <2>1 DEF After, batch1_fixes, b1_fix_protocol_bridge
    <3>2. /\ u["protocol_bridge.py"] \in BridgeSources
          /\ u["protocol_bridge.py"].imports = t["protocol_bridge.py"].imports
          /\ u["protocol_bridge.py"].aes =
               IF t["protocol_bridge.py"].aes = "empty"
                 THEN "escaped" ELSE t["protocol_bridge.py"].aes
      BY <3>1, LiteralIsReplaced DEF Literals
    <3>. QED  BY <1>7, <3>2
  <2>2. CASE k # 2
    BY <1>7, <2>2 DEF After, Length, batch1_fixes, b1_fix_dropout_protocol,
                       b1_fix_packet_codec_h, b1_fix_packet_codec_c, Write,
                       Files, IsTree, Shaped
  <2>. QED  BY <2>1, <2>2
<1>8. CASE s = "batch2_fixes"
  BY <1>8 DEF After, Length, batch2_fixes, b2_create_mock_client,
         b2_fix_kem_adapter, KemC, Write, Files, IsTree, Shaped,
         BridgeSources, Literals
<1>9. CASE s = "batch3_fixes"
  BY <1>9 DEF After, Length, batch3_fixes, b3_fix_stream_aggregator_c,
         b3_fix_protocol_bridge_py, b3_fix_kem_adapter_c,
         b3_fix_kem_adapter_h, b3_fix_dma_transport_c,
         b3_create_renode_script, KemC, Write, Files, IsTree, Shaped,
         BridgeSources, Literals
<1>10. CASE s = "batch4_fixes"
  BY <1>10 DEF After, Length, batch4_fixes, b4_create_telemetry_header,
         b4_create_telemetry_c, b4_modify_main_c, b4_create_renode_script,
         Write, Files, IsTree, Shaped, BridgeSources, Literals
<1>11. CASE s = "phase2_fixes"
  BY <1>11 DEF After, Length, phase2_fixes, p2_fix_state_machine,
         p2_create_packet_codec_h, p2_fix_packet_codec_c,
         p2_create_impairment_c, p2_create_impairment_h, Write, Files, IsTree,
         Shaped, BridgeSources, Literals
<1>12. CASE s = "phase3_fixes"
  BY <1>12 DEF After, Length, phase3_fixes, p3_fix_protocol_bridge,
         p3_fix_shamir_recovery, Write, Files, IsTree, Shaped, BridgeSources,
         Literals
<1>13. CASE s = "create_phase4"
  BY <1>13 DEF After, Length, create_phase4, p4_create_baselines_py,
         p4_create_metrics_logger, p4_create_run_benchmarks, Write, Files,
         IsTree, Shaped, BridgeSources, Literals
<1>14. CASE s = "update_task5"
  BY <1>14 DEF After, Length, update_task5, t5_update_protocol_bridge,
         t5_update_shamir_recovery, Write, Files, IsTree, Shaped,
         BridgeSources, Literals
<1>15. CASE s = "integrate_pqm4"
  <2>1. pqm4_modify_platformio_ini(t) = t
    BY FlagsAreThere
  <2>. QED  BY <1>15, <2>1 DEF After, Length, integrate_pqm4,
            pqm4_modify_kem_adapter_h, pqm4_modify_kem_adapter_c, KemC,
            Write, Files, IsTree, Shaped, BridgeSources, Literals
<1>16. CASE s = "apply_batch1_fixes"
  BY <1>16 DEF After, Length, apply_batch1_fixes, Write, Files, IsTree,
         Shaped, BridgeSources, Literals
<1>17. CASE s = "apply_batch3"
  BY <1>17 DEF After, Length, apply_batch3, ab3_stream_aggregator,
         ab3_protocol_bridge, ab3_kem_adapter, ab3_dma_transport,
         ab3_multi_node, KemC, Write, Files, IsTree, Shaped, BridgeSources,
         Literals
<1>18. CASE s = "apply_batch4"
  BY <1>18 DEF After, Length, apply_batch4, ab4_stm32, ab4_esp32,
         ab4_transport_h, Write, Files, IsTree, Shaped, BridgeSources,
         Literals
<1>19. CASE s = "apply_final_fixes"
  BY <1>19 DEF After, Length, apply_final_fixes, fix_baseline_server_py,
         create_run_all_experiments_py, Write, Files, IsTree, Shaped,
         BridgeSources, Literals
<1>. QED  BY <1>1, <1>2, <1>3, <1>4, <1>5, <1>6, <1>7, <1>8, <1>9, <1>10,
             <1>11, <1>12, <1>13, <1>14, <1>15, <1>16, <1>17, <1>18, <1>19 DEF
             AllScripts

(* A step that finds its own result in its target leaves it as it is. The  *)
(* handlers of apply_final_fixes.py are the exception.                     *)
LEMMA StepIsIdempotent ==
  ASSUME NEW t, Shaped(t), NEW u, Shaped(u),
         NEW s \in AllScripts \ {"apply_final_fixes"}, NEW k \in 1..Length(s),
         u[Targets(s)[k]] = After(s, k, t)[Targets(s)[k]]
  PROVE  After(s, k, u)[Targets(s)[k]] = u[Targets(s)[k]]
<1>1. CASE s = "fix_aes_ctr"
  BY <1>1 DEF After, Length, fix_aes_ctr, ReplaceAes, Write, Targets, Files,
         IsTree, Shaped
<1>2. CASE s = "fix_bytes2"
  BY <1>2 DEF After, Length, fix_bytes2, ReplaceAes, Write, Targets, Files,
         IsTree, Shaped
<1>3. CASE s = "fix_empty_bytes"
  BY <1>3 DEF After, Length, fix_empty_bytes, ReplaceAes, Write, Targets,
         Files, IsTree, Shaped
<1>4. CASE s = "fix_bytes3"
  BY <1>4 DEF After, Length, fix_bytes3, ReplaceAes, Write, Targets, Files,
         IsTree, Shaped
<1>5. CASE s = "fix_bytes4"
  BY <1>5 DEF After, Length, fix_bytes4, Write, Targets, Files, IsTree, Shaped
<1>6. CASE s = "fix_null"
  BY <1>6 DEF After, Length, fix_null, ReplaceAes, Write, Targets, Files,
         IsTree, Shaped
<1>7. CASE s = "batch1_fixes"
  BY <1>7 DEF After, Length, batch1_fixes, b1_fix_dropout_protocol,
         b1_fix_protocol_bridge, b1_fix_packet_codec_h, b1_fix_packet_codec_c,
         ReplaceAes, Write, Targets, Files, IsTree, Shaped
<1>8. CASE s = "batch2_fixes"
  BY <1>8 DEF After, Length, batch2_fixes, b2_create_mock_client,
         b2_fix_kem_adapter, KemC, Write, Targets, Files, IsTree, Shaped
<1>9. CASE s = "batch3_fixes"
  BY <1>9 DEF After, Length, batch3_fixes, b3_fix_stream_aggregator_c,
         b3_fix_protocol_bridge_py, b3_fix_kem_adapter_c,
         b3_fix_kem_adapter_h, b3_fix_dma_transport_c,
         b3_create_renode_script, KemC, Write, Targets, Files, IsTree, Shaped
<1>10. CASE s = "batch4_fixes"
  BY <1>10 DEF After, Length, batch4_fixes, b4_create_telemetry_header,
         b4_create_telemetry_c, b4_modify_main_c, b4_create_renode_script,
         Write, Targets, Files, IsTree, Shaped
<1>11. CASE s = "phase2_fixes"
  BY <1>11 DEF After, Length, phase2_fixes, p2_fix_state_machine,
         p2_create_packet_codec_h, p2_fix_packet_codec_c,
         p2_create_impairment_c, p2_create_impairment_h, Write, Targets,
         Files, IsTree, Shaped
<1>12. CASE s = "phase3_fixes"
  BY <1>12 DEF After, Length, phase3_fixes, p3_fix_protocol_bridge,
         p3_fix_shamir_recovery, Write, Targets, Files, IsTree, Shaped
<1>13. CASE s = "create_phase4"
  BY <1>13 DEF After, Length, create_phase4, p4_create_baselines_py,
         p4_create_metrics_logger, p4_create_run_benchmarks, Write, Targets,
         Files, IsTree, Shaped
<1>14. CASE s = "update_task5"
  BY <1>14 DEF After, Length, update_task5, t5_update_protocol_bridge,
         t5_update_shamir_recovery, Write, Targets, Files, IsTree, Shaped
<1>15. CASE s = "integrate_pqm4"
  <2>1. pqm4_modify_platformio_ini(t) = t /\ pqm4_modify_platformio_ini(u) = u
    BY FlagsAreThere
  <2>. QED  BY <1>15, <2>1 DEF After, Length, integrate_pqm4,
            pqm4_modify_kem_adapter_h, pqm4_modify_kem_adapter_c, KemC,
            Write, Targets, Files, IsTree, Shaped
<1>16. CASE s = "apply_batch1_fixes"
  BY <1>16, BindsOnce
     DEF After, Length, apply_batch1_fixes, ab1, Write, Targets, Files, IsTree,
         Shaped
<1>17. CASE s = "apply_batch3"
  BY <1>17 DEF After, Length, apply_batch3, ab3_stream_aggregator,
         ab3_protocol_bridge, ab3_kem_adapter, ab3_dma_transport,
         ab3_multi_node, KemC, Write, Targets, Files, IsTree, Shaped
<1>18. CASE s = "apply_batch4"
  BY <1>18 DEF After, Length, apply_batch4, ab4_stm32, ab4_esp32,
         ab4_transport_h, Write, Targets, Files, IsTree, Shaped
<1>. QED  BY <1>1, <1>2, <1>3, <1>4, <1>5, <1>6, <1>7, <1>8, <1>9, <1>10,
             <1>11, <1>12, <1>13, <1>14, <1>15, <1>16, <1>17, <1>18 DEF
             AllScripts

-----------------------------------------------------------------------------
(* No two steps of a script write the same file. *)
LEMMA TargetsDiffer ==
  ASSUME NEW s \in AllScripts, NEW j \in 1..Length(s), NEW k \in 1..Length(s),
         j # k
  PROVE  Targets(s)[j] # Targets(s)[k]
BY DEF AllScripts, Length, Targets

(* Every script has a step. *)
LEMMA LengthType ==
  ASSUME NEW s \in AllScripts
  PROVE  Length(s) \in Nat /\ Length(s) >= 1
BY DEF AllScripts, Length

(* A step leaves a tree that is shaped like the one it found. *)
LEMMA AfterIsShaped ==
  ASSUME NEW t, Shaped(t), NEW s \in AllScripts, NEW k \in 1..Length(s)
  PROVE  Shaped(After(s, k, t))
<1> DEFINE u == After(s, k, t)
<1>1. IsTree(u)
  BY AfterIsTree DEF Shaped
<1>2. u["kem_adapter.c"] \in KemSources
  <2>1. \A d \in SUBSET Names, b \in SUBSET Kdfs, a \in Calls : KemC(d, b, a) \in KemSources
    BY KemSource
  <2>2. /\ {} \in SUBSET Names /\ {"x25519"} \in SUBSET Names
        /\ Kdfs \in SUBSET Kdfs /\ "macro" \in Calls /\ "direct" \in Calls
    BY DEF Names, Calls
  <2>3. ab1(t["kem_adapter.c"]) \in KemSources /\ t["kem_adapter.c"] \in KemSources
    BY BindsOnce DEF Shaped
  <2>4. \/ u["kem_adapter.c"] \in {KemC({"x25519"}, Kdfs, "macro"), KemC({}, Kdfs, "macro"),
                                 KemC({"x25519"}, Kdfs, "direct")}
        \/ u["kem_adapter.c"] \in {ab1(t["kem_adapter.c"]), t["kem_adapter.c"]}
    BY KemIsWritten
  <2>. QED  BY <2>1, <2>2, <2>3, <2>4
<1>3. u["protocol_bridge.py"] \in BridgeSources
  BY BridgeIsWritten
<1>4. u["platformio.ini"] \in Inis
  <2>1. u["platformio.ini"] = t["platformio.ini"]
    BY CountsAreWritten
  <2>. QED  BY <2>1 DEF Shaped
<1>5. u["baseline_server.py"] \in [handlers : Nat, consts : Nat]
  <2>1. t["baseline_server.py"] \in [handlers : Nat, consts : Nat]
    BY DEF Shaped
  <2>2. \/ u["baseline_server.py"] = WithHandlers(t["baseline_server.py"])
        \/ u["baseline_server.py"] = t["baseline_server.py"]
    BY CountsAreWritten
  <2>. QED  BY <2>1, <2>2 DEF WithHandlers
<1>. QED  BY <1>1, <1>2, <1>3, <1>4, <1>5 DEF Shaped

(* Either side of the merge is shaped so. *)
LEMMA CommittedIsShaped ==
  ASSUME NEW side \in {"HEAD", "incoming"}
  PROVE  /\ Shaped(Committed(side))
         /\ Committed(side)["baseline_server.py"] = [handlers |-> 1, consts |-> 1]
         /\ Committed(side)["telemetry.h"] = Committed(side)["telemetry.c"]
         /\ Committed(side)["protocol_bridge.py"].imports
              = Committed(side)["shamir_recovery.py"]
<1> DEFINE c == Committed(side)
<1>1. IsTree(c)
  BY DEF Committed, IsTree
<1>2. c["kem_adapter.c"] =
        KemC(IF side = "HEAD" THEN {"verify"} ELSE {"x25519"}, {}, "direct")
  BY DEF Committed, Files
<1>3. c["kem_adapter.c"] \in KemSources
  BY <1>2 DEF KemC, KemSources, Names, Calls
<1>4. /\ c["protocol_bridge.py"] =
           [imports |-> {"recover_dropped_client_masks"},
            aes |-> IF side = "HEAD" THEN "empty" ELSE "nul"]
      /\ c["shamir_recovery.py"] = {"recover_dropped_client_masks"}
  BY DEF Committed, Files
<1>5. c["protocol_bridge.py"] \in BridgeSources
  BY <1>4 DEF BridgeSources, Literals
<1>6. /\ c["platformio.ini"] = [envs |-> TRUE, pqm4 |-> TRUE, filter |-> 1]
      /\ c["baseline_server.py"] = [handlers |-> 1, consts |-> 1]
      /\ c["telemetry.h"] = c["telemetry.c"]
  BY DEF Committed, Files
<1>7. /\ c["platformio.ini"] \in Inis
      /\ c["baseline_server.py"] \in [handlers : Nat, consts : Nat]
  BY <1>6 DEF Inis
<1>. QED  BY <1>1, <1>3, <1>4, <1>5, <1>6, <1>7 DEF Shaped

-----------------------------------------------------------------------------
(* The inductive invariant, part by part.  The trees are shaped, a running *)
(* script is at one of its steps and has not ended; apply_final_fixes.py   *)
(* has added its handlers at most once in each run.                        *)
BaseInv ==
  /\ Shaped(tree) /\ Shaped(before)
  /\ script \in Scripts \cup {NONE} /\ done \in Scripts \cup {NONE}
  /\ prev \in Scripts \cup {NONE} /\ runs \in Nat
  /\ script # NONE => step \in 1..Length(script) /\ done = NONE
  /\ script = NONE => step = 0

CountInv ==
  /\ tree["baseline_server.py"].handlers \in 0..(1 + runs)
  /\ tree["baseline_server.py"].handlers > 0 =>
       tree["baseline_server.py"].consts
         = 2 * tree["baseline_server.py"].handlers - 1
  /\ script = "apply_final_fixes" /\ step = 1 =>
       tree["baseline_server.py"].handlers <= runs

(* Between the two writes of a script the one that came first has made the *)
(* second harmless.                                                        *)
HeaderInv ==
  /\ TelemetryIsDefined
  /\ script = "batch4_fixes" /\ step = 2 => tree["telemetry.h"] = {}

ImportInv ==
  /\ ImportsResolve
  /\ script \in {"phase3_fixes", "update_task5"} /\ step = 2 =>
       tree["protocol_bridge.py"].imports = {}

(* Step k of s would change nothing in t. *)
Fixed(s, k, t) == After(s, k, t)[Targets(s)[k]] = t[Targets(s)[k]]
Settled(s, t) == \A k \in 1..Length(s) : Fixed(s, k, t)

(* The steps that a script has made would change nothing if they were made *)
(* again, so that a script that has ended, and one that is started right   *)
(* after itself, is settled.                                               *)
RerunInv ==
  /\ RerunIsNoOp
  /\ script \notin {NONE, "apply_final_fixes"} =>
       \A k \in 1..(step - 1) : Fixed(script, k, tree)
  /\ done \notin {NONE, "apply_final_fixes"} => Settled(done, tree)
  /\ script \notin {NONE, "apply_final_fixes"} /\ prev = script =>
       Settled(script, tree) /\ tree = before

PatchesInv ==
  BaseInv /\ CountInv /\ HeaderInv /\ ImportInv /\ RerunInv

(* NONE is not the name of a script. *)
LEMMA NoScriptIsNONE == NONE \notin AllScripts /\ Scripts \subseteq AllScripts
BY PatchesAssumption DEF NONE, AllScripts

(* Both committed trees satisfy the invariant. *)
LEMMA InitInv == Init => PatchesInv
<1>. SUFFICES ASSUME Init PROVE PatchesInv
  OBVIOUS
<1>1. PICK side \in {"HEAD", "incoming"} : tree = Committed(side)
  BY DEF Init
<1>2. BaseInv
  BY <1>1, CommittedIsShaped DEF Init, BaseInv
<1>3. CountInv
  BY <1>1, CommittedIsShaped DEF Init, CountInv, NONE
<1>4. HeaderInv
  BY <1>1, CommittedIsShaped DEF Init, HeaderInv, TelemetryIsDefined, NONE
<1>5. ImportInv
  BY <1>1, CommittedIsShaped DEF Init, ImportInv, ImportsResolve, NONE
<1>6. RerunInv
  BY DEF Init, RerunInv, RerunIsNoOp
<1>. QED  BY <1>2, <1>3, <1>4, <1>5, <1>6 DEF PatchesInv

(* A script that starts finds nothing half done. *)
LEMMA StartInv ==
  ASSUME PatchesInv, NEW s \in Scripts, Start(s)
  PROVE  PatchesInv'
<1>. s \in AllScripts /\ s # NONE
  BY NoScriptIsNONE
<1>1. BaseInv'
  BY LengthType DEF PatchesInv, BaseInv, Start
<1>2. CountInv'
  BY DEF PatchesInv, BaseInv, CountInv, Start
<1>3. HeaderInv' /\ ImportInv'
  BY DEF PatchesInv, HeaderInv, TelemetryIsDefined, ImportInv, ImportsResolve,
         Start, NONE
<1>4. RerunInv'
  <2>1. RerunIsNoOp'
    BY DEF Start, RerunIsNoOp
  <2>2. \A k \in 1..(step' - 1) : Fixed(script', k, tree')
    BY DEF Start
  <2>3. script' # "apply_final_fixes" /\ prev' = script' =>
          Settled(script', tree') /\ tree' = before'
    BY DEF PatchesInv, RerunInv, Start
  <2>. QED  BY <2>1, <2>2, <2>3 DEF RerunInv, Start
<1>. QED  BY <1>1, <1>2, <1>3, <1>4 DEF PatchesInv

(* A script that is cut short leaves what the parts say of any tree. *)
LEMMA FailInv ==
  ASSUME PatchesInv, Fail
  PROVE  PatchesInv'
<1>1. done = NONE /\ done' = NONE
  BY DEF PatchesInv, BaseInv, Fail
<1>2. BaseInv' /\ CountInv'
  BY DEF PatchesInv, BaseInv, CountInv, Fail, NONE
<1>3. HeaderInv' /\ ImportInv'
  BY DEF PatchesInv, HeaderInv, TelemetryIsDefined, ImportInv, ImportsResolve,
         Fail, NONE
<1>4. RerunInv'
  BY <1>1 DEF RerunInv, RerunIsNoOp, Fail
<1>. QED  BY <1>2, <1>3, <1>4 DEF PatchesInv

(* A file that is left empty is shaped like one of its versions. *)
LEMMA EmptiedIsShaped ==
  ASSUME NEW t, Shaped(t), NEW f \in Files,
         NEW u, u = Write(t, f, Emptied(f))
  PROVE  /\ Shaped(u)
         /\ \A g \in Files : u[g] = IF g = f THEN Emptied(f) ELSE t[g]
<1>1. IsTree(u) /\ DOMAIN t = Files
  BY WriteIsTree DEF Shaped, IsTree
<1>2. \A g \in Files : u[g] = IF g = f THEN Emptied(f) ELSE t[g]
  BY <1>1 DEF Write
<1>3. /\ "kem_adapter.c" \in Files /\ "protocol_bridge.py" \in Files
      /\ "platformio.ini" \in Files /\ "baseline_server.py" \in Files
  BY DEF Files
<1>4. /\ Emptied("kem_adapter.c") \in KemSources
      /\ Emptied("protocol_bridge.py") \in BridgeSources
      /\ Emptied("platformio.ini") \in Inis
      /\ Emptied("baseline_server.py") \in [handlers : Nat, consts : Nat]
  BY DEF Emptied, KemC, KemSources, Names, Calls, BridgeSources, Literals, Inis
<1>. QED  BY <1>1, <1>2, <1>3, <1>4 DEF Shaped

(* A script that is cut short while its file is empty: the file that needs *)
(* what has gone was written before.                                       *)
LEMMA TruncateInv ==
  ASSUME PatchesInv, Truncate
  PROVE  PatchesInv'
<1> DEFINE f == Targets(script)[step]
<1>. /\ script \in AllScripts /\ script # NONE /\ step \in 1..Length(script)
     /\ Shaped(tree) /\ done = NONE /\ done' = NONE
  BY NoScriptIsNONE DEF PatchesInv, BaseInv, Truncate
<1>1. f \in Files
  BY TargetIsWritten
<1>2. /\ Shaped(tree')
      /\ \A g \in Files : tree'[g] = IF g = f THEN Emptied(f) ELSE tree[g]
  BY <1>1, EmptiedIsShaped DEF Truncate
<1>3. BaseInv'
  BY <1>2 DEF PatchesInv, BaseInv, Truncate
<1>. /\ "baseline_server.py" \in Files /\ "telemetry.h" \in Files
     /\ "telemetry.c" \in Files /\ "protocol_bridge.py" \in Files
     /\ "shamir_recovery.py" \in Files
  BY DEF Files
<1>4. CountInv'
  <2>1. Emptied("baseline_server.py").handlers = 0
    BY DEF Emptied
  <2>. QED  BY <1>2, <2>1 DEF PatchesInv, BaseInv, CountInv, Truncate, NONE
<1>5. HeaderInv'
  <2>1. /\ f = "telemetry.c" => script = "batch4_fixes" /\ step = 2
        /\ f = "telemetry.h" => f # "telemetry.c"
    BY DEF Targets, AllScripts, Length
  <2>2. Emptied("telemetry.h") = {}
    BY DEF Emptied
  <2>. QED  BY <1>2, <2>1, <2>2
            DEF PatchesInv, HeaderInv, TelemetryIsDefined, Truncate, NONE
<1>6. ImportInv'
  <2>1. f = "shamir_recovery.py" =>
          script \in {"phase3_fixes", "update_task5"} /\ step = 2
    BY DEF Targets, AllScripts, Length
  <2>2. Emptied("protocol_bridge.py").imports = {}
    BY DEF Emptied
  <2>. QED  BY <1>2, <2>1, <2>2
            DEF PatchesInv, ImportInv, ImportsResolve, Truncate, NONE
<1>7. RerunInv'
  BY DEF RerunInv, RerunIsNoOp, Truncate
<1>. QED  BY <1>3, <1>4, <1>5, <1>6, <1>7 DEF PatchesInv

(* A step keeps what its own script has settled, and settles its target. *)
LEMMA StepSettles ==
  ASSUME NEW t, Shaped(t), NEW s \in AllScripts \ {"apply_final_fixes"},
         NEW k \in 1..Length(s), \A j \in 1..(k - 1) : Fixed(s, j, t)
  PROVE  \A j \in 1..k : Fixed(s, j, After(s, k, t))
<1> DEFINE u == After(s, k, t)
<1>. Shaped(u)
  BY AfterIsShaped
<1>. HIDE DEF u
<1>1. Fixed(s, k, u)
  BY StepIsIdempotent DEF Fixed, u
<1>2. ASSUME NEW j \in 1..(k - 1) PROVE Fixed(s, j, u)
  <2>1. j \in 1..Length(s) /\ Targets(s)[j] # Targets(s)[k]
    BY LengthType, TargetsDiffer
  <2>2. Targets(s)[j] \in Files
    BY <2>1, TargetIsWritten
  <2>3. u[Targets(s)[j]] = t[Targets(s)[j]]
    BY <2>1, <2>2, TargetIsWritten DEF u
  <2>4. After(s, j, t)[Targets(s)[j]] = After(s, j, u)[Targets(s)[j]]
    BY <2>1, <2>3, TargetIsWritten
  <2>. QED  BY <2>3, <2>4 DEF Fixed
<1>3. \A j \in 1..k : j \in 1..(k - 1) \/ j = k
  BY LengthType
<1>. QED  BY <1>1, <1>2, <1>3 DEF u

(* A script that is settled changes nothing. *)
LEMMA SettledIsNoOp ==
  ASSUME NEW t, Shaped(t), NEW s \in AllScripts, NEW k \in 1..Length(s),
         Settled(s, t)
  PROVE  After(s, k, t) = t
<1> DEFINE u == After(s, k, t)
<1>1. Shaped(u)
  BY AfterIsShaped
<1>2. \A f \in Files : u[f] = t[f]
  <2>1. Targets(s)[k] \in Files /\ u[Targets(s)[k]] = t[Targets(s)[k]]
    BY TargetIsWritten DEF Settled, Fixed
  <2>2. \A f \in Files \ {Targets(s)[k]} : u[f] = t[f]
    BY TargetIsWritten
  <2>. QED  BY <2>1, <2>2
<1>. HIDE DEF u
<1>3. t = [f \in Files |-> t[f]] /\ u = [f \in Files |-> u[f]]
  BY <1>1 DEF IsTree, Shaped
<1>4. u = t
  BY <1>2, <1>3
<1>. QED  BY <1>4 DEF u

(* So does the tree after a step of a script. *)
LEMMA StepInv ==
  ASSUME PatchesInv, Step
  PROVE  PatchesInv'
<1> DEFINE s == script
<1>. /\ s \in AllScripts /\ s # NONE /\ s \in Scripts /\ step \in 1..Length(s)
     /\ Shaped(tree) /\ tree' = After(s, step, tree) /\ done = NONE
     /\ Length(s) \in Nat
  BY NoScriptIsNONE, LengthType DEF PatchesInv, BaseInv, Step
<1>1. BaseInv'
  BY AfterIsShaped DEF PatchesInv, BaseInv, Step
<1>2. CountInv'
  <2>1. tree["baseline_server.py"] \in [handlers : Nat, consts : Nat]
    BY DEF Shaped
  <2>2. tree'["baseline_server.py"] =
          IF s = "apply_final_fixes" /\ step = 1
            THEN WithHandlers(tree["baseline_server.py"])
            ELSE tree["baseline_server.py"]
    BY CountsAreWritten
  <2>3. CASE s = "apply_final_fixes" /\ step = 1
    BY <2>1, <2>2, <2>3
       DEF PatchesInv, BaseInv, CountInv, WithHandlers, Step, NONE
  <2>4. CASE ~(s = "apply_final_fixes" /\ step = 1)
    BY <2>1, <2>2, <2>4 DEF PatchesInv, BaseInv, CountInv, Step, NONE
  <2>. QED  BY <2>3, <2>4
<1>3. HeaderInv'
  <2>1. /\ tree'["telemetry.h"] =
             IF s = "batch4_fixes" /\ step = 1 THEN {} ELSE tree["telemetry.h"]
        /\ tree'["telemetry.c"] =
             IF s = "batch4_fixes" /\ step = 2 THEN {} ELSE tree["telemetry.c"]
    BY WhatIsWritten
  <2>2. TelemetryIsDefined'
    BY <2>1 DEF PatchesInv, HeaderInv, TelemetryIsDefined
  <2>3. (script' = s /\ step' = step + 1) \/ script' = NONE
    BY DEF Step
  <2>. QED  BY <2>1, <2>2, <2>3 DEF HeaderInv, NONE
<1>4. ImportInv'
  <2>1. tree'["protocol_bridge.py"].imports =
          IF s \in {"phase3_fixes", "update_task5"} /\ step = 1
            THEN {} ELSE tree["protocol_bridge.py"].imports
    BY BridgeIsWritten
  <2>2. tree'["shamir_recovery.py"] =
              CASE s = "phase3_fixes" /\ step = 2 ->
                     {"recover_dropped_client_masks", "generate_shares"}
                [] s = "update_task5" /\ step = 2 -> {"generate_shares"}
                [] OTHER -> tree["shamir_recovery.py"]
    BY WhatIsWritten
  <2>3. (script' = s /\ step' = step + 1) \/ script' = NONE
    BY DEF Step
  <2>4. tree["protocol_bridge.py"].imports \subseteq {"recover_dropped_client_masks"}
    BY DEF Shaped, BridgeSources
  <2>. QED  BY <2>1, <2>2, <2>3, <2>4 DEF PatchesInv, ImportInv, ImportsResolve, NONE
<1>5. RerunInv'
  <2>1. CASE s = "apply_final_fixes"
    BY <2>1 DEF RerunInv, RerunIsNoOp, Step, NONE
  <2>2. CASE s # "apply_final_fixes"
    <3>1. \A j \in 1..step : Fixed(s, j, tree')
      BY <2>2, StepSettles DEF PatchesInv, RerunInv
    <3>2. prev = s => Settled(s, tree) /\ tree = before
      BY <2>2 DEF PatchesInv, RerunInv
    <3>3. prev = s => tree' = tree
      BY <3>2, SettledIsNoOp
    <3>4. \/ script' = s /\ step' = step + 1 /\ done' = NONE
          \/ script' = NONE /\ done' = s /\ step = Length(s)
      BY DEF Step
    <3>5. prev' = prev /\ before' = before
      BY DEF Step
    <3>6. CASE script' = s /\ step' = step + 1 /\ done' = NONE
      <4>1. \A j \in 1..(step' - 1) : Fixed(script', j, tree')
        BY <3>1, <3>6
      <4>2. prev' = script' => Settled(script', tree') /\ tree' = before'
        BY <3>2, <3>3, <3>5, <3>6
      <4>. QED  BY <4>1, <4>2, <3>6 DEF RerunInv, RerunIsNoOp
    <3>7. CASE script' = NONE /\ done' = s /\ step = Length(s)
      <4>1. Settled(done', tree')
        BY <3>1, <3>7 DEF Settled
      <4>2. done' = prev' => tree' = before'
        BY <3>2, <3>3, <3>5, <3>7
      <4>. QED  BY <4>1, <4>2, <3>7 DEF RerunInv, RerunIsNoOp
    <3>. QED  BY <3>4, <3>6, <3>7
  <2>. QED  BY <2>1, <2>2
<1>. QED  BY <1>1, <1>2, <1>3, <1>4, <1>5 DEF PatchesInv

(* What the scripts leave in the tree, wherever they were cut short *)
LEMMA InvHolds == Spec => []PatchesInv
<1>1. PatchesInv /\ [Next]_vars => PatchesInv'
  <2>. SUFFICES ASSUME PatchesInv, [Next]_vars PROVE PatchesInv'
    OBVIOUS
  <2>1. CASE UNCHANGED vars
    BY <2>1 DEF vars, PatchesInv, BaseInv, CountInv, HeaderInv, TelemetryIsDefined,
                ImportInv, ImportsResolve, RerunInv, RerunIsNoOp
  <2>. QED  BY <2>1, StartInv, StepInv, FailInv, TruncateInv DEF Next
<1>. QED  BY InitInv, <1>1, PTL DEF Spec

(* Whatever scripts are run, the trees they leave are of the shape they    *)
(* start from: the source filter is there once unless the file was left    *)
(* empty, and baseline_server.py has at most one more set of handlers for  *)
(* each script that was started.                                           *)
THEOREM PatchesTypes == Spec => []PatchesTypeOK
<1>1. PatchesInv => PatchesTypeOK
  BY DEF PatchesInv, BaseInv, CountInv, PatchesTypeOK, Shaped, KemSources, Inis
<1>. QED  BY InvHolds, <1>1, PTL

(* No sequence of scripts, cut short between two files or while one is     *)
(* empty, leaves a telemetry.h that declares a cycle counter telemetry.c   *)
(* has lost.                                                               *)
THEOREM TelemetryStaysDefined == Spec => []TelemetryIsDefined
BY InvHolds, PTL DEF PatchesInv, HeaderInv

(* What protocol_bridge.py imports from shamir_recovery.py is there after  *)
(* every write of every script, and when a script stops in the middle of   *)
(* one.                                                                    *)
THEOREM ImportsStayResolved == Spec => []ImportsResolve
BY InvHolds, PTL DEF PatchesInv, ImportInv

(* A script run again right after it has ended leaves the tree as it is,   *)
(* apply_final_fixes.py apart: any order of scripts before.                *)
THEOREM SecondRunChangesNothing == Spec => []RerunIsNoOp
BY InvHolds, PTL DEF PatchesInv, RerunInv

(* No step of any script takes a right AES-CTR literal out of              *)
(* protocol_bridge.py, unless it takes the key stream with it: a step that *)
(* is cut short leaves nothing of the file, never a wrong literal.         *)
THEOREM LiteralIsKept == Spec => LiteralStays
<1>1. PatchesInv /\ [Next]_vars =>
        [tree["protocol_bridge.py"].aes = "escaped" =>
           tree'["protocol_bridge.py"].aes \in {"escaped", "absent"}]_vars
  <2>. SUFFICES ASSUME PatchesInv, [Next]_vars,
                       tree["protocol_bridge.py"].aes = "escaped"
                PROVE  tree'["protocol_bridge.py"].aes \in {"escaped", "absent"}
    OBVIOUS
  <2>1. CASE Step
    <3>1. script \in AllScripts /\ step \in 1..Length(script) /\ Shaped(tree)
      BY <2>1, NoScriptIsNONE DEF Step, PatchesInv, BaseInv
    <3>. QED  BY <2>1, <3>1, BridgeIsWritten DEF Step
  <2>2. CASE tree' = tree
    BY <2>2
  <2>3. CASE Truncate
    <3>1. /\ script \in AllScripts /\ step \in 1..Length(script)
          /\ Shaped(tree)
      BY <2>3, NoScriptIsNONE DEF Truncate, PatchesInv, BaseInv
    <3>2. Targets(script)[step] \in Files /\ "protocol_bridge.py" \in Files
      BY <3>1, TargetIsWritten DEF Files
    <3>3. tree'["protocol_bridge.py"] \in
            {Emptied("protocol_bridge.py"), tree["protocol_bridge.py"]}
      BY <2>3, <3>1, <3>2, EmptiedIsShaped DEF Truncate
    <3>. QED  BY <3>3 DEF Emptied
  <2>. QED  BY <2>1, <2>2, <2>3 DEF Next, Start, Fail, vars
<1>. QED  BY InvHolds, <1>1, PTL DEF Spec, LiteralStays
=============================================================================
