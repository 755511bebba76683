---------------------------- MODULE MCSlotChain ----------------------------
(* The faults of each run. Together with a cheat, a STOP (and a switch of  *)
(* the served configuration with a crash) leaves an inventory that does    *)
(* not load, so the passing runs have one or the other.                    *)
EXTENDS SlotChain

MCNoStop == AllFaults \ {"sidecar_crash", "drift", "stop"}
MCNoCheat == AllFaults \ {"sidecar_crash", "cheat"}

MCSidecar == {"sidecar_crash", "idle"}
MCCheatStop == {"cheat", "harness", "stop"}
MCIdle == {"idle"}
MCPreSpawn == {"pre_spawn", "harness", "worker"}
=============================================================================
