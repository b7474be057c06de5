-------------------------- MODULE InterfaceRestart --------------------------
(***************************************************************************)
(* The bridge manager across daemon restarts.  run_daemon makes a new      *)
(* BridgeManager each time (daemon.py:175) and nothing rebuilds what the   *)
(* old one had given out, while the VMs of the active rows live on:        *)
(* reconcile_allocations counts them again at that same start.             *)
(***************************************************************************)
EXTENDS BridgeManager

VARIABLE attached    \* environment: the interfaces VMs run with

restartVars == <<bridgeVars, attached>>

RestartInit == BridgeInit /\ attached = {}

(* A VM is started with the interface its session was given, and is gone   *)
(* before the session gives it back.                                       *)
BridgeStep ==
  /\ BridgeNext
  /\ attached' = (attached \cup (interfaces' \ interfaces)) \ (interfaces \ interfaces')

(* A VM that outlived the manager which knew its session is torn down.     *)
VMEnds(i) ==
  /\ i \in attached \ interfaces
  /\ attached' = attached \ {i}
  /\ UNCHANGED bridgeVars

(* run_daemon, in a new process.                                           *)
RestartDaemon ==
  /\ interfaces' = {} /\ allocatedVnets' = {} /\ allocatedMacs' = {}
  /\ nextVnet' = 0
  /\ call' = Idle
  /\ UNCHANGED attached

RestartNext ==
  \/ BridgeStep
  \/ \E i \in Interface : VMEnds(i)
  \/ RestartDaemon

RestartSpec == RestartInit /\ [][RestartNext]_restartVars

-----------------------------------------------------------------------------
Clash(i, j) == i.vnet = j.vnet \/ LowerCase[i.mac] = LowerCase[j.mac]

(* "Allocate a unique vnet name and MAC address." (bridge.py:65): no two   *)
(* VMs that run at the same time were given the same name or address.      *)
(* False across a restart, after which vnet0 is given out again.           *)
AttachedAreUnique ==
  \A i, j \in attached : Clash(i, j) => i = j
=============================================================================
