---------------------------- MODULE MCHostLedger ----------------------------
(* Instances of HostLedger for TLC.                                        *)
EXTENDS HostLedger

CONSTANTS s1, v1, v2, v3, v4

MCSessions == {s1}
MCVMs == {v1, v2, v3, v4}
MCStatuses == {"creating", "running", "stopped"}
MCActive == {"creating", "running"}

(* v2 needs the whole disk; any two of the others exceed the cores.        *)
MCNeedOf == [v \in MCVMs |-> IF v = v2 THEN [cpu |-> 1, memory |-> 1, disk |-> 3]
                                       ELSE [cpu |-> 2, memory |-> 1, disk |-> 1]]

(* reconcile_allocations cannot read the row of v3; v4 is not admitted.    *)
MCUnreadable == {v3}
MCUnadmitted == {v4}
=============================================================================
