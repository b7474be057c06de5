--------------------------- MODULE MCCorePinning ---------------------------
(* Instances of CorePinning for TLC.                                       *)
EXTENDS CorePinning, TLC

CONSTANTS v1, v2, v3

MCVMs == {v1, v2, v3}
Symmetry == Permutations(MCVMs)

Need(c, m, d) == [cpu |-> c, memory |-> m, disk |-> d]

(* One request that each resource is the first to run out of, and one for  *)
(* nothing.                                                                *)
MCNeeds == {Need(3, 1, 1), Need(1, 2, 1), Need(2, 1, 2), Need(0, 0, 0)}

MCReserved == {0, 1}

(* Six CPUs.  One node and threads side by side; two nodes and threads a   *)
(* half apart, one of each pair on either node; the same CPUs alternating  *)
(* between the nodes; three nodes too small for some requests; no node     *)
(* directories; one CPU more that is offline.                              *)
Six == 0..5
Alone == [c \in Six |-> {<<c, c>>}]
Host(siblings, nodes) ==
  [cpus |-> Six, online |-> Six, siblings |-> siblings, nodes |-> nodes]
Near == [c \in Six |-> {<<2 * (c \div 2), 2 * (c \div 2) + 1>>}]
Far == [c \in Six |-> {<<c % 3, c % 3>>, <<3 + (c % 3), 3 + (c % 3)>>}]
MCHosts ==
  {Host(Near, 0 :> {<<0, 5>>}),
   Host(Far, 0 :> {<<0, 2>>} @@ 1 :> {<<3, 5>>}),
   Host(Near, 0 :> {<<0, 0>>, <<2, 2>>, <<4, 4>>} @@ 1 :> {<<1, 1>>, <<3, 3>>, <<5, 5>>}),
   Host(Alone, 0 :> {<<0, 1>>} @@ 1 :> {<<2, 3>>} @@ 2 :> {<<4, 5>>}),
   Host(Alone, <<>>),
   [cpus |-> 0..6, online |-> 0..6 \ {3},
    siblings |-> [c \in 0..6 |-> IF c = 3 THEN {} ELSE {<<c, c>>}],
    nodes |-> 0 :> {<<0, 2>>} @@ 1 :> {<<4, 6>>}]}
=============================================================================
