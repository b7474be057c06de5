--------------------------- MODULE InterfacePool ---------------------------
(***************************************************************************)
(* What allocate_vm_interface promises (bridge.py:65): a session holds at  *)
(* most one network interface, no two sessions hold the same vnet name or  *)
(* the same hardware address, and a vnet name is given out once only.      *)
(***************************************************************************)
CONSTANTS Sessions, Vnets, MACs

VARIABLES
  holds,    \* who holds which interface: [session, vnet, mac]
  spent     \* vnet names given out or skipped

pool == <<holds, spent>>

PoolInit == holds = {} /\ spent = {}

Grant(s, n, m) ==
  /\ n \notin spent
  /\ \A h \in holds : h.session # s /\ h.mac # m
  /\ holds' = holds \cup {[session |-> s, vnet |-> n, mac |-> m]}
  /\ spent' = spent \cup {n}

(* An allocation that finds no address costs the name it had taken.        *)
Skip(n) ==
  /\ spent' = spent \cup {n}
  /\ UNCHANGED holds

Withdraw(s) ==
  /\ holds' = {h \in holds : h.session # s}
  /\ UNCHANGED spent

PoolNext ==
  \/ \E s \in Sessions, n \in Vnets, m \in MACs : Grant(s, n, m)
  \/ \E n \in Vnets : Skip(n)
  \/ \E s \in Sessions : Withdraw(s)

PoolSpec == PoolInit /\ [][PoolNext]_pool

-----------------------------------------------------------------------------
(* Two interfaces that share a session, a name or an address are the same. *)
NoSharing ==
  \A h, k \in holds :
    h.session = k.session \/ h.vnet = k.vnet \/ h.mac = k.mac => h = k
=============================================================================
