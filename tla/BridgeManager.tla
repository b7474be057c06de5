--------------------------- MODULE BridgeManager ---------------------------
(***************************************************************************)
(* Per-session network interfaces (src/src/agentvm/net/bridge.py).  The    *)
(* class is documented as single-threaded, so one call runs at a time; it  *)
(* is cut into its steps because it can raise half way, after the vnet     *)
(* counter moved and before anything was recorded.                         *)
(*                                                                         *)
(* vnet<n> is modelled by n.  A MAC factory yields an address in some      *)
(* spelling; LowerCase is str.lower on spellings.                          *)
(***************************************************************************)
EXTENDS Naturals

CONSTANTS
  Sessions,     \* session ids; a blank one is refused before anything else
  Spellings,    \* what the MAC factory may yield
  LowerCase,    \* Spellings -> Spellings, idempotent
  NoSession,    \* the key of no call
  MaxRetries,   \* MAX_MAC_ALLOCATION_RETRIES
  MaxVnets      \* bound: vnet names given out

ASSUME BridgeAssumption ==
  /\ LowerCase \in [Spellings -> Spellings]
  /\ \A x \in Spellings : LowerCase[LowerCase[x]] = LowerCase[x]
  /\ NoSession \notin Sessions
  /\ MaxRetries \in Nat
  /\ MaxVnets \in Nat

MACs == {LowerCase[x] : x \in Spellings}

VARIABLES
  interfaces,     \* _session_interfaces, as a set of [session, vnet, mac]
  allocatedVnets, \* _allocated_vnets
  allocatedMacs,  \* _allocated_macs
  nextVnet,       \* _next_vnet_index
  call            \* the allocation under way: its session, name and draws

bridgeVars == <<interfaces, allocatedVnets, allocatedMacs, nextVnet, call>>

Idle == [session |-> NoSession, vnet |-> 0, draws |-> 0]
Interface == [session : Sessions, vnet : 0 .. MaxVnets - 1, mac : MACs]

HasInterface(s) == \E i \in interfaces : i.session = s

-----------------------------------------------------------------------------
BridgeInit ==
  /\ interfaces = {} /\ allocatedVnets = {} /\ allocatedMacs = {}
  /\ nextVnet = 0
  /\ call = Idle

(* Mutant of Allocate: the name is derived from how many are in use.       *)
Allocate_NameByCount(s) ==
  /\ call = Idle
  /\ ~HasInterface(s)
  /\ \E n \in 0 .. MaxVnets - 1 :
       /\ n \notin allocatedVnets
       /\ \A m \in 0 .. n - 1 : m \in allocatedVnets
       /\ call' = [session |-> s, vnet |-> n, draws |-> 0]
       /\ nextVnet' = n + 1
  /\ UNCHANGED <<interfaces, allocatedVnets, allocatedMacs>>

(* allocate_vm_interface, for a session with no interface yet: the name is *)
(* taken first.                                                            *)
Allocate(s) ==
  /\ call = Idle
  /\ ~HasInterface(s)
  /\ nextVnet < MaxVnets
  /\ call' = [session |-> s, vnet |-> nextVnet, draws |-> 0]
  /\ nextVnet' = nextVnet + 1
  /\ UNCHANGED <<interfaces, allocatedVnets, allocatedMacs>>

Drawing == call # Idle /\ call.draws < MaxRetries

(* Mutant of DrawTaken: the retries are not counted.                       *)
DrawTaken_Uncounted(x) ==
  /\ Drawing
  /\ LowerCase[x] \in allocatedMacs
  /\ UNCHANGED bridgeVars

(* _allocate_unique_mac: the candidate is in use; draw again.              *)
DrawTaken(x) ==
  /\ Drawing
  /\ LowerCase[x] \in allocatedMacs
  /\ call' = [call EXCEPT !.draws = @ + 1]
  /\ UNCHANGED <<interfaces, allocatedVnets, allocatedMacs, nextVnet>>

Record(mac) ==
  /\ interfaces' = interfaces
       \cup {[session |-> call.session, vnet |-> call.vnet, mac |-> mac]}
  /\ allocatedVnets' = allocatedVnets \cup {call.vnet}
  /\ allocatedMacs' = allocatedMacs \cup {mac}
  /\ call' = Idle
  /\ UNCHANGED nextVnet

(* Mutant of DrawFree: the spelling is compared as the factory gave it.    *)
DrawFree_AsSpelled(x) ==
  /\ Drawing
  /\ x \notin allocatedMacs
  /\ Record(x)

(* The candidate is free: it is kept, and the interface recorded.          *)
DrawFree(x) ==
  /\ Drawing
  /\ LowerCase[x] \notin allocatedMacs
  /\ Record(LowerCase[x])

Fail ==
  /\ call' = Idle
  /\ UNCHANGED <<interfaces, allocatedVnets, allocatedMacs, nextVnet>>

(* RuntimeError: the factory stops yielding, or every draw was in use.     *)
FactoryExhausted == Drawing /\ Fail
RetriesExhausted == call # Idle /\ call.draws = MaxRetries /\ Fail

(* Mutant of Deallocate: the entry of the mapping is read, not popped.     *)
Deallocate_KeepsEntry(s) ==
  /\ call = Idle
  /\ \E i \in interfaces :
       /\ i.session = s
       /\ allocatedVnets' = allocatedVnets \ {i.vnet}
       /\ allocatedMacs' = allocatedMacs \ {i.mac}
  /\ UNCHANGED <<interfaces, nextVnet, call>>

Deallocate(s) ==
  /\ call = Idle
  /\ \E i \in interfaces :
       /\ i.session = s
       /\ interfaces' = interfaces \ {i}
       /\ allocatedVnets' = allocatedVnets \ {i.vnet}
       /\ allocatedMacs' = allocatedMacs \ {i.mac}
  /\ UNCHANGED <<nextVnet, call>>

(* An interface the session has is returned again; one it has not is not   *)
(* missed.                                                                 *)
AllocateAgain(s) == call = Idle /\ HasInterface(s) /\ UNCHANGED bridgeVars
DeallocateNone(s) == call = Idle /\ ~HasInterface(s) /\ UNCHANGED bridgeVars

LoopRuns == (\E x \in Spellings : DrawTaken(x) \/ DrawFree(x)) \/ RetriesExhausted

BridgeNext ==
  \/ LoopRuns
  \/ FactoryExhausted
  \/ \E s \in Sessions : \/ Allocate(s)   \/ AllocateAgain(s)
                         \/ Deallocate(s) \/ DeallocateNone(s)

BridgeSpec == BridgeInit /\ [][BridgeNext]_bridgeVars

(* The loop, once entered, goes on: nothing in it waits.  Which address    *)
(* the factory yields, and whether it ever stops, is not up to the code.   *)
FairBridgeSpec == BridgeSpec /\ WF_bridgeVars(LoopRuns)

-----------------------------------------------------------------------------
(* Every variable has its type.                                            *)
BridgeTypeOK ==
  /\ interfaces \subseteq Interface
  /\ allocatedVnets \subseteq 0 .. MaxVnets - 1
  /\ allocatedMacs \subseteq MACs
  /\ nextVnet \in 0 .. MaxVnets
  /\ call \in {Idle} \cup [session : Sessions, vnet : 0 .. MaxVnets - 1,
                           draws : 0 .. MaxRetries]

(* The two sets that answer "is this in use" say what the mapping says,    *)
(* after allocations that raised half way too, so that an address is       *)
(* neither handed out while held nor lost when given back.                 *)
SetsMatchMapping ==
  /\ allocatedVnets = {i.vnet : i \in interfaces}
  /\ allocatedMacs = {i.mac : i \in interfaces}

(* No two sessions hold the same vnet name, or the same hardware address   *)
(* in whatever spelling (the factory's spelling varies; the search for an  *)
(* address lowers it before it compares).                                  *)
NoTwoSessionsShare ==
  \A i, j \in interfaces :
    \/ i.session = j.session
    \/ i.vnet = j.vnet
    \/ LowerCase[i.mac] = LowerCase[j.mac]
    => i = j

(* What uniqueness rests on: names come from below the counter, the one    *)
(* under way is nobody's, and its session holds no interface.              *)
NamesAreCounted ==
  /\ \A i \in interfaces : i.vnet < nextVnet
  /\ call # Idle => /\ call.vnet < nextVnet
                    /\ call.vnet \notin allocatedVnets
                    /\ ~HasInterface(call.session)

(* A name is spent when its allocation ends, recorded or not.              *)
Spent == (0 .. nextVnet - 1) \ (IF call = Idle THEN {} ELSE {call.vnet})

Pool == INSTANCE InterfacePool
  WITH Vnets <- 0 .. MaxVnets - 1, holds <- interfaces, spent <- Spent

(* The manager is the pool of InterfacePool: what a session holds does not *)
(* change until it gives it back, nobody else holds any of it, and no name *)
(* is given out twice (bridge.py:65 "Allocate a unique vnet name and MAC   *)
(* address.").                                                             *)
ImplementsPool == Pool!PoolSpec

(* An allocation under way ends, with an interface or an error.            *)
AllocationEnds == (call # Idle) ~> (call = Idle)
=============================================================================
