---------------------------- MODULE CorePinning ----------------------------
(***************************************************************************)
(* The capacity ledger and the CPU map side by side, under a caller that   *)
(* uses both: check_spec and allocate count cores, allocate_cores names    *)
(* them.  Neither knows of the other.  The CPU map does not know what it   *)
(* gave (release_cores does nothing), so the caller keeps the cpusets of   *)
(* its VMs and passes them as already_allocated.  No caller of             *)
(* allocate_cores is in src/ yet; it is the environment of this module.    *)
(***************************************************************************)
EXTENDS CapacityManager, CpuMap

CONSTANTS
  Hosts,      \* what sysfs may show
  Reserved    \* resources.reserved_cores, as a set

ASSUME PinningAssumption ==
  /\ \A h \in Hosts : IsHost(h) /\ Cardinality(h.online) = TotalCPU
  /\ IsFiniteSet(Reserved) /\ ReservedCPU = Cardinality(Reserved)

VARIABLES
  host,    \* fixed from the start
  pins     \* the caller's: a set of [vm, cpuset, node]

pinVars == <<ledger, images, host, pins>>

CoresOf(p) == ParseCpuList(p.cpuset)
Taken == UNION {CoresOf(p) : p \in pins}
Pin(n) == AllocateCores(host, n, Reserved, Taken)

PinningInit ==
  /\ CapacityInit
  /\ host \in Hosts
  /\ pins = {}

(* check_spec and allocate, then allocate_cores; the allocation is         *)
(* released when there are no cores to pin.                                *)
AdmitPinned(v, n) ==
  /\ v \notin Holders /\ CheckSpec(n)
  /\ IF Pin(n.cpu) = Refused
       THEN UNCHANGED <<ledger, images, pins>>
       ELSE /\ Allocate(v, n)
            /\ pins' = pins \cup {[vm |-> v, cpuset |-> Pin(n.cpu).cpuset,
                                   node |-> Pin(n.cpu).node]}
  /\ UNCHANGED host

(* allocate alone: reconcile_allocations, or a caller that pins nothing.   *)
AllocateUnpinned(v, n) == Allocate(v, n) /\ UNCHANGED <<host, pins>>

(* release and release_cores; it is the caller who forgets the cpuset.     *)
ReleasePinned(v) ==
  /\ Release(v)
  /\ pins' = {p \in pins : p.vm # v}
  /\ UNCHANGED host

PinningNext ==
  \/ \E v \in VMs :
       \/ \E n \in Needs : AdmitPinned(v, n) \/ AllocateUnpinned(v, n)
       \/ ReleasePinned(v)
  \/ ImageStep /\ UNCHANGED <<host, pins>>

PinningSpec == PinningInit /\ [][PinningNext]_pinVars

-----------------------------------------------------------------------------
AllOnline == host.online = 0..(TotalCPU - 1) /\ host.cpus = host.online

(* The threads of one core, as the lists that name it say.                 *)
SiblingsOf(c) == UNION {s \in {ParseCpuList(host.siblings[d]) : d \in host.cpus} : c \in s}

(* No core is pinned twice, and none that is reserved or, where cores have *)
(* two threads, shares its core with a reserved one (HM-FR-06, HM-NFR-05): *)
(* what was given, written as a cpuset and read again, is blocked exactly. *)
PinsAreExclusive ==
  /\ \A p, q \in pins : p # q => CoresOf(p) \cap CoresOf(q) = {}
  /\ Taken \cap Reserved = {}
  /\ \A c \in Taken, r \in Reserved :
       Cardinality(SiblingsOf(r)) = 2 => c \notin SiblingsOf(r)

(* A VM gets as many cores as it was admitted with, in cores that exist    *)
(* when none is offline.                                                   *)
PinsAreWhatWasAdmitted ==
  \A p \in pins : \E e \in ledger :
    /\ e.vm = p.vm
    /\ Cardinality(CoresOf(p)) = e.need.cpu
    /\ AllOnline => CoresOf(p) \subseteq host.online

(* check_spec's arithmetic is right about cores: what it admits,           *)
(* allocate_cores can pin, whatever was given and given back before.  It   *)
(* holds where no CPU is offline and the reserve takes both threads of its *)
(* cores: check_spec subtracts the reserved cores (capacity.py:100), and   *)
(* allocate_cores keeps away from their siblings as well.                  *)
ReserveIsWhole == \A r \in Reserved : SiblingsOf(r) \subseteq Reserved
AdmittedVMsGetCores ==
  AllOnline /\ ReserveIsWhole =>
    \A n \in Needs : n.cpu > 0 /\ CheckSpec(n) => Pin(n.cpu) # Refused

(* A VM's cores are on the node it is told, unless no one node had as many *)
(* cores that were nobody's (Prefer cores from the same NUMA node,         *)
(* HOST-MANAGER-LLD:227).                                                  *)
FreeOn(id) ==
  {c \in ParseCpuList(host.nodes[id]) \ (Taken \cup Reserved) : SiblingsOf(c) \cap Reserved = {}}
OneNodeWherePossible ==
  [][\A p \in pins' \ pins :
       \/ DOMAIN host.nodes = {}
       \/ /\ p.node \in DOMAIN host.nodes
          /\ CoresOf(p) \subseteq ParseCpuList(host.nodes[p.node])
       \/ \A id \in DOMAIN host.nodes : Cardinality(FreeOn(id)) < Cardinality(CoresOf(p))]_pinVars
=============================================================================
