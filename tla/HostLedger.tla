---------------------------- MODULE HostLedger ----------------------------
(***************************************************************************)
(* The store, the capacity ledger, the VM manager and the daemon together: *)
(* what survives a restart is the vms table, and the ledger is rebuilt     *)
(* from it (run_daemon, reconcile_allocations).                            *)
(*                                                                         *)
(* VMManager.create_vm writes the row and touches no ledger; its caller    *)
(* does.  The caller is the environment of this module, and an assumption. *)
(* It creates as HLD.md:301-304 describes: check_spec and allocate, then   *)
(* the row, giving the allocation back when the row is refused.  For the   *)
(* VMs of Unadmitted it relies on create_vm alone, which admits nothing.   *)
(* It destroys with destroy_vm, then release; HLD.md:323-324 has those two *)
(* the other way round, and then a row that cannot be deleted would leave  *)
(* an active VM that the ledger does not know of.                          *)
(***************************************************************************)
EXTENDS MetadataStore

CONSTANTS
  NeedOf,          \* the resources a VM's spec asks for
  Unreadable,      \* VMs whose row holds a number _to_int refuses
  Unadmitted,      \* VMs created with no check and no allocation
  TotalCPU, ReservedCPU, TotalMemory, ReservedMemory, TotalDisk, MaxVMs

ASSUME HostAssumption ==
  /\ NeedOf \in [VMs -> [cpu : Nat, memory : Nat, disk : Nat]]
  /\ Unreadable \subseteq VMs
  /\ Unadmitted \subseteq VMs
  /\ "creating" \in Statuses
  /\ {TotalCPU, ReservedCPU, TotalMemory, ReservedMemory, TotalDisk, MaxVMs}
       \subseteq Nat

VARIABLES
  ledger, images,    \* CapacityManager
  daemon,            \* "down", "starting" or "serving"
  caller             \* what the caller is in the middle of

hostVars == <<vars, ledger, images, daemon, caller>>

Needs == {NeedOf[v] : v \in VMs}

Capacity == INSTANCE CapacityManager

NoCaller == [does |-> "nothing", vm |-> None]
Callers == {NoCaller} \cup [does : {"create", "destroy"}, vm : VMs]

EntryOf(v) == [vm |-> v, need |-> NeedOf[v]]
Free == daemon = "serving" /\ caller = NoCaller /\ call = Idle

-----------------------------------------------------------------------------
HostInit ==
  /\ Init
  /\ Capacity!CapacityInit
  /\ daemon = "down"
  /\ caller = NoCaller

(* run_daemon: the store is opened, and a fresh manager has an empty       *)
(* ledger.                                                                 *)
StartDaemon ==
  /\ daemon = "down"
  /\ daemon' = "starting"
  /\ Initialize
  /\ ledger' = {}
  /\ UNCHANGED <<images, caller>>

(* Mutant of Reconciled: the rows themselves.                              *)
Reconciled_Rows == {r \in ActiveVMs : r.id \notin Unreadable}

(* Mutant of Reconciled: only the VMs that run are fetched.                *)
Reconciled_RunningOnly ==
  {EntryOf(r.id) : r \in {q \in vms : q.status = "running" /\ q.id \notin Unreadable}}

(* reconcile_allocations: one entry per active row whose numbers can be    *)
(* read; a row that cannot is skipped.                                     *)
Reconciled == {EntryOf(r.id) : r \in {q \in ActiveVMs : q.id \notin Unreadable}}

Reconcile ==
  /\ daemon = "starting"
  /\ daemon' = "serving"
  /\ ledger' = Reconciled
  /\ UNCHANGED <<vars, images, caller>>

(* The process ends, by a crash at any point or after a graceful shutdown: *)
(* the ledger and the caller are gone, the committed rows stay.            *)
StopDaemon ==
  /\ daemon # "down"
  /\ daemon' = "down"
  /\ Crash
  /\ ledger' = {}
  /\ caller' = NoCaller
  /\ UNCHANGED images

-----------------------------------------------------------------------------
(* check_host_capacity and allocate, with no await between them.           *)
BeginCreate(v) ==
  /\ v \notin Unadmitted
  /\ Free
  /\ v \notin Capacity!Holders
  /\ Capacity!Admit(v, NeedOf[v])
  /\ caller' = [does |-> "create", vm |-> v]
  /\ UNCHANGED <<vars, daemon>>

(* VMManager.create_vm: the row, with status "creating".                   *)
VMManagerCreate(v, s) == CreateVM(v, s, "creating")

EndCreate(s) ==
  /\ caller.does = "create"
  /\ VMManagerCreate(caller.vm, s)
  /\ IF HasVM(caller.vm) THEN Capacity!Release(caller.vm)
                         ELSE UNCHANGED <<ledger, images>>
  /\ caller' = NoCaller
  /\ UNCHANGED daemon

(* The INSERT raises, or something the caller does before it: the caller   *)
(* takes its allocation back.                                              *)
FailCreate ==
  /\ caller.does = "create"
  /\ Capacity!Release(caller.vm)
  /\ caller' = NoCaller
  /\ UNCHANGED <<vars, daemon>>

CreateUnadmitted(v, s) ==
  /\ v \in Unadmitted
  /\ Free
  /\ VMManagerCreate(v, s)
  /\ UNCHANGED <<ledger, images, daemon, caller>>

(* VMManager.destroy_vm: delete_vm, commit by commit; release only when it *)
(* has returned.                                                           *)
BeginDestroy(v) ==
  /\ Free
  /\ DeleteVM(v)
  /\ caller' = [does |-> "destroy", vm |-> v]
  /\ UNCHANGED <<ledger, images, daemon>>

DestroyCommit ==
  /\ caller.does = "destroy"
  /\ DeleteAllocationOfVM \/ DeleteVMRow
  /\ UNCHANGED <<ledger, images, daemon, caller>>

EndDestroy ==
  /\ caller.does = "destroy" /\ call = Idle
  /\ Capacity!Release(caller.vm)
  /\ caller' = NoCaller
  /\ UNCHANGED <<vars, daemon>>

(* A commit of delete_vm raises, through destroy_vm, past the release.     *)
FailDestroy ==
  /\ caller.does = "destroy"
  /\ StatementFails
  /\ caller' = NoCaller
  /\ UNCHANGED <<ledger, images, daemon>>

(* update_vm records what became of the domain.  A VM that was admitted is *)
(* not made active again unless it holds an allocation.                    *)
RecordStatus(v, s, status) ==
  /\ Free
  /\ status \in ActiveStatuses => v \in Unadmitted \cup Capacity!Holders
  /\ HasVM(v)
  /\ UpdateVM(v, s, status)
  /\ UNCHANGED <<ledger, images, daemon, caller>>

Images == Capacity!ImageStep /\ UNCHANGED <<vars, daemon, caller>>

HostNext ==
  \/ StartDaemon \/ Reconcile \/ StopDaemon
  \/ FailCreate \/ DestroyCommit \/ EndDestroy \/ FailDestroy \/ Images
  \/ \E v \in VMs : BeginCreate(v) \/ BeginDestroy(v)
  \/ \E s \in Sessions :
       \/ EndCreate(s)
       \/ \E v \in VMs : \/ CreateUnadmitted(v, s)
                         \/ \E status \in Statuses : RecordStatus(v, s, status)

HostSpec == HostInit /\ [][HostNext]_hostVars

-----------------------------------------------------------------------------
(* Every variable has its type, and the caller is in the middle of         *)
(* something only while the daemon serves; it is the only one that has a   *)
(* call to the store under way.                                            *)
HostTypeOK ==
  /\ TypeOK
  /\ ledger \subseteq [vm : VMs, need : Needs]
  /\ images \subseteq [vm : VMs, need : Needs]
  /\ daemon \in {"down", "starting", "serving"}
  /\ caller \in Callers
  /\ caller # NoCaller => daemon = "serving"
  /\ call # Idle => caller.does = "destroy" /\ caller.vm = call.key

(* What the active VMs of vs need, as far as their rows can be read.       *)
ActiveNeeds(vs) ==
  {EntryOf(v) : v \in {r.id : r \in ActiveVMs} \cap (vs \ Unreadable)}

(* Serving, no active VM that was admitted and whose row can be read is    *)
(* missing from the ledger: not after a crash between the commits of a     *)
(* create or a destroy, nor after one of them failed                       *)
(* (reconcile_allocations; HOST-MANAGER-LLD:195 "Ensures capacity tracking *)
(* is correct after a daemon restart").                                    *)
ActiveVMsAreAccounted ==
  daemon = "serving" => ActiveNeeds(VMs \ Unadmitted) \subseteq ledger

(* Serving and between two calls, the ledger holds nothing for a VM        *)
(* without a row: nothing is leaked by a create or destroy that failed.    *)
LedgerLeaksNothing == Free => \A v \in Capacity!Holders : HasVM(v)

(* The active VMs that were admitted never add up to more than the host    *)
(* has, down and after a restart as well, in number, cores, memory or      *)
(* disk, whatever the others take and however the free space of the file   *)
(* system moves between the checks.                                        *)
AdmittedVMsFitHost == Capacity!HostHolds(ActiveNeeds(VMs \ Unadmitted))
=============================================================================
