-------------------------- MODULE CapacityManager --------------------------
(***************************************************************************)
(* The capacity ledger (src/src/agentvm/host/capacity.py): an in-memory    *)
(* dict from VM id to what was allocated to it, compared with what the     *)
(* host has.  CPU and memory are fixed; free disk space is read from the   *)
(* file system at each call, and so shrinks as the images of the VMs       *)
(* already in the ledger are written.                                      *)
(*                                                                         *)
(* allocate() does not look at the capacity, so the ledger may be          *)
(* overbooked: it is check_spec's caller who looks.  No method suspends,   *)
(* so a caller that awaits nothing between the two makes one step of them  *)
(* (Admit, which HostLedger uses).                                         *)
(***************************************************************************)
EXTENDS Integers, FiniteSets, Totals

CONSTANTS
  VMs,             \* VM ids
  Needs,           \* resource requests: [cpu, memory, disk : Nat]
  TotalCPU, ReservedCPU,         \* cores, and the reserved among them
  TotalMemory, ReservedMemory,   \* MB
  TotalDisk,                     \* GB the storage directory's file system has
  MaxVMs                         \* config.host.max_vms

ASSUME CapacityAssumption ==
  /\ Needs \subseteq [cpu : Nat, memory : Nat, disk : Nat]
  /\ {TotalCPU, ReservedCPU, TotalMemory, ReservedMemory, TotalDisk, MaxVMs}
       \subseteq Nat

VARIABLES
  ledger,     \* self._allocations, as a set of [vm, need]
  images      \* environment: the disk images written full, a set of [vm, need]

capacityVars == <<ledger, images>>

Entry == [vm : VMs, need : Needs]
Holders == {e.vm : e \in ledger}

CPUOf(entries) == Total([e \in entries |-> e.need.cpu])
MemoryOf(entries) == Total([e \in entries |-> e.need.memory])
DiskOf(entries) == Total([e \in entries |-> e.need.disk])

AtLeastZero(n) == IF n > 0 THEN n ELSE 0

(* os.statvfs: what the file system has left, f_bavail.  One that does not *)
(* answer counts as full: check_spec then refuses whatever asks for disk.  *)
FreeDisk == TotalDisk - DiskOf(images)

-----------------------------------------------------------------------------
(* get_capacity.  Disk space already written is subtracted twice, once by  *)
(* the file system and once by the ledger.                                 *)
AvailableCPU == AtLeastZero(TotalCPU - ReservedCPU - CPUOf(ledger))
AvailableMemory == AtLeastZero(TotalMemory - ReservedMemory - MemoryOf(ledger))
(* Mutant of AvailableDisk: the file system's figure alone.                *)
AvailableDisk_FreeOnly == AtLeastZero(FreeDisk)

AvailableDisk == AtLeastZero(FreeDisk - DiskOf(ledger))
ActiveVMCount == Cardinality(ledger)

(* check_spec: the names of what falls short; sufficient when there is     *)
(* none.                                                                   *)
Shortfalls(n) ==
  {x \in {"vm_count", "cpu", "memory", "disk"} :
     \/ x = "vm_count" /\ ActiveVMCount >= MaxVMs
     \/ x = "cpu" /\ n.cpu > AvailableCPU
     \/ x = "memory" /\ n.memory > AvailableMemory
     \/ x = "disk" /\ n.disk > AvailableDisk}
(* Mutant of CheckSpec: a host that is short of one thing only passes.     *)
CheckSpec_OneShortfall(n) == Cardinality(Shortfalls(n)) < 2

CheckSpec(n) == Shortfalls(n) = {}

-----------------------------------------------------------------------------
CapacityInit == ledger = {} /\ images = {}

(* Mutant of Allocate: an allocation the VM already holds goes unnoticed.  *)
Allocate_Twice(v, n) ==
  /\ ledger' = ledger \cup {[vm |-> v, need |-> n]}
  /\ UNCHANGED images

(* allocate: ValueError when the VM already holds an allocation.           *)
Allocate(v, n) ==
  /\ ledger' = IF v \in Holders THEN ledger
                                ELSE ledger \cup {[vm |-> v, need |-> n]}
  /\ UNCHANGED images

(* Mutant of Release: the entry stays.                                     *)
Release_KeepsEntry(v) == UNCHANGED <<ledger, images>>

(* release: an unknown VM is passed over.                                  *)
Release(v) ==
  /\ ledger' = {e \in ledger : e.vm # v}
  /\ UNCHANGED images

(* check_spec, then allocate if it is sufficient, with no await between.   *)
Admit(v, n) == CheckSpec(n) /\ Allocate(v, n)

(* Environment: a guest writes its disk full; an image is deleted.  The    *)
(* ledger knows of neither.                                                *)
FillImage(e) ==
  /\ e \in ledger \ images
  /\ e.need.disk <= FreeDisk
  /\ images' = images \cup {e}
  /\ UNCHANGED ledger

DeleteImage(e) ==
  /\ e \in images
  /\ images' = images \ {e}
  /\ UNCHANGED ledger

ImageStep == \E e \in Entry : FillImage(e) \/ DeleteImage(e)

CapacityNext ==
  \/ \E v \in VMs :
       \/ \E n \in Needs : Allocate(v, n)
       \/ Release(v)
  \/ ImageStep

CapacitySpec == CapacityInit /\ [][CapacityNext]_capacityVars

-----------------------------------------------------------------------------
(* The ledger is well formed, with at most one entry per VM.               *)
CapacityTypeOK ==
  /\ ledger \subseteq Entry
  /\ images \subseteq Entry
  /\ Cardinality(ledger) = Cardinality(Holders)

(* What a set of entries may add up to on this host, besides the reserve.  *)
HostHolds(entries) ==
  /\ Cardinality(entries) <= MaxVMs
  /\ CPUOf(entries) <= AtLeastZero(TotalCPU - ReservedCPU)
  /\ MemoryOf(entries) <= AtLeastZero(TotalMemory - ReservedMemory)
  /\ DiskOf(entries) <= TotalDisk

(* What fits: the ledger with the request added stays within what the host *)
(* has, free disk space as the file system has it now.                     *)
Fits(n) ==
  /\ ActiveVMCount + 1 <= MaxVMs
  /\ CPUOf(ledger) + n.cpu <= TotalCPU - ReservedCPU
  /\ MemoryOf(ledger) + n.memory <= TotalMemory - ReservedMemory
  /\ DiskOf(ledger) + n.disk <= FreeDisk

(* check_spec refuses every request that does not fit, and only those, on  *)
(* any ledger, one that was overbooked by unchecked allocations included.  *)
(* A request for none of a resource is left out: what is available is      *)
(* clamped at 0, so it passes on an overbooked host as well.               *)
CheckSpecIsExact ==
  \A n \in Needs :
    n.cpu > 0 /\ n.memory > 0 /\ n.disk > 0 => (CheckSpec(n) <=> Fits(n))
=============================================================================
