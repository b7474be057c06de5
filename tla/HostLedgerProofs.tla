-------------------------- MODULE HostLedgerProofs --------------------------
(***************************************************************************)
(* Proofs about HostLedger, for any sets of sessions and VMs, any needs    *)
(* and any capacity: the daemon's steps are steps of the store, and the    *)
(* ledger keeps up with the rows over crashes and failed calls.            *)
(***************************************************************************)
EXTENDS HostLedger, MetadataStoreProofs, OperatorProofs

Active(v) == \E r \in vms : r.id = v /\ r.status \in ActiveStatuses
Entries == {EntryOf(v) : v \in VMs}

CallerOK ==
  /\ daemon \in {"down", "starting", "serving"}
  /\ caller \in Callers
  /\ caller # NoCaller => daemon = "serving"
  /\ call # Idle => caller.does = "destroy" /\ caller.vm = call.key
  /\ caller.does = "destroy" /\ call = Idle => ~HasVM(caller.vm)

LedgerOK ==
  /\ ledger \subseteq Entries
  /\ images \subseteq Entries

(* While it is created, a VM that was admitted is in the ledger and not    *)
(* active: one that is active would have been in the ledger before.        *)
Accounted ==
  /\ daemon = "serving" =>
       \A v \in VMs \ (Unadmitted \cup Unreadable) : Active(v) => EntryOf(v) \in ledger
  /\ caller.does = "create" =>
       /\ EntryOf(caller.vm) \in ledger
       /\ caller.vm \notin Unreadable => ~Active(caller.vm)

(* An entry without a row is the caller's, before the INSERT of a create   *)
(* or after the last DELETE of a destroy.                                  *)
Leakless ==
  daemon = "serving" =>
    \A e \in ledger :
      \/ HasVM(e.vm)
      \/ caller # NoCaller /\ caller.vm = e.vm /\ call = Idle

HostInv == TypeOK /\ CallerOK /\ LedgerOK /\ Accounted /\ Leakless

-----------------------------------------------------------------------------
(* A caller in the middle of something has its VM.                         *)
LEMMA CallerFacts ==
  ASSUME caller \in Callers
  PROVE  /\ caller = NoCaller <=> caller.does = "nothing"
         /\ caller # NoCaller => caller.does \in {"create", "destroy"} /\ caller.vm \in VMs
  BY DEF Callers, NoCaller

(* The entries are told apart by their VMs.                                *)
LEMMA EntryFacts ==
  /\ \A v : EntryOf(v).vm = v
  /\ \A e \in Entries : e.vm \in VMs /\ e = EntryOf(e.vm)
  BY DEF Entries, EntryOf

(* What the daemon and its caller do to the store is what it offers.       *)
LEMMA HostNextIsStoreNext ==
  ASSUME CallerOK, HostNext
  PROVE  [Next]_vars
<1> USE DEF CallerOK
<1>1. CASE StartDaemon \/ StopDaemon \/ FailDestroy \/ DestroyCommit
  BY <1>1 DEF StartDaemon, StopDaemon, FailDestroy, DestroyCommit, Next, Lifecycle, DeleteVMCall
<1>2. CASE Reconcile \/ FailCreate \/ EndDestroy \/ Images
  BY <1>2 DEF Reconcile, FailCreate, EndDestroy, Images
<1>3. ASSUME NEW v \in VMs, BeginCreate(v) \/ BeginDestroy(v)
      PROVE  [Next]_vars
  BY <1>3 DEF BeginCreate, BeginDestroy, Next, DeleteVMCall
<1>4. ASSUME NEW s \in Sessions, EndCreate(s)
      PROVE  [Next]_vars
  <2>1. caller.vm \in VMs
    BY <1>4, CallerFacts DEF EndCreate, NoCaller
  <2> QED
    BY <1>4, <2>1, HostAssumption DEF EndCreate, VMManagerCreate, Next, OneCommitCall
<1>5. ASSUME NEW s \in Sessions, NEW v \in VMs, CreateUnadmitted(v, s)
      PROVE  [Next]_vars
  BY <1>5, HostAssumption DEF CreateUnadmitted, VMManagerCreate, Next, OneCommitCall
<1>6. ASSUME NEW s \in Sessions, NEW v \in VMs, NEW status \in Statuses, RecordStatus(v, s, status)
      PROVE  [Next]_vars
  BY <1>6 DEF RecordStatus, Next, OneCommitCall
<1> QED
  BY <1>1, <1>2, <1>3, <1>4, <1>5, <1>6 DEF HostNext
-----------------------------------------------------------------------------
(* The parts that are not the store's, step by step. *)

HostPart == CallerOK /\ LedgerOK /\ Accounted /\ Leakless

(* A start begins with an empty ledger and a stop ends with one: what the  *)
(* rows say counts again when the daemon serves.                           *)
LEMMA StartAndStopKeepHost ==
  ASSUME TypeOK, HostPart, StartDaemon \/ StopDaemon
  PROVE  HostPart'
<1>1. /\ call' = Idle /\ caller' = NoCaller /\ ledger' = {} /\ images' = images
      /\ daemon' \in {"starting", "down"}
  BY DEF StartDaemon, StopDaemon, Initialize, Crash, HostPart, CallerOK
<1>2. NoCaller \in Callers /\ NoCaller.does = "nothing"
  BY DEF NoCaller, Callers
<1> QED
  BY <1>1, <1>2 DEF HostPart, CallerOK, LedgerOK, Accounted, Leakless, Entries, EntryOf

(* What is rebuilt has an entry for each active row that can be read, and  *)
(* no other.                                                               *)
LEMMA ReconcileKeepsHost == ASSUME TypeOK, HostPart, Reconcile PROVE HostPart'
<1>1. /\ ledger' = Reconciled /\ images' = images /\ vms' = vms /\ caller' = caller
      /\ call' = call /\ daemon' = "serving" /\ caller = NoCaller
  BY DEF Reconcile, vars, tables, HostPart, CallerOK
<1>2. NoCaller.does = "nothing"
  BY DEF NoCaller
<1>3. \A r \in vms : r.id \in VMs
  BY DEF TypeOK, VMRow
<1>4. LedgerOK'
  BY <1>1, <1>3 DEF HostPart, LedgerOK, Reconciled, ActiveVMs, Entries, EntryOf
<1>5. Accounted'
  BY <1>1, <1>2 DEF Accounted, Reconciled, ActiveVMs, Active, EntryOf
<1>6. Leakless'
  BY <1>1 DEF Leakless, Reconciled, ActiveVMs, HasVM, EntryOf
<1>7. CallerOK'
  BY <1>1, <1>2 DEF HostPart, CallerOK, HasVM
<1> QED
  BY <1>4, <1>5, <1>6, <1>7 DEF HostPart

(* An admission: the VM holds nothing, so, had it an active row that can   *)
(* be read, the ledger would have been short of it.                        *)
LEMMA BeginCreateKeepsHost ==
  ASSUME TypeOK, HostPart, NEW v \in VMs, BeginCreate(v)
  PROVE  HostPart'
<1>1. /\ v \notin Unadmitted /\ v \notin Capacity!Holders /\ daemon = "serving"
      /\ caller = NoCaller /\ call = Idle /\ vms' = vms /\ call' = call /\ daemon' = daemon
      /\ caller' = [does |-> "create", vm |-> v]
      /\ ledger' = ledger \cup {EntryOf(v)} /\ images' = images
  BY DEF BeginCreate, Free, vars, tables, Capacity!Admit, Capacity!Allocate, EntryOf
<1>2. caller' \in Callers /\ caller'.does = "create" /\ caller'.vm = v /\ caller' # NoCaller
  BY <1>1 DEF Callers, NoCaller
<1>3. EntryOf(v) \notin ledger
  BY <1>1 DEF Capacity!Holders, EntryOf
<1>4. v \notin Unreadable => ~Active(v)
  BY <1>1, <1>3 DEF HostPart, Accounted
<1>5. LedgerOK'
  BY <1>1 DEF HostPart, LedgerOK, Entries
<1>6. Accounted'
  BY <1>1, <1>2, <1>4 DEF HostPart, Accounted, Active, EntryOf
<1>7. Leakless'
  BY <1>1, <1>2, EntryFacts DEF HostPart, Leakless, HasVM
<1>8. CallerOK'
  BY <1>1, <1>2 DEF HostPart, CallerOK
<1> QED
  BY <1>5, <1>6, <1>7, <1>8 DEF HostPart

(* A create or a destroy that gives its entry back: the VM is not active.  *)
LEMMA ReleaseKeepsHost ==
  ASSUME TypeOK, HostPart, caller # NoCaller, caller.vm \in Unreadable \/ ~Active(caller.vm),
         Capacity!Release(caller.vm), caller' = NoCaller, daemon' = daemon, vms' = vms,
         call = Idle, call' = Idle
  PROVE  HostPart'
<1>1. NoCaller \in Callers /\ NoCaller.does = "nothing"
  BY DEF NoCaller, Callers
<1>2. ledger' = {e \in ledger : e.vm # caller.vm} /\ images' = images
  BY DEF Capacity!Release
<1>3. LedgerOK'
  BY <1>2 DEF HostPart, LedgerOK, Entries, EntryOf
<1>4. Accounted'
  BY <1>1, <1>2, EntryFacts DEF HostPart, Accounted, Active, EntryOf
<1>5. Leakless'
  BY <1>2 DEF HostPart, Leakless, HasVM
<1>6. CallerOK'
  BY <1>1 DEF HostPart, CallerOK
<1> QED
  BY <1>3, <1>4, <1>5, <1>6 DEF HostPart

(* A create that failed before its INSERT gives its entry back.            *)
LEMMA FailCreateKeepsHost == ASSUME TypeOK, HostPart, FailCreate PROVE HostPart'
<1>1. /\ caller # NoCaller /\ caller.does # "destroy" /\ vms' = vms /\ call' = call
      /\ daemon' = daemon /\ caller' = NoCaller
  BY DEF FailCreate, NoCaller, vars, tables
<1>2. call = Idle
  BY <1>1 DEF HostPart, CallerOK
<1> QED
  BY <1>1, <1>2, ReleaseKeepsHost DEF FailCreate, HostPart, Accounted

(* The row goes where there was none, or the entry is given back.          *)
LEMMA EndCreateKeepsHost ==
  ASSUME TypeOK, HostPart, NEW s \in Sessions, EndCreate(s)
  PROVE  HostPart'
<1>1. /\ caller # NoCaller /\ caller.does = "create" /\ call = Idle /\ call' = Idle
      /\ daemon' = daemon /\ caller' = NoCaller /\ caller.vm \in VMs
  BY CallerFacts
  DEF EndCreate, VMManagerCreate, CreateVM, Ready, Ends, NoCaller, HostPart, CallerOK
<1>2. CASE HasVM(caller.vm)
  <2>1. vms' = vms
    BY <1>2 DEF EndCreate, VMManagerCreate, CreateVM
  <2>2. Capacity!Release(caller.vm)
    BY <1>2 DEF EndCreate
  <2> QED
    BY <1>1, <2>1, <2>2, ReleaseKeepsHost DEF HostPart, Accounted
<1>3. CASE ~HasVM(caller.vm)
  <2>1. /\ vms' = vms \cup {[id |-> caller.vm, session |-> s, status |-> "creating"]}
        /\ ledger' = ledger /\ images' = images
    BY <1>3 DEF EndCreate, VMManagerCreate, CreateVM
  <2>2. NoCaller \in Callers /\ NoCaller.does = "nothing"
    BY DEF NoCaller, Callers
  <2>3. LedgerOK'
    BY <2>1 DEF HostPart, LedgerOK, Entries, EntryOf
  <2>4. \A v \in VMs : Active(v)' => Active(v) \/ v = caller.vm
    BY <2>1 DEF Active
  <2>5. Accounted'
    <3>1. ASSUME NEW v \in VMs \ (Unadmitted \cup Unreadable), daemon = "serving", Active(v)'
          PROVE  EntryOf(v) \in ledger
      BY <1>1, <2>4, <3>1 DEF HostPart, Accounted
    <3> QED
      BY <1>1, <2>1, <2>2, <3>1 DEF Accounted, EntryOf
  <2>6. Leakless'
    <3>1. \A v \in VMs : HasVM(v) => HasVM(v)'
      BY <2>1 DEF HasVM
    <3>2. ASSUME NEW v \in VMs, v = caller.vm PROVE HasVM(v)'
      <4>1. [id |-> v, session |-> s, status |-> "creating"] \in vms'
        BY <2>1, <3>2
      <4> QED
        BY <4>1 DEF HasVM
    <3> QED
      BY <1>1, <2>1, <3>1, <3>2, EntryFacts DEF HostPart, Leakless, LedgerOK
  <2>7. CallerOK'
    BY <1>1, <2>2 DEF HostPart, CallerOK
  <2> QED
    BY <2>3, <2>5, <2>6, <2>7 DEF HostPart
<1> QED
  BY <1>2, <1>3

(* A row written between two calls of the caller: that of a VM that was    *)
(* not admitted, or one whose VM holds an entry if it is active.           *)
LEMMA RowKeepsHost ==
  ASSUME TypeOK, HostPart, Free, NEW v \in VMs,
         UNCHANGED <<ledger, images, daemon, caller>>, call' = Idle,
         \A w \in VMs : HasVM(w) => HasVM(w)',
         \A w \in VMs \ {v} : Active(w)' => Active(w),
         Active(v)' => v \in Unadmitted \/ v \in Capacity!Holders
  PROVE  HostPart'
<1>1. caller = NoCaller /\ caller.does = "nothing" /\ call = Idle
  BY DEF Free, NoCaller
<1>2. LedgerOK'
  BY DEF HostPart, LedgerOK, Entries, EntryOf
<1>3. v \in Capacity!Holders => EntryOf(v) \in ledger
  BY EntryFacts DEF Capacity!Holders, HostPart, LedgerOK
<1>4. Accounted'
  BY <1>1, <1>3 DEF HostPart, Accounted, EntryOf
<1>5. Leakless'
  <2>1. \A e \in ledger : e.vm \in VMs
    BY EntryFacts DEF HostPart, LedgerOK
  <2> QED
    BY <1>1, <2>1 DEF HostPart, Leakless
<1>6. CallerOK'
  BY <1>1 DEF HostPart, CallerOK
<1> QED
  BY <1>2, <1>4, <1>5, <1>6 DEF HostPart
(* A row that no admission preceded: the ledger owes it nothing.           *)
LEMMA CreateUnadmittedKeepsHost ==
  ASSUME TypeOK, HostPart, NEW v \in VMs, NEW s \in Sessions, CreateUnadmitted(v, s)
  PROVE  HostPart'
<1> DEFINE row == [id |-> v, session |-> s, status |-> "creating"]
<1>1. /\ Free /\ v \in Unadmitted /\ UNCHANGED <<ledger, images, daemon, caller>>
      /\ call' = Idle /\ (vms' = vms \cup {row} \/ vms' = vms)
  BY DEF CreateUnadmitted, VMManagerCreate, CreateVM, Ready, Ends
<1>2. \A w \in VMs : HasVM(w) => HasVM(w)'
  BY <1>1 DEF HasVM
<1>3. \A w \in VMs \ {v} : Active(w)' => Active(w)
  BY <1>1 DEF Active
<1> QED
  BY <1>1, <1>2, <1>3, RowKeepsHost

(* A new status leaves every row in its place.                             *)
LEMMA RecordStatusKeepsHost ==
  ASSUME TypeOK, HostPart, NEW v \in VMs, NEW s \in Sessions, NEW status \in Statuses,
         RecordStatus(v, s, status)
  PROVE  HostPart'
<1>1. /\ Free /\ call' = Idle /\ UNCHANGED <<ledger, images, daemon, caller>>
      /\ vms' = {r \in vms : r.id # v} \cup {[id |-> v, session |-> s, status |-> status]}
      /\ status \in ActiveStatuses => v \in Unadmitted \cup Capacity!Holders
  BY DEF RecordStatus, UpdateVM, Ready, Ends, HasVM
<1>2. \A w \in VMs : HasVM(w) => HasVM(w)'
  <2>1. [id |-> v, session |-> s, status |-> status] \in vms'
    BY <1>1
  <2>2. HasVM(v)'
    BY <2>1 DEF HasVM
  <2>3. \A w \in VMs \ {v} : HasVM(w) => HasVM(w)'
    BY <1>1 DEF HasVM
  <2> QED
    BY <2>2, <2>3
<1>3. \A w \in VMs \ {v} : Active(w)' => Active(w)
  BY <1>1 DEF Active
<1>4. Active(v)' => v \in Unadmitted \/ v \in Capacity!Holders
  BY <1>1 DEF Active
<1> QED
  BY <1>1, <1>2, <1>3, <1>4, RowKeepsHost

(* The two commits of a destroy, and its end: when delete_vm has returned  *)
(* the row is gone.                                                        *)
LEMMA DestroyKeepsHost ==
  ASSUME TypeOK, HostPart,
         DestroyCommit \/ EndDestroy \/ FailDestroy \/ \E v \in VMs : BeginDestroy(v)
  PROVE  HostPart'
<1>1. NoCaller \in Callers /\ NoCaller.does = "nothing" /\ Idle.op = "none"
  BY DEF NoCaller, Callers, Idle
<1>2. CASE EndDestroy
  <2>1. /\ caller # NoCaller /\ call = Idle /\ call' = Idle /\ vms' = vms
        /\ daemon' = daemon /\ caller' = NoCaller /\ ~HasVM(caller.vm)
    BY <1>1, <1>2 DEF EndDestroy, vars, tables, HostPart, CallerOK
  <2>2. ~Active(caller.vm)
    BY <2>1 DEF Active, HasVM
  <2> QED
    BY <1>2, <2>1, <2>2, ReleaseKeepsHost DEF EndDestroy
<1>3. CASE FailDestroy
  <2>1. /\ call # Idle /\ call' = Idle /\ vms' = vms /\ caller' = NoCaller
        /\ UNCHANGED <<ledger, images, daemon>>
    BY <1>3 DEF FailDestroy, StatementFails, tables
  <2> QED
    BY <1>1, <2>1
    DEF HostPart, CallerOK, LedgerOK, Accounted, Leakless, Entries, EntryOf, Active, HasVM
<1>4. ASSUME NEW v \in VMs, BeginDestroy(v)
      PROVE  HostPart'
  <2>1. /\ caller = NoCaller /\ daemon = "serving" /\ call = Idle /\ vms' = vms
        /\ call' # Idle /\ call'.key = v /\ caller' = [does |-> "destroy", vm |-> v]
        /\ UNCHANGED <<ledger, images, daemon>>
    BY <1>1, <1>4 DEF BeginDestroy, Free, DeleteVM, tables
  <2>2. caller' \in Callers /\ caller'.does = "destroy" /\ caller'.vm = v
    BY <2>1 DEF Callers
  <2> QED
    BY <1>1, <2>1, <2>2
    DEF HostPart, CallerOK, LedgerOK, Accounted, Leakless, Entries, EntryOf, Active, HasVM
<1>5. CASE DestroyCommit
  <2>1. UNCHANGED <<ledger, images, daemon, caller>> /\ caller.does = "destroy"
        /\ call # Idle /\ caller.vm = call.key
    <3>1. call # Idle
      BY <1>1, <1>5 DEF DestroyCommit, DeleteAllocationOfVM, DeleteVMRow, At
    <3> QED
      BY <1>5, <3>1 DEF DestroyCommit, HostPart, CallerOK
  <2>2. CASE DeleteAllocationOfVM
    <3>1. vms' = vms /\ call' # Idle /\ call'.key = call.key
      BY <1>1, <2>2, CallTypes DEF DeleteAllocationOfVM, At, Continue, TypeOK, Calls, VMCommits,
                                   SessionCommits
    <3> QED
      BY <1>1, <2>1, <3>1
      DEF HostPart, CallerOK, LedgerOK, Accounted, Leakless, Entries, EntryOf, Active, HasVM
  <2>3. CASE DeleteVMRow
    <3>1. vms' = {r \in vms : r.id # caller.vm} /\ call' = Idle
      BY <2>1, <2>3 DEF DeleteVMRow, Finish
    <3>2. \A v \in VMs : Active(v)' => Active(v)
      BY <3>1 DEF Active
    <3>3. Accounted'
      BY <2>1, <3>2 DEF HostPart, Accounted, EntryOf
    <3>4. Leakless'
      <4>1. \A v : HasVM(v) => HasVM(v)' \/ v = caller.vm
        BY <3>1 DEF HasVM
      <4> QED
        BY <1>1, <2>1, <3>1, <4>1 DEF HostPart, Leakless
    <3>5. CallerOK'
      BY <2>1, <3>1 DEF HostPart, CallerOK, HasVM
    <3> QED
      BY <2>1, <3>3, <3>4, <3>5 DEF HostPart, LedgerOK, Entries, EntryOf
  <2> QED
    BY <1>5, <2>2, <2>3 DEF DestroyCommit
<1> QED
  BY <1>2, <1>3, <1>4, <1>5

(* Images come from the ledger and go: the rows and the ledger stay.       *)
LEMMA ImagesKeepHost == ASSUME HostPart, Images PROVE HostPart'
<1>1. UNCHANGED <<ledger, vms, call, daemon, caller>> /\ images' \subseteq images \cup ledger
  BY DEF Images, Capacity!ImageStep, Capacity!FillImage, Capacity!DeleteImage, vars, tables
<1> QED
  BY <1>1 DEF HostPart, CallerOK, LedgerOK, Accounted, Leakless, Entries, EntryOf, Active, HasVM

-----------------------------------------------------------------------------
(* Every step keeps the invariant.                                         *)
LEMMA HostStep == ASSUME HostInv, [HostNext]_hostVars PROVE HostInv'
<1>1. TypeOK /\ HostPart
  BY DEF HostInv, HostPart
<1>2. TypeOK'
  <2>1. [Next]_vars
    BY <1>1, HostNextIsStoreNext DEF HostPart, hostVars
  <2> QED
    BY <1>1, <2>1, TypeStep
<1>3. HostPart'
  <2>1. CASE UNCHANGED hostVars
    BY <1>1, <2>1 DEF hostVars, vars, tables, HostPart, CallerOK, LedgerOK, Accounted, Leakless,
                      Entries, EntryOf, Active, HasVM
  <2>2. CASE HostNext
    BY <1>1, <2>2, StartAndStopKeepHost, ReconcileKeepsHost, BeginCreateKeepsHost,
       EndCreateKeepsHost, FailCreateKeepsHost, CreateUnadmittedKeepsHost,
       RecordStatusKeepsHost, DestroyKeepsHost, ImagesKeepHost DEF HostNext
  <2> QED
    BY <2>1, <2>2
<1> QED
  BY <1>2, <1>3 DEF HostInv, HostPart
(* So the invariant holds of every reachable state.                        *)
LEMMA HostInvHolds == HostSpec => []HostInv
<1>1. ASSUME HostInit PROVE HostInv
  <2>1. TypeOK
    BY <1>1, InitType DEF HostInit
  <2>2. /\ ledger = {} /\ images = {} /\ daemon = "down" /\ caller = NoCaller /\ call = Idle
    BY <1>1 DEF HostInit, Init, Capacity!CapacityInit
  <2>3. NoCaller \in Callers /\ NoCaller.does = "nothing"
    BY DEF NoCaller, Callers
  <2> QED
    BY <2>1, <2>2, <2>3 DEF HostInv, CallerOK, LedgerOK, Accounted, Leakless
<1>2. HostInv /\ [HostNext]_hostVars => HostInv'
  BY HostStep
<1> QED
  BY <1>1, <1>2, PTL DEF HostSpec

-----------------------------------------------------------------------------
(* The daemon with its caller is a client of the store that keeps to what  *)
(* the store offers: all that is proved of every behaviour of the store    *)
(* holds here.                                                             *)
THEOREM HostUsesTheStore == HostSpec => Spec
<1>1. HostInit => Init
  BY DEF HostInit
<1>2. HostInv /\ [HostNext]_hostVars => [Next]_vars
  BY HostNextIsStoreNext DEF HostInv, hostVars
<1> QED
  BY <1>1, <1>2, HostInvHolds, PTL DEF HostSpec, Spec

(* The store, the ledger, the daemon and its caller keep their types.      *)
THEOREM HostTypeCorrect == HostSpec => []HostTypeOK
<1>1. HostInv => HostTypeOK
  BY DEF HostInv, HostTypeOK, CallerOK, LedgerOK, Entries, EntryOf, Needs
<1> QED
  BY <1>1, HostInvHolds, PTL

(* Serving, no active VM that was admitted, and whose row can be read, is  *)
(* missing from the ledger, wherever the daemon stopped before.            *)
THEOREM ActiveVMsAreAlwaysAccounted == HostSpec => []ActiveVMsAreAccounted
<1>1. ASSUME HostInv PROVE ActiveVMsAreAccounted
  <2>1. \A r \in ActiveVMs : Active(r.id)
    BY DEF ActiveVMs, Active
  <2> QED
    BY <1>1, <2>1 DEF HostInv, Accounted, ActiveVMsAreAccounted, ActiveNeeds
<1> QED
  BY <1>1, HostInvHolds, PTL

(* Serving and between two calls, the ledger holds nothing for a VM that   *)
(* has no row.                                                             *)
THEOREM LedgerNeverLeaks == HostSpec => []LedgerLeaksNothing
<1>1. HostInv => LedgerLeaksNothing
  BY DEF HostInv, Leakless, LedgerLeaksNothing, Free, Capacity!Holders
<1> QED
  BY <1>1, HostInvHolds, PTL

-----------------------------------------------------------------------------
(* What a set of entries asks of each resource, in the cardinalities and   *)
(* sums of the other lemmas.                                               *)
Resources == {"cpu", "memory", "disk"}
Asked(E, r) == Total([e \in E |-> e.need[r]])
HasFor(r) == CASE r = "cpu" -> Capacity!AtLeastZero(TotalCPU - ReservedCPU)
               [] r = "memory" -> Capacity!AtLeastZero(TotalMemory - ReservedMemory)
               [] r = "disk" -> TotalDisk
Held(E) == Cardinality(E) <= MaxVMs /\ \A r \in Resources : Asked(E, r) <= HasFor(r)

(* The entries of VMs that were admitted.                                  *)
Admitted(E) == {e \in E : e.vm \notin Unadmitted}

LEMMA CountsAreTheLedgers ==
  ASSUME NEW E
  PROVE  /\ Capacity!Cardinality(E) = Cardinality(E)
         /\ Capacity!CPUOf(E) = Asked(E, "cpu")
         /\ Capacity!MemoryOf(E) = Asked(E, "memory")
         /\ Capacity!DiskOf(E) = Asked(E, "disk")
<1>1. \A S : Capacity!Cardinality(S) = Cardinality(S)
  BY Zenon DEF Capacity!Cardinality, Cardinality, Capacity!IsFiniteSet, IsFiniteSet
<1>2. \A f : Capacity!Total(f) = Total(f)
  BY <1>1, Zenon DEF Capacity!Total, Total, Capacity!Units, Units
<1>3. Capacity!CPUOf(E) = Asked(E, "cpu")
  BY <1>2 DEF Capacity!CPUOf, Asked
<1>4. Capacity!MemoryOf(E) = Asked(E, "memory")
  BY <1>2 DEF Capacity!MemoryOf, Asked
<1>5. Capacity!DiskOf(E) = Asked(E, "disk")
  BY <1>2 DEF Capacity!DiskOf, Asked
<1> QED
  BY <1>1, <1>3, <1>4, <1>5

LEMMA HeldIsHostHolds == ASSUME NEW E PROVE Capacity!HostHolds(E) <=> Held(E)
  BY CountsAreTheLedgers DEF Capacity!HostHolds, Held, HasFor, Resources

(* What the host has, and what is asked of it, are naturals.               *)
LEMMA AskedType ==
  ASSUME NEW E, E \subseteq Entries, IsFiniteSet(E), NEW r \in Resources
  PROVE  /\ Asked(E, r) \in Nat /\ HasFor(r) \in Nat /\ Cardinality(E) \in Nat
         /\ \A e \in E : e.need[r] \in Nat
<1> DEFINE f == [e \in E |-> e.need[r]]
<1>1. \A e \in E : e.need[r] \in Nat
  BY HostAssumption DEF Entries, EntryOf, Resources
<1>2. DOMAIN f = E /\ \A e \in DOMAIN f : f[e] \in Nat
  BY <1>1
<1> HIDE DEF f
<1>3. Total(f) \in Nat
  BY <1>2, TotalType
<1>4. HasFor(r) \in Nat
  BY HostAssumption DEF HasFor, Resources, Capacity!AtLeastZero
<1> QED
  BY <1>1, <1>3, <1>4, FS_CardinalityType DEF Asked, f

(* Fewer entries fit where more did.                                       *)
LEMMA FewerAsk ==
  ASSUME NEW E, E \subseteq Entries, IsFiniteSet(E), NEW D, D \subseteq E
  PROVE  /\ IsFiniteSet(D) /\ Cardinality(D) <= Cardinality(E)
         /\ \A r \in Resources : Asked(D, r) <= Asked(E, r)
<1>1. ASSUME NEW r \in Resources PROVE Asked(D, r) <= Asked(E, r)
  <2> DEFINE f == [e \in E |-> e.need[r]]
  <2>1. DOMAIN f = E /\ \A e \in DOMAIN f : f[e] \in Nat
    BY AskedType
  <2>2. [e \in D |-> f[e]] = [e \in D |-> e.need[r]]
    OBVIOUS
  <2> HIDE DEF f
  <2>3. Total([e \in D |-> f[e]]) <= Total(f)
    BY <2>1, TotalMonotone
  <2> QED
    BY <2>2, <2>3 DEF Asked, f
<1> QED
  BY <1>1, FS_Subset

LEMMA FewerAreHeld ==
  ASSUME NEW E, E \subseteq Entries, IsFiniteSet(E), Held(E), NEW D, D \subseteq E
  PROVE  Held(D)
<1>1. IsFiniteSet(D) /\ D \subseteq Entries /\ Cardinality(D) <= Cardinality(E)
  BY FewerAsk
<1>2. Cardinality(D) <= MaxVMs
  BY <1>1, FS_CardinalityType, HostAssumption DEF Held
<1>3. ASSUME NEW r \in Resources PROVE Asked(D, r) <= HasFor(r)
  <2>1. Asked(D, r) \in Nat /\ Asked(E, r) \in Nat /\ HasFor(r) \in Nat
    BY <1>1, AskedType
  <2>2. Asked(D, r) <= Asked(E, r) /\ Asked(E, r) <= HasFor(r)
    BY FewerAsk DEF Held
  <2> QED
    BY <2>1, <2>2
<1> QED
  BY <1>2, <1>3 DEF Held

(* One entry more.                                                         *)
LEMMA OneMoreAsks ==
  ASSUME NEW E, E \subseteq Entries, IsFiniteSet(E), NEW e \in Entries, e \notin E,
         NEW r \in Resources
  PROVE  Asked(E \cup {e}, r) = Asked(E, r) + e.need[r]
<1> DEFINE f == [d \in E |-> d.need[r]]
           g == [d \in DOMAIN f \cup {e} |-> IF d = e THEN e.need[r] ELSE f[d]]
<1>1. DOMAIN f = E /\ \A d \in DOMAIN f : f[d] \in Nat
  BY AskedType
<1>2. e.need[r] \in Nat
  BY HostAssumption DEF Entries, EntryOf, Resources
<1>3. g = [d \in E \cup {e} |-> d.need[r]]
  OBVIOUS
<1> HIDE DEF f
<1>4. Total(g) = Total(f) + e.need[r]
  BY <1>1, <1>2, TotalAdd
<1> QED
  BY <1>3, <1>4 DEF Asked, f

(* What check_spec lets in is held with what was, counted without the VMs  *)
(* that were not admitted: they only make it refuse more.                  *)
LEMMA AdmittedIsHeld ==
  ASSUME LedgerOK, IsFiniteSet(ledger), IsFiniteSet(images), Held(Admitted(ledger)),
         NEW v \in VMs, EntryOf(v) \notin ledger, Capacity!CheckSpec(NeedOf[v])
  PROVE  Held(Admitted(ledger) \cup {EntryOf(v)})
<1> DEFINE A == Admitted(ledger)
           e == EntryOf(v)
           n == NeedOf[v]
<1>1. /\ A \subseteq ledger /\ A \subseteq Entries /\ IsFiniteSet(A) /\ e \notin A
      /\ Cardinality(A) <= Cardinality(ledger) /\ e \in Entries /\ e.need = n
      /\ ledger \subseteq Entries /\ images \subseteq Entries
      /\ \A r \in Resources : Asked(A, r) <= Asked(ledger, r)
  <2>1. A \subseteq ledger /\ ledger \subseteq Entries /\ images \subseteq Entries
    BY DEF Admitted, LedgerOK
  <2> HIDE DEF A
  <2>2. /\ IsFiniteSet(A) /\ Cardinality(A) <= Cardinality(ledger)
        /\ \A r \in Resources : Asked(A, r) <= Asked(ledger, r)
    BY <2>1, FewerAsk
  <2> QED
    BY <2>1, <2>2 DEF Entries, EntryOf
<1>2. /\ ~(Cardinality(ledger) >= MaxVMs)
      /\ ~(n.cpu > Capacity!AtLeastZero(TotalCPU - ReservedCPU - Asked(ledger, "cpu")))
      /\ ~(n.memory > Capacity!AtLeastZero(TotalMemory - ReservedMemory - Asked(ledger, "memory")))
      /\ ~(n.disk > Capacity!AtLeastZero(TotalDisk - Asked(images, "disk") - Asked(ledger, "disk")))
  <2>1. Capacity!Shortfalls(n) = {}
    BY DEF Capacity!CheckSpec
  <2>2. /\ "vm_count" \notin Capacity!Shortfalls(n) /\ "cpu" \notin Capacity!Shortfalls(n)
        /\ "memory" \notin Capacity!Shortfalls(n) /\ "disk" \notin Capacity!Shortfalls(n)
    BY <2>1
  <2>3. /\ ~(Capacity!ActiveVMCount >= MaxVMs) /\ ~(n.cpu > Capacity!AvailableCPU)
        /\ ~(n.memory > Capacity!AvailableMemory) /\ ~(n.disk > Capacity!AvailableDisk)
    BY <2>2, Zenon DEF Capacity!Shortfalls
  <2> QED
    BY <2>3, CountsAreTheLedgers
    DEF Capacity!ActiveVMCount, Capacity!AvailableCPU, Capacity!AvailableMemory,
        Capacity!AvailableDisk, Capacity!FreeDisk
<1>3. n.cpu \in Nat /\ n.memory \in Nat /\ n.disk \in Nat
  BY HostAssumption
<1>4. \A r \in Resources :
        /\ Asked(A, r) \in Nat /\ Asked(ledger, r) \in Nat /\ Asked(images, r) \in Nat
        /\ HasFor(r) \in Nat /\ Asked(A, r) <= HasFor(r)
        /\ Asked(A, r) <= Asked(ledger, r)
        /\ Asked(A \cup {e}, r) = Asked(A, r) + n[r]
  <2> HIDE DEF A, e, n
  <2> QED
    BY <1>1, AskedType, OneMoreAsks DEF Held, A
<1>5. Cardinality(A \cup {e}) <= MaxVMs
  <2> HIDE DEF A, e
  <2>1. Cardinality(A \cup {e}) = Cardinality(A) + 1
    BY <1>1, FS_AddElement
  <2>2. Cardinality(A) \in Nat /\ Cardinality(ledger) \in Nat
    BY <1>1, FS_CardinalityType
  <2> QED
    BY <1>1, <1>2, <2>1, <2>2, HostAssumption
<1> HIDE DEF A, e, n
<1>6. Asked(A \cup {e}, "cpu") <= HasFor("cpu")
  <2>1. /\ Asked(A, "cpu") \in Nat /\ Asked(ledger, "cpu") \in Nat
        /\ Asked(A, "cpu") <= HasFor("cpu") /\ Asked(A, "cpu") <= Asked(ledger, "cpu")
        /\ Asked(A \cup {e}, "cpu") = Asked(A, "cpu") + n.cpu
    BY <1>4 DEF Resources
  <2>2. HasFor("cpu") = Capacity!AtLeastZero(TotalCPU - ReservedCPU)
    BY DEF HasFor
  <2> QED
    BY <1>2, <1>3, <2>1, <2>2, HostAssumption DEF Capacity!AtLeastZero
<1>7. Asked(A \cup {e}, "memory") <= HasFor("memory")
  <2>1. /\ Asked(A, "memory") \in Nat /\ Asked(ledger, "memory") \in Nat
        /\ Asked(A, "memory") <= HasFor("memory") /\ Asked(A, "memory") <= Asked(ledger, "memory")
        /\ Asked(A \cup {e}, "memory") = Asked(A, "memory") + n.memory
    BY <1>4 DEF Resources
  <2>2. HasFor("memory") = Capacity!AtLeastZero(TotalMemory - ReservedMemory)
    BY DEF HasFor
  <2> QED
    BY <1>2, <1>3, <2>1, <2>2, HostAssumption DEF Capacity!AtLeastZero
<1>8. Asked(A \cup {e}, "disk") <= HasFor("disk")
  <2>1. /\ Asked(A, "disk") \in Nat /\ Asked(ledger, "disk") \in Nat
        /\ Asked(images, "disk") \in Nat
        /\ Asked(A, "disk") <= HasFor("disk") /\ Asked(A, "disk") <= Asked(ledger, "disk")
        /\ Asked(A \cup {e}, "disk") = Asked(A, "disk") + n.disk
    BY <1>4 DEF Resources
  <2>2. HasFor("disk") = TotalDisk
    BY DEF HasFor
  <2> QED
    BY <1>2, <1>3, <2>1, <2>2, HostAssumption DEF Capacity!AtLeastZero
<1> QED
  BY <1>5, <1>6, <1>7, <1>8 DEF Held, Resources, A, e

-----------------------------------------------------------------------------
(* What fits the host is the admitted entries; the admitted active VMs     *)
(* have theirs among them while the daemon serves, and are what they were  *)
(* while it does not.                                                      *)
FitInv ==
  /\ IsFiniteSet(vms) /\ IsFiniteSet(ledger) /\ IsFiniteSet(images)
  /\ Held(Admitted(ledger))
  /\ Held(ActiveNeeds(VMs \ Unadmitted))

(* The store, the ledger and the file system hold finitely many things.    *)
LEMMA HostStaysFinite ==
  ASSUME HostInv, FitInv, HostNext
  PROVE  IsFiniteSet(vms)' /\ IsFiniteSet(ledger)' /\ IsFiniteSet(images)'
<1> USE DEF FitInv
<1>0. /\ \A S : S \subseteq vms => IsFiniteSet(S)
      /\ \A row : IsFiniteSet(vms \cup {row})
      /\ \A S, row : S \subseteq vms => IsFiniteSet(S \cup {row})
  BY FS_Subset, FS_AddElement
<1>1. \/ vms' \subseteq vms
      \/ \E S, row : S \subseteq vms /\ vms' = S \cup {row}
  <2>1. CASE StartDaemon \/ StopDaemon \/ Reconcile \/ FailCreate \/ EndDestroy \/ Images
             \/ FailDestroy
    BY <2>1 DEF StartDaemon, StopDaemon, Reconcile, FailCreate, EndDestroy, Images, FailDestroy,
                Initialize, Crash, StatementFails, vars, tables
  <2>2. CASE DestroyCommit
    BY <2>2 DEF DestroyCommit, DeleteAllocationOfVM, DeleteVMRow
  <2>3. ASSUME NEW v \in VMs, BeginCreate(v) \/ BeginDestroy(v) PROVE vms' \subseteq vms
    BY <2>3 DEF BeginCreate, BeginDestroy, DeleteVM, vars, tables
  <2>4. ASSUME NEW v, NEW s, VMManagerCreate(v, s)
        PROVE  \/ vms' \subseteq vms
               \/ \E S, row : S \subseteq vms /\ vms' = S \cup {row}
    BY <2>4 DEF VMManagerCreate, CreateVM
  <2>5. ASSUME NEW v, NEW s, NEW status, RecordStatus(v, s, status)
        PROVE  \/ vms' \subseteq vms
               \/ \E S, row : S \subseteq vms /\ vms' = S \cup {row}
    <3>1. \/ vms' = vms
          \/ vms' = {r \in vms : r.id # v} \cup {[id |-> v, session |-> s, status |-> status]}
      BY <2>5 DEF RecordStatus, UpdateVM
    <3>2. {r \in vms : r.id # v} \subseteq vms
      OBVIOUS
    <3> QED
      BY <3>1, <3>2, Zenon
  <2> QED
    BY <2>1, <2>2, <2>3, <2>4, <2>5 DEF HostNext, EndCreate, CreateUnadmitted
<1>2. IsFiniteSet(vms')
  BY <1>0, <1>1
<1>3. \/ ledger' \subseteq ledger
      \/ \E e : ledger' = ledger \cup {e}
      \/ ledger' = Reconciled
  BY DEF HostNext, StartDaemon, StopDaemon, Reconcile, FailCreate, EndDestroy, Images,
         FailDestroy, DestroyCommit, BeginCreate, BeginDestroy, EndCreate, CreateUnadmitted,
         RecordStatus, Capacity!Admit, Capacity!Allocate, Capacity!Release,
         Capacity!ImageStep, Capacity!FillImage, Capacity!DeleteImage
<1>4. IsFiniteSet(Reconciled)
  <2> DEFINE rows == {q \in ActiveVMs : q.id \notin Unreadable}
             entry == [q \in rows |-> EntryOf(q.id)]
  <2>1. IsFiniteSet(rows)
    BY <1>0 DEF ActiveVMs
  <2>2. DOMAIN entry = rows /\ Reconciled = {entry[q] : q \in DOMAIN entry}
    BY DEF Reconciled
  <2> HIDE DEF entry
  <2> QED
    BY <2>1, <2>2, ImageIsFinite
<1>5. IsFiniteSet(ledger')
  BY <1>3, <1>4, FS_Subset, FS_AddElement
<1>6. images' \subseteq images \/ \E e : images' = images \cup {e}
  BY DEF HostNext, StartDaemon, StopDaemon, Reconcile, FailCreate, EndDestroy, Images,
         FailDestroy, DestroyCommit, BeginCreate, BeginDestroy, EndCreate, CreateUnadmitted,
         RecordStatus, Capacity!Admit, Capacity!Allocate, Capacity!Release,
         Capacity!ImageStep, Capacity!FillImage, Capacity!DeleteImage
<1>7. IsFiniteSet(images')
  BY <1>6, FS_Subset, FS_AddElement
<1> QED
  BY <1>2, <1>5, <1>7

(* The admitted entries fit after each step: those that are given back     *)
(* leave room, those that are rebuilt are of the VMs that did fit, and     *)
(* check_spec has looked before one is added.                              *)
LEMMA AdmittedEntriesFit ==
  ASSUME HostInv, FitInv, HostNext
  PROVE  Held(Admitted(ledger))'
<1>1. ledger \subseteq Entries /\ Admitted(ledger) \subseteq ledger
  BY DEF HostInv, LedgerOK, Admitted
<1>2. ASSUME ledger' \subseteq ledger PROVE Held(Admitted(ledger))'
  <2>1. Admitted(ledger)' \subseteq Admitted(ledger)
    BY <1>2 DEF Admitted
  <2>2. IsFiniteSet(Admitted(ledger)) /\ Admitted(ledger) \subseteq Entries
    BY <1>1, FS_Subset DEF FitInv
  <2>3. Held(Admitted(ledger'))
    BY <2>1, <2>2, FewerAreHeld DEF FitInv, Admitted
  <2> QED
    BY <2>3 DEF Held, Admitted, Asked, HasFor
<1>3. CASE Reconcile
  <2>1. ledger' = Reconciled
    BY <1>3 DEF Reconcile
  <2>2. \A r \in vms : r.id \in VMs
    BY DEF HostInv, TypeOK, VMRow
  <2>3. Admitted(ledger') = ActiveNeeds(VMs \ Unadmitted)
    BY <2>1, <2>2 DEF Admitted, Reconciled, ActiveNeeds, ActiveVMs, EntryOf
  <2> QED
    BY <2>3 DEF FitInv, Held, Admitted, Asked, HasFor
<1>4. ASSUME NEW v \in VMs, BeginCreate(v) PROVE Held(Admitted(ledger))'
  <2>1. /\ v \notin Unadmitted /\ EntryOf(v) \notin ledger
        /\ ledger' = ledger \cup {EntryOf(v)} /\ Capacity!CheckSpec(NeedOf[v])
    BY <1>4 DEF BeginCreate, Capacity!Admit, Capacity!Allocate, Capacity!Holders, EntryOf
  <2>2. Held(Admitted(ledger) \cup {EntryOf(v)})
    BY <2>1, AdmittedIsHeld DEF HostInv, FitInv
  <2>3. Admitted(ledger') = Admitted(ledger) \cup {EntryOf(v)}
    BY <2>1 DEF Admitted, EntryOf
  <2> QED
    BY <2>2, <2>3 DEF Held, Admitted, Asked, HasFor
<1>5. CASE ~Reconcile /\ ~(\E v \in VMs : BeginCreate(v))
  <2>1. ledger' \subseteq ledger
    BY <1>5 DEF HostNext, StartDaemon, StopDaemon, FailCreate, EndDestroy, Images,
         FailDestroy, DestroyCommit, BeginDestroy, EndCreate, CreateUnadmitted,
         RecordStatus, Capacity!Release,
         Capacity!ImageStep, Capacity!FillImage, Capacity!DeleteImage
  <2> QED
    BY <1>2, <2>1
<1> QED
  BY <1>3, <1>4, <1>5

(* The VMs that are active have entries while the daemon serves, and are   *)
(* the same when it does not.                                              *)
LEMMA ActiveVMsFit ==
  ASSUME HostInv, HostInv', FitInv, HostNext,
         IsFiniteSet(ledger'), Held(Admitted(ledger'))
  PROVE  Held(ActiveNeeds(VMs \ Unadmitted))'
<1>1. CASE daemon' = "serving"
  <2>1. ActiveNeeds(VMs \ Unadmitted)' \subseteq Admitted(ledger')
    <3>1. \A r \in ActiveVMs' : Active(r.id)'
      BY DEF ActiveVMs, Active
    <3>2. Accounted'
      BY DEF HostInv
    <3> QED
      BY <1>1, <3>1, <3>2 DEF Accounted, ActiveNeeds, Admitted, EntryOf
  <2>2. Admitted(ledger') \subseteq ledger' /\ ledger' \subseteq Entries
    BY DEF Admitted, HostInv, LedgerOK, Entries, EntryOf
  <2>3. IsFiniteSet(Admitted(ledger')) /\ Admitted(ledger') \subseteq Entries
    BY <2>2, FS_Subset
  <2>4. Held(ActiveNeeds(VMs \ Unadmitted)')
    BY <2>1, <2>3, FewerAreHeld
  <2> QED
    BY <2>4 DEF Held, Asked, HasFor
<1>2. CASE daemon' # "serving"
  <2>1. StartDaemon \/ StopDaemon \/ UNCHANGED vms
    BY <1>2, CallerFacts
    DEF HostNext, Reconcile, FailCreate, EndDestroy, Images, FailDestroy, DestroyCommit,
        BeginCreate, BeginDestroy, EndCreate, CreateUnadmitted, RecordStatus, Free,
        HostInv, CallerOK, NoCaller, vars, tables
  <2>2. vms' = vms
    BY <2>1 DEF StartDaemon, StopDaemon, Initialize, Crash, tables
  <2>3. ActiveNeeds(VMs \ Unadmitted)' = ActiveNeeds(VMs \ Unadmitted)
    BY <2>2 DEF ActiveNeeds, ActiveVMs, EntryOf
  <2> QED
    BY <2>3 DEF FitInv, Held, Asked, HasFor
<1> QED
  BY <1>1, <1>2

(* The active VMs that were admitted never add up to more than the host    *)
(* has, in number, cores, memory or disk: not when the daemon is down and  *)
(* not after it has been restarted, whatever the VMs take that were not    *)
(* admitted and whatever the file system has left.                         *)
THEOREM AdmittedVMsAlwaysFitHost == HostSpec => []AdmittedVMsFitHost
<1>1. ASSUME HostInit PROVE FitInv
  <2>1. /\ vms = {} /\ ledger = {} /\ images = {}
    BY <1>1 DEF HostInit, Init, Capacity!CapacityInit
  <2>2. Admitted(ledger) = {} /\ ActiveNeeds(VMs \ Unadmitted) = {}
    BY <2>1 DEF Admitted, ActiveNeeds, ActiveVMs
  <2>3. Held({})
    <3>1. Cardinality({}) = 0 /\ IsFiniteSet({})
      BY FS_EmptySet
    <3>2. ASSUME NEW r \in Resources PROVE Asked({}, r) <= HasFor(r)
      <4>1. Asked({}, r) = 0
        BY TotalEmpty DEF Asked
      <4>2. HasFor(r) \in Nat
        BY <3>1, AskedType
      <4> QED
        BY <4>1, <4>2
    <3> QED
      BY <3>1, <3>2, HostAssumption DEF Held
  <2> QED
    BY <2>1, <2>2, <2>3, FS_EmptySet DEF FitInv
<1>2. ASSUME HostInv, FitInv, HostInv', [HostNext]_hostVars PROVE FitInv'
  <2>1. CASE HostNext
    <3>1. IsFiniteSet(vms)' /\ IsFiniteSet(ledger)' /\ IsFiniteSet(images)'
      BY <1>2, <2>1, HostStaysFinite
    <3>2. Held(Admitted(ledger))'
      BY <1>2, <2>1, AdmittedEntriesFit
    <3>3. Held(ActiveNeeds(VMs \ Unadmitted))'
      <4>1. IsFiniteSet(ledger') /\ Held(Admitted(ledger'))
        BY <3>1, <3>2 DEF Held, Admitted, Asked, HasFor
      <4> QED
        BY <1>2, <2>1, <4>1, ActiveVMsFit
    <3> QED
      BY <3>1, <3>2, <3>3 DEF FitInv
  <2>2. CASE UNCHANGED hostVars
    BY <1>2, <2>2
    DEF hostVars, vars, tables, FitInv, Held, Admitted, Asked, HasFor, ActiveNeeds, ActiveVMs,
        EntryOf
  <2> QED
    BY <1>2, <2>1, <2>2
<1>3. FitInv => AdmittedVMsFitHost
  BY HeldIsHostHolds DEF FitInv, AdmittedVMsFitHost
<1> QED
  BY <1>1, <1>2, <1>3, HostInvHolds, PTL DEF HostSpec
=============================================================================
