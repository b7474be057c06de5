------------------------- MODULE CorePinningProofs -------------------------
(***************************************************************************)
(* Proofs about CorePinning: no core is given twice and no VM counted      *)
(* twice, on any host, with any reserve, VMs and needs.                    *)
(***************************************************************************)
EXTENDS CorePinning, OperatorProofs

(* A cpuset names no core that it was not made of.                         *)
LEMMA FormattedIsNoMore ==
  ASSUME NEW cores
  PROVE  ParseCpuList(FormatCpuset(cores)) \subseteq cores
  BY DEF ParseCpuList, FormatCpuset

(* What is given is blocked for nobody.                                    *)
LEMMA GivenWasFree ==
  ASSUME NEW h, NEW n, NEW reserved, NEW taken
  PROVE  ParseCpuList(AllocateCores(h, n, reserved, taken).cpuset)
           \cap Blocked(h, reserved, taken) = {}
<1> DEFINE blocked == Blocked(h, reserved, taken)
           roomy == NodesWithRoom(h, n, blocked)
           fallback == (0..(TotalCores(h) - 1)) \ blocked
           given == AllocateCores(h, n, reserved, taken)
<1>1. \A cores : ParseCpuList(FormatCpuset(Least(n, cores \ blocked))) \cap blocked = {}
  <2>1. \A cores : Least(n, cores \ blocked) \cap blocked = {}
    BY DEF Least
  <2> QED
    BY <2>1, FormattedIsNoMore
<1>2. ParseCpuList(Refused.cpuset) = {}
  BY DEF ParseCpuList, Refused
<1>3. \/ given = Refused
      \/ given = [cpuset |-> FormatCpuset(Least(n, NumaCores(h)[Min(roomy)] \ blocked)),
                  node |-> Min(roomy)]
      \/ given = [cpuset |-> FormatCpuset(Least(n, fallback)), node |-> 0]
  BY DEF AllocateCores
<1> SUFFICES ParseCpuList(given.cpuset) \cap blocked = {}
  OBVIOUS
<1> HIDE DEF given, blocked, roomy
<1>4. CASE given = Refused
  BY <1>2, <1>4
<1>5. CASE given = [cpuset |-> FormatCpuset(Least(n, NumaCores(h)[Min(roomy)] \ blocked)),
                    node |-> Min(roomy)]
  BY <1>1, <1>5
<1>6. CASE given = [cpuset |-> FormatCpuset(Least(n, fallback)), node |-> 0]
  BY <1>1, <1>6
<1> QED
  BY <1>3, <1>4, <1>5, <1>6

(* When the lists that name a core name one other between them, one of     *)
(* them is that pair.                                                      *)
LEMMA PairOfSiblings ==
  ASSUME host \in Hosts, NEW r, NEW c \in SiblingsOf(r), Cardinality(SiblingsOf(r)) = 2, c # r
  PROVE  SiblingsOf(r) \in HyperthreadPairs(host) /\ r \in SiblingsOf(r)
<1> DEFINE lists == {ParseCpuList(host.siblings[d]) : d \in host.cpus}
<1>1. PICK s \in lists : r \in s /\ c \in s
  BY DEF SiblingsOf
<1>2. /\ IsFiniteSet(host.cpus)
      /\ \A d \in host.cpus : ParseCpuList(host.siblings[d]) \subseteq host.cpus
  BY PinningAssumption DEF IsHost
<1>3. SiblingsOf(r) \subseteq host.cpus
  BY <1>2 DEF SiblingsOf
<1>4. IsFiniteSet(SiblingsOf(r))
  BY <1>2, <1>3, FS_Subset
<1>5. s \subseteq SiblingsOf(r)
  BY <1>1 DEF SiblingsOf
<1>6. IsFiniteSet({r}) /\ Cardinality({r}) = 1
  BY FS_Singleton
<1>7. Cardinality({r} \cup {c}) = 2
  <2>1. Cardinality({r} \cup {c}) = IF c \in {r} THEN Cardinality({r}) ELSE Cardinality({r}) + 1
    BY <1>6, FS_AddElement, Zenon
  <2> QED
    BY <1>6, <2>1
<1>8. SiblingsOf(r) = {r} \cup {c}
  BY <1>1, <1>4, <1>5, <1>7, FS_Subset
<1>9. s = SiblingsOf(r)
  BY <1>1, <1>5, <1>8
<1> QED
  BY <1>1, <1>9 DEF HyperthreadPairs

(* So the siblings of the reserve, where cores have two threads, are       *)
(* blocked.                                                                *)
LEMMA SiblingsAreBlocked ==
  ASSUME host \in Hosts, NEW r \in Reserved, NEW c \in SiblingsOf(r),
         Cardinality(SiblingsOf(r)) = 2, NEW taken
  PROVE  c \in Blocked(host, Reserved, taken)
<1>1. CASE c = r
  BY <1>1 DEF Blocked
<1>2. CASE c # r
  BY <1>2, PairOfSiblings DEF Blocked
<1> QED
  BY <1>1, <1>2

-----------------------------------------------------------------------------
PinningInv == host \in Hosts /\ PinsAreExclusive

(* An admission pins cores that were nobody's; all other steps only forget *)
(* pins.                                                                   *)
LEMMA AdmitPinnedIsExclusive ==
  ASSUME PinningInv, NEW v \in VMs, NEW n \in Needs, AdmitPinned(v, n)
  PROVE  PinningInv'
<1>1. CASE pins' = pins
  BY <1>1 DEF AdmitPinned, PinningInv, PinsAreExclusive, Taken, SiblingsOf
<1>2. CASE pins' # pins
  <2> DEFINE new == [vm |-> v, cpuset |-> Pin(n.cpu).cpuset, node |-> Pin(n.cpu).node]
  <2>1. pins' = pins \cup {new} /\ host' = host
    BY <1>2 DEF AdmitPinned
  <2>2. CoresOf(new) \cap Blocked(host, Reserved, Taken) = {}
    BY GivenWasFree DEF CoresOf, Pin
  <2>3. CoresOf(new) \cap Taken = {} /\ CoresOf(new) \cap Reserved = {}
    BY <2>2 DEF Blocked
  <2>4. \A c \in CoresOf(new), r \in Reserved :
          Cardinality(SiblingsOf(r)) = 2 => c \notin SiblingsOf(r)
    BY <2>2, SiblingsAreBlocked DEF PinningInv
  <2> HIDE DEF new
  <2>5. \A p \in pins : CoresOf(p) \subseteq Taken
    BY DEF Taken
  <2>6. Taken' = Taken \cup CoresOf(new)
    BY <2>1 DEF Taken, CoresOf
  <2>7. \A p, q \in pins' : p # q => CoresOf(p) \cap CoresOf(q) = {}
    BY <2>1, <2>3, <2>5 DEF PinningInv, PinsAreExclusive
  <2>8. Taken' \cap Reserved = {}
    BY <2>3, <2>6 DEF PinningInv, PinsAreExclusive
  <2>9. \A r : SiblingsOf(r)' = SiblingsOf(r)
    BY <2>1 DEF SiblingsOf
  <2>10. \A c \in Taken', r \in Reserved :
           Cardinality(SiblingsOf(r)) = 2 => c \notin SiblingsOf(r)
    BY <2>4, <2>6 DEF PinningInv, PinsAreExclusive
  <2> QED
    BY <2>1, <2>7, <2>8, <2>9, <2>10 DEF PinningInv, PinsAreExclusive, CoresOf
<1> QED
  BY <1>1, <1>2

(* Forgetting pins keeps the rest exclusive.                               *)
LEMMA FewerPinsAreExclusive ==
  ASSUME PinningInv, host' = host, pins' \subseteq pins
  PROVE  PinningInv'
<1>1. Taken' \subseteq Taken
  BY DEF Taken, CoresOf
<1>2. \A r : SiblingsOf(r)' = SiblingsOf(r)
  BY DEF SiblingsOf
<1> QED
  BY <1>1, <1>2 DEF PinningInv, PinsAreExclusive, CoresOf

(* No core is pinned twice, and none that is reserved or shares its two    *)
(* threads with a reserved one.                                            *)
THEOREM PinsAreAlwaysExclusive == PinningSpec => []PinsAreExclusive
<1>1. ASSUME PinningInit PROVE PinningInv
  BY <1>1 DEF PinningInit, PinningInv, PinsAreExclusive, Taken
<1>2. ASSUME PinningInv, [PinningNext]_pinVars PROVE PinningInv'
  <2>1. ASSUME NEW v \in VMs, NEW n \in Needs, AdmitPinned(v, n)
        PROVE  PinningInv'
    BY <1>2, <2>1, AdmitPinnedIsExclusive
  <2>2. ASSUME NEW v \in VMs, ReleasePinned(v)
        PROVE  PinningInv'
    BY <1>2, <2>2, FewerPinsAreExclusive DEF ReleasePinned
  <2>3. ASSUME UNCHANGED <<host, pins>>
        PROVE  PinningInv'
    BY <1>2, <2>3, FewerPinsAreExclusive
  <2> QED
    BY <1>2, <2>1, <2>2, <2>3 DEF PinningNext, AllocateUnpinned, pinVars
<1> QED
  BY <1>1, <1>2, PTL DEF PinningSpec, PinningInv

-----------------------------------------------------------------------------
(* The ledger is a function of the VMs it knows, as the dict is.           *)
LedgerInv ==
  /\ ledger \subseteq Entry /\ images \subseteq Entry
  /\ IsFiniteSet(ledger) /\ IsFiniteSet(images)
  /\ \A d, e \in ledger : d.vm = e.vm => d = e

(* So there are as many entries as VMs that hold one.                      *)
LEMMA OneEntryEach == ASSUME LedgerInv PROVE Cardinality(ledger) = Cardinality(Holders)
<1> DEFINE f == [e \in ledger |-> e.vm]
<1>1. f \in Bijection(ledger, Holders)
  <2>1. f \in [ledger -> Holders] /\ \A e \in ledger : f[e] = e.vm
    BY DEF Holders
  <2>2. f \in Injection(ledger, Holders)
    BY <2>1 DEF Injection, IsInjective, LedgerInv
  <2>3. f \in Surjection(ledger, Holders)
    BY <2>1 DEF Surjection, Holders
  <2> QED
    BY <2>2, <2>3 DEF Bijection
<1> QED
  BY <1>1, FS_Bijection DEF ExistsBijection, LedgerInv

(* allocate adds an entry for a VM that has none.                          *)
LEMMA AllocateKeepsLedger ==
  ASSUME LedgerInv, NEW v \in VMs, NEW n \in Needs, Allocate(v, n)
  PROVE  LedgerInv'
<1>1. CASE v \in Holders
  BY <1>1 DEF Allocate, LedgerInv
<1>2. CASE v \notin Holders
  <2> DEFINE new == [vm |-> v, need |-> n]
  <2>1. ledger' = ledger \cup {new} /\ images' = images
    BY <1>2 DEF Allocate
  <2>2. new \in Entry /\ new.vm = v /\ \A e \in ledger : e.vm # v
    BY <1>2 DEF Entry, Holders
  <2>3. IsFiniteSet(ledger')
    BY <2>1, FS_AddElement DEF LedgerInv
  <2> HIDE DEF new
  <2> QED
    BY <2>1, <2>2, <2>3 DEF LedgerInv
<1> QED
  BY <1>1, <1>2

(* A step that takes entries away keeps the rest.                          *)
LEMMA FewerEntries ==
  ASSUME LedgerInv, ledger' \subseteq ledger, images' \subseteq Entry, IsFiniteSet(images')
  PROVE  LedgerInv'
<1>1. IsFiniteSet(ledger')
  BY FS_Subset DEF LedgerInv
<1> QED
  BY <1>1 DEF LedgerInv

(* Every step keeps it so.                                                 *)
LEMMA LedgerStep == ASSUME LedgerInv, [PinningNext]_pinVars PROVE LedgerInv'
<1>1. ASSUME NEW v \in VMs, NEW n \in Needs, AdmitPinned(v, n) \/ AllocateUnpinned(v, n)
      PROVE  LedgerInv'
  <2>1. Allocate(v, n) \/ UNCHANGED <<ledger, images>>
    BY <1>1 DEF AdmitPinned, AllocateUnpinned
  <2> QED
    BY <2>1, AllocateKeepsLedger, FewerEntries DEF LedgerInv
<1>2. ASSUME NEW v \in VMs, ReleasePinned(v)
      PROVE  LedgerInv'
  BY <1>2, FewerEntries DEF ReleasePinned, Release, LedgerInv
<1>3. CASE ImageStep
  <2>1. ledger' = ledger /\ images' \subseteq Entry
    BY <1>3 DEF ImageStep, FillImage, DeleteImage, LedgerInv
  <2>2. \E e : images' = images \cup {e} \/ images' = images \ {e}
    BY <1>3 DEF ImageStep, FillImage, DeleteImage
  <2>3. IsFiniteSet(images')
    BY <2>2, FS_AddElement, FS_RemoveElement DEF LedgerInv
  <2> QED
    BY <2>1, <2>3, FewerEntries
<1>4. CASE UNCHANGED pinVars
  BY <1>4, FewerEntries DEF pinVars, LedgerInv
<1> QED
  BY <1>1, <1>2, <1>3, <1>4 DEF PinningNext

LEMMA LedgerInvHolds == PinningSpec => []LedgerInv
<1>1. ASSUME PinningInit PROVE LedgerInv
  BY <1>1, FS_EmptySet DEF PinningInit, CapacityInit, LedgerInv
<1>2. LedgerInv /\ [PinningNext]_pinVars => LedgerInv'
  BY LedgerStep
<1> QED
  BY <1>1, <1>2, PTL DEF PinningSpec

(* The caller that pins is a caller of the ledger: what it does there the  *)
(* capacity manager offers, so every ledger it makes is one that           *)
(* CapacityManager reaches.                                                *)
THEOREM PinningUsesTheLedger == PinningSpec => CapacitySpec
<1>1. PinningInit => CapacityInit
  BY DEF PinningInit
<1>2. ASSUME [PinningNext]_pinVars PROVE [CapacityNext]_capacityVars
  <2>1. ASSUME NEW v \in VMs, NEW n \in Needs, AdmitPinned(v, n) \/ AllocateUnpinned(v, n)
        PROVE  [CapacityNext]_capacityVars
    <3>1. Allocate(v, n) \/ UNCHANGED capacityVars
      BY <2>1 DEF AdmitPinned, AllocateUnpinned, capacityVars
    <3> QED
      BY <3>1, Zenon DEF CapacityNext
  <2>2. ASSUME NEW v \in VMs, ReleasePinned(v) PROVE CapacityNext
    BY <2>2, Zenon DEF ReleasePinned, CapacityNext
  <2>3. CASE UNCHANGED pinVars
    BY <2>3 DEF pinVars, capacityVars
  <2> QED
    BY <1>2, <2>1, <2>2, <2>3 DEF PinningNext, CapacityNext
<1> QED
  BY <1>1, <1>2, PTL DEF PinningSpec, CapacitySpec

(* No VM has two entries, whatever is admitted, allocated unchecked and    *)
(* released in any order.                                                  *)
THEOREM LedgerIsAlwaysWellFormed == PinningSpec => []CapacityTypeOK
<1>1. LedgerInv => CapacityTypeOK
  BY OneEntryEach DEF LedgerInv, CapacityTypeOK
<1> QED
  BY <1>1, LedgerInvHolds, PTL

-----------------------------------------------------------------------------
(* What entries add up to is a natural.                                    *)
LEMMA SumsAreNaturals ==
  ASSUME NEW S, S \subseteq Entry, IsFiniteSet(S)
  PROVE  CPUOf(S) \in Nat /\ MemoryOf(S) \in Nat /\ DiskOf(S) \in Nat
<1>1. \A e \in S : e.need.cpu \in Nat /\ e.need.memory \in Nat /\ e.need.disk \in Nat
  BY CapacityAssumption DEF Entry
<1>2. CPUOf(S) \in Nat
  BY <1>1, TotalType DEF CPUOf
<1>3. MemoryOf(S) \in Nat
  BY <1>1, TotalType DEF MemoryOf
<1>4. DiskOf(S) \in Nat
  BY <1>1, TotalType DEF DiskOf
<1> QED
  BY <1>2, <1>3, <1>4

(* Only a request for nothing of a resource passes where too much is       *)
(* allocated already.                                                      *)
LEMMA ClampedRoom ==
  ASSUME NEW room \in Int, NEW k \in Nat, k > 0
  PROVE  ~(k > AtLeastZero(room)) <=> k <= room
  BY DEF AtLeastZero

(* check_spec lets a request pass where the ledger with the request added  *)
(* stays within what the host has, and nowhere else, on any ledger that    *)
(* checked and unchecked allocations may have made.                        *)
THEOREM CheckSpecIsAlwaysExact == PinningSpec => []CheckSpecIsExact
<1>1. ASSUME LedgerInv PROVE CheckSpecIsExact
  <2> SUFFICES ASSUME NEW n \in Needs, n.cpu > 0, n.memory > 0, n.disk > 0
               PROVE  CheckSpec(n) <=> Fits(n)
    BY DEF CheckSpecIsExact
  <2>1. /\ CPUOf(ledger) \in Nat /\ MemoryOf(ledger) \in Nat /\ DiskOf(ledger) \in Nat
        /\ DiskOf(images) \in Nat
    BY <1>1, SumsAreNaturals DEF LedgerInv
  <2>2. n.cpu \in Nat /\ n.memory \in Nat /\ n.disk \in Nat
    BY CapacityAssumption
  <2>3. /\ TotalCPU \in Nat /\ ReservedCPU \in Nat /\ TotalMemory \in Nat
        /\ ReservedMemory \in Nat /\ TotalDisk \in Nat /\ MaxVMs \in Nat
    BY CapacityAssumption
  <2>4. ActiveVMCount \in Nat
    BY <1>1, FS_CardinalityType DEF LedgerInv, ActiveVMCount
  <2>5. ~(n.cpu > AvailableCPU) <=> CPUOf(ledger) + n.cpu <= TotalCPU - ReservedCPU
    BY <2>1, <2>2, <2>3, ClampedRoom DEF AvailableCPU
  <2>6. ~(n.memory > AvailableMemory)
          <=> MemoryOf(ledger) + n.memory <= TotalMemory - ReservedMemory
    BY <2>1, <2>2, <2>3, ClampedRoom DEF AvailableMemory
  <2>7. ~(n.disk > AvailableDisk) <=> DiskOf(ledger) + n.disk <= FreeDisk
    BY <2>1, <2>2, <2>3, ClampedRoom DEF AvailableDisk, FreeDisk
  <2>8. ~(ActiveVMCount >= MaxVMs) <=> ActiveVMCount + 1 <= MaxVMs
    BY <2>3, <2>4
  <2>9. CheckSpec(n) <=> /\ ~(ActiveVMCount >= MaxVMs) /\ ~(n.cpu > AvailableCPU)
                        /\ ~(n.memory > AvailableMemory) /\ ~(n.disk > AvailableDisk)
    BY DEF CheckSpec, Shortfalls
  <2> QED
    BY <2>5, <2>6, <2>7, <2>8, <2>9 DEF Fits
<1> QED
  BY <1>1, LedgerInvHolds, PTL

-----------------------------------------------------------------------------
(* A request that passed leaves the host with a core, and a VM that asks   *)
(* for none is given none.                                                 *)
LEMMA AdmittedRoom ==
  ASSUME LedgerInv, NEW n \in Needs, CheckSpec(n), n.cpu > 0
  PROVE  n.cpu + ReservedCPU + CPUOf(ledger) <= TotalCPU
<1>1. CPUOf(ledger) \in Nat
  BY SumsAreNaturals DEF LedgerInv
<1>2. n.cpu \in Nat /\ TotalCPU \in Nat /\ ReservedCPU \in Nat
  BY CapacityAssumption
<1>3. ~(n.cpu > AvailableCPU)
  BY DEF CheckSpec, Shortfalls
<1> QED
  BY <1>1, <1>2, <1>3, ClampedRoom DEF AvailableCPU

LEMMA NothingIsRefused == Pin(0) = Refused
  BY DEF Pin, AllocateCores

(* With no CPU offline, the cores of a node and those counted from 0 are   *)
(* the cores there are.                                                    *)
LEMMA CoresAreOnline ==
  ASSUME host \in Hosts, AllOnline, TotalCPU > 0
  PROVE  /\ TotalCores(host) = TotalCPU
         /\ 0..(TotalCPU - 1) = host.online
         /\ \A id \in DOMAIN NumaCores(host) : NumaCores(host)[id] \subseteq host.online
<1>1. IsHost(host) /\ Cardinality(host.online) = TotalCPU /\ TotalCPU \in Nat
  BY PinningAssumption, CapacityAssumption
<1>2. host.cpus = host.online /\ host.online = 0..(TotalCPU - 1)
  BY DEF AllOnline
<1>3. host.cpus # {}
  BY <1>1, <1>2, FS_EmptySet
<1>4. TotalCores(host) = TotalCPU
  BY <1>1, <1>2, <1>3 DEF TotalCores, CpuIds
<1>5. \A id \in DOMAIN NumaCores(host) : NumaCores(host)[id] \subseteq host.online
  BY <1>1, <1>2, <1>4 DEF NumaCores, IsHost
<1> QED
  BY <1>2, <1>4, <1>5

(* What an admission pins: as many cores as the VM was admitted with, none *)
(* of them blocked, on the node it is told or, where no node has room,     *)
(* anywhere.                                                               *)
LEMMA AdmittedPin ==
  ASSUME host \in Hosts, NEW n \in Needs, Pin(n.cpu) # Refused
  PROVE  LET blocked == Blocked(host, Reserved, Taken)
             cores == CoresOf(Pin(n.cpu))
             free(id) == NumaCores(host)[id] \ blocked
         IN  /\ n.cpu \in Nat \ {0} /\ IsFiniteSet(cores) /\ Cardinality(cores) = n.cpu
             /\ \/ /\ Pin(n.cpu).node \in DOMAIN NumaCores(host)
                   /\ cores \subseteq free(Pin(n.cpu).node)
                \/ /\ \A id \in DOMAIN NumaCores(host) : Cardinality(free(id)) < n.cpu
                   /\ cores \subseteq Fallback(host, blocked)
<1>1. IsHost(host) /\ n.cpu \in Nat \ {0}
  BY PinningAssumption, CapacityAssumption, NothingIsRefused
<1> DEFINE blocked == Blocked(host, Reserved, Taken)
           cores == CoresOf(Pin(n.cpu))
           free(id) == NumaCores(host)[id] \ blocked
<1>2. /\ Cardinality(cores) = n.cpu
      /\ \/ /\ Pin(n.cpu).node \in DOMAIN NumaCores(host)
            /\ cores \subseteq free(Pin(n.cpu).node)
         \/ /\ \A id \in DOMAIN NumaCores(host) : Cardinality(free(id)) < n.cpu
            /\ cores \subseteq Fallback(host, blocked)
  BY <1>1, AllocateCoresIsExact DEF Pin, CoresOf
<1>3. /\ \A id \in DOMAIN NumaCores(host) : IsFiniteSet(free(id))
      /\ IsFiniteSet(Fallback(host, blocked))
  BY <1>1, CoresAreFinite, FS_Subset DEF Fallback
<1>4. IsFiniteSet(cores)
  BY <1>2, <1>3, FS_Subset
<1> QED
  BY <1>1, <1>2, <1>4

-----------------------------------------------------------------------------
(* The pins are the VMs', one each, and a part of the ledger.              *)
PairedInv ==
  /\ LedgerInv
  /\ host \in Hosts
  /\ \A p, q \in pins : p.vm = q.vm => p = q
  /\ \A p \in pins : IsFiniteSet(CoresOf(p))
  /\ PinsAreWhatWasAdmitted

(* An admission adds an entry and a pin that agree.                        *)
LEMMA AdmitPinnedIsPaired ==
  ASSUME PairedInv, NEW v \in VMs, NEW n \in Needs, AdmitPinned(v, n), Pin(n.cpu) # Refused
  PROVE  PairedInv'
<1> DEFINE new == [vm |-> v, cpuset |-> Pin(n.cpu).cpuset, node |-> Pin(n.cpu).node]
           entry == [vm |-> v, need |-> n]
<1>1. /\ v \notin Holders /\ CheckSpec(n) /\ host' = host
      /\ ledger' = ledger \cup {entry} /\ pins' = pins \cup {new}
  BY DEF AdmitPinned, Allocate
<1>2. LedgerInv'
  BY LedgerStep DEF PairedInv, PinningNext
<1>3. \A p \in pins : p.vm \in Holders
  BY DEF PairedInv, PinsAreWhatWasAdmitted, Holders
<1>4. \A p, q \in pins' : p.vm = q.vm => p = q
  BY <1>1, <1>3 DEF PairedInv
<1>5. IsFiniteSet(CoresOf(new)) /\ Cardinality(CoresOf(new)) = n.cpu /\ n.cpu > 0
  BY AdmittedPin DEF PairedInv, CoresOf
<1>6. AllOnline => CoresOf(new) \subseteq host.online
  <2> SUFFICES ASSUME AllOnline PROVE CoresOf(new) \subseteq host.online
    OBVIOUS
  <2>1. TotalCPU > 0
    <3>1. n.cpu + ReservedCPU + CPUOf(ledger) <= TotalCPU
      BY <1>1, <1>5, AdmittedRoom DEF PairedInv
    <3>2. /\ n.cpu \in Nat /\ ReservedCPU \in Nat /\ TotalCPU \in Nat
          /\ CPUOf(ledger) \in Nat
      BY CapacityAssumption, SumsAreNaturals DEF PairedInv, LedgerInv
    <3> QED
      BY <1>5, <3>1, <3>2
  <2>2. /\ TotalCores(host) = TotalCPU /\ 0..(TotalCPU - 1) = host.online
        /\ \A id \in DOMAIN NumaCores(host) : NumaCores(host)[id] \subseteq host.online
    BY <2>1, CoresAreOnline DEF PairedInv
  <2>3. Fallback(host, Blocked(host, Reserved, Taken)) \subseteq host.online
    BY <2>2 DEF Fallback
  <2>4. CoresOf(new) = CoresOf(Pin(n.cpu))
    BY DEF CoresOf
  <2> HIDE DEF new
  <2> QED
    BY <2>2, <2>3, <2>4, AdmittedPin DEF PairedInv
<1>7. PinsAreWhatWasAdmitted'
  <2>1. \A p \in pins' : p \in pins \/ p = new
    BY <1>1
  <2>2. entry \in ledger' /\ entry.vm = new.vm /\ entry.need.cpu = n.cpu
    BY <1>1
  <2>3. AllOnline' <=> AllOnline
    BY <1>1 DEF AllOnline
  <2> HIDE DEF new, entry
  <2>4. \A p \in pins' : \E e \in ledger' :
          /\ e.vm = p.vm /\ Cardinality(CoresOf(p)) = e.need.cpu
          /\ AllOnline => CoresOf(p) \subseteq host.online
    BY <1>1, <1>5, <1>6, <2>1, <2>2 DEF PairedInv, PinsAreWhatWasAdmitted
  <2> QED
    BY <1>1, <2>3, <2>4 DEF PinsAreWhatWasAdmitted, CoresOf
<1>8. \A p \in pins' : IsFiniteSet(CoresOf(p))
  BY <1>1, <1>5 DEF PairedInv
<1> QED
  BY <1>1, <1>2, <1>4, <1>7, <1>8 DEF PairedInv, CoresOf

(* Other steps forget pins, or add entries that have none.                 *)
LEMMA PinsStayPaired ==
  ASSUME PairedInv, LedgerInv', host' = host, pins' \subseteq pins,
         \A p \in pins' : \A e \in ledger : e.vm = p.vm => e \in ledger'
  PROVE  PairedInv'
<1>1. AllOnline' <=> AllOnline
  BY DEF AllOnline
<1>2. PinsAreWhatWasAdmitted'
  BY <1>1 DEF PairedInv, PinsAreWhatWasAdmitted, CoresOf
<1> QED
  BY <1>2 DEF PairedInv, CoresOf

LEMMA PairedInvHolds == PinningSpec => []PairedInv
<1>1. ASSUME PinningInit PROVE PairedInv
  BY <1>1, FS_EmptySet DEF PinningInit, CapacityInit, LedgerInv, PairedInv, PinsAreWhatWasAdmitted
<1>2. ASSUME PairedInv, [PinningNext]_pinVars PROVE PairedInv'
  <2>1. LedgerInv'
    BY <1>2, LedgerStep DEF PairedInv
  <2>2. ASSUME NEW v \in VMs, NEW n \in Needs, AdmitPinned(v, n)
        PROVE  PairedInv'
    <3>1. CASE Pin(n.cpu) = Refused
      <4>1. UNCHANGED <<ledger, pins, host>>
        BY <2>2, <3>1 DEF AdmitPinned
      <4> QED
        BY <1>2, <2>1, <4>1, PinsStayPaired
    <3> QED
      BY <1>2, <2>2, <3>1, AdmitPinnedIsPaired
  <2>3. ASSUME NEW v \in VMs, NEW n \in Needs, AllocateUnpinned(v, n)
        PROVE  PairedInv'
    <3>1. UNCHANGED <<pins, host>> /\ ledger \subseteq ledger'
      BY <2>3 DEF AllocateUnpinned, Allocate
    <3> QED
      BY <1>2, <2>1, <3>1, PinsStayPaired
  <2>4. ASSUME NEW v \in VMs, ReleasePinned(v)
        PROVE  PairedInv'
    <3>1. /\ host' = host /\ ledger' = {e \in ledger : e.vm # v}
          /\ pins' = {p \in pins : p.vm # v}
      BY <2>4 DEF ReleasePinned, Release
    <3> QED
      BY <1>2, <2>1, <3>1, PinsStayPaired
  <2>5. CASE ImageStep /\ UNCHANGED <<host, pins>>
    <3>1. ledger' = ledger
      BY <2>5 DEF ImageStep, FillImage, DeleteImage
    <3> QED
      BY <1>2, <2>1, <2>5, <3>1, PinsStayPaired
  <2>6. CASE UNCHANGED pinVars
    BY <1>2, <2>1, <2>6, PinsStayPaired DEF pinVars
  <2> QED
    BY <1>2, <2>2, <2>3, <2>4, <2>5, <2>6 DEF PinningNext
<1> QED
  BY <1>1, <1>2, PTL DEF PinningSpec

(* A VM gets as many cores as it was admitted with, and, with no CPU       *)
(* offline, cores that exist: what is written as a cpuset loses none.      *)
THEOREM PinsAreAlwaysWhatWasAdmitted == PinningSpec => []PinsAreWhatWasAdmitted
  BY PairedInvHolds, PTL DEF PairedInv

-----------------------------------------------------------------------------
(* A core that is nobody's is not blocked.                                 *)
LEMMA FreeIsNotBlocked ==
  ASSUME host \in Hosts, DOMAIN host.nodes # {}, NEW id \in DOMAIN host.nodes
  PROVE  /\ NumaCores(host)[id] = ParseCpuList(host.nodes[id])
         /\ FreeOn(id) \subseteq NumaCores(host)[id] \ Blocked(host, Reserved, Taken)
         /\ IsFiniteSet(FreeOn(id))
<1>1. NumaCores(host)[id] = ParseCpuList(host.nodes[id])
  BY DEF NumaCores
<1>2. ASSUME NEW c \in FreeOn(id), NEW pair \in HyperthreadPairs(host), c \in pair
      PROVE  pair \cap Reserved = {}
  <2>1. pair \subseteq SiblingsOf(c)
    BY <1>2 DEF HyperthreadPairs, SiblingsOf
  <2> QED
    BY <1>2, <2>1 DEF FreeOn
<1>3. \A c \in FreeOn(id) : c \in ParseCpuList(host.nodes[id]) /\ c \notin Taken \cup Reserved
  BY DEF FreeOn
<1>4. FreeOn(id) \subseteq NumaCores(host)[id] \ Blocked(host, Reserved, Taken)
  BY <1>1, <1>2, <1>3 DEF Blocked
<1>5. IsHost(host)
  BY PinningAssumption
<1>6. IsFiniteSet(FreeOn(id))
  <2>1. FreeOn(id) \subseteq host.cpus
    BY <1>3, <1>5 DEF IsHost
  <2> QED
    BY <1>5, <2>1, FS_Subset DEF IsHost
<1> QED
  BY <1>1, <1>4, <1>6

(* A VM's cores are on the node it is told, unless no one node had as many *)
(* cores that were nobody's.                                               *)
THEOREM AlwaysOneNodeWherePossible == PinningSpec => OneNodeWherePossible
<1> DEFINE OneNode(p) ==
      \/ DOMAIN host.nodes = {}
      \/ /\ p.node \in DOMAIN host.nodes
         /\ CoresOf(p) \subseteq ParseCpuList(host.nodes[p.node])
      \/ \A id \in DOMAIN host.nodes : Cardinality(FreeOn(id)) < Cardinality(CoresOf(p))
<1>1. ASSUME host \in Hosts, [PinningNext]_pinVars, NEW p \in pins' \ pins
      PROVE  OneNode(p)
  <2>1. PICK v \in VMs, n \in Needs : AdmitPinned(v, n)
    BY <1>1 DEF PinningNext, AllocateUnpinned, ReleasePinned, pinVars
  <2>2. /\ Pin(n.cpu) # Refused /\ p.node = Pin(n.cpu).node
        /\ CoresOf(p) = CoresOf(Pin(n.cpu))
    BY <1>1, <2>1 DEF AdmitPinned, CoresOf
  <2> SUFFICES ASSUME DOMAIN host.nodes # {}
               PROVE  OneNode(p)
    OBVIOUS
  <2>3. DOMAIN NumaCores(host) = DOMAIN host.nodes
    BY DEF NumaCores
  <2> DEFINE blocked == Blocked(host, Reserved, Taken)
             cores == CoresOf(Pin(n.cpu))
             free(id) == NumaCores(host)[id] \ blocked
  <2>4. /\ n.cpu \in Nat /\ Cardinality(cores) = n.cpu
        /\ \/ Pin(n.cpu).node \in DOMAIN NumaCores(host) /\ cores \subseteq free(Pin(n.cpu).node)
           \/ \A id \in DOMAIN NumaCores(host) : Cardinality(free(id)) < n.cpu
    BY <1>1, <2>2, AdmittedPin
  <2>5. CASE Pin(n.cpu).node \in DOMAIN NumaCores(host) /\ cores \subseteq free(Pin(n.cpu).node)
    BY <1>1, <2>2, <2>3, <2>5, FreeIsNotBlocked
  <2>6. CASE \A id \in DOMAIN NumaCores(host) : Cardinality(free(id)) < n.cpu
    <3>1. ASSUME NEW id \in DOMAIN host.nodes
          PROVE  Cardinality(FreeOn(id)) < n.cpu
      <4>1. FreeOn(id) \subseteq free(id) /\ IsFiniteSet(FreeOn(id))
        BY <1>1, <3>1, FreeIsNotBlocked
      <4>2. IsFiniteSet(free(id))
        <5>1. IsHost(host)
          BY <1>1, PinningAssumption
        <5> QED
          BY <2>3, <3>1, <5>1, CoresAreFinite, FS_Subset
      <4>3. Cardinality(free(id)) < n.cpu
        BY <2>3, <2>6, <3>1
      <4>4. Cardinality(FreeOn(id)) <= Cardinality(free(id))
        BY <4>1, <4>2, FS_Subset
      <4>5. Cardinality(FreeOn(id)) \in Nat /\ Cardinality(free(id)) \in Nat
        BY <4>1, <4>2, FS_CardinalityType
      <4> HIDE DEF free
      <4> QED
        BY <2>4, <4>3, <4>4, <4>5
    <3> QED
      BY <2>2, <2>4, <3>1
  <2> QED
    BY <2>4, <2>5, <2>6
<1>2. LedgerInv /\ PairedInv /\ [PinningNext]_pinVars => [\A p \in pins' \ pins : OneNode(p)]_pinVars
  BY <1>1 DEF PairedInv
<1>3. PinningSpec => [][\A p \in pins' \ pins : OneNode(p)]_pinVars
  BY <1>2, PairedInvHolds, LedgerInvHolds, PTL DEF PinningSpec
<1> QED
  BY <1>3 DEF OneNodeWherePossible

-----------------------------------------------------------------------------
(* The cores that are taken are no more than the ledger counts: each is    *)
(* one of the units that its VM's entry adds.                              *)
LEMMA TakenIsCounted ==
  ASSUME PairedInv
  PROVE  IsFiniteSet(Taken) /\ Cardinality(Taken) <= CPUOf(ledger)
<1> DEFINE need == [e \in ledger |-> e.need.cpu]
           pinOf(e) == CHOOSE p \in pins : p.vm = e.vm
           pinned == {e \in ledger : \E p \in pins : p.vm = e.vm}
           nth == [e \in pinned |->
                     CHOOSE f \in Bijection(1..e.need.cpu, CoresOf(pinOf(e))) : TRUE]
           units == {u \in Units(need) : u[1] \in pinned}
           core == [u \in units |-> nth[u[1]][u[2]]]
<1>1. \A e \in ledger : e.need.cpu \in Nat
  BY CapacityAssumption DEF PairedInv, LedgerInv, Entry
<1>2. IsFiniteSet(Units(need)) /\ Cardinality(Units(need)) = CPUOf(ledger)
  <2>1. IsFiniteSet(DOMAIN need) /\ \A e \in DOMAIN need : need[e] \in Nat
    BY <1>1 DEF PairedInv, LedgerInv
  <2> QED
    BY <2>1, TotalType DEF CPUOf, Total
<1>3. IsFiniteSet(units) /\ Cardinality(units) <= CPUOf(ledger)
  BY <1>2, FS_Subset
<1>4. ASSUME NEW e \in pinned
      PROVE  /\ pinOf(e) \in pins /\ pinOf(e).vm = e.vm
             /\ nth[e] \in Bijection(1..e.need.cpu, CoresOf(pinOf(e)))
  <2>1. pinOf(e) \in pins /\ pinOf(e).vm = e.vm
    BY <1>4
  <2>2. PICK d \in ledger : d.vm = pinOf(e).vm /\ Cardinality(CoresOf(pinOf(e))) = d.need.cpu
    BY <2>1 DEF PairedInv, PinsAreWhatWasAdmitted
  <2>3. d = e
    BY <1>4, <2>1, <2>2 DEF PairedInv, LedgerInv
  <2>4. IsFiniteSet(CoresOf(pinOf(e))) /\ Cardinality(CoresOf(pinOf(e))) = e.need.cpu
    BY <2>1, <2>2, <2>3 DEF PairedInv
  <2>5. ExistsBijection(1..e.need.cpu, CoresOf(pinOf(e)))
    BY <2>4, FS_CardinalityType
  <2> QED
    BY <1>4, <2>1, <2>5 DEF ExistsBijection
<1>5. ASSUME NEW u \in units
      PROVE  u[1] \in pinned /\ u[2] \in 1..u[1].need.cpu
  BY <1>5 DEF Units
<1>6. ASSUME NEW e \in pinned, NEW i \in 1..e.need.cpu
      PROVE  <<e, i>> \in units
  BY <1>6 DEF Units
<1> HIDE DEF need, pinned, units
<1>7. core \in [units -> Taken]
  <2>1. ASSUME NEW u \in units PROVE nth[u[1]][u[2]] \in Taken
    <3> DEFINE e == u[1]
    <3>1. e \in pinned /\ u[2] \in 1..e.need.cpu
      BY <1>5
    <3>2. /\ pinOf(e) \in pins
          /\ nth[e] \in Bijection(1..e.need.cpu, CoresOf(pinOf(e)))
      BY <1>4, <3>1
    <3> HIDE DEF nth, pinOf, e
    <3>3. nth[e] \in [1..e.need.cpu -> CoresOf(pinOf(e))]
      BY <3>2 DEF Bijection, Injection
    <3>4. nth[e][u[2]] \in CoresOf(pinOf(e))
      BY <3>1, <3>3
    <3>5. nth[e][u[2]] \in Taken
      BY <3>2, <3>4 DEF Taken
    <3> QED
      BY <3>5 DEF e
  <2> HIDE DEF nth, pinOf
  <2> QED
    BY <2>1
<1>8. ASSUME NEW c \in Taken PROVE \E u \in units : core[u] = c
  <2>1. PICK p \in pins : c \in CoresOf(p)
    BY DEF Taken
  <2>2. PICK e \in ledger : e.vm = p.vm
    BY DEF PairedInv, PinsAreWhatWasAdmitted
  <2>3. e \in pinned
    BY <2>2 DEF pinned
  <2>4. pinOf(e) = p
    BY <1>4, <2>2, <2>3 DEF PairedInv
  <2>5. PICK i \in 1..e.need.cpu : nth[e][i] = c
    BY <1>4, <2>1, <2>3, <2>4 DEF Bijection, Surjection
  <2>6. <<e, i>> \in units
    BY <1>6, <2>3
  <2>7. core[<<e, i>>] = c
    BY <2>5, <2>6
  <2> QED
    BY <2>6, <2>7
<1> HIDE DEF core
<1>9. core \in Surjection(units, Taken)
  BY <1>7, <1>8 DEF Surjection
<1>10. IsFiniteSet(Taken) /\ Cardinality(Taken) <= Cardinality(units)
  BY <1>3, <1>9, FS_Surjection
<1>11. Cardinality(Taken) \in Nat /\ Cardinality(units) \in Nat /\ CPUOf(ledger) \in Nat
  BY <1>3, <1>10, FS_CardinalityType, SumsAreNaturals DEF PairedInv, LedgerInv
<1> QED
  BY <1>3, <1>10, <1>11

(* A reserve that takes both threads of its cores blocks itself alone.     *)
LEMMA WholeReserveBlocks ==
  ASSUME ReserveIsWhole
  PROVE  Blocked(host, Reserved, Taken) = Reserved \cup Taken
<1>1. ASSUME NEW pair \in HyperthreadPairs(host), pair \cap Reserved # {}
      PROVE  pair \subseteq Reserved
  <2>1. PICK r \in Reserved : r \in pair
    BY <1>1
  <2>2. pair \subseteq SiblingsOf(r)
    BY <2>1 DEF HyperthreadPairs, SiblingsOf
  <2> QED
    BY <2>2 DEF ReserveIsWhole
<1> QED
  BY <1>1 DEF Blocked

(* What check_spec admits allocate_cores can pin, whatever was given and   *)
(* given back before, where no CPU is offline and the reserve takes both   *)
(* threads of its cores.                                                   *)
THEOREM AdmittedVMsAlwaysGetCores == PinningSpec => []AdmittedVMsGetCores
<1>1. ASSUME PairedInv PROVE AdmittedVMsGetCores
  <2> SUFFICES ASSUME AllOnline, ReserveIsWhole, NEW n \in Needs, n.cpu > 0, CheckSpec(n)
               PROVE  Pin(n.cpu) # Refused
    BY DEF AdmittedVMsGetCores
  <2>1. /\ n.cpu \in Nat \ {0} /\ TotalCPU \in Nat /\ ReservedCPU \in Nat
        /\ CPUOf(ledger) \in Nat
    BY <1>1, CapacityAssumption, SumsAreNaturals DEF PairedInv, LedgerInv
  <2>2. n.cpu + ReservedCPU + CPUOf(ledger) <= TotalCPU
    BY <1>1, AdmittedRoom DEF PairedInv
  <2>3. TotalCores(host) = TotalCPU
    BY <1>1, <2>1, <2>2, CoresAreOnline DEF PairedInv
  <2>4. IsFiniteSet(Taken) /\ Cardinality(Taken) <= CPUOf(ledger)
    BY <1>1, TakenIsCounted
  <2>5. IsFiniteSet(Reserved) /\ Cardinality(Reserved) = ReservedCPU
    BY PinningAssumption
  <2> DEFINE blocked == Blocked(host, Reserved, Taken)
             cores == 0..(TotalCPU - 1)
  <2>6. IsFiniteSet(blocked) /\ Cardinality(blocked) <= ReservedCPU + CPUOf(ledger)
    <3>1. blocked = Reserved \cup Taken
      BY WholeReserveBlocks
    <3>2. /\ IsFiniteSet(Reserved \cup Taken)
          /\ Cardinality(Reserved \cup Taken)
               = Cardinality(Reserved) + Cardinality(Taken) - Cardinality(Reserved \cap Taken)
      BY <2>4, <2>5, FS_Union
    <3>3. Cardinality(Taken) \in Nat /\ Cardinality(Reserved \cap Taken) \in Nat
      BY <2>4, <2>5, FS_CardinalityType, FS_Intersection
    <3> QED
      BY <2>1, <2>4, <2>5, <3>1, <3>2, <3>3
  <2> HIDE DEF blocked
  <2>7. IsFiniteSet(cores) /\ Cardinality(cores) = TotalCPU
    <3>1. /\ 0 \in Int /\ TotalCPU - 1 \in Int
          /\ ~(0 > TotalCPU - 1) /\ (TotalCPU - 1) - 0 + 1 = TotalCPU
      BY <2>1, <2>2
    <3> QED
      BY <3>1, FS_Interval
  <2> HIDE DEF cores
  <2>8. Cardinality(cores \ blocked) >= n.cpu
    <3>1. Cardinality(cores \ blocked) = Cardinality(cores) - Cardinality(cores \cap blocked)
      BY <2>7, FS_Difference
    <3>2. Cardinality(cores \cap blocked) <= Cardinality(blocked)
      BY <2>6, FS_Intersection
    <3>3. Cardinality(cores \cap blocked) \in Nat /\ Cardinality(blocked) \in Nat
      BY <2>6, <2>7, FS_CardinalityType, FS_Intersection
    <3> QED
      BY <2>1, <2>2, <2>6, <2>7, <3>1, <3>2, <3>3
  <2>9. Fallback(host, blocked) = cores \ blocked
    BY <2>3 DEF Fallback, cores
  <2>10. Pin(n.cpu) = Refused => Cardinality(Fallback(host, blocked)) < n.cpu
    <3>1. IsHost(host)
      BY <1>1, PinningAssumption DEF PairedInv
    <3> QED
      BY <2>1, <3>1, AllocateCoresIsExact DEF Pin, blocked
  <2>11. Cardinality(cores \ blocked) \in Nat
    BY <2>7, FS_Difference, FS_CardinalityType
  <2> QED
    BY <2>1, <2>8, <2>9, <2>10, <2>11
<1> QED
  BY <1>1, PairedInvHolds, PTL
=============================================================================
