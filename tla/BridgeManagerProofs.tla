------------------------ MODULE BridgeManagerProofs ------------------------
(***************************************************************************)
(* Proofs about InterfacePool, BridgeManager and InterfaceRestart, for any *)
(* sets of sessions and spellings, any LowerCase that is idempotent, and   *)
(* any bounds.                                                             *)
(***************************************************************************)
EXTENDS InterfaceRestart, TLAPS

Calls == {Idle} \cup [session : Sessions, vnet : 0 .. MaxVnets - 1,
                       draws : 0 .. MaxRetries]

(* A call under way has a session of its own; the idle one has none.       *)
LEMMA CallFacts ==
  ASSUME call \in Calls
  PROVE  /\ call = Idle <=> call.session = NoSession
         /\ call # Idle => /\ call.session \in Sessions
                           /\ call.vnet \in 0 .. MaxVnets - 1
                           /\ call.draws \in 0 .. MaxRetries
BY BridgeAssumption DEF Calls, Idle, BridgeAssumption

(* Lowering an address that was lowered changes nothing.                   *)
LEMMA MACsAreLower == \A m \in MACs : LowerCase[m] = m
BY BridgeAssumption DEF MACs, BridgeAssumption

(* An allocation starts with the next name, and records nothing yet.       *)
LEMMA AllocateEffect ==
  ASSUME BridgeTypeOK, NEW s \in Sessions, Allocate(s)
  PROVE  /\ call = Idle /\ call' # Idle /\ call' \in Calls
         /\ call'.session = s /\ call'.vnet = nextVnet
         /\ nextVnet' = nextVnet + 1
         /\ nextVnet \in 0 .. MaxVnets - 1 /\ nextVnet' \in 0 .. MaxVnets
         /\ ~HasInterface(s)
         /\ UNCHANGED <<interfaces, allocatedVnets, allocatedMacs>>
BY BridgeAssumption DEF Allocate, Calls, Idle, BridgeTypeOK, BridgeAssumption

(* A draw in vain changes the count of draws only.                         *)
LEMMA DrawTakenEffect ==
  ASSUME BridgeTypeOK, NEW x \in Spellings, DrawTaken(x)
  PROVE  /\ call # Idle /\ call' # Idle /\ call' \in Calls
         /\ call'.session = call.session /\ call'.vnet = call.vnet
         /\ UNCHANGED <<interfaces, allocatedVnets, allocatedMacs, nextVnet>>
<1>1. call \in Calls /\ call # Idle /\ call.draws < MaxRetries
  BY DEF DrawTaken, Drawing, BridgeTypeOK, Calls
<1>2. call \in [session : Sessions, vnet : 0 .. MaxVnets - 1, draws : 0 .. MaxRetries]
  BY <1>1 DEF Calls
<1>3. call' = [call EXCEPT !.draws = @ + 1]
  BY DEF DrawTaken
<1>4. call.draws + 1 \in 0 .. MaxRetries
  BY <1>1, <1>2, BridgeAssumption DEF BridgeAssumption
<1>5. call' \in [session : Sessions, vnet : 0 .. MaxVnets - 1, draws : 0 .. MaxRetries]
  BY <1>2, <1>3, <1>4
<1>6. call'.session = call.session /\ call'.vnet = call.vnet
  BY <1>2, <1>3
<1> QED
  BY <1>1, <1>2, <1>5, <1>6, BridgeAssumption DEF DrawTaken, Calls, Idle, BridgeAssumption

(* A draw that succeeds records an address nobody holds.                   *)
LEMMA DrawFreeEffect ==
  ASSUME BridgeTypeOK, NEW x \in Spellings, DrawFree(x)
  PROVE  \E mac \in MACs :
           /\ mac \notin allocatedMacs
           /\ call # Idle /\ call \in Calls
           /\ [session |-> call.session, vnet |-> call.vnet, mac |-> mac] \in Interface
           /\ Record(mac)
<1>1. call \in Calls /\ call # Idle
  BY DEF DrawFree, Drawing, BridgeTypeOK, Calls
<1>2. LowerCase[x] \in MACs /\ LowerCase[x] \notin allocatedMacs /\ Record(LowerCase[x])
  BY DEF DrawFree, MACs
<1> QED
  BY <1>1, <1>2, CallFacts DEF Interface

-----------------------------------------------------------------------------
(* A new manager has the types.                                            *)
LEMMA BridgeTypeInit == BridgeInit => BridgeTypeOK
BY BridgeAssumption DEF BridgeInit, BridgeTypeOK, BridgeAssumption

(* Every step keeps them.                                                  *)
LEMMA BridgeTypeStep ==
  ASSUME BridgeTypeOK, [BridgeNext]_bridgeVars
  PROVE  BridgeTypeOK'
<1>1. ASSUME NEW x \in Spellings, DrawTaken(x)
      PROVE  BridgeTypeOK'
  BY <1>1, DrawTakenEffect DEF BridgeTypeOK, Calls
<1>2. ASSUME NEW x \in Spellings, DrawFree(x)
      PROVE  BridgeTypeOK'
  BY <1>2, DrawFreeEffect, CallFacts DEF BridgeTypeOK, Record
<1>3. CASE RetriesExhausted \/ FactoryExhausted
  BY <1>3 DEF RetriesExhausted, FactoryExhausted, Fail, BridgeTypeOK
<1>4. ASSUME NEW s \in Sessions, Allocate(s)
      PROVE  BridgeTypeOK'
  BY <1>4, AllocateEffect DEF BridgeTypeOK, Calls
<1>5. ASSUME NEW s \in Sessions, Deallocate(s)
      PROVE  BridgeTypeOK'
  BY <1>5 DEF Deallocate, BridgeTypeOK
<1>6. CASE UNCHANGED bridgeVars
  BY <1>6 DEF bridgeVars, BridgeTypeOK
<1> QED
  BY <1>1, <1>2, <1>3, <1>4, <1>5, <1>6
  DEF BridgeNext, LoopRuns, AllocateAgain, DeallocateNone

(* BridgeTypeOK holds of every reachable state.                            *)
THEOREM BridgeTypeCorrect == BridgeSpec => []BridgeTypeOK
BY BridgeTypeInit, BridgeTypeStep, PTL DEF BridgeSpec

-----------------------------------------------------------------------------
(* The two sets are the mapping's, every name is below the counter, and    *)
(* so a recorded interface shares nothing with the others.                 *)
BridgeInv == SetsMatchMapping /\ NamesAreCounted /\ NoTwoSessionsShare

(* Every step keeps the three.                                             *)
LEMMA BridgeInvStep ==
  ASSUME BridgeTypeOK, BridgeInv, [BridgeNext]_bridgeVars
  PROVE  BridgeInv'
<1> USE DEF BridgeInv, SetsMatchMapping, NamesAreCounted, NoTwoSessionsShare, HasInterface
<1>0. /\ call \in Calls /\ interfaces \subseteq Interface
      /\ nextVnet \in Nat /\ allocatedVnets \subseteq 0 .. MaxVnets - 1
  BY BridgeAssumption DEF BridgeTypeOK, Calls, BridgeAssumption
<1>1. ASSUME NEW x \in Spellings, DrawTaken(x)
      PROVE  BridgeInv'
  BY <1>1, DrawTakenEffect
<1>2. ASSUME NEW x \in Spellings, DrawFree(x)
      PROVE  BridgeInv'
  <2>1. PICK mac \in MACs :
          /\ mac \notin allocatedMacs
          /\ call # Idle /\ call \in Calls
          /\ [session |-> call.session, vnet |-> call.vnet, mac |-> mac] \in Interface
          /\ Record(mac)
    BY <1>2, DrawFreeEffect
  <2> DEFINE new == [session |-> call.session, vnet |-> call.vnet, mac |-> mac]
  <2>2. /\ interfaces' = interfaces \cup {new} /\ nextVnet' = nextVnet /\ call' = Idle
        /\ allocatedVnets' = allocatedVnets \cup {new.vnet}
        /\ allocatedMacs' = allocatedMacs \cup {new.mac}
    BY <2>1 DEF Record
  <2>3. ASSUME NEW i \in interfaces
        PROVE  /\ i.session # new.session /\ i.vnet # new.vnet
               /\ LowerCase[i.mac] # LowerCase[new.mac]
    <3>1. i.session # new.session
      BY <2>1
    <3>2. i.vnet # new.vnet
      BY <2>1
    <3>3. i.mac \in MACs /\ i.mac # new.mac
      BY <1>0, <2>1 DEF Interface
    <3> QED
      BY <2>1, <3>1, <3>2, <3>3, MACsAreLower
  <2>4. SetsMatchMapping'
    BY <2>2
  <2>5. NamesAreCounted'
    BY <2>1, <2>2
  <2>6. NoTwoSessionsShare'
    BY <2>2, <2>3
  <2> QED
    BY <2>4, <2>5, <2>6
<1>3. CASE RetriesExhausted \/ FactoryExhausted
  BY <1>3 DEF RetriesExhausted, FactoryExhausted, Fail
<1>4. ASSUME NEW s \in Sessions, Allocate(s)
      PROVE  BridgeInv'
  <2>1. nextVnet \notin allocatedVnets
    BY <1>0
  <2>2. \A i \in interfaces : i.vnet < nextVnet + 1
    BY <1>0 DEF Interface
  <2> QED
    BY <1>0, <1>4, <2>1, <2>2, AllocateEffect
<1>5. ASSUME NEW s \in Sessions, Deallocate(s)
      PROVE  BridgeInv'
  <2>1. PICK i \in interfaces :
          /\ i.session = s
          /\ interfaces' = interfaces \ {i}
          /\ allocatedVnets' = allocatedVnets \ {i.vnet}
          /\ allocatedMacs' = allocatedMacs \ {i.mac}
    BY <1>5 DEF Deallocate
  <2>2. \A j \in interfaces : j # i => j.vnet # i.vnet /\ j.mac # i.mac
    BY <2>1
  <2>3. SetsMatchMapping'
    BY <2>1, <2>2
  <2> QED
    BY <1>5, <2>1, <2>3 DEF Deallocate
<1>6. CASE UNCHANGED bridgeVars
  BY <1>6 DEF bridgeVars
<1> QED
  BY <1>1, <1>2, <1>3, <1>4, <1>5, <1>6 DEF BridgeNext, LoopRuns, AllocateAgain, DeallocateNone

(* A new manager has them.                                                 *)
LEMMA BridgeInvInit == BridgeInit => BridgeInv
BY DEF BridgeInit, BridgeInv, SetsMatchMapping, NamesAreCounted, NoTwoSessionsShare

(* No two sessions hold the same name, or the same address however it is   *)
(* spelled.                                                                *)
THEOREM NamesAndAddressesAreUnique == BridgeSpec => []NoTwoSessionsShare
BY BridgeInvInit, BridgeInvStep, BridgeTypeCorrect, PTL DEF BridgeSpec, BridgeInv

(* What the two sets say is in use is exactly what a session holds.        *)
THEOREM SetsAreExact == BridgeSpec => []SetsMatchMapping
BY BridgeInvInit, BridgeInvStep, BridgeTypeCorrect, PTL DEF BridgeSpec, BridgeInv

-----------------------------------------------------------------------------
(* Each step of the manager is a step of the pool, or none of its.         *)
LEMMA PoolStep ==
  ASSUME BridgeTypeOK, BridgeInv, [BridgeNext]_bridgeVars
  PROVE  [Pool!PoolNext]_(Pool!pool)
<1> USE DEF BridgeInv, SetsMatchMapping, NamesAreCounted, NoTwoSessionsShare, HasInterface
<1>0. /\ call \in Calls /\ interfaces \subseteq Interface /\ nextVnet \in 0 .. MaxVnets
  BY BridgeAssumption DEF BridgeTypeOK, Calls, BridgeAssumption
<1>1. ASSUME NEW x \in Spellings, DrawTaken(x)
      PROVE  UNCHANGED <<interfaces, Spent>>
  BY <1>1, DrawTakenEffect DEF Spent
<1>2. ASSUME NEW x \in Spellings, DrawFree(x)
      PROVE  \E s \in Sessions, n \in 0 .. MaxVnets - 1, m \in MACs : Pool!Grant(s, n, m)
  <2>1. PICK mac \in MACs :
          /\ mac \notin allocatedMacs
          /\ call # Idle /\ call \in Calls
          /\ Record(mac)
    BY <1>2, DrawFreeEffect
  <2>2. call.session \in Sessions /\ call.vnet \in 0 .. MaxVnets - 1 /\ call.vnet < nextVnet
    BY <2>1, CallFacts
  <2>3. call.vnet \notin Spent /\ Spent' = Spent \cup {call.vnet}
    BY <1>0, <2>1, <2>2 DEF Record, Spent
  <2>4. \A h \in interfaces : h.session # call.session /\ h.mac # mac
    BY <2>1
  <2>5. Pool!Grant(call.session, call.vnet, mac)
    BY <2>1, <2>3, <2>4 DEF Pool!Grant, Record
  <2> QED
    BY <2>1, <2>2, <2>5
<1>3. ASSUME RetriesExhausted \/ FactoryExhausted
      PROVE  \E n \in 0 .. MaxVnets - 1 : Pool!Skip(n)
  <2>1. call # Idle /\ call' = Idle /\ UNCHANGED <<interfaces, nextVnet>>
    BY <1>3 DEF RetriesExhausted, FactoryExhausted, Drawing, Fail
  <2>2. call.vnet \in 0 .. MaxVnets - 1 /\ call.vnet < nextVnet
    BY <1>0, <2>1, CallFacts
  <2>3. Spent' = Spent \cup {call.vnet}
    BY <1>0, <2>1, <2>2 DEF Spent
  <2> QED
    BY <2>1, <2>2, <2>3 DEF Pool!Skip
<1>4. ASSUME NEW s \in Sessions, Allocate(s)
      PROVE  UNCHANGED <<interfaces, Spent>>
  BY <1>0, <1>4, AllocateEffect DEF Spent
<1>5. ASSUME NEW s \in Sessions, Deallocate(s)
      PROVE  Pool!Withdraw(s)
  <2>1. PICK i \in interfaces : i.session = s /\ interfaces' = interfaces \ {i}
    BY <1>5 DEF Deallocate
  <2>2. interfaces' = {h \in interfaces : h.session # s}
    BY <2>1
  <2>3. Spent' = Spent
    BY <1>5 DEF Deallocate, Spent
  <2> QED
    BY <2>2, <2>3 DEF Pool!Withdraw
<1>6. ASSUME UNCHANGED bridgeVars
      PROVE  UNCHANGED <<interfaces, Spent>>
  BY <1>6 DEF bridgeVars, Spent
<1> QED
  BY <1>1, <1>2, <1>3, <1>4, <1>5, <1>6
  DEF BridgeNext, LoopRuns, AllocateAgain, DeallocateNone, Pool!PoolNext, Pool!pool

(* The manager implements the pool: the call that raises half way costs a  *)
(* name and nothing else.                                                  *)
THEOREM BridgeImplementsPool == BridgeSpec => ImplementsPool
<1>1. ASSUME BridgeInit
      PROVE  Pool!PoolInit
  BY <1>1, BridgeAssumption DEF BridgeInit, Pool!PoolInit, Spent, BridgeAssumption
<1>2. BridgeTypeOK /\ BridgeInv /\ [BridgeNext]_bridgeVars => [Pool!PoolNext]_(Pool!pool)
  BY PoolStep
<1> QED
  BY <1>1, <1>2, BridgeInvInit, BridgeInvStep, BridgeTypeCorrect, PTL
  DEF BridgeSpec, ImplementsPool, Pool!PoolSpec

-----------------------------------------------------------------------------
(* A pool never shares: a name in use was spent, so it cannot be given out *)
(* again, and a grant looks at who holds what.                             *)
HeldAreSpent == \A h \in interfaces : h.vnet \in Spent

(* Every step of a pool keeps both.                                        *)
LEMMA PoolShareStep ==
  ASSUME Pool!NoSharing, HeldAreSpent, [Pool!PoolNext]_(Pool!pool)
  PROVE  Pool!NoSharing' /\ HeldAreSpent'
<1> USE DEF Pool!NoSharing, HeldAreSpent
<1>1. ASSUME NEW s \in Sessions, NEW n \in 0 .. MaxVnets - 1, NEW m \in MACs,
             Pool!Grant(s, n, m)
      PROVE  Pool!NoSharing' /\ HeldAreSpent'
  <2> DEFINE new == [session |-> s, vnet |-> n, mac |-> m]
  <2>1. interfaces' = interfaces \cup {new} /\ Spent' = Spent \cup {n}
    BY <1>1 DEF Pool!Grant
  <2>2. \A h \in interfaces : h.session # s /\ h.vnet # n /\ h.mac # m
    BY <1>1 DEF Pool!Grant
  <2> QED
    BY <2>1, <2>2
<1>2. ASSUME NEW n \in 0 .. MaxVnets - 1, Pool!Skip(n)
      PROVE  Pool!NoSharing' /\ HeldAreSpent'
  BY <1>2 DEF Pool!Skip
<1>3. ASSUME NEW s \in Sessions, Pool!Withdraw(s)
      PROVE  Pool!NoSharing' /\ HeldAreSpent'
  BY <1>3 DEF Pool!Withdraw
<1>4. CASE UNCHANGED Pool!pool
  BY <1>4 DEF Pool!pool
<1> QED
  BY <1>1, <1>2, <1>3, <1>4 DEF Pool!PoolNext

(* What a pool promises (bridge.py:65) is kept by whatever implements it:  *)
(* two interfaces that share a session, a name or an address are the same. *)
THEOREM PoolNeverShares == Pool!PoolSpec => []Pool!NoSharing
<1>1. Pool!PoolInit => Pool!NoSharing /\ HeldAreSpent
  BY DEF Pool!PoolInit, Pool!NoSharing, HeldAreSpent
<1> QED
  BY <1>1, PoolShareStep, PTL DEF Pool!PoolSpec

-----------------------------------------------------------------------------
(* Across restarts (InterfaceRestart): what the manager knows is right, in *)
(* each life of the daemon.                                                *)
RestartInv == BridgeTypeOK /\ BridgeInv

(* A new manager knows nothing, which is right; the end of a VM that the   *)
(* manager does not know is none of its steps.                             *)
LEMMA RestartInvStep ==
  ASSUME RestartInv, [RestartNext]_restartVars
  PROVE  RestartInv'
<1>1. CASE RestartDaemon
  <2>1. BridgeTypeOK'
    BY <1>1, BridgeAssumption DEF RestartDaemon, BridgeTypeOK, BridgeAssumption
  <2>2. BridgeInv'
    BY <1>1 DEF RestartDaemon, BridgeInv, SetsMatchMapping, NamesAreCounted, NoTwoSessionsShare
  <2> QED
    BY <2>1, <2>2 DEF RestartInv
<1>2. CASE [BridgeNext]_bridgeVars
  BY <1>2, BridgeTypeStep, BridgeInvStep DEF RestartInv
<1> QED
  BY <1>1, <1>2 DEF RestartNext, BridgeStep, VMEnds, restartVars

(* The first manager knows nothing either.                                 *)
LEMMA RestartInvInit == RestartInit => RestartInv
BY BridgeTypeInit, BridgeInvInit DEF RestartInit, RestartInv

(* Two VMs that run with the same name or address are never both of        *)
(* sessions the running manager knows: at least one was started before the *)
(* last restart.                                                           *)
OneOfAClashIsASurvivor ==
  \A i, j \in attached :
    Clash(i, j) /\ i # j => i \notin interfaces \/ j \notin interfaces

(* However often the daemon restarts, a name or address given twice        *)
(* (AttachedAreUnique shows that it happens) was given once by a manager   *)
(* that is gone: run_daemon's new one (daemon.py:175) never gives it twice *)
(* itself.                                                                 *)
THEOREM OnlySurvivorsClash == RestartSpec => []OneOfAClashIsASurvivor
<1>1. RestartInv => OneOfAClashIsASurvivor
  BY DEF RestartInv, BridgeInv, NoTwoSessionsShare, OneOfAClashIsASurvivor, Clash
<1> QED
  BY <1>1, RestartInvInit, RestartInvStep, PTL DEF RestartSpec

(* A host whose daemon is restarted only when no VM runs.                  *)
DrainedNext ==
  \/ BridgeStep
  \/ \E i \in Interface : VMEnds(i)
  \/ attached = {} /\ RestartDaemon

DrainedSpec == RestartInit /\ [][DrainedNext]_restartVars

(* There, the VMs run with exactly what the manager says is held.          *)
AttachedAreHeld == attached = interfaces

(* Every step keeps it so.                                                 *)
LEMMA DrainedStep ==
  ASSUME AttachedAreHeld, [DrainedNext]_restartVars
  PROVE  AttachedAreHeld'
BY DEF AttachedAreHeld, DrainedNext, BridgeStep, VMEnds, RestartDaemon, restartVars, bridgeVars

(* And the promise of bridge.py:65 holds of the host as a whole: the       *)
(* restart over live VMs, which nothing in the code prevents, is all that  *)
(* breaks it.                                                              *)
THEOREM DrainedHostsNeverClash == DrainedSpec => []AttachedAreUnique
<1>1. RestartInit => AttachedAreHeld
  BY DEF RestartInit, BridgeInit, AttachedAreHeld
<1>2. [DrainedNext]_restartVars => [RestartNext]_restartVars
  BY DEF DrainedNext, RestartNext
<1>3. RestartInv /\ AttachedAreHeld => AttachedAreUnique
  BY DEF RestartInv, BridgeInv, NoTwoSessionsShare, AttachedAreHeld, AttachedAreUnique, Clash
<1> QED
  BY <1>1, <1>2, <1>3, RestartInvInit, RestartInvStep, DrainedStep, PTL DEF DrainedSpec
=============================================================================
