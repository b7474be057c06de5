------------------------ MODULE MetadataStoreProofs ------------------------
(***************************************************************************)
(* Proofs about MetadataStore, for any sets of sessions, VMs and statuses  *)
(* and any bounds.                                                         *)
(***************************************************************************)
EXTENDS MetadataStore, TLAPS

(* The calls that write no VM id into the call in flight keep its type.    *)
LEMMA CallTypes ==
  ASSUME call \in Calls
  PROVE  /\ call.op \in SessionCommits => call.key \in Sessions
         /\ call.op \in VMCommits => call.key \in VMs /\ call.vmIds = {}
         /\ call.vmIds \subseteq VMs
         /\ call.op \in SessionCommits \cup VMCommits \cup {"none"}
         /\ call = Idle <=> call.op = "none"
BY DEF Calls, Idle, SessionCommits, VMCommits

(* The replies and the idle call are well formed.                          *)
LEMMA ConstantTypes ==
  /\ {Returned, Raised, NoReply} \subseteq Replies
  /\ Idle \in Calls
BY DEF Returned, Raised, NoReply, Replies, Idle, Calls

(* A step keeps every variable in its type: one step per action.           *)
LEMMA TypeStep ==
  ASSUME TypeOK, [Next]_vars
  PROVE  TypeOK'
<1> USE DEF TypeOK
<1>1. CASE OneCommitCall
  <2>1. ASSUME NEW s \in Sessions, CreateSession(s)
        PROVE  TypeOK'
    <3>1. reply' \in Replies
      BY <2>1, ConstantTypes DEF CreateSession, Ends
    <3> QED
      BY <2>1, <3>1 DEF CreateSession, Ready, Ends
  <2>2. ASSUME NEW s \in Sessions, UpdateSession(s) \/ UpdateProxy(s)
        PROVE  TypeOK'
    BY <2>2 DEF UpdateSession, UpdateProxy, Ready, Ends, Returned, Replies, tables
  <2>3. ASSUME NEW s \in Sessions, CreateProxy(s) \/ DeleteProxy(s)
        PROVE  TypeOK'
    BY <2>3 DEF CreateProxy, DeleteProxy, Ready, Ends, Returned, Raised, Replies
  <2>4. ASSUME NEW s \in Sessions, CreateSharedFolder(s) \/ DeleteSharedFolder(s)
        PROVE  TypeOK'
    BY <2>4 DEF CreateSharedFolder, DeleteSharedFolder, Ready, Ends, Returned, Raised, Replies
  <2>5. ASSUME NEW s \in Sessions, InsertAuditEvent(s)
        PROVE  TypeOK'
    BY <2>5 DEF InsertAuditEvent, Ready, Ends, Returned, Replies
  <2>6. ASSUME NEW s \in Sessions, NEW active \in BOOLEAN, CreateNetworkRule(s, active)
        PROVE  TypeOK'
    BY <2>6, StoreAssumption
    DEF CreateNetworkRule, NextRuleId, Ready, Ends, Returned, Replies, RuleRow,
        Histories, StoreAssumption
  <2>7. ASSUME NEW s \in Sessions, DeactivateAllNetworkRules(s)
        PROVE  TypeOK'
    BY <2>7 DEF DeactivateAllNetworkRules, Removed, Ready, Ends, Returned, Replies, RuleRow
  <2>8. ASSUME NEW s \in Sessions, DeleteNetworkRules(s)
        PROVE  TypeOK'
    BY <2>8 DEF DeleteNetworkRules, Ready, Ends, Returned, Replies
  <2>9. ASSUME NEW i \in 1 .. MaxRules, DeactivateNetworkRule(i)
        PROVE  TypeOK'
    BY <2>9 DEF DeactivateNetworkRule, Removed, Ready, Ends, Returned, Replies, RuleRow
  <2>10. ASSUME NEW v \in VMs, NEW s \in Sessions, NEW status \in Statuses,
                CreateVM(v, s, status)
         PROVE  TypeOK'
    <3>1. reply' \in Replies
      BY <2>10, ConstantTypes DEF CreateVM, Ends
    <3>2. vms' \subseteq VMRow
      BY <2>10 DEF CreateVM, VMRow
    <3>3. hist' \in Histories
      BY <2>10 DEF CreateVM, Histories
    <3> QED
      BY <2>10, <3>1, <3>2, <3>3 DEF CreateVM, Ends
  <2>11. ASSUME NEW v \in VMs, NEW s \in Sessions, NEW status \in Statuses,
                UpdateVM(v, s, status)
         PROVE  TypeOK'
    BY <2>11 DEF UpdateVM, Ready, Ends, Returned, Replies, VMRow, Histories
  <2>12. ASSUME NEW v \in VMs, CreateAllocation(v) \/ DeleteAllocation(v)
         PROVE  TypeOK'
    BY <2>12 DEF CreateAllocation, DeleteAllocation, Ready, Ends, Returned, Raised, Replies
  <2> QED
    BY <1>1, <2>1, <2>2, <2>3, <2>4, <2>5, <2>6, <2>7, <2>8, <2>9, <2>10, <2>11, <2>12
    DEF OneCommitCall
<1>2. CASE DeleteSessionCall
  <2>1. ASSUME NEW s \in Sessions, DeleteSession(s)
        PROVE  TypeOK'
    BY <2>1 DEF DeleteSession, Ready, VMIdsOf, VMRow, Calls, SessionCommits, Replies,
                NoReply, tables
  <2>2. CASE DeleteVMsOfSession
    BY <2>2, CallTypes DEF DeleteVMsOfSession, At, Continue, Calls, SessionCommits
  <2>3. CASE DeleteProxyOfSession
    BY <2>3, CallTypes DEF DeleteProxyOfSession, At, Continue, Calls, SessionCommits
  <2>4. CASE DeleteFolderOfSession
    BY <2>4, CallTypes DEF DeleteFolderOfSession, At, Continue, Calls, SessionCommits
  <2>5. CASE DeleteRulesOfSession
    BY <2>5, CallTypes DEF DeleteRulesOfSession, At, Continue, Calls, SessionCommits
  <2>6. CASE DeleteSessionRow
    <3>1. CASE call.vmIds = {}
      BY <2>6, <3>1, CallTypes, ConstantTypes
      DEF DeleteSessionRow, At, Finish, SessionCommits, Replies
    <3>2. CASE call.vmIds # {}
      BY <2>6, <3>2, CallTypes
      DEF DeleteSessionRow, At, Continue, Calls, SessionCommits
    <3> QED
      BY <3>1, <3>2
  <2>7. ASSUME NEW v \in VMs, DeleteAllocationOfSession(v)
        PROVE  TypeOK'
    <3>1. CASE call.vmIds = {v}
      BY <2>7, <3>1, CallTypes, ConstantTypes
      DEF DeleteAllocationOfSession, At, Finish, SessionCommits, Replies
    <3>2. CASE call.vmIds # {v}
      BY <2>7, <3>2, CallTypes
      DEF DeleteAllocationOfSession, At, Calls, SessionCommits
    <3> QED
      BY <3>1, <3>2
  <2> QED
    BY <1>2, <2>1, <2>2, <2>3, <2>4, <2>5, <2>6, <2>7 DEF DeleteSessionCall
<1>3. CASE DeleteVMCall
  <2>1. ASSUME NEW v \in VMs, DeleteVM(v)
        PROVE  TypeOK'
    BY <2>1 DEF DeleteVM, Ready, Calls, VMCommits, Replies, NoReply, tables
  <2>2. CASE DeleteAllocationOfVM
    BY <2>2, CallTypes DEF DeleteAllocationOfVM, At, Continue, Calls, VMCommits
  <2>3. CASE DeleteVMRow
    BY <2>3, CallTypes DEF DeleteVMRow, At, Finish, Calls, VMCommits, Replies
  <2> QED
    BY <1>3, <2>1, <2>2, <2>3 DEF DeleteVMCall
<1>4. CASE Lifecycle
  <2>1. CASE Initialize \/ Close \/ CallWhileClosed
    BY <2>1, ConstantTypes DEF Initialize, Close, CallWhileClosed, tables
  <2>2. CASE StatementFails \/ Crash
    <3>1. hist' = [hist EXCEPT !.cut = @ \cup Unfinished]
      BY <2>2 DEF StatementFails, Crash
    <3>2. Unfinished \subseteq VMs
      BY CallTypes DEF Unfinished
    <3>3. hist' \in Histories
      BY <3>1, <3>2 DEF Histories
    <3> QED
      BY <2>2, <3>3, ConstantTypes DEF StatementFails, Crash, tables
  <2> QED
    BY <1>4, <2>1, <2>2 DEF Lifecycle
<1>5. CASE UNCHANGED vars
  BY <1>5 DEF vars, tables
<1> QED
  BY <1>1, <1>2, <1>3, <1>4, <1>5 DEF Next

(* The empty store is well typed.                                          *)
LEMMA InitType == ASSUME Init PROVE TypeOK
<1>1. hist \in Histories
  BY DEF Init, Histories
<1>2. ruleSeq \in 0 .. MaxRules
  BY StoreAssumption DEF Init, StoreAssumption
<1>3. audit \in Seq(Sessions)
  BY DEF Init
<1>4. call \in Calls /\ reply \in Replies
  BY ConstantTypes DEF Init
<1> QED
  BY <1>1, <1>2, <1>3, <1>4 DEF Init, TypeOK

(* TypeOK holds of every reachable state.                                  *)
THEOREM TypeCorrect == Spec => []TypeOK
<1>1. Init => TypeOK
  BY InitType
<1> QED
  BY <1>1, TypeStep, PTL DEF Spec

-----------------------------------------------------------------------------
(* A call of one commit runs alone and ends with a reply.                  *)
LEMMA OneCommitEnds ==
  ASSUME OneCommitCall
  PROVE  /\ call = Idle /\ call' = Idle
         /\ reply' \in {Returned, Raised}
         /\ open'
BY DEF OneCommitCall, Ready, Ends, CreateSession, UpdateSession, CreateProxy, UpdateProxy,
       DeleteProxy, CreateSharedFolder, DeleteSharedFolder, InsertAuditEvent,
       CreateNetworkRule, DeactivateAllNetworkRules, DeleteNetworkRules,
       DeactivateNetworkRule, CreateVM, UpdateVM, CreateAllocation, DeleteAllocation

(* The idle call is at no commit, and these replies are not a delete's.    *)
LEMMA IdleFacts ==
  /\ Idle.op = "none"
  /\ \A r \in {Returned, Raised, NoReply} : r.call \notin {"delete_session", "delete_vm"}
BY DEF Idle, Returned, Raised, NoReply

(* The state after delete_session's last commit.                           *)
LEMMA SessionDeleteFinishes ==
  ASSUME Finish("delete_session")
  PROVE  /\ call' = Idle /\ call'.op = "none"
         /\ reply'.call = "delete_session" /\ reply'.of = call.key
BY IdleFacts DEF Finish

(* The two deletes keep what they have swept swept, and when they return   *)
(* they leave nothing behind.                                              *)
LEMMA SweptStep ==
  ASSUME TypeOK, SweptSoFar, ReturnedDeleteLeavesNothing, [Next]_vars
  PROVE  SweptSoFar' /\ ReturnedDeleteLeavesNothing'
<1> USE DEF SweptSoFar, ReturnedDeleteLeavesNothing
<1>0. call \in Calls
  BY DEF TypeOK
<1>1. CASE OneCommitCall
  BY <1>1, OneCommitEnds, IdleFacts DEF SessionCommits
<1>2. CASE DeleteSessionCall
  <2>1. ASSUME NEW s \in Sessions, DeleteSession(s)
        PROVE  SweptSoFar' /\ ReturnedDeleteLeavesNothing'
    BY <2>1, IdleFacts DEF DeleteSession, Ready, VMIdsOf, SessionCommits, tables
  <2>2. CASE DeleteVMsOfSession
    BY <2>2, <1>0, CallTypes, IdleFacts DEF DeleteVMsOfSession, At, Continue, SessionCommits
  <2>3. CASE DeleteProxyOfSession
    BY <2>3, <1>0, CallTypes, IdleFacts DEF DeleteProxyOfSession, At, Continue, SessionCommits
  <2>4. CASE DeleteFolderOfSession
    BY <2>4, <1>0, CallTypes, IdleFacts DEF DeleteFolderOfSession, At, Continue, SessionCommits
  <2>5. CASE DeleteRulesOfSession
    BY <2>5, <1>0, CallTypes, IdleFacts DEF DeleteRulesOfSession, At, Continue, SessionCommits
  <2>6. CASE DeleteSessionRow
    <3>1. CASE call.vmIds = {}
      <4>1. Finish("delete_session") /\ call.op = "sessions"
        BY <2>6, <3>1 DEF DeleteSessionRow, At
      <4>2. sessions' = sessions \ {call.key} /\ UNCHANGED <<vms, proxies, folders, rules>>
        BY <2>6 DEF DeleteSessionRow
      <4> QED
        BY <4>1, <4>2, SessionDeleteFinishes DEF SessionCommits
    <3>2. CASE call.vmIds # {}
      <4>1. /\ Continue("allocations_of_session") /\ call.op = "sessions"
            /\ sessions' = sessions \ {call.key} /\ UNCHANGED <<vms, proxies, folders, rules>>
        BY <2>6, <3>2 DEF DeleteSessionRow, At
      <4> QED
        BY <4>1, <1>0, CallTypes, IdleFacts DEF Continue, SessionCommits
    <3> QED
      BY <3>1, <3>2
  <2>7. ASSUME NEW v \in VMs, DeleteAllocationOfSession(v)
        PROVE  SweptSoFar' /\ ReturnedDeleteLeavesNothing'
    <3>1. CASE call.vmIds = {v}
      <4>1. Finish("delete_session") /\ call.op = "allocations_of_session"
        BY <2>7, <3>1 DEF DeleteAllocationOfSession, At
      <4>2. UNCHANGED <<sessions, vms, proxies, folders, rules>>
        BY <2>7 DEF DeleteAllocationOfSession
      <4> QED
        BY <4>1, <4>2, SessionDeleteFinishes DEF SessionCommits
    <3>2. CASE call.vmIds # {v}
      <4>1. /\ call' = [call EXCEPT !.vmIds = @ \ {v}] /\ UNCHANGED <<open, reply>>
            /\ call.op = "allocations_of_session"
            /\ UNCHANGED <<sessions, vms, proxies, folders, rules>>
        BY <2>7, <3>2 DEF DeleteAllocationOfSession, At
      <4> QED
        BY <4>1, <1>0, CallTypes, IdleFacts DEF SessionCommits
    <3> QED
      BY <3>1, <3>2
  <2> QED
    BY <1>2, <2>1, <2>2, <2>3, <2>4, <2>5, <2>6, <2>7 DEF DeleteSessionCall
<1>3. CASE DeleteVMCall
  <2>1. ASSUME NEW v \in VMs, DeleteVM(v)
        PROVE  SweptSoFar' /\ ReturnedDeleteLeavesNothing'
    BY <2>1, IdleFacts DEF DeleteVM, Ready, SessionCommits, tables
  <2>2. CASE DeleteAllocationOfVM
    BY <2>2, <1>0, CallTypes, IdleFacts DEF DeleteAllocationOfVM, At, Continue, SessionCommits
  <2>3. CASE DeleteVMRow
    BY <2>3, <1>0, CallTypes, IdleFacts DEF DeleteVMRow, At, Finish, HasVM, SessionCommits
  <2> QED
    BY <1>3, <2>1, <2>2, <2>3 DEF DeleteVMCall
<1>4. CASE Lifecycle
  BY <1>4, <1>0, CallTypes, IdleFacts
  DEF Lifecycle, Initialize, Close, CallWhileClosed, StatementFails, Crash, SessionCommits, tables
<1>5. CASE UNCHANGED vars
  BY <1>5 DEF vars, tables, VMIdsOf, HasVM
<1> QED
  BY <1>1, <1>2, <1>3, <1>4, <1>5 DEF Next

(* Whatever was interrupted or retried before, a delete that returns has   *)
(* removed every row its key names.                                        *)
THEOREM DeletesComplete == Spec => []ReturnedDeleteLeavesNothing
<1>1. ASSUME Init
      PROVE  SweptSoFar /\ ReturnedDeleteLeavesNothing
  BY <1>1, IdleFacts DEF Init, SweptSoFar, ReturnedDeleteLeavesNothing, SessionCommits
<1> QED
  BY <1>1, SweptStep, TypeCorrect, PTL DEF Spec

-----------------------------------------------------------------------------
(* With callers that create parents first, no row is ever without its      *)
(* session: delete_session takes the session's row after theirs.           *)
LEMMA NoRowStep ==
  ASSUME CallersKeepOrder, TypeOK, SweptSoFar, NoRowWithoutSession, [Next]_vars
  PROVE  NoRowWithoutSession'
<1> USE DEF NoRowWithoutSession
<1>1. CASE OneCommitCall
  <2>1. ASSUME NEW s \in Sessions,
               CreateSession(s) \/ UpdateSession(s) \/ UpdateProxy(s) \/ InsertAuditEvent(s)
        PROVE  NoRowWithoutSession'
    BY <2>1 DEF CreateSession, UpdateSession, UpdateProxy, InsertAuditEvent, tables
  <2>2. ASSUME NEW s \in Sessions,
               \/ CreateProxy(s) \/ DeleteProxy(s)
               \/ CreateSharedFolder(s) \/ DeleteSharedFolder(s)
        PROVE  NoRowWithoutSession'
    BY <2>2 DEF CreateProxy, DeleteProxy, CreateSharedFolder, DeleteSharedFolder, ParentSession
  <2>3. ASSUME NEW s \in Sessions, NEW active \in BOOLEAN, CreateNetworkRule(s, active)
        PROVE  NoRowWithoutSession'
    BY <2>3 DEF CreateNetworkRule, ParentSession
  <2>4. ASSUME NEW s \in Sessions, DeactivateAllNetworkRules(s) \/ DeleteNetworkRules(s)
        PROVE  NoRowWithoutSession'
    BY <2>4 DEF DeactivateAllNetworkRules, DeleteNetworkRules, Removed, TypeOK, RuleRow
  <2>5. ASSUME NEW i \in 1 .. MaxRules, DeactivateNetworkRule(i)
        PROVE  NoRowWithoutSession'
    BY <2>5 DEF DeactivateNetworkRule, Removed, TypeOK, RuleRow
  <2>6. ASSUME NEW v \in VMs, NEW s \in Sessions, NEW status \in Statuses,
               CreateVM(v, s, status) \/ UpdateVM(v, s, status)
        PROVE  NoRowWithoutSession'
    BY <2>6 DEF CreateVM, UpdateVM, ParentSession
  <2>7. ASSUME NEW v \in VMs, CreateAllocation(v) \/ DeleteAllocation(v)
        PROVE  NoRowWithoutSession'
    BY <2>7 DEF CreateAllocation, DeleteAllocation
  <2> QED
    BY <1>1, <2>1, <2>2, <2>3, <2>4, <2>5, <2>6, <2>7 DEF OneCommitCall
<1>2. CASE DeleteSessionCall
  <2>1. ASSUME \E s \in Sessions : DeleteSession(s)
        PROVE  NoRowWithoutSession'
    BY <2>1 DEF DeleteSession, tables
  <2>2. CASE \/ DeleteVMsOfSession \/ DeleteProxyOfSession \/ DeleteFolderOfSession
             \/ DeleteRulesOfSession
    BY <2>2 DEF DeleteVMsOfSession, DeleteProxyOfSession, DeleteFolderOfSession,
                DeleteRulesOfSession
  <2>3. CASE DeleteSessionRow
    BY <2>3 DEF DeleteSessionRow, At, SweptSoFar, SessionCommits
  <2>4. ASSUME \E v \in VMs : DeleteAllocationOfSession(v)
        PROVE  NoRowWithoutSession'
    BY <2>4 DEF DeleteAllocationOfSession
  <2> QED
    BY <1>2, <2>1, <2>2, <2>3, <2>4 DEF DeleteSessionCall
<1>3. CASE DeleteVMCall
  BY <1>3 DEF DeleteVMCall, DeleteVM, DeleteAllocationOfVM, DeleteVMRow, tables
<1>4. CASE Lifecycle
  BY <1>4 DEF Lifecycle, Initialize, Close, CallWhileClosed, StatementFails, Crash, tables
<1>5. CASE UNCHANGED vars
  BY <1>5 DEF vars, tables
<1> QED
  BY <1>1, <1>2, <1>3, <1>4, <1>5 DEF Next

(* Every VM, proxy, shared folder and network rule has its session's row,  *)
(* between the commits of a delete and after a crash too.                  *)
THEOREM NoRowOutlivesItsSession ==
  ASSUME CallersKeepOrder
  PROVE  Spec => []NoRowWithoutSession
<1>1. ASSUME Init
      PROVE  NoRowWithoutSession /\ SweptSoFar /\ ReturnedDeleteLeavesNothing
  BY <1>1, IdleFacts
  DEF Init, NoRowWithoutSession, SweptSoFar, ReturnedDeleteLeavesNothing, SessionCommits
<1>2. TypeOK /\ SweptSoFar /\ NoRowWithoutSession /\ [Next]_vars => NoRowWithoutSession'
  BY NoRowStep
<1> QED
  BY <1>1, <1>2, SweptStep, TypeCorrect, PTL DEF Spec

-----------------------------------------------------------------------------
(* A VM's row or what is left to do about it accounts for its allocation.  *)
LEMMA OrphanStep ==
  ASSUME CallersKeepOrder, TypeOK, SweptSoFar, OrphansOnlyFromCutDelete, [Next]_vars
  PROVE  OrphansOnlyFromCutDelete'
<1> USE DEF OrphansOnlyFromCutDelete, HasVM
<1>0. call \in Calls /\ hist \in Histories
  BY DEF TypeOK
<1>1. CASE OneCommitCall
  <2>0. Unfinished' = {} /\ Unfinished = {}
    BY <1>1, OneCommitEnds, IdleFacts DEF Unfinished, SessionCommits
  <2>1. ASSUME NEW s \in Sessions,
               \/ CreateSession(s) \/ UpdateSession(s)
               \/ CreateProxy(s) \/ UpdateProxy(s) \/ DeleteProxy(s)
               \/ CreateSharedFolder(s) \/ DeleteSharedFolder(s)
               \/ InsertAuditEvent(s)
               \/ DeactivateAllNetworkRules(s) \/ DeleteNetworkRules(s)
        PROVE  OrphansOnlyFromCutDelete'
    BY <2>0, <2>1
    DEF CreateSession, UpdateSession, CreateProxy, UpdateProxy, DeleteProxy,
        CreateSharedFolder, DeleteSharedFolder, InsertAuditEvent,
        DeactivateAllNetworkRules, DeleteNetworkRules, tables
  <2>2. ASSUME NEW s \in Sessions, NEW active \in BOOLEAN, CreateNetworkRule(s, active)
        PROVE  OrphansOnlyFromCutDelete'
    BY <2>0, <2>2, <1>0 DEF CreateNetworkRule, Histories
  <2>3. ASSUME NEW i \in 1 .. MaxRules, DeactivateNetworkRule(i)
        PROVE  OrphansOnlyFromCutDelete'
    BY <2>0, <2>3 DEF DeactivateNetworkRule
  <2>4. ASSUME NEW v \in VMs, NEW s \in Sessions, NEW status \in Statuses,
               CreateVM(v, s, status)
        PROVE  OrphansOnlyFromCutDelete'
    BY <2>0, <2>4, <1>0 DEF CreateVM, Histories
  <2>5. ASSUME NEW v \in VMs, NEW s \in Sessions, NEW status \in Statuses,
               UpdateVM(v, s, status)
        PROVE  OrphansOnlyFromCutDelete'
    <3>1. hist'.cut = hist.cut /\ allocs' = allocs
      BY <2>5, <1>0 DEF UpdateVM, Histories
    <3>2. ASSUME NEW w \in VMs, NEW r \in vms, r.id = w
          PROVE  \E q \in vms' : q.id = w
      <4> DEFINE row == [id |-> v, session |-> s, status |-> status]
      <4>1. CASE w = v
        <5>1. row \in vms' /\ row.id = v
          BY <2>5, <3>2, <4>1 DEF UpdateVM
        <5> QED
          BY <5>1, <4>1
      <4>2. CASE w # v
        BY <2>5, <3>2, <4>2 DEF UpdateVM
      <4> QED
        BY <4>1, <4>2
    <3> QED
      BY <2>0, <3>1, <3>2 DEF TypeOK
  <2>6. ASSUME NEW v \in VMs, CreateAllocation(v) \/ DeleteAllocation(v)
        PROVE  OrphansOnlyFromCutDelete'
    BY <2>0, <2>6 DEF CreateAllocation, DeleteAllocation, ParentVM
  <2> QED
    BY <1>1, <2>1, <2>2, <2>3, <2>4, <2>5, <2>6 DEF OneCommitCall
<1>2. CASE DeleteSessionCall
  <2>1. ASSUME NEW s \in Sessions, DeleteSession(s)
        PROVE  OrphansOnlyFromCutDelete'
    BY <2>1, IdleFacts DEF DeleteSession, Ready, Unfinished, SessionCommits, tables
  <2>2. CASE DeleteVMsOfSession
    <3>1. /\ Unfinished = {} /\ Unfinished' = call.vmIds
          /\ vms' = {r \in vms : r.session # call.key}
          /\ UNCHANGED <<allocs, hist>>
      BY <2>2, <1>0, CallTypes DEF DeleteVMsOfSession, At, Continue, Unfinished, SessionCommits
    <3>2. \A r \in vms : r.session = call.key => r.id \in call.vmIds
      BY <2>2 DEF DeleteVMsOfSession, At, SweptSoFar, VMIdsOf
    <3> QED
      BY <3>1, <3>2
  <2>3. CASE DeleteProxyOfSession
    BY <2>3, <1>0, CallTypes DEF DeleteProxyOfSession, At, Continue, Unfinished, SessionCommits
  <2>4. CASE DeleteFolderOfSession
    BY <2>4, <1>0, CallTypes DEF DeleteFolderOfSession, At, Continue, Unfinished, SessionCommits
  <2>5. CASE DeleteRulesOfSession
    BY <2>5, <1>0, CallTypes DEF DeleteRulesOfSession, At, Continue, Unfinished, SessionCommits
  <2>6. CASE DeleteSessionRow
    <3>1. UNCHANGED <<allocs, vms, hist>> /\ Unfinished' = Unfinished
      <4>1. CASE call.vmIds = {}
        BY <2>6, <4>1, SessionDeleteFinishes DEF DeleteSessionRow, At, Finish, Unfinished, SessionCommits
      <4>2. CASE call.vmIds # {}
        <5>1. /\ Continue("allocations_of_session") /\ call.op = "sessions"
              /\ UNCHANGED <<allocs, vms>>
          BY <2>6, <4>2 DEF DeleteSessionRow, At
        <5> QED
          BY <5>1, <1>0, CallTypes DEF Continue, Unfinished, SessionCommits
      <4> QED
        BY <4>1, <4>2
    <3> QED
      BY <3>1
  <2>7. ASSUME NEW v \in VMs, DeleteAllocationOfSession(v)
        PROVE  OrphansOnlyFromCutDelete'
    <3>1. /\ allocs' = allocs \ {v} /\ UNCHANGED <<vms, hist>>
          /\ Unfinished = call.vmIds
      BY <2>7 DEF DeleteAllocationOfSession, At, Finish, Unfinished, SessionCommits
    <3>2. Unfinished' = call.vmIds \ {v}
      <4>1. CASE call.vmIds = {v}
        BY <2>7, <4>1, SessionDeleteFinishes
        DEF DeleteAllocationOfSession, At, Unfinished, SessionCommits
      <4>2. CASE call.vmIds # {v}
        <5>1. call' = [call EXCEPT !.vmIds = @ \ {v}] /\ call.op = "allocations_of_session"
          BY <2>7, <4>2 DEF DeleteAllocationOfSession, At
        <5> QED
          BY <5>1, <1>0, CallTypes DEF Unfinished, SessionCommits
      <4> QED
        BY <4>1, <4>2
    <3> QED
      BY <3>1, <3>2
  <2> QED
    BY <1>2, <2>1, <2>2, <2>3, <2>4, <2>5, <2>6, <2>7 DEF DeleteSessionCall
<1>3. CASE DeleteVMCall
  <2>1. ASSUME NEW v \in VMs, DeleteVM(v)
        PROVE  OrphansOnlyFromCutDelete'
    BY <2>1, IdleFacts DEF DeleteVM, Ready, Unfinished, SessionCommits, tables
  <2>2. CASE DeleteAllocationOfVM
    BY <2>2, <1>0, CallTypes DEF DeleteAllocationOfVM, At, Continue, Unfinished, SessionCommits
  <2>3. CASE DeleteVMRow
    BY <2>3, <1>0, CallTypes, IdleFacts
    DEF DeleteVMRow, At, Finish, Unfinished, SweptSoFar, SessionCommits
  <2> QED
    BY <1>3, <2>1, <2>2, <2>3 DEF DeleteVMCall
<1>4. CASE Lifecycle
  <2>1. CASE Initialize \/ Close \/ CallWhileClosed
    BY <2>1 DEF Initialize, Close, CallWhileClosed, Unfinished, tables
  <2>2. CASE StatementFails \/ Crash
    <3>1. hist'.cut = hist.cut \cup Unfinished
      BY <2>2, <1>0 DEF StatementFails, Crash, Histories
    <3> QED
      BY <2>2, <3>1 DEF StatementFails, Crash, tables
  <2> QED
    BY <1>4, <2>1, <2>2 DEF Lifecycle
<1>5. CASE UNCHANGED vars
  BY <1>5 DEF vars, tables, Unfinished
<1> QED
  BY <1>1, <1>2, <1>3, <1>4, <1>5 DEF Next

(* An allocation without its VM is the work of a delete_session that was   *)
(* cut short, and of nothing else.                                         *)
THEOREM OrphansHaveOneCause ==
  ASSUME CallersKeepOrder
  PROVE  Spec => []OrphansOnlyFromCutDelete
<1>1. ASSUME Init
      PROVE  OrphansOnlyFromCutDelete /\ SweptSoFar /\ ReturnedDeleteLeavesNothing
  BY <1>1, IdleFacts
  DEF Init, OrphansOnlyFromCutDelete, SweptSoFar, ReturnedDeleteLeavesNothing, SessionCommits
<1>2. TypeOK /\ SweptSoFar /\ OrphansOnlyFromCutDelete /\ [Next]_vars
        => OrphansOnlyFromCutDelete'
  BY OrphanStep
<1> QED
  BY <1>1, <1>2, SweptStep, TypeCorrect, PTL DEF Spec

-----------------------------------------------------------------------------
(* Only create_network_rule hands out an id, and it takes the one after    *)
(* the sequence.                                                           *)
LEMMA RuleIdsStep ==
  ASSUME TypeOK, RuleIdsArePassed, [Next]_vars
  PROVE  /\ RuleIdsArePassed'
         /\ \A r \in rules' : r.id \in {q.id : q \in rules} \cup (1 .. MaxRules \ hist.ruleIds)
<1> DEFINE Fresh == \A r \in rules' : r.id \in {q.id : q \in rules} \cup (1 .. MaxRules \ hist.ruleIds)
<1> USE DEF RuleIdsArePassed
<1>0. hist \in Histories /\ rules \subseteq RuleRow /\ ruleSeq \in Nat
  BY DEF TypeOK
<1>1. ASSUME rules' \subseteq rules, ruleSeq' = ruleSeq, hist'.ruleIds = hist.ruleIds
      PROVE  RuleIdsArePassed' /\ Fresh
  BY <1>1
<1>2. CASE OneCommitCall
  <2>1. ASSUME NEW s \in Sessions, NEW active \in BOOLEAN, CreateNetworkRule(s, active)
        PROVE  RuleIdsArePassed' /\ Fresh
    <3>1. hist'.ruleIds = hist.ruleIds \cup {ruleSeq + 1} /\ ruleSeq' = ruleSeq + 1
      BY <2>1, <1>0 DEF CreateNetworkRule, NextRuleId, Histories
    <3>2. ruleSeq + 1 \in 1 .. MaxRules
      BY <2>1, <1>0, StoreAssumption DEF CreateNetworkRule, NextRuleId, StoreAssumption
    <3>3. hist.ruleIds \subseteq Nat
      BY <1>0, StoreAssumption DEF Histories, StoreAssumption
    <3>4. RuleIdsArePassed'
      BY <3>1, <3>3, <1>0
    <3>5. ruleSeq + 1 \notin hist.ruleIds
      BY <3>3, <1>0
    <3>6. Fresh
      BY <2>1, <3>2, <3>5 DEF CreateNetworkRule, NextRuleId
    <3> QED
      BY <3>4, <3>6
  <2>2. ASSUME NEW s \in Sessions, DeactivateAllNetworkRules(s)
        PROVE  RuleIdsArePassed' /\ Fresh
    BY <2>2, <1>0 DEF DeactivateAllNetworkRules, Removed, RuleRow
  <2>3. ASSUME NEW i \in 1 .. MaxRules, DeactivateNetworkRule(i)
        PROVE  RuleIdsArePassed' /\ Fresh
    BY <2>3, <1>0 DEF DeactivateNetworkRule, Removed, RuleRow
  <2>4. ASSUME NEW s \in Sessions,
               \/ CreateSession(s) \/ UpdateSession(s)
               \/ CreateProxy(s) \/ UpdateProxy(s) \/ DeleteProxy(s)
               \/ CreateSharedFolder(s) \/ DeleteSharedFolder(s)
               \/ InsertAuditEvent(s) \/ DeleteNetworkRules(s)
        PROVE  RuleIdsArePassed' /\ Fresh
    BY <2>4
    DEF CreateSession, UpdateSession, CreateProxy, UpdateProxy, DeleteProxy,
        CreateSharedFolder, DeleteSharedFolder, InsertAuditEvent, DeleteNetworkRules, tables
  <2>5. ASSUME NEW v \in VMs, NEW s \in Sessions, NEW status \in Statuses,
               CreateVM(v, s, status) \/ UpdateVM(v, s, status)
        PROVE  RuleIdsArePassed' /\ Fresh
    <3>1. hist'.ruleIds = hist.ruleIds
      BY <2>5, <1>0 DEF CreateVM, UpdateVM, Histories
    <3> QED
      BY <2>5, <3>1, <1>1 DEF CreateVM, UpdateVM
  <2>6. ASSUME NEW v \in VMs, CreateAllocation(v) \/ DeleteAllocation(v)
        PROVE  RuleIdsArePassed' /\ Fresh
    BY <2>6 DEF CreateAllocation, DeleteAllocation
  <2> QED
    BY <1>2, <2>1, <2>2, <2>3, <2>4, <2>5, <2>6 DEF OneCommitCall
<1>3. CASE DeleteSessionCall \/ DeleteVMCall
  <2>1. rules' \subseteq rules /\ ruleSeq' = ruleSeq
    BY <1>3
    DEF DeleteSessionCall, DeleteSession, DeleteVMsOfSession, DeleteProxyOfSession,
        DeleteFolderOfSession, DeleteRulesOfSession, DeleteSessionRow,
        DeleteAllocationOfSession, DeleteVMCall, DeleteVM, DeleteAllocationOfVM,
        DeleteVMRow, tables
  <2>2. hist' = hist
    BY <1>3
    DEF DeleteSessionCall, DeleteSession, DeleteVMsOfSession, DeleteProxyOfSession,
        DeleteFolderOfSession, DeleteRulesOfSession, DeleteSessionRow,
        DeleteAllocationOfSession, DeleteVMCall, DeleteVM, DeleteAllocationOfVM,
        DeleteVMRow, Continue, Finish
  <2> QED
    BY <2>1, <2>2, <1>1
<1>4. CASE Lifecycle
  <2>1. rules' = rules /\ ruleSeq' = ruleSeq
    BY <1>4 DEF Lifecycle, Initialize, Close, CallWhileClosed, StatementFails, Crash, tables
  <2>2. hist'.ruleIds = hist.ruleIds
    BY <1>4, <1>0
    DEF Lifecycle, Initialize, Close, CallWhileClosed, StatementFails, Crash, Histories
  <2> QED
    BY <2>1, <2>2, <1>1
<1>5. CASE UNCHANGED vars
  BY <1>5, <1>1 DEF vars, tables
<1> QED
  BY <1>2, <1>3, <1>4, <1>5 DEF Next

(* No rule id is ever given out twice: a stale id names no other rule.     *)
THEOREM RuleIdsNeverReused == Spec => RuleIdsAreFresh
<1>1. ASSUME Init
      PROVE  RuleIdsArePassed
  BY <1>1 DEF Init, RuleIdsArePassed
<1>2. TypeOK /\ RuleIdsArePassed /\ [Next]_vars
        => RuleIdsArePassed' /\
           [\A r \in rules' : r.id \in {q.id : q \in rules} \cup (1 .. MaxRules \ hist.ruleIds)]_vars
  BY RuleIdsStep
<1> QED
  BY <1>1, <1>2, TypeCorrect, PTL DEF Spec, RuleIdsAreFresh
=============================================================================
