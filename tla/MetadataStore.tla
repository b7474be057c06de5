--------------------------- MODULE MetadataStore ---------------------------
(***************************************************************************)
(* The SQLite metadata store (src/src/agentvm/db/store.py): one process,   *)
(* one connection.                                                         *)
(*                                                                         *)
(* Every statement is committed on its own (_execute), and no method       *)
(* suspends between its statements, so on the event loop a call is one     *)
(* step.  What can come between two commits of one call is a statement     *)
(* that raises, which ends the call half way, and a crash of the process.  *)
(* The calls of a single commit are therefore one action each, and         *)
(* delete_session and delete_vm are a request followed by one action per   *)
(* commit.                                                                 *)
(*                                                                         *)
(* A table is the set of its rows.  Of a row the model keeps its key, the  *)
(* session or VM it refers to, a VM's status and whether a network rule is *)
(* removed; the other columns are data no statement here branches on.      *)
(***************************************************************************)
EXTENDS Naturals, Sequences

CONSTANTS
  Sessions,             \* session ids
  VMs,                  \* VM ids
  Statuses,             \* VM statuses
  ActiveStatuses,       \* those get_active_vms selects
  None,                 \* no session and no VM
  MaxRules,             \* bound: rule ids handed out
  MaxAudit,             \* bound: audit rows
  CallersKeepOrder      \* TRUE: callers create a parent before its children

ASSUME StoreAssumption ==
  /\ None \notin Sessions \cup VMs
  /\ ActiveStatuses \subseteq Statuses
  /\ MaxRules \in Nat
  /\ MaxAudit \in Nat
  /\ CallersKeepOrder \in BOOLEAN

VARIABLES
  open,          \* self._conn is not None
  sessions, vms, proxies, folders, allocs, rules, audit,    \* the tables
  ruleSeq,       \* network_rules' row of sqlite_sequence (AUTOINCREMENT)
  call,          \* the call between two of its commits, or Idle
  reply,         \* how the last call ended
  hist           \* history, read by the properties only

tables == <<sessions, vms, proxies, folders, allocs, rules, audit, ruleSeq>>
vars == <<open, tables, call, reply, hist>>

VMRow == [id : VMs, session : Sessions, status : Statuses]
RuleRow == [id : 1 .. MaxRules, session : Sessions, active : BOOLEAN]

Idle == [op |-> "none", key |-> None, vmIds |-> {}]

(* The commits of the two deletes, each named after the one that is next.  *)
SessionCommits ==
  {"vms", "proxies", "shared_folders", "network_rules", "sessions",
   "allocations_of_session"}
VMCommits == {"allocation_of_vm", "vm"}

Calls == {Idle}
    \cup [op : SessionCommits, key : Sessions, vmIds : SUBSET VMs]
    \cup [op : VMCommits, key : VMs, vmIds : {{}}]

NoReply == [call |-> "none", of |-> None, out |-> "none"]
Replies == [call : {"none", "delete_session", "delete_vm", "other"},
            of : Sessions \cup VMs \cup {None},
            out : {"none", "returned", "raised"}]

(* owner: the session a VM was last filed under; cut: the VMs whose        *)
(* session's deletion stopped after their rows were gone; ruleIds: every   *)
(* rule id a create_network_rule returned.                                 *)
Histories == [owner : [VMs -> Sessions \cup {None}],
              cut : SUBSET VMs,
              ruleIds : SUBSET (1 .. MaxRules)]

Returned == [call |-> "other", of |-> None, out |-> "returned"]
Raised == [call |-> "other", of |-> None, out |-> "raised"]

-----------------------------------------------------------------------------
(* Queries. *)

(* Mutant of VMIdsOf: keeps the rows of the query instead of their ids.    *)
VMIdsOf_Rows(s) == {q \in vms : q.session = s}

VMIdsOf(s) == {r.id : r \in {q \in vms : q.session = s}}
HasVM(v) == \E r \in vms : r.id = v
ActiveVMs == {r \in vms : r.status \in ActiveStatuses}

(* What callers check before they file a row under session s, or an        *)
(* allocation under VM v; the store checks neither (foreign_keys=OFF).     *)
ParentSession(s) == CallersKeepOrder => s \in sessions
ParentVM(v) == CallersKeepOrder => HasVM(v)

-----------------------------------------------------------------------------
Init ==
  /\ open = FALSE
  /\ sessions = {} /\ vms = {} /\ proxies = {} /\ folders = {}
  /\ allocs = {} /\ rules = {} /\ audit = <<>> /\ ruleSeq = 0
  /\ call = Idle
  /\ reply = NoReply
  /\ hist = [owner |-> [v \in VMs |-> None], cut |-> {}, ruleIds |-> {}]

(* initialize: connect; CREATE TABLE IF NOT EXISTS keeps what is there.    *)
Initialize ==
  /\ call = Idle
  /\ open' = TRUE
  /\ reply' = Returned
  /\ UNCHANGED <<tables, call, hist>>

Close ==
  /\ call = Idle
  /\ open' = FALSE
  /\ reply' = Returned
  /\ UNCHANGED <<tables, call, hist>>

Ready == open /\ call = Idle

(* _connection: a call on a closed store raises RuntimeError.              *)
CallWhileClosed ==
  /\ ~open
  /\ reply' = Raised
  /\ UNCHANGED <<open, tables, call, hist>>

Ends(outcome) == reply' = outcome /\ UNCHANGED <<open, call>>

-----------------------------------------------------------------------------
(* Calls of one commit.  An INSERT whose PRIMARY KEY or UNIQUE column is   *)
(* taken raises IntegrityError and inserts nothing.                        *)

CreateSession(s) ==
  /\ Ready
  /\ \/ /\ s \notin sessions
        /\ sessions' = sessions \cup {s}
        /\ Ends(Returned)
     \/ /\ s \in sessions
        /\ UNCHANGED sessions
        /\ Ends(Raised)
  /\ UNCHANGED <<vms, proxies, folders, allocs, rules, audit, ruleSeq, hist>>

(* update_session rewrites columns the model leaves out, or returns False. *)
UpdateSession(s) ==
  /\ Ready
  /\ Ends(Returned)
  /\ UNCHANGED <<tables, hist>>

CreateVM(v, s, status) ==
  /\ Ready
  /\ ParentSession(s)
  /\ \/ /\ ~HasVM(v)
        /\ vms' = vms \cup {[id |-> v, session |-> s, status |-> status]}
        /\ hist' = [hist EXCEPT !.owner[v] = s]
        /\ Ends(Returned)
     \/ /\ HasVM(v)
        /\ UNCHANGED <<vms, hist>>
        /\ Ends(Raised)
  /\ UNCHANGED <<sessions, proxies, folders, allocs, rules, audit, ruleSeq>>

UpdateVM(v, s, status) ==
  /\ Ready
  /\ ParentSession(s)
  /\ \/ /\ HasVM(v)
        /\ vms' = {r \in vms : r.id # v}
                    \cup {[id |-> v, session |-> s, status |-> status]}
        /\ hist' = [hist EXCEPT !.owner[v] = s]
     \/ /\ ~HasVM(v)
        /\ UNCHANGED <<vms, hist>>
  /\ Ends(Returned)
  /\ UNCHANGED <<sessions, proxies, folders, allocs, rules, audit, ruleSeq>>

CreateProxy(s) ==
  /\ Ready
  /\ ParentSession(s)
  /\ proxies' = proxies \cup {s}
  /\ Ends(IF s \in proxies THEN Raised ELSE Returned)
  /\ UNCHANGED <<sessions, vms, folders, allocs, rules, audit, ruleSeq, hist>>

(* update_proxy rewrites port, pid and status of the row, if there is one. *)
UpdateProxy(s) ==
  /\ Ready
  /\ Ends(Returned)
  /\ UNCHANGED <<tables, hist>>

DeleteProxy(s) ==
  /\ Ready
  /\ proxies' = proxies \ {s}
  /\ Ends(Returned)
  /\ UNCHANGED <<sessions, vms, folders, allocs, rules, audit, ruleSeq, hist>>

CreateSharedFolder(s) ==
  /\ Ready
  /\ ParentSession(s)
  /\ folders' = folders \cup {s}
  /\ Ends(IF s \in folders THEN Raised ELSE Returned)
  /\ UNCHANGED <<sessions, vms, proxies, allocs, rules, audit, ruleSeq, hist>>

DeleteSharedFolder(s) ==
  /\ Ready
  /\ folders' = folders \ {s}
  /\ Ends(Returned)
  /\ UNCHANGED <<sessions, vms, proxies, allocs, rules, audit, ruleSeq, hist>>

CreateAllocation(v) ==
  /\ Ready
  /\ ParentVM(v)
  /\ allocs' = allocs \cup {v}
  /\ Ends(IF v \in allocs THEN Raised ELSE Returned)
  /\ UNCHANGED <<sessions, vms, proxies, folders, rules, audit, ruleSeq, hist>>

DeleteAllocation(v) ==
  /\ Ready
  /\ allocs' = allocs \ {v}
  /\ Ends(Returned)
  /\ UNCHANGED <<sessions, vms, proxies, folders, rules, audit, ruleSeq, hist>>

InsertAuditEvent(s) ==
  /\ Ready
  /\ Len(audit) < MaxAudit
  /\ audit' = Append(audit, s)
  /\ Ends(Returned)
  /\ UNCHANGED <<sessions, vms, proxies, folders, allocs, rules, ruleSeq, hist>>

(* Mutant of NextRuleId: INTEGER PRIMARY KEY without AUTOINCREMENT takes   *)
(* one above the largest id in the table.                                  *)
NextRuleId_Rowid ==
  CHOOSE i \in 1 .. MaxRules + 1 :
    /\ \A r \in rules : r.id < i
    /\ i = 1 \/ \E r \in rules : r.id = i - 1

(* AUTOINCREMENT: one above the largest id ever used, not the largest in   *)
(* the table.                                                              *)
NextRuleId == ruleSeq + 1

CreateNetworkRule(s, active) ==
  /\ Ready
  /\ ParentSession(s)
  /\ NextRuleId <= MaxRules
  /\ rules' = rules \cup {[id |-> NextRuleId, session |-> s, active |-> active]}
  /\ ruleSeq' = NextRuleId
  /\ hist' = [hist EXCEPT !.ruleIds = @ \cup {NextRuleId}]
  /\ Ends(Returned)
  /\ UNCHANGED <<sessions, vms, proxies, folders, allocs, audit>>

Removed(r) == [r EXCEPT !.active = FALSE]

DeactivateNetworkRule(i) ==
  /\ Ready
  /\ rules' = {IF r.id = i THEN Removed(r) ELSE r : r \in rules}
  /\ Ends(Returned)
  /\ UNCHANGED <<sessions, vms, proxies, folders, allocs, audit, ruleSeq, hist>>

DeactivateAllNetworkRules(s) ==
  /\ Ready
  /\ rules' = {IF r.session = s THEN Removed(r) ELSE r : r \in rules}
  /\ Ends(Returned)
  /\ UNCHANGED <<sessions, vms, proxies, folders, allocs, audit, ruleSeq, hist>>

DeleteNetworkRules(s) ==
  /\ Ready
  /\ rules' = {r \in rules : r.session # s}
  /\ Ends(Returned)
  /\ UNCHANGED <<sessions, vms, proxies, folders, allocs, audit, ruleSeq, hist>>

-----------------------------------------------------------------------------
(* delete_session: the VM ids are read first; the rows then go in the      *)
(* order of the statements, the session's own before the allocations.      *)

At(op) == open /\ call.op = op
Continue(op) == call' = [call EXCEPT !.op = op] /\ UNCHANGED <<open, reply, hist>>
Finish(name) ==
  /\ call' = Idle
  /\ reply' = [call |-> name, of |-> call.key, out |-> "returned"]
  /\ UNCHANGED <<open, hist>>

DeleteSession(s) ==
  /\ Ready
  /\ call' = [op |-> "vms", key |-> s, vmIds |-> VMIdsOf(s)]
  /\ reply' = NoReply
  /\ UNCHANGED <<open, tables, hist>>

DeleteVMsOfSession ==
  /\ At("vms")
  /\ vms' = {r \in vms : r.session # call.key}
  /\ Continue("proxies")
  /\ UNCHANGED <<sessions, proxies, folders, allocs, rules, audit, ruleSeq>>

(* Mutant of DeleteProxyOfSession: the statement is missing.               *)
DeleteProxyOfSession_Missing ==
  /\ At("proxies")
  /\ Continue("shared_folders")
  /\ UNCHANGED tables

DeleteProxyOfSession ==
  /\ At("proxies")
  /\ proxies' = proxies \ {call.key}
  /\ Continue("shared_folders")
  /\ UNCHANGED <<sessions, vms, folders, allocs, rules, audit, ruleSeq>>

DeleteFolderOfSession ==
  /\ At("shared_folders")
  /\ folders' = folders \ {call.key}
  /\ Continue("network_rules")
  /\ UNCHANGED <<sessions, vms, proxies, allocs, rules, audit, ruleSeq>>

(* Mutant of DeleteRulesOfSession: the rules are marked removed, not       *)
(* deleted.                                                                *)
DeleteRulesOfSession_Deactivate ==
  /\ At("network_rules")
  /\ rules' = {IF r.session = call.key THEN Removed(r) ELSE r : r \in rules}
  /\ Continue("sessions")
  /\ UNCHANGED <<sessions, vms, proxies, folders, allocs, audit, ruleSeq>>

DeleteRulesOfSession ==
  /\ At("network_rules")
  /\ rules' = {r \in rules : r.session # call.key}
  /\ Continue("sessions")
  /\ UNCHANGED <<sessions, vms, proxies, folders, allocs, audit, ruleSeq>>

DeleteSessionRow ==
  /\ At("sessions")
  /\ sessions' = sessions \ {call.key}
  /\ IF call.vmIds = {} THEN Finish("delete_session")
                        ELSE Continue("allocations_of_session")
  /\ UNCHANGED <<vms, proxies, folders, allocs, rules, audit, ruleSeq>>

DeleteAllocationOfSession(v) ==
  /\ At("allocations_of_session")
  /\ v \in call.vmIds
  /\ allocs' = allocs \ {v}
  /\ IF call.vmIds = {v}
       THEN Finish("delete_session")
       ELSE /\ call' = [call EXCEPT !.vmIds = @ \ {v}]
            /\ UNCHANGED <<open, reply, hist>>
  /\ UNCHANGED <<sessions, vms, proxies, folders, rules, audit, ruleSeq>>

(* delete_vm: the allocation, then the VM.                                 *)
DeleteVM(v) ==
  /\ Ready
  /\ call' = [op |-> "allocation_of_vm", key |-> v, vmIds |-> {}]
  /\ reply' = NoReply
  /\ UNCHANGED <<open, tables, hist>>

(* Mutant of DeleteAllocationOfVM: the VM's row goes first.                *)
DeleteAllocationOfVM_VMFirst ==
  /\ At("allocation_of_vm")
  /\ vms' = {r \in vms : r.id # call.key}
  /\ Continue("vm")
  /\ UNCHANGED <<sessions, proxies, folders, allocs, rules, audit, ruleSeq>>

DeleteAllocationOfVM ==
  /\ At("allocation_of_vm")
  /\ allocs' = allocs \ {call.key}
  /\ Continue("vm")
  /\ UNCHANGED <<sessions, vms, proxies, folders, rules, audit, ruleSeq>>

DeleteVMRow ==
  /\ At("vm")
  /\ vms' = {r \in vms : r.id # call.key}
  /\ Finish("delete_vm")
  /\ UNCHANGED <<sessions, proxies, folders, allocs, rules, audit, ruleSeq>>

-----------------------------------------------------------------------------
(* The VMs whose rows the call in flight has removed, and whose            *)
(* allocations it has still to remove.                                     *)
Unfinished == IF call.op \in SessionCommits \ {"vms"} THEN call.vmIds ELSE {}

(* A statement raises (a locked database, a full disk): nothing above      *)
(* catches it, so the call ends where it stands.                           *)
StatementFails ==
  /\ call # Idle
  /\ call' = Idle
  /\ reply' = Raised
  /\ hist' = [hist EXCEPT !.cut = @ \cup Unfinished]
  /\ UNCHANGED <<open, tables>>

(* The process stops; the committed rows stay.                             *)
Crash ==
  /\ open
  /\ open' = FALSE
  /\ call' = Idle
  /\ reply' = NoReply
  /\ hist' = [hist EXCEPT !.cut = @ \cup Unfinished]
  /\ UNCHANGED tables

OneCommitCall ==
  \/ \E s \in Sessions :
       \/ CreateSession(s)      \/ UpdateSession(s)
       \/ CreateProxy(s)        \/ UpdateProxy(s)      \/ DeleteProxy(s)
       \/ CreateSharedFolder(s) \/ DeleteSharedFolder(s)
       \/ InsertAuditEvent(s)
       \/ \E active \in BOOLEAN : CreateNetworkRule(s, active)
       \/ DeactivateAllNetworkRules(s) \/ DeleteNetworkRules(s)
  \/ \E i \in 1 .. MaxRules : DeactivateNetworkRule(i)
  \/ \E v \in VMs :
       \/ \E s \in Sessions, status \in Statuses :
            CreateVM(v, s, status) \/ UpdateVM(v, s, status)
       \/ CreateAllocation(v) \/ DeleteAllocation(v)

DeleteSessionCall ==
  \/ \E s \in Sessions : DeleteSession(s)
  \/ DeleteVMsOfSession   \/ DeleteProxyOfSession \/ DeleteFolderOfSession
  \/ DeleteRulesOfSession \/ DeleteSessionRow
  \/ \E v \in VMs : DeleteAllocationOfSession(v)

DeleteVMCall ==
  \/ \E v \in VMs : DeleteVM(v)
  \/ DeleteAllocationOfVM
  \/ DeleteVMRow

Lifecycle == Initialize \/ Close \/ CallWhileClosed \/ StatementFails \/ Crash

Next == OneCommitCall \/ DeleteSessionCall \/ DeleteVMCall \/ Lifecycle

Spec == Init /\ [][Next]_vars

-----------------------------------------------------------------------------
(* Every variable has its type: the tables hold well-formed rows, and the  *)
(* call in flight is one the two deletes can be in.                        *)
TypeOK ==
  /\ open \in BOOLEAN
  /\ sessions \subseteq Sessions
  /\ vms \subseteq VMRow
  /\ proxies \subseteq Sessions
  /\ folders \subseteq Sessions
  /\ allocs \subseteq VMs
  /\ rules \subseteq RuleRow
  /\ audit \in Seq(Sessions)
  /\ ruleSeq \in 0 .. MaxRules
  /\ call \in Calls
  /\ reply \in Replies
  /\ hist \in Histories

(* With callers that create a session before what belongs to it, no VM,    *)
(* proxy, shared folder or network rule is ever without its session's row: *)
(* not between two commits of delete_session, not after one that failed    *)
(* half way, and not after a crash (delete_session removes the session's   *)
(* row after theirs; the store declares no foreign key).                   *)
NoRowWithoutSession ==
  /\ \A r \in vms \cup rules : r.session \in sessions
  /\ proxies \cup folders \subseteq sessions

(* An allocation without its VM is left only by a delete_session that was  *)
(* cut short after its first commit: delete_vm, whatever commit it stops   *)
(* at, and every other sequence of calls leave none.                       *)
OrphansOnlyFromCutDelete ==
  \A v \in allocs : HasVM(v) \/ v \in hist.cut \cup Unfinished

(* When a delete_session or delete_vm returns, nothing it deletes by key   *)
(* is left in the tables that carry that key, whatever was interrupted or  *)
(* retried before it.                                                      *)
ReturnedDeleteLeavesNothing ==
  /\ reply.call = "delete_session" =>
       /\ reply.of \notin sessions \cup proxies \cup folders
       /\ \A r \in vms \cup rules : r.session # reply.of
  /\ reply.call = "delete_vm" => reply.of \notin allocs /\ ~HasVM(reply.of)

(* "Delete session and related records." (store.py:148): when a            *)
(* delete_session returns, the allocations of the session's VMs are gone.  *)
(* False of the code: the retry of a delete_session that stopped after its *)
(* first commit finds no VM to take allocations from.                      *)
ReturnedDeletePurgesAllocations ==
  reply.call = "delete_session" =>
    \A v \in allocs : hist.owner[v] # reply.of

(* What the deletes rest on, at each of their commits: no other call runs, *)
(* and the tables already swept hold nothing of the key.                   *)
SweptSoFar ==
  /\ call # Idle => open /\ reply = NoReply
  /\ call.op = "vms" => VMIdsOf(call.key) \subseteq call.vmIds
  /\ call.op \in SessionCommits \ {"vms"} => \A r \in vms : r.session # call.key
  /\ call.op \in SessionCommits \ {"vms", "proxies"} => call.key \notin proxies
  /\ call.op \in {"network_rules", "sessions", "allocations_of_session"}
       => call.key \notin folders
  /\ call.op \in {"sessions", "allocations_of_session"}
       => \A r \in rules : r.session # call.key
  /\ call.op = "allocations_of_session" => call.key \notin sessions
  /\ call.op = "vm" => call.key \notin allocs

(* A rule id, once returned, never names another rule, so that a           *)
(* deactivate_network_rule with an old id touches no one else's rule       *)
(* (network_rules.id is AUTOINCREMENT).                                    *)
RuleIdsAreFresh ==
  [][\A r \in rules' : r.id \in {q.id : q \in rules} \cup (1 .. MaxRules \ hist.ruleIds)]_vars

(* The ids handed out are those the sequence has passed.                   *)
RuleIdsArePassed == \A i \in hist.ruleIds : i <= ruleSeq
=============================================================================
