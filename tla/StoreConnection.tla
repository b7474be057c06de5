--------------------------- MODULE StoreConnection ---------------------------
(***************************************************************************)
(* The connection under the store (MetadataStore._execute, _query_one and  *)
(* _query_all in src/src/agentvm/db/store.py) when more than one process   *)
(* has the database open: another daemon, or a tool that uses the same     *)
(* class.  MetadataStore.tla looks at the commits of one process; here a   *)
(* commit is what the connection and the file's write lock let it be.      *)
(*                                                                         *)
(* External is what sqlite3 does of itself.  The driver opens a            *)
(* transaction before an INSERT, UPDATE or DELETE and never before a       *)
(* SELECT.  The file is in WAL mode: one connection at a time holds the    *)
(* write lock, and a connection in a transaction reads the snapshot its    *)
(* first read or write there took.  A statement that raises does not end   *)
(* the transaction; only _execute's commit does, and it is skipped then.   *)
(*                                                                         *)
(* The table is that of the sessions.  A row is its columns and the JSON   *)
(* payload that _decode_row lets shadow them: the columns hold str() of    *)
(* what callers give, the payload what they gave.                          *)
(***************************************************************************)
EXTENDS Naturals

CONSTANTS
  Procs,      \* processes, each with a MetadataStore on the same file
  Keys,       \* session ids
  Fields,     \* columns that a caller may give a value for
  Settable,   \* those that update_session writes: owner and status
  Values,     \* what callers give
  Text,       \* str() of a value, as itself a value
  Default,    \* what a column gets when the caller leaves the field out
  Given,      \* what callers create sessions with
  Updates,    \* what callers update: a field and its new value
  Missing,    \* a field the payload does not have
  Absent,     \* no row, no key

  Stubborn    \* processes that try a write again and again

ASSUME ConnectionAssumption ==
  /\ Settable \subseteq Fields
  /\ Text \in [Values -> Values]
  /\ Default \in [Fields -> Values]
  /\ \A f \in Fields : Text[Default[f]] = Default[f]
  /\ Missing \notin Values
  /\ Given \subseteq [Fields -> Values \cup {Missing}]
  /\ Updates \subseteq Fields \X Values
  /\ Absent \notin Keys
  /\ Absent \notin [column : [Fields -> Values],
                    payload : [Fields -> Values \cup {Missing}]]

VARIABLES
  db,      \* what is committed
  conn,    \* each process's connection: its transaction and what it reads
  call,    \* the write call under way: its statement, executed or not
  wrote    \* how the last write of each process ended

connVars == <<db, conn, call, wrote>>

Payload == [Fields -> Values \cup {Missing}]
Row == [column : [Fields -> Values], payload : Payload]
Content == [Keys -> Row \cup {Absent}]
Empty == [k \in Keys |-> Absent]

(* "fresh" is history: the row that an update read was what was committed  *)
(* when it read it.                                                        *)
NoCall == [op |-> "none", key |-> Absent, row |-> Absent, fresh |-> TRUE, stage |-> "none"]
Calls == {NoCall} \cup [op : {"create", "update", "delete"}, key : Keys,
                        row : Row \cup {Absent}, fresh : BOOLEAN,
                        stage : {"execute", "commit"}]

(* "begun": in a transaction that has read nothing.  "pinned": it reads    *)
(* the content of its first read, outdated when another commit has come    *)
(* since.  "writing": it holds the write lock.                             *)
Connections == [txn : {"closed", "none", "begun", "pinned", "writing"},
                reads : Content, outdated : BOOLEAN]
Clean(txn) == [txn |-> txn, reads |-> Empty, outdated |-> FALSE]

-----------------------------------------------------------------------------
(* Rows. *)

(* _decode_row: the payload's value, or the column's if it has none.       *)
View(row) ==
  [f \in Fields |->
     IF row.payload[f] = Missing THEN row.column[f] ELSE row.payload[f]]

(* Mutant of CreatedRow: what the caller left out is left out.             *)
CreatedRow_NoDefaults(given) == [column |-> given, payload |-> given]

(* create_session: columns with defaults, the payload as the caller gave   *)
(* it.                                                                     *)
CreatedRow(given) ==
  [column |-> [f \in Fields |-> IF given[f] = Missing THEN Default[f]
                                                      ELSE Text[given[f]]],
   payload |-> given]

(* Mutant of UpdatedRow: the columns are set, the payload is not.          *)
UpdatedRow_ColumnsOnly(row, f, v) ==
  [row EXCEPT !.column = [g \in Fields |-> IF g = f THEN Text[v] ELSE @[g]]]

(* update_session: the decoded row with the updates over it.  All of it is *)
(* the new payload; of the columns only some are set.                      *)
UpdatedRow(row, f, v) ==
  LET merged == [View(row) EXCEPT ![f] = v]
  IN  [column |-> [g \in Fields |-> IF g \in Settable THEN Text[merged[g]]
                                                      ELSE row.column[g]],
       payload |-> merged]

(* UPDATE ... SET: the other columns stay those of the row that is there,  *)
(* which need not be the one that was read.                                *)
SetRow(old, row) ==
  [column |-> [f \in Fields |-> IF f \in Settable THEN row.column[f] ELSE old.column[f]],
   payload |-> row.payload]

(* What a statement makes of the content it runs on.  An UPDATE touches no *)
(* row when the key is gone.                                               *)
After(c, content) ==
  [content EXCEPT ![c.key] =
     IF c.op # "update" THEN c.row
     ELSE IF @ = Absent THEN Absent ELSE SetRow(@, c.row)]

-----------------------------------------------------------------------------
(* The connection. *)

InSnapshot(p) == conn[p].txn \in {"pinned", "writing"}
Visible(p) == IF InSnapshot(p) THEN conn[p].reads ELSE db

LockHeldByOther(p) == \E q \in Procs \ {p} : conn[q].txn = "writing"

(* Mutant of Reading: a transaction is opened before every SELECT.         *)
Reading_AlwaysPins(p) ==
  IF conn[p].txn \in {"none", "begun"}
    THEN [txn |-> "pinned", reads |-> db, outdated |-> FALSE] ELSE conn[p]

(* _query_one, _query_all: a SELECT inside a transaction pins its          *)
(* snapshot; outside of one it reads what is committed.                    *)
Reading(p) ==
  IF conn[p].txn = "begun"
    THEN [txn |-> "pinned", reads |-> db, outdated |-> FALSE] ELSE conn[p]

ConnInit ==
  /\ db = Empty
  /\ conn = [p \in Procs |-> Clean("closed")]
  /\ call = [p \in Procs |-> NoCall]
  /\ wrote = [p \in Procs |-> "nothing"]

(* initialize, on a file that has its schema.                              *)
Open(p) ==
  /\ conn[p].txn = "closed"
  /\ conn' = [conn EXCEPT ![p] = Clean("none")]
  /\ UNCHANGED <<db, call, wrote>>

(* close(), or the process stops: what was not committed is rolled back    *)
(* and the lock is free.                                                   *)
Leave(p) ==
  /\ conn[p].txn # "closed"
  /\ conn' = [conn EXCEPT ![p] = Clean("closed")]
  /\ call' = [call EXCEPT ![p] = NoCall]
  /\ wrote' = [wrote EXCEPT ![p] = "nothing"]
  /\ UNCHANGED db

Ready(p) == conn[p].txn # "closed" /\ call[p] = NoCall

Begin(p, op, k, row) ==
  call' = [call EXCEPT ![p] =
             [op |-> op, key |-> k, row |-> row, fresh |-> Visible(p)[k] = db[k],
              stage |-> "execute"]]

(* get_session, list_sessions and the other queries.                       *)
Query(p) ==
  /\ Ready(p)
  /\ conn' = [conn EXCEPT ![p] = Reading(p)]
  /\ UNCHANGED <<db, call, wrote>>

BeginCreate(p, k, given) ==
  /\ Ready(p)
  /\ Begin(p, "create", k, CreatedRow(given))
  /\ UNCHANGED <<db, conn, wrote>>

(* update_session reads the row, and returns False when there is none.     *)
BeginUpdate(p, k, f, v) ==
  /\ Ready(p)
  /\ conn' = [conn EXCEPT ![p] = Reading(p)]
  /\ IF Visible(p)[k] = Absent THEN UNCHANGED call
                               ELSE Begin(p, "update", k, UpdatedRow(Visible(p)[k], f, v))
  /\ UNCHANGED <<db, wrote>>

(* delete_session asks for the session's VMs first; of its statements the  *)
(* one on the sessions table is here.                                      *)
BeginDelete(p, k) ==
  /\ Ready(p)
  /\ conn' = [conn EXCEPT ![p] = Reading(p)]
  /\ Begin(p, "delete", k, Absent)
  /\ UNCHANGED <<db, wrote>>

-----------------------------------------------------------------------------
(* _execute: the statement, then the commit. *)

Executing(p) == call[p].stage = "execute"
Raises(p, error) ==
  /\ call' = [call EXCEPT ![p] = NoCall]
  /\ wrote' = [wrote EXCEPT ![p] = error]
  /\ UNCHANGED db

(* SQLITE_BUSY once the driver's timeout is over (the lock may come free   *)
(* before), or at once when the snapshot is outdated.                      *)
Refused(p) == LockHeldByOther(p) \/ conn[p].outdated

(* Mutant of ExecuteLocked: a retry without an end.                        *)
ExecuteLocked_Retries(p) ==
  /\ Executing(p)
  /\ Refused(p)
  /\ conn' = [conn EXCEPT ![p].txn = IF @ = "none" THEN "begun" ELSE @]
  /\ UNCHANGED <<db, call, wrote>>

(* Mutant of ExecuteLocked: on an outdated snapshot the transaction is     *)
(* rolled back and the statement tried again, with the row it was given.   *)
ExecuteLocked_TriesAgain(p) ==
  /\ Executing(p)
  /\ Refused(p)
  /\ IF conn[p].outdated
       THEN conn' = [conn EXCEPT ![p] = Clean("none")] /\ UNCHANGED <<db, call, wrote>>
       ELSE /\ conn' = [conn EXCEPT ![p].txn = IF @ = "none" THEN "begun" ELSE @]
            /\ Raises(p, "locked")

(* OperationalError: the transaction is open now, whatever was asked.      *)
ExecuteLocked(p) ==
  /\ Executing(p)
  /\ Refused(p)
  /\ conn' = [conn EXCEPT ![p].txn = IF @ = "none" THEN "begun" ELSE @]
  /\ Raises(p, "locked")

Writing(p, content) == [txn |-> "writing", reads |-> content, outdated |-> FALSE]

(* IntegrityError: the statement is undone and the lock is kept.           *)
ExecuteConflict(p) ==
  /\ Executing(p)
  /\ ~LockHeldByOther(p) /\ ~conn[p].outdated
  /\ call[p].op = "create" /\ Visible(p)[call[p].key] # Absent
  /\ conn' = [conn EXCEPT ![p] = Writing(p, Visible(p))]
  /\ Raises(p, "conflict")

Execute(p) ==
  /\ Executing(p)
  /\ ~LockHeldByOther(p) /\ ~conn[p].outdated
  /\ call[p].op = "create" => Visible(p)[call[p].key] = Absent
  /\ conn' = [conn EXCEPT ![p] = Writing(p, After(call[p], Visible(p)))]
  /\ call' = [call EXCEPT ![p].stage = "commit"]
  /\ UNCHANGED <<db, wrote>>

(* A commit that touched a row outdates the snapshots of the others.       *)
Touched(p) == db[call[p].key] # Absent \/ conn[p].reads[call[p].key] # Absent
Outdate(p) ==
  [q \in Procs |->
     IF q = p THEN Clean("none")
     ELSE IF conn[q].txn = "pinned" /\ Touched(p)
       THEN [conn[q] EXCEPT !.outdated = TRUE] ELSE conn[q]]

Commit(p) ==
  /\ call[p].stage = "commit"
  /\ db' = conn[p].reads
  /\ conn' = Outdate(p)
  /\ call' = [call EXCEPT ![p] = NoCall]
  /\ wrote' = [wrote EXCEPT ![p] = "returned"]

(* Mutant of CommitFails: what was executed waits for the next commit.     *)
CommitFails_KeepsWork(p) ==
  /\ call[p].stage = "commit"
  /\ UNCHANGED conn
  /\ Raises(p, "full")

(* The commit raises (a full disk): SQLite rolls the transaction back.     *)
CommitFails(p) ==
  /\ call[p].stage = "commit"
  /\ conn' = [conn EXCEPT ![p] = Clean("none")]
  /\ Raises(p, "full")

-----------------------------------------------------------------------------
Goes(p) == ExecuteLocked(p) \/ ExecuteConflict(p) \/ Execute(p) \/ Commit(p)

Asks(p) ==
  \/ Query(p)
  \/ \E k \in Keys :
       \/ \E given \in Given : BeginCreate(p, k, given)
       \/ \E u \in Updates : BeginUpdate(p, k, u[1], u[2])
       \/ BeginDelete(p, k)

ConnNext ==
  \E p \in Procs : Open(p) \/ Leave(p) \/ Asks(p) \/ Goes(p) \/ CommitFails(p)

ConnSpec == ConnInit /\ [][ConnNext]_connVars

(* A call goes on: nothing in it waits longer than the driver's timeout.   *)
(* A stubborn caller deletes again, whatever came of it the last time.     *)
Insists(p) == \E k \in Keys : BeginDelete(p, k)
FairConnSpec ==
  /\ ConnSpec
  /\ \A p \in Procs : WF_connVars(Goes(p))
  /\ \A p \in Stubborn : WF_connVars(Insists(p))

-----------------------------------------------------------------------------
(* Every variable has its type.                                            *)
ConnTypeOK ==
  /\ db \in Content
  /\ conn \in [Procs -> Connections]
  /\ call \in [Procs -> Calls]
  /\ wrote \in [Procs -> {"nothing", "returned", "locked", "conflict", "full"}]

(* A process whose last write did not raise reads what is committed, its   *)
(* own writes and everyone else's: only a write that raised makes a        *)
(* connection's reads stale (_query_one and _query_all run in whatever     *)
(* transaction a raising _execute left open).                              *)
ReadsAreCurrent ==
  \A p \in Procs :
    call[p] = NoCall /\ wrote[p] \in {"nothing", "returned", "full"} => Visible(p) = db

(* What a commit makes visible is the statement of the one call that       *)
(* returns with it, run on what was committed before: nothing of a call    *)
(* that raised, in whatever transaction it left behind, is committed by a  *)
(* later one, and whatever snapshot the connection was in, no other key's  *)
(* row goes back to what it was there.  It does not say that an update's   *)
(* row was made of what is committed now: update_session reads and writes  *)
(* apart, and what is committed between the two is lost.                   *)
CommitsAreOneCall ==
  [][db' # db =>
       \E p \in Procs :
         /\ call[p] # NoCall /\ wrote'[p] = "returned"
         /\ db' = After(call[p], db)]_connVars

(* That is all that can be lost.  An update whose row was read in a stale  *)
(* snapshot, older than what was committed when it was read, is refused    *)
(* before it executes (update_session in a transaction that a raising      *)
(* _execute left open; sqlite finds the snapshot outdated).                *)
StaleUpdatesAreRefused ==
  \A p \in Procs : call[p].op = "update" /\ call[p].stage = "commit" => call[p].fresh

(* The columns that update_session sets hold str() of what the row reads   *)
(* back, so that list_sessions(status = x) returns the rows whose status   *)
(* reads back as x, or as a value that str() makes x, and no others        *)
(* (DB-FR-08), in the committed content and in every snapshot.             *)
RowMatches(row) == \A f \in Settable : row.column[f] = Text[View(row)[f]]
FiltersMatchViews ==
  \A content \in {db} \cup {Visible(p) : p \in Procs} :
    \A k \in Keys : content[k] # Absent => RowMatches(content[k])

(* A write ends, by returning or by raising, even when another process     *)
(* keeps the lock for good: each call is bounded by the driver's timeout.  *)
CallsEnd == \A p \in Procs : call[p] # NoCall ~> call[p] = NoCall

(* "Database locked (concurrent write): SQLite WAL mode handles this;      *)
(* retry up to 3x with backoff" (METADATA-STORE-LLD:286): once the other   *)
(* processes leave the database alone, a caller that tries again gets      *)
(* through.  False: a write that met the lock leaves its transaction open, *)
(* a read there pins the snapshot, and when the other process has          *)
(* committed every further write is refused for being outdated.            *)
Quiet(p) ==
  \A q \in Procs \ {p} : call[q] = NoCall /\ conn[q].txn \in {"closed", "none"}
RetriesGetThrough ==
  \A p \in Stubborn : <>[]Quiet(p) => []<>(wrote[p] # "locked")
=============================================================================
