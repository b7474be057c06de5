----------------------- MODULE StoreConnectionProofs -----------------------
(***************************************************************************)
(* Proofs about StoreConnection, for any processes, keys, fields and       *)
(* values.                                                                 *)
(***************************************************************************)
EXTENDS StoreConnection, TLAPS

Matches(content) ==
  \A k \in Keys : content[k] # Absent => RowMatches(content[k])

(* The row that a call writes: an update has one.                          *)
CallMatches(c) ==
  /\ c.op = "update" => c.row # Absent
  /\ c.row # Absent => RowMatches(c.row)

(* What a connection is good for.  One in a transaction that it did not    *)
(* open for the call under way has met an error; a snapshot that is not    *)
(* outdated is what is committed; one that is ahead of it is ahead by the  *)
(* call that is about to commit.  A call that was made of anything else    *)
(* is on an outdated snapshot until it is refused.                         *)
TransactionOK(p) ==
  /\ conn[p].txn \in {"begun", "pinned"} => wrote[p] \in {"locked", "conflict"}
  /\ conn[p].txn = "closed" => call[p] = NoCall
  /\ conn[p].outdated => conn[p].txn = "pinned"
  /\ conn[p].txn = "pinned" /\ ~conn[p].outdated => conn[p].reads = db
  /\ conn[p].txn = "writing" /\ call[p].stage # "commit" =>
       conn[p].reads = db /\ wrote[p] = "conflict"
  /\ call[p].stage = "commit" =>
       conn[p].txn = "writing" /\ conn[p].reads = After(call[p], db) /\ call[p].fresh
  /\ call[p].stage = "execute" /\ ~call[p].fresh => conn[p].outdated

OneWriter ==
  \A p, q \in Procs : conn[p].txn = "writing" /\ conn[q].txn = "writing" => p = q

RowsMatch ==
  /\ Matches(db)
  /\ \A p \in Procs : Matches(conn[p].reads)
  /\ \A p \in Procs : CallMatches(call[p])

ConnInv ==
  /\ ConnTypeOK
  /\ \A p \in Procs : TransactionOK(p)
  /\ OneWriter
  /\ RowsMatch

-----------------------------------------------------------------------------
(* Rows and contents. *)

(* The empty content is a content, and one whose rows match.               *)
LEMMA EmptyContent == Empty \in Content /\ Matches(Empty)
  BY DEF Empty, Content, Matches

(* A row reads back a value for every field.                               *)
LEMMA ViewType ==
  ASSUME NEW row \in Row
  PROVE  View(row) \in [Fields -> Values]
  BY DEF Row, Payload, View

(* The row of a create: the payload may lack a field, and the column then  *)
(* has the default, which is a text.                                       *)
LEMMA CreatedRowMatches ==
  ASSUME NEW given \in Payload
  PROVE  CreatedRow(given) \in Row /\ RowMatches(CreatedRow(given))
<1> DEFINE row == CreatedRow(given)
<1>1. row.column \in [Fields -> Values] /\ row.payload = given /\ row \in Row
  BY ConnectionAssumption DEF CreatedRow, Row, Payload
<1>2. ASSUME NEW f \in Settable PROVE row.column[f] = Text[View(row)[f]]
  BY <1>1, ConnectionAssumption DEF CreatedRow, View
<1> QED
  BY <1>1, <1>2 DEF RowMatches

(* The row of an update: the payload is the merged row, and so are, as     *)
(* text, the columns that it sets.                                         *)
LEMMA UpdatedRowMatches ==
  ASSUME NEW row \in Row, NEW f \in Fields, NEW v \in Values
  PROVE  UpdatedRow(row, f, v) \in Row /\ RowMatches(UpdatedRow(row, f, v))
<1> DEFINE merged == [View(row) EXCEPT ![f] = v]
           column == [g \in Fields |-> IF g \in Settable THEN Text[merged[g]]
                                                        ELSE row.column[g]]
<1>1. merged \in [Fields -> Values]
  BY ViewType
<1>2. UpdatedRow(row, f, v) = [column |-> column, payload |-> merged]
  BY DEF UpdatedRow
<1>3. column \in [Fields -> Values] /\ \A g \in Settable : column[g] = Text[merged[g]]
  BY <1>1, ConnectionAssumption DEF Row
<1> HIDE DEF merged, column
<1>4. UpdatedRow(row, f, v) \in Row
  BY <1>1, <1>2, <1>3 DEF Row, Payload
<1>5. \A g \in Fields : View(UpdatedRow(row, f, v))[g] = merged[g]
  BY <1>1, <1>2, ConnectionAssumption DEF View
<1> QED
  BY <1>2, <1>3, <1>4, <1>5, ConnectionAssumption DEF RowMatches

(* What an update sets matches in the row that is there.                   *)
LEMMA SetRowMatches ==
  ASSUME NEW old \in Row, NEW row \in Row, RowMatches(row)
  PROVE  SetRow(old, row) \in Row /\ RowMatches(SetRow(old, row))
<1>1. SetRow(old, row) \in Row
  BY DEF SetRow, Row
<1>2. /\ SetRow(old, row).payload = row.payload
      /\ \A f \in Settable : SetRow(old, row).column[f] = row.column[f]
  BY ConnectionAssumption DEF SetRow, Row
<1>3. \A f \in Settable : View(SetRow(old, row))[f] = View(row)[f]
  BY <1>2, ConnectionAssumption DEF View
<1> QED
  BY <1>1, <1>2, <1>3 DEF RowMatches

(* A row that is absent is none.                                           *)
LEMMA AbsentIsNoRow == Absent \notin Row
  BY ConnectionAssumption DEF Row, Payload

(* A statement keeps a content's type, its other rows, and their match.    *)
LEMMA AfterContent ==
  ASSUME NEW c \in Calls, c # NoCall, NEW content \in Content, Matches(content),
         CallMatches(c)
  PROVE  After(c, content) \in Content /\ Matches(After(c, content))
<1>1. c.key \in Keys /\ c.row \in Row \cup {Absent}
  BY DEF Calls
<1> DEFINE new == After(c, content)[c.key]
<1>2. new \in Row \cup {Absent} /\ (new # Absent => RowMatches(new))
  <2>1. CASE c.op # "update" \/ content[c.key] = Absent
    BY <1>1, <2>1 DEF After, Content, CallMatches
  <2>2. CASE c.op = "update" /\ content[c.key] # Absent
    <3>1. new = SetRow(content[c.key], c.row) /\ c.row \in Row /\ content[c.key] \in Row
      BY <1>1, <2>2 DEF After, Content, CallMatches
    <3> QED
      BY <2>2, <3>1, SetRowMatches DEF CallMatches
  <2> QED
    BY <2>1, <2>2
<1>3. After(c, content) = [content EXCEPT ![c.key] = new]
  BY <1>1 DEF After, Content
<1> HIDE DEF new
<1> QED
  BY <1>1, <1>2, <1>3 DEF Content, Matches
(* A statement on a content where its key is absent, and that leaves it so *)
(* there, changes nothing.                                                 *)
LEMMA UntouchedContent ==
  ASSUME NEW c \in Calls, c # NoCall, NEW content \in Content,
         content[c.key] = Absent, After(c, content)[c.key] = Absent
  PROVE  After(c, content) = content
  BY DEF After, Content, Calls
-----------------------------------------------------------------------------
(* Steps. *)

(* The invariant at one process, with what its step may touch.             *)
ProcessOK(p) ==
  /\ conn[p] \in Connections
  /\ call[p] \in Calls
  /\ wrote[p] \in {"nothing", "returned", "locked", "conflict", "full"}
  /\ TransactionOK(p)
  /\ Matches(conn[p].reads)
  /\ CallMatches(call[p])

(* A step of p that commits nothing keeps the invariant when it does so at *)
(* p, and p takes the lock only from nobody.                               *)
LEMMA LocalStep ==
  ASSUME ConnInv, NEW p \in Procs, db' = db,
         NEW c, NEW l, NEW w,
         conn' = [conn EXCEPT ![p] = c], call' = [call EXCEPT ![p] = l],
         wrote' = [wrote EXCEPT ![p] = w],
         ProcessOK(p)',
         c.txn = "writing" => conn[p].txn = "writing" \/ ~LockHeldByOther(p)
  PROVE  ConnInv'
<1>1. /\ conn'[p] = c /\ call'[p] = l /\ wrote'[p] = w
      /\ \A q \in Procs \ {p} : conn'[q] = conn[q] /\ call'[q] = call[q] /\ wrote'[q] = wrote[q]
  BY DEF ConnInv, ConnTypeOK
<1>2. ConnTypeOK'
  BY <1>1 DEF ConnInv, ConnTypeOK, ProcessOK
<1>3. \A q \in Procs : TransactionOK(q)'
  <2>1. TransactionOK(p)'
    BY DEF ProcessOK
  <2>2. ASSUME NEW q \in Procs \ {p}
        PROVE  TransactionOK(q)'
    BY <1>1 DEF ConnInv, TransactionOK, After
  <2> QED
    BY <2>1, <2>2
<1>4. OneWriter'
  BY <1>1 DEF ConnInv, OneWriter, LockHeldByOther
<1>5. RowsMatch'
  BY <1>1 DEF ConnInv, RowsMatch, ProcessOK, Matches, View
<1> QED
  BY <1>2, <1>3, <1>4, <1>5 DEF ConnInv

(* The invariant has all that it says of one process.                      *)
LEMMA InvAtProcess == ASSUME ConnInv, NEW p \in Procs
                      PROVE  ProcessOK(p) /\ db \in Content /\ Matches(db)
  BY DEF ConnInv, ConnTypeOK, ProcessOK, RowsMatch

(* No call writes nothing.                                                 *)
LEMMA NoCallIsGood ==
  NoCall \in Calls /\ NoCall.row = Absent /\ NoCall.stage = "none"
  /\ CallMatches(NoCall)
  BY DEF NoCall, Calls, CallMatches

(* A connection that has closed, or ended its transaction.                 *)
LEMMA CleanType ==
  ASSUME NEW txn \in {"closed", "none"}
  PROVE  Clean(txn) \in Connections /\ Matches(Clean(txn).reads)
  BY EmptyContent DEF Clean, Connections

(* A connection that opens or closes is in no transaction.                 *)
LEMMA OpenOrLeave ==
  ASSUME ConnInv, NEW p \in Procs, Open(p) \/ Leave(p)
  PROVE  ConnInv'
<1>1. ProcessOK(p) /\ NoCall \in Calls /\ NoCall.row = Absent /\ NoCall.stage = "none" /\ CallMatches(NoCall)
  BY InvAtProcess, NoCallIsGood
<1>2. CASE Open(p)
  <2>1. ProcessOK(p)'
    BY <1>1, <1>2, CleanType
    DEF Open, ProcessOK, TransactionOK, Clean, ConnInv, ConnTypeOK
  <2> QED
    BY <1>2, <2>1, LocalStep DEF Open, Clean, ConnInv, ConnTypeOK
<1>3. CASE Leave(p)
  <2>1. ProcessOK(p)'
    BY <1>1, <1>3, CleanType
    DEF Leave, ProcessOK, TransactionOK, Clean, ConnInv, ConnTypeOK, CallMatches, RowMatches,
        View
  <2> QED
    BY <1>3, <2>1, LocalStep DEF Leave, Clean
<1> QED
  BY <1>2, <1>3

(* What a read leaves of the connection is still good, and what it sees    *)
(* is a content.                                                           *)
LEMMA ReadingIsGood ==
  ASSUME ConnInv, NEW p \in Procs, Ready(p), db' = db,
         conn' = [conn EXCEPT ![p] = Reading(p)],
         NEW l \in Calls, call' = [call EXCEPT ![p] = l],
         l.stage # "commit", CallMatches(l),
         l.stage = "execute" /\ ~l.fresh => conn[p].outdated,
         wrote' = [wrote EXCEPT ![p] = wrote[p]]
  PROVE  ConnInv'
<1>1. /\ ProcessOK(p) /\ db \in Content /\ Matches(db) /\ call[p].stage # "commit"
      /\ conn[p].txn # "closed"
  BY InvAtProcess DEF Ready, NoCall
<1>2. /\ conn'[p] = Reading(p) /\ call'[p] = l /\ wrote'[p] = wrote[p]
  BY DEF ConnInv, ConnTypeOK
<1>3. Reading(p) \in Connections /\ Matches(Reading(p).reads)
  BY <1>1 DEF Reading, Connections, ProcessOK
<1>4. TransactionOK(p)'
  BY <1>1, <1>2 DEF Reading, ProcessOK, TransactionOK
<1>5. ProcessOK(p)'
  BY <1>1, <1>2, <1>3, <1>4 DEF ProcessOK, Matches, View
<1> QED
  BY <1>5, LocalStep DEF Reading

(* What a process sees is what is committed, unless its snapshot is        *)
(* outdated.                                                               *)
LEMMA StaleIsOutdated ==
  ASSUME ConnInv, NEW p \in Procs, Ready(p), NEW k \in Keys
  PROVE  Visible(p)[k] # db[k] => conn[p].outdated
  BY InvAtProcess DEF Ready, NoCall, ProcessOK, TransactionOK, Visible, InSnapshot

(* Query, and the beginning of a write: an update's row is made of one     *)
(* that the connection sees.                                               *)
LEMMA AsksKeepsInv ==
  ASSUME ConnInv, NEW p \in Procs, Asks(p)
  PROVE  ConnInv'
<1>1. /\ wrote' = wrote /\ db' = db /\ Ready(p)
      /\ wrote = [wrote EXCEPT ![p] = wrote[p]]
      /\ conn = [conn EXCEPT ![p] = conn[p]]
      /\ call = [call EXCEPT ![p] = NoCall]
      /\ NoCall \in Calls /\ NoCall.row = Absent /\ NoCall.stage = "none" /\ CallMatches(NoCall)
  BY NoCallIsGood
  DEF Asks, Query, BeginCreate, BeginUpdate, BeginDelete, Ready, ConnInv, ConnTypeOK
<1>2. CASE Query(p)
  BY <1>1, <1>2, ReadingIsGood DEF Query
<1>3. ASSUME NEW k \in Keys, NEW op \in {"create", "update", "delete"},
             NEW row \in Row \cup {Absent}, op = "update" => row # Absent,
             row # Absent => RowMatches(row), Begin(p, op, k, row),
             conn' = conn \/ conn' = [conn EXCEPT ![p] = Reading(p)]
      PROVE  ConnInv'
  <2> DEFINE l == [op |-> op, key |-> k, row |-> row, fresh |-> Visible(p)[k] = db[k],
                   stage |-> "execute"]
  <2>1. l \in Calls /\ l.stage # "commit" /\ CallMatches(l)
    BY <1>3 DEF Calls, CallMatches
  <2>2. call' = [call EXCEPT ![p] = l]
    BY <1>3 DEF Begin
  <2>3. ~l.fresh => conn[p].outdated
    BY <1>1, StaleIsOutdated
  <2> HIDE DEF l
  <2>4. CASE conn' = [conn EXCEPT ![p] = Reading(p)]
    BY <1>1, <1>3, <2>1, <2>2, <2>3, <2>4, ReadingIsGood
  <2>5. CASE conn' = conn
    <3>1. /\ ProcessOK(p) /\ conn[p].txn # "closed" /\ call[p].stage # "commit"
      BY <1>1, InvAtProcess DEF Ready
    <3>2. conn'[p] = conn[p] /\ wrote'[p] = wrote[p] /\ call'[p] = l
      BY <1>1, <2>2, <2>5 DEF ConnInv, ConnTypeOK
    <3>3. TransactionOK(p)'
      BY <1>1, <2>1, <2>3, <3>1, <3>2 DEF ProcessOK, TransactionOK
    <3>4. Matches(conn[p].reads)'
      BY <3>1, <3>2 DEF ProcessOK, Matches, RowMatches, View
    <3>5. CallMatches(call[p])'
      BY <2>1, <3>2 DEF CallMatches, RowMatches, View
    <3>6. ProcessOK(p)'
      BY <1>1, <2>1, <3>1, <3>2, <3>3, <3>4, <3>5 DEF ProcessOK
    <3> QED
      BY <1>1, <2>2, <2>5, <3>6, LocalStep
  <2> QED
    BY <1>3, <2>4, <2>5
<1>4. ASSUME NEW k \in Keys, NEW given \in Given, BeginCreate(p, k, given)
      PROVE  ConnInv'
  <2>1. given \in Payload
    BY ConnectionAssumption DEF Payload
  <2> QED
    BY <1>3, <1>4, <2>1, CreatedRowMatches DEF BeginCreate
<1>5. ASSUME NEW k \in Keys, NEW u \in Updates, BeginUpdate(p, k, u[1], u[2])
      PROVE  ConnInv'
  <2>1. CASE Visible(p)[k] = Absent
    BY <1>1, <1>5, <2>1, ReadingIsGood DEF BeginUpdate, CallMatches, NoCall
  <2>2. CASE Visible(p)[k] # Absent
    <3>1. Visible(p) \in Content
      BY InvAtProcess DEF Visible, ProcessOK, Connections
    <3>2. Visible(p)[k] \in Row /\ u[1] \in Fields /\ u[2] \in Values
      BY <2>2, <3>1, ConnectionAssumption DEF Content
    <3> DEFINE row == UpdatedRow(Visible(p)[k], u[1], u[2])
    <3>3. row \in Row /\ RowMatches(row) /\ row # Absent
      BY <3>2, UpdatedRowMatches, AbsentIsNoRow
    <3>4. Begin(p, "update", k, row) /\ conn' = [conn EXCEPT ![p] = Reading(p)]
      BY <1>5, <2>2 DEF BeginUpdate
    <3> HIDE DEF row
    <3> QED
      BY <1>3, <3>3, <3>4
  <2> QED
    BY <2>1, <2>2
<1>6. ASSUME NEW k \in Keys, BeginDelete(p, k)
      PROVE  ConnInv'
  BY <1>3, <1>6 DEF BeginDelete
<1> QED
  BY <1>2, <1>4, <1>5, <1>6 DEF Asks

(* A statement runs on what the process sees, which is what is committed.  *)
LEMMA StatementRunsOnCommitted ==
  ASSUME ConnInv, NEW p \in Procs, Executing(p), ~conn[p].outdated
  PROVE  Visible(p) = db
  BY InvAtProcess DEF Executing, ProcessOK, TransactionOK, Visible, InSnapshot

(* A statement that raises: the transaction stays as it was, or opens.     *)
LEMMA ExecuteRaisesKeepsInv ==
  ASSUME ConnInv, NEW p \in Procs, ExecuteLocked(p) \/ ExecuteConflict(p)
  PROVE  ConnInv'
<1>1. /\ ProcessOK(p) /\ db \in Content /\ Matches(db) /\ Executing(p) /\ call[p] # NoCall
      /\ NoCall \in Calls /\ NoCall.row = Absent /\ NoCall.stage = "none" /\ CallMatches(NoCall)
  BY InvAtProcess, NoCallIsGood DEF ExecuteLocked, ExecuteConflict, Executing, NoCall
<1>2. CASE ExecuteLocked(p)
  <2> DEFINE c == [conn[p] EXCEPT !.txn = IF @ = "none" THEN "begun" ELSE @]
  <2>1. conn' = [conn EXCEPT ![p] = c]
    BY <1>2 DEF ExecuteLocked
  <2>2. c \in Connections /\ c.reads = conn[p].reads
    BY <1>1 DEF ProcessOK, Connections
  <2>3. ~(conn[p].txn = "writing")
    BY <1>1, <1>2 DEF ExecuteLocked, Refused, LockHeldByOther, ProcessOK, TransactionOK,
                      ConnInv, OneWriter
  <2>4. /\ c.txn = IF conn[p].txn = "none" THEN "begun" ELSE conn[p].txn
        /\ c.outdated = conn[p].outdated
    BY <1>1 DEF ProcessOK, Connections
  <2> HIDE DEF c
  <2>5. conn'[p] = c /\ call'[p] = NoCall /\ wrote'[p] = "locked" /\ db' = db
    BY <1>2, <2>1 DEF ExecuteLocked, Raises, ConnInv, ConnTypeOK
  <2>6. TransactionOK(p)'
    BY <1>1, <2>2, <2>3, <2>4, <2>5 DEF ProcessOK, TransactionOK
  <2>7. Matches(conn[p].reads)'
    BY <1>1, <2>2, <2>5 DEF ProcessOK, Matches, RowMatches, View
  <2>8. CallMatches(call[p])'
    BY <1>1, <2>5 DEF CallMatches, RowMatches, View
  <2>9. ProcessOK(p)'
    BY <1>1, <2>2, <2>5, <2>6, <2>7, <2>8 DEF ProcessOK
  <2> QED
    BY <1>2, <2>1, <2>3, <2>4, <2>5, <2>9, LocalStep DEF ExecuteLocked, Raises
<1>3. CASE ExecuteConflict(p)
  <2>1. Visible(p) = db
    BY <1>3, StatementRunsOnCommitted DEF ExecuteConflict
  <2>2. conn'[p] = Writing(p, db) /\ call'[p] = NoCall /\ wrote'[p] = "conflict" /\ db' = db
    BY <1>3, <2>1 DEF ExecuteConflict, Raises, ConnInv, ConnTypeOK
  <2>3. TransactionOK(p)'
    BY <1>1, <2>2 DEF Writing, TransactionOK
  <2>4. Writing(p, db) \in Connections /\ Writing(p, db).reads = db
    BY <1>1 DEF Writing, Connections
  <2>5. Matches(conn[p].reads)'
    BY <1>1, <2>2, <2>4 DEF Matches, RowMatches, View
  <2>6. CallMatches(call[p])'
    BY <1>1, <2>2 DEF CallMatches, RowMatches, View
  <2>7. ProcessOK(p)'
    BY <1>1, <2>2, <2>3, <2>4, <2>5, <2>6 DEF ProcessOK
  <2> QED
    BY <1>3, <2>2, <2>7, LocalStep DEF ExecuteConflict, Raises
<1> QED
  BY <1>2, <1>3

(* A statement that runs puts the connection ahead by its own call.        *)
LEMMA ExecuteKeepsInv == ASSUME ConnInv, NEW p \in Procs, Execute(p) PROVE ConnInv'
<1>1. /\ ProcessOK(p) /\ db \in Content /\ Matches(db) /\ Executing(p) /\ call[p] # NoCall
  BY InvAtProcess DEF Execute, Executing, NoCall
<1>2. Visible(p) = db
  BY StatementRunsOnCommitted DEF Execute
<1> DEFINE c == Writing(p, After(call[p], db))
           l == [call[p] EXCEPT !.stage = "commit"]
<1>3. conn' = [conn EXCEPT ![p] = c] /\ call' = [call EXCEPT ![p] = l]
      /\ wrote' = [wrote EXCEPT ![p] = wrote[p]] /\ db' = db
  BY <1>2 DEF Execute, ConnInv, ConnTypeOK
<1>4. l \in Calls /\ l.stage = "commit" /\ l.row = call[p].row /\ l.fresh
      /\ l.op = call[p].op /\ l.key = call[p].key
  BY <1>1 DEF ProcessOK, TransactionOK, Executing, Execute, Calls, NoCall
<1>5. After(call[p], db) \in Content /\ Matches(After(call[p], db))
  BY <1>1, AfterContent DEF ProcessOK
<1>6. c \in Connections /\ c.txn = "writing" /\ c.reads = After(call[p], db) /\ ~c.outdated
  BY <1>5 DEF Writing, Connections
<1> HIDE DEF c, l
<1>7. conn'[p] = c /\ call'[p] = l /\ wrote'[p] = wrote[p]
  BY <1>3 DEF ConnInv, ConnTypeOK
<1>8. TransactionOK(p)'
  <2>1. After(call[p], db)' = After(call[p], db)
    BY <1>3, <1>4, <1>7 DEF After, SetRow
  <2> QED
    BY <1>4, <1>6, <1>7, <2>1 DEF TransactionOK
<1>9. Matches(conn[p].reads)'
  BY <1>5, <1>6, <1>7 DEF Matches, RowMatches, View
<1>10. CallMatches(call[p])'
  <2>1. CallMatches(call[p])
    BY <1>1 DEF ProcessOK
  <2> QED
    BY <1>4, <1>7, <2>1 DEF CallMatches, RowMatches, View
<1>11. ProcessOK(p)'
  BY <1>1, <1>4, <1>6, <1>7, <1>8, <1>9, <1>10 DEF ProcessOK
<1> QED
  BY <1>3, <1>11, LocalStep DEF Execute

(* A commit that raises rolls the transaction back.                        *)
LEMMA CommitFailsKeepsInv == ASSUME ConnInv, NEW p \in Procs, CommitFails(p) PROVE ConnInv'
<1>1. /\ ProcessOK(p) /\ NoCall \in Calls /\ NoCall.row = Absent /\ NoCall.stage = "none" /\ CallMatches(NoCall)
      /\ Clean("none").txn = "none" /\ ~Clean("none").outdated
  BY InvAtProcess, NoCallIsGood DEF Clean
<1>2. conn'[p] = Clean("none") /\ call'[p] = NoCall /\ wrote'[p] = "full" /\ db' = db
  BY DEF CommitFails, Raises, ConnInv, ConnTypeOK
<1>3. TransactionOK(p)'
  BY <1>1, <1>2 DEF TransactionOK
<1>4. Matches(conn[p].reads)' /\ conn'[p] \in Connections
  BY <1>2, CleanType DEF Matches, RowMatches, View
<1>5. CallMatches(call[p])'
  BY <1>1, <1>2 DEF CallMatches, RowMatches, View
<1>6. ProcessOK(p)'
  BY <1>1, <1>2, <1>3, <1>4, <1>5 DEF ProcessOK
<1> QED
  BY <1>1, <1>6, LocalStep DEF CommitFails, Raises

(* A commit: what it makes of the file is the call's statement on what was *)
(* committed, and a snapshot that it does not outdate was not changed.     *)
LEMMA CommitIsTheStatement ==
  ASSUME ConnInv, NEW p \in Procs, Commit(p)
  PROVE  /\ db' = After(call[p], db) /\ call[p] # NoCall
         /\ db' \in Content /\ Matches(db')
         /\ ~Touched(p) => db' = db
<1>1. /\ ProcessOK(p) /\ db \in Content /\ Matches(db) /\ call[p] # NoCall
  BY InvAtProcess DEF Commit, NoCall
<1>2. conn[p].reads = After(call[p], db) /\ db' = conn[p].reads
  BY <1>1 DEF Commit, ProcessOK, TransactionOK
<1>3. After(call[p], db) \in Content /\ Matches(After(call[p], db))
  BY <1>1, AfterContent DEF ProcessOK
<1>4. ASSUME ~Touched(p) PROVE db' = db
  BY <1>1, <1>2, <1>4, UntouchedContent DEF Touched, ProcessOK
<1> QED
  BY <1>1, <1>2, <1>3, <1>4

(* A commit ends the transaction, and the snapshots of others stay what    *)
(* they were, or are outdated.                                             *)
LEMMA CommitKeepsInv == ASSUME ConnInv, NEW p \in Procs, Commit(p) PROVE ConnInv'
<1>1. /\ NoCall \in Calls /\ NoCall.row = Absent /\ NoCall.stage = "none" /\ CallMatches(NoCall)
      /\ Clean("none").txn = "none" /\ ~Clean("none").outdated
      /\ conn[p].txn = "writing"
  BY InvAtProcess, NoCallIsGood DEF Clean, Commit, ProcessOK, TransactionOK
<1>2. /\ db' = After(call[p], db) /\ db' \in Content /\ Matches(db')
      /\ ~Touched(p) => db' = db
  BY CommitIsTheStatement
<1>3. /\ conn' = Outdate(p) /\ call' = [call EXCEPT ![p] = NoCall]
      /\ wrote' = [wrote EXCEPT ![p] = "returned"]
  BY DEF Commit
<1>4. conn'[p] = Clean("none") /\ call'[p] = NoCall /\ wrote'[p] = "returned"
  BY <1>3 DEF Outdate, ConnInv, ConnTypeOK
<1>5. ASSUME NEW q \in Procs, q # p
      PROVE  /\ call'[q] = call[q] /\ wrote'[q] = wrote[q] /\ conn[q].txn # "writing"
             /\ conn'[q].txn = conn[q].txn /\ conn'[q].reads = conn[q].reads
             /\ conn'[q] \in Connections
             /\ conn'[q].outdated =
                  (conn[q].outdated \/ (conn[q].txn = "pinned" /\ Touched(p)))
  <2>1. /\ conn[q] \in Connections /\ conn[q].txn # "writing"
        /\ conn[q].outdated => conn[q].txn = "pinned"
    BY <1>1, <1>5 DEF ConnInv, OneWriter, ConnTypeOK, TransactionOK
  <2>2. conn'[q] = IF conn[q].txn = "pinned" /\ Touched(p)
                     THEN [conn[q] EXCEPT !.outdated = TRUE] ELSE conn[q]
    BY <1>3, <1>5 DEF Outdate
  <2>3. call'[q] = call[q] /\ wrote'[q] = wrote[q]
    BY <1>3, <1>5 DEF ConnInv, ConnTypeOK
  <2>4. CASE conn[q].txn = "pinned" /\ Touched(p)
    BY <2>1, <2>2, <2>3, <2>4 DEF Connections
  <2>5. CASE ~(conn[q].txn = "pinned" /\ Touched(p))
    BY <2>1, <2>2, <2>3, <2>5 DEF Connections
  <2> QED
    BY <2>4, <2>5
<1>6. \A q \in Procs : TransactionOK(q)'
  <2>1. TransactionOK(p)'
    BY <1>1, <1>4 DEF TransactionOK
  <2>2. ASSUME NEW q \in Procs, q # p
        PROVE  TransactionOK(q)'
    <3>1. TransactionOK(q) /\ call[q].stage # "commit"
      BY <1>5, <2>2 DEF ConnInv, TransactionOK
    <3> QED
      BY <1>2, <1>5, <2>2, <3>1 DEF TransactionOK
  <2> QED
    BY <2>1, <2>2
<1>7. ConnTypeOK'
  <2>1. conn' = [q \in Procs |-> conn'[q]]
    BY <1>3 DEF Outdate
  <2>2. \A q \in Procs : conn'[q] \in Connections
    BY <1>4, <1>5, CleanType
  <2> QED
    BY <1>1, <1>2, <1>3, <2>1, <2>2 DEF ConnInv, ConnTypeOK
<1>8. OneWriter'
  BY <1>1, <1>4, <1>5 DEF OneWriter
<1>9. RowsMatch'
  <2>1. \A q \in Procs : Matches(conn'[q].reads)
    BY <1>4, <1>5, CleanType DEF ConnInv, RowsMatch
  <2>2. \A q \in Procs : CallMatches(call'[q])
    BY <1>1, <1>4, <1>5 DEF ConnInv, RowsMatch
  <2> QED
    BY <1>2, <2>1, <2>2 DEF RowsMatch, Matches, CallMatches, RowMatches, View
<1> QED
  BY <1>6, <1>7, <1>8, <1>9 DEF ConnInv

-----------------------------------------------------------------------------
(* Every step keeps the invariant.                                         *)
LEMMA ConnStep == ASSUME ConnInv, [ConnNext]_connVars PROVE ConnInv'
<1>1. CASE UNCHANGED connVars
  BY <1>1 DEF connVars, ConnInv, ConnTypeOK, TransactionOK, OneWriter, RowsMatch, Matches,
              View, After
<1>2. CASE ConnNext
  BY <1>2, OpenOrLeave, AsksKeepsInv, ExecuteRaisesKeepsInv, ExecuteKeepsInv, CommitKeepsInv,
     CommitFailsKeepsInv DEF ConnNext, Goes
<1> QED
  BY <1>1, <1>2

(* At the start nothing is open and nothing written.                       *)
LEMMA ConnInitInv == ConnInit => ConnInv
<1> SUFFICES ASSUME ConnInit PROVE ConnInv
  OBVIOUS
<1>1. /\ NoCall \in Calls /\ NoCall.row = Absent /\ NoCall.stage = "none" /\ CallMatches(NoCall)
      /\ Clean("closed").txn = "closed" /\ ~Clean("closed").outdated
  BY NoCallIsGood DEF Clean
<1>2. ConnTypeOK
  BY <1>1, CleanType, EmptyContent DEF ConnInit, ConnTypeOK
<1>3. \A p \in Procs : TransactionOK(p)
  BY <1>1 DEF ConnInit, TransactionOK
<1>4. OneWriter
  BY <1>1 DEF ConnInit, OneWriter
<1>5. RowsMatch
  BY <1>1, CleanType, EmptyContent DEF ConnInit, RowsMatch
<1> QED
  BY <1>2, <1>3, <1>4, <1>5 DEF ConnInv

(* So the invariant holds of every reachable state.                        *)
LEMMA ConnInvHolds == ConnSpec => []ConnInv
<1>1. ConnInv /\ [ConnNext]_connVars => ConnInv'
  BY ConnStep
<1> QED
  BY <1>1, ConnInitInv, PTL DEF ConnSpec

-----------------------------------------------------------------------------
(* The database, the connections and the calls keep their types.           *)
THEOREM ConnTypeCorrect == ConnSpec => []ConnTypeOK
  BY ConnInvHolds, PTL DEF ConnInv

(* A process whose last write did not raise reads what is committed: only  *)
(* a write that raised leaves a transaction to read in.                    *)
THEOREM ReadsAreAlwaysCurrent == ConnSpec => []ReadsAreCurrent
<1>1. ConnInv => ReadsAreCurrent
  BY DEF ConnInv, ConnTypeOK, Connections, TransactionOK, ReadsAreCurrent, Visible, InSnapshot,
         NoCall
<1> QED
  BY <1>1, ConnInvHolds, PTL

(* The columns that an update sets hold str() of what the row reads back,  *)
(* so that a query's filter and the rows it returns agree.                 *)
THEOREM FiltersAlwaysMatchViews == ConnSpec => []FiltersMatchViews
<1>1. ConnInv => FiltersMatchViews
  BY DEF ConnInv, RowsMatch, Matches, FiltersMatchViews, Visible
<1> QED
  BY <1>1, ConnInvHolds, PTL

(* An update that executes was made of the row as it was committed when    *)
(* the call read it.                                                       *)
THEOREM StaleUpdatesAreAlwaysRefused == ConnSpec => []StaleUpdatesAreRefused
<1>1. ConnInv => StaleUpdatesAreRefused
  BY DEF ConnInv, TransactionOK, StaleUpdatesAreRefused
<1> QED
  BY <1>1, ConnInvHolds, PTL

(* What becomes visible is the statement of the one call that returns with *)
(* it, on what was committed before.                                       *)
THEOREM CommitsAreAlwaysOneCall == ConnSpec => CommitsAreOneCall
<1>1. ASSUME ConnInv, [ConnNext]_connVars
      PROVE  db' # db =>
               \E p \in Procs :
                 /\ call[p] # NoCall /\ wrote'[p] = "returned"
                 /\ db' = After(call[p], db)
  <2>1. ASSUME NEW p \in Procs, Commit(p)
        PROVE  call[p] # NoCall /\ wrote'[p] = "returned" /\ db' = After(call[p], db)
    <3>1. wrote'[p] = "returned"
      BY <1>1, <2>1 DEF Commit, ConnInv, ConnTypeOK
    <3> QED
      BY <1>1, <2>1, <3>1, CommitIsTheStatement
  <2>2. ASSUME NEW p \in Procs,
               Open(p) \/ Leave(p) \/ Asks(p) \/ ExecuteLocked(p) \/ ExecuteConflict(p)
               \/ Execute(p) \/ CommitFails(p)
        PROVE  db' = db
    BY <2>2 DEF Open, Leave, Asks, Query, BeginCreate, BeginUpdate, BeginDelete, ExecuteLocked,
                ExecuteConflict, Execute, CommitFails, Raises
  <2> QED
    BY <1>1, <2>1, <2>2 DEF ConnNext, Goes, connVars
<1> QED
  BY <1>1, ConnInvHolds, PTL DEF ConnSpec, CommitsAreOneCall
=============================================================================
