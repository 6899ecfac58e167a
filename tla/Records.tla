------------------------------- MODULE Records -------------------------------
(* Records of a model that keeps its history (model/modelsql.py), written by   *)
(* clients that read a record with its _timestamp and send the timestamp back  *)
(* with their change.  Each client works in a transaction over a snapshot of   *)
(* the database; the back-end refuses the commit of a change to a row that     *)
(* another transaction has changed since (PostgreSQL, REPEATABLE READ).        *)
EXTENDS Integers, Sequences, FiniteSets, SequencesExt, FiniteSetsExt
CONSTANTS
  Client,
  Record,      \* record ids
  Value,       \* values of the one field
  NoSuchValue, \* not a value: no such record
  MaxClock,    \* bound: transactions started
  MaxOps       \* bound: changes made
ASSUME RecordsAssumption == NoSuchValue \notin Value
VARIABLES
  table,       \* id -> [value, date, made], or NoSuchValue; "made" tells versions apart
  history,     \* the rows of the history table, in the order of __id
  clock,       \* CURRENT_TIMESTAMP of the last transaction started
  ops,         \* changes made so far, by all transactions
  client,      \* client -> its transaction
  seen,        \* client -> id -> the version it has read, with its timestamp
  timeline,    \* ghost: [id, date, value], what the table held of a record after each
               \* commit that versioned it, in the order of the commits
  overlapped   \* ghost: records whose history had changed, when a transaction added
               \* to it, since the transaction began
ghosts == <<timeline, overlapped>>
recordsVars == <<table, history, clock, ops, client, seen, ghosts>>

Idle == [status |-> "idle"]
NoRow == [value |-> NoSuchValue, date |-> 0, made |-> 0]
NoRows == [r \in Record |-> NoRow]
Exists(row) == row.value # NoSuchValue
HistoryRowOf(r, d, v) == [id |-> r, date |-> d, value |-> v]
\* The table is empty, or holds a record that the clients have read, or held one.
RecordsInit ==
  /\ \/ clock = 1 /\ table = NoRows /\ history = <<>>
     \/ \E r \in Record, v \in Value :
          /\ clock = 2 /\ table = [NoRows EXCEPT ![r] = [value |-> v, date |-> 1, made |-> 1]]
          /\ history = <<HistoryRowOf(r, 1, v)>>
     \/ \E r \in Record, v \in Value :
          /\ clock = 2 /\ table = NoRows
          /\ history = <<HistoryRowOf(r, 1, v), HistoryRowOf(r, 2, NoSuchValue)>>
  /\ timeline = history /\ overlapped = {} /\ ops = 2
  /\ client = [c \in Client |-> Idle]
  /\ seen = [c \in Client |-> table]

\* A read request: the values and the _timestamp of the records.
Read(c) ==
  /\ client[c].status = "idle" /\ seen[c] # table
  /\ seen' = [seen EXCEPT ![c] = table]
  /\ UNCHANGED <<table, history, clock, ops, client, ghosts>>

\* A request that changes records begins: with the timestamps of what the
\* client has read, or with none.
Begin(c, timestamp) ==
  /\ client[c].status = "idle" /\ clock < MaxClock
  /\ clock' = clock + 1
  /\ client' = [client EXCEPT ![c] =
       [status |-> "open", start |-> clock + 1, table |-> table, old |-> table, past |-> history,
        touched |-> {}, rows |-> <<>>, timestamp |-> timestamp, guarded |-> {}]]
  /\ UNCHANGED <<table, history, ops, seen, ghosts>>

Open(c) == client[c].status = "open" /\ ops < MaxOps /\ ops' = ops + 1
Kept == UNCHANGED <<table, history, clock, seen, ghosts>>
Abort(c) == client' = [client EXCEPT ![c] = Idle]
\* The row that holds v; none holds NoSuchValue.
Version(tx, v) ==
  IF v = NoSuchValue THEN NoRow ELSE [value |-> v, date |-> tx.start, made |-> ops + 1]
\* _insert_history: the row as it is now, or the mark of its deletion.
InsertHistory(rows, tx, r, v) == Append(rows, HistoryRowOf(r, tx.start, v))
\* The transaction gives r the value: it touches a row, unless it deletes where it
\* sees none, and adds to the history in any case.
Changed(c, r, v, timestamp, guarded) ==
  client' = [client EXCEPT
    ![c].table[r] = Version(client[c], v),
    ![c].touched = @ \cup {q \in {r} : v # NoSuchValue \/ Exists(client[c].table[r])},
    ![c].rows = InsertHistory(@, client[c], r, v),
    ![c].timestamp = timestamp,
    ![c].guarded = guarded]

HasRow(rows, r) == \E i \in 1..Len(rows) : rows[i].id = r
\* __check_timestamp: each timestamp is used once in the transaction, against
\* the row the transaction sees.
Checked(tx, r) == r \in tx.timestamp /\ Exists(tx.table[r])
TimestampOlder(c, r) ==
  Checked(client[c], r) /\ client[c].table[r].date < seen[c][r].date
TimestampRefused(c, r) ==
  Checked(client[c], r) /\ client[c].table[r].date # seen[c][r].date
Guard(c, r) == client[c].guarded \cup
  {g \in {<<r, seen[c][r].made>>} : Checked(client[c], r)}

\* The id is one that no transaction has used.
Create(c, r, v) ==
  /\ Open(c) /\ Kept
  /\ ~HasRow(history, r) /\ \A q \in Client : client[q] # Idle => ~HasRow(client[q].rows, r)
  /\ Changed(c, r, v, client[c].timestamp, client[c].guarded)
Write(c, r, v) ==
  /\ Open(c) /\ Kept
  /\ IF TimestampRefused(c, r) \/ ~Exists(client[c].table[r])
     THEN Abort(c)      \* ConcurrencyException, or AccessError: no such record
     ELSE Changed(c, r, v, client[c].timestamp \ {r}, Guard(c, r))
Delete(c, r) ==
  /\ Open(c) /\ Kept
  /\ IF TimestampRefused(c, r) THEN Abort(c)
     ELSE Exists(client[c].table[r]) /\
          Changed(c, r, NoSuchValue, client[c].timestamp \ {r}, Guard(c, r))

LastByDate(rows, r, d, before) ==
  LET S == {i \in 1..Len(rows) : /\ rows[i].id = r
                                 /\ IF before THEN rows[i].date < d ELSE rows[i].date <= d}
      top == Max({rows[i].date : i \in S})
  IN IF S = {} THEN NoRow ELSE rows[Min({i \in S : rows[i].date = top})]
\* The last row of the history of r at a date: by date, then by __id.
LastRow(rows, r, d, before) ==
  LET S == {i \in 1..Len(rows) : /\ rows[i].id = r
                                 /\ IF before THEN rows[i].date < d ELSE rows[i].date <= d}
      top == Max({rows[i].date : i \in S})
  IN IF S = {} THEN NoRow ELSE rows[Max({i \in S : rows[i].date = top})]
\* restore_history and restore_history_before, of a record that has a history: they
\* read the history of the snapshot, not what was committed since.
Restore(c, r, d, before) ==
  LET tx == client[c]
      past == tx.past \o tx.rows
  IN /\ Open(c) /\ Kept /\ HasRow(past, r)
     /\ Changed(c, r, LastRow(past, r, d, before).value, tx.timestamp, tx.guarded)

\* A row the transaction has touched was changed by another since it began.
Conflict(tx) == \E r \in tx.touched : table[r] # tx.old[r]
Versioned(tx) == {tx.rows[i].id : i \in 1..Len(tx.rows)}
Commit(c) ==
  LET tx == client[c]
      ids == SetToSeq(Versioned(tx))
  IN /\ tx.status = "open" /\ ~Conflict(tx)
     /\ table' = [r \in Record |-> IF r \in tx.touched THEN tx.table[r] ELSE table[r]]
     /\ history' = history \o tx.rows
     /\ timeline' = timeline \o
          [i \in 1..Cardinality(Versioned(tx)) |->
             HistoryRowOf(ids[i], tx.start, table'[ids[i]].value)]
     /\ overlapped' = overlapped \cup
          {r \in Versioned(tx) : \E i \in Len(tx.past) + 1..Len(history) : history[i].id = r}
     /\ client' = [client EXCEPT ![c] = Idle]
     /\ UNCHANGED <<clock, ops, seen>>
\* The back-end refuses: the request is tried again or answered with the error.
Refuse(c) ==
  /\ client[c].status = "open" /\ Conflict(client[c])
  /\ Abort(c)
  /\ UNCHANGED <<table, history, clock, ops, seen, ghosts>>

RecordsNext == \E c \in Client :
  \/ Read(c)
  \/ \E timestamp \in {{}, {r \in Record : Exists(seen[c][r])}} : Begin(c, timestamp)
  \/ \E r \in Record, v \in Value : Create(c, r, v) \/ Write(c, r, v)
  \/ \E r \in Record : Delete(c, r)
  \/ \E r \in Record, d \in 1..MaxClock, before \in BOOLEAN : d <= clock /\ Restore(c, r, d, before)
  \/ Commit(c)
  \/ Refuse(c)
RecordsSpec == RecordsInit /\ [][RecordsNext]_recordsVars

(* -------------------------------- properties ------------------------------- *)
\* Optimistic locking: a change sent with the timestamp of what the client has
\* read never replaces a version that the client has not read.
NoLostUpdate ==
  [][\A c \in Client :
       client[c].status = "open" /\ table' # table /\ client'[c].status = "idle" =>
         \A g \in client[c].guarded : table[g[1]].made = g[2]]_recordsVars

\* What a record was at a date, from the commits.
AsOf(r, d) ==
  LET S == {i \in 1..Len(timeline) : timeline[i].id = r /\ timeline[i].date <= d}
  IN IF S = {} THEN NoSuchValue ELSE timeline[Max(S)].value
\* read with _datetime: one row of the history for each record.
ReadAt(r, d) == LastRow(history, r, d, FALSE).value
\* A read at any date gives what the transactions committed up to that date had
\* made of the record, whatever was written, deleted and restored since, in
\* whatever order the transactions were committed; unless two of them that did not
\* see each other versioned it.  The back-end refuses that for all but the
\* restorations of a record that is not there.
HistoryFaithful ==
  \A r \in Record \ overlapped : \A d \in 1..clock : ReadAt(r, d) = AsOf(r, d)

\* "all changes on records are stored in an history table" (doc/ref/models.rst), and a
\* restoration is one of them: the history says of a record now what the table holds.
\* It does not hold: a restoration to nothing that sees no row touches none, so the
\* back-end lets it pass beside one that makes the row, and its mark stays in the history.
HistoryCurrent == \A r \in Record : ReadAt(r, clock) = table[r].value
==============================================================================
