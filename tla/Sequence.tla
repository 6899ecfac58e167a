------------------------------ MODULE Sequence ------------------------------
(* ir.sequence (ir/sequence.py): transactions take numbers from one sequence.  *)
(* Depending on its kind the number comes from an SQL sequence, from the row   *)
(* of the sequence, which a strict sequence locks first, or from the clock.    *)
EXTENDS Naturals, FiniteSets
CONSTANTS
  User,         \* transactions that may be open together
  MaxNumber,    \* bound of the numbers, and of the clock
  MaxOpen       \* bound: transactions started
VARIABLES
  type,         \* "sql", "plain", "strict" or "timestamp"
  row,          \* the row: [next, version]; next is last_timestamp of a timestamp
  sqlNext,      \* the next value of the SQL sequence
  work,         \* user -> its transaction
  issued,       \* the numbers of committed transactions
  twice,        \* ghost: a number was committed a second time
  now,          \* what _timestamp() gives
  opened,       \* transactions started
  stale         \* ghost: the SQL sequence was restarted from an old reading
svars == <<type, row, sqlNext, work, issued, twice, now, opened, stale>>

NoWork == [at |-> "idle", seen |-> 0, row |-> 0, got |-> {}, next |-> 0, restart |-> 0]
SequenceInit ==
  /\ type \in {"sql", "plain", "strict", "timestamp"}
  /\ row = [next |-> IF type = "timestamp" THEN 0 ELSE 1, version |-> 0]
  /\ sqlNext = 1                 \* create: update_sql_sequence
  /\ work = [u \in User |-> NoWork]
  /\ issued = {} /\ twice = FALSE /\ now = 1 /\ opened = 0 /\ stale = FALSE

BeginWork(u) ==
  /\ work[u].at = "idle" /\ opened < MaxOpen /\ opened' = opened + 1
  /\ work' = [work EXCEPT ![u] =
       [NoWork EXCEPT !.at = "open", !.seen = row.version, !.row = row.next]]
  /\ UNCHANGED <<type, row, sqlNext, issued, twice, now, stale>>
Rest == UNCHANGED <<type, row, issued, twice, now, opened, stale>>
Others(u) == User \ {u}
AbortWork(u) == work' = [work EXCEPT ![u] = NoWork]
\* The back-end lets one transaction change the row after its snapshot; a change
\* that meets another fails: nowait of lock, or a serialization failure.
Holds(v) == work[v].at \in {"locked", "changed"}
LostToHolder(u) == \E v \in Others(u) : Holds(v)
Lost(u) == row.version # work[u].seen \/ \E v \in Others(u) : Holds(v)

\* SELECT nextval: at once for all, whatever becomes of the transaction; it waits
\* for a transaction that has restarted the sequence.
Nextval(u) ==
  /\ type = "sql" /\ work[u].at = "open"
  /\ sqlNext <= MaxNumber /\ work[u].restart <= MaxNumber
  /\ \A v \in Others(u) : work[v].restart = 0
  /\ IF work[u].restart = 0
     THEN /\ sqlNext' = sqlNext + 1
          /\ work' = [work EXCEPT ![u].got = @ \cup {sqlNext}]
     ELSE /\ UNCHANGED sqlNext
          /\ work' = [work EXCEPT ![u].got = @ \cup {work[u].restart}, ![u].restart = @ + 1]
  /\ Rest
\* get of a strict sequence locks the row before it reads it.
Lock(u) ==
  /\ type = "strict" /\ work[u].at = "open"
  /\ IF Lost(u) THEN AbortWork(u) ELSE work' = [work EXCEPT ![u].at = "locked"]
  /\ UNCHANGED sqlNext /\ Rest
\* The number of the row, and its next one written.
TakeNumber(u) ==
  /\ \/ type = "strict" /\ work[u].at \in {"locked", "changed"}
     \/ type = "plain" /\ work[u].at \in {"open", "changed"}
  /\ work[u].row <= MaxNumber
  /\ IF Lost(u) THEN AbortWork(u)
     ELSE work' = [work EXCEPT ![u].at = "changed", ![u].got = @ \cup {work[u].row},
                               ![u].row = @ + 1]
  /\ UNCHANGED sqlNext /\ Rest
\* The loop ends when the clock has left last_timestamp.
TakeTimestamp(u) ==
  /\ type = "timestamp" /\ work[u].at \in {"open", "changed"}
  /\ now # work[u].row
  /\ IF Lost(u) THEN AbortWork(u)
     ELSE work' = [work EXCEPT ![u].at = "changed", ![u].got = @ \cup {now}, ![u].row = now]
  /\ UNCHANGED sqlNext /\ Rest
Tick ==
  /\ type = "timestamp" /\ now < MaxNumber /\ now' = now + 1
  /\ UNCHANGED <<type, row, sqlNext, work, issued, twice, opened, stale>>

\* write of anything: update_sql_sequence reads number_next and then restarts the
\* sequence with it, which waits for the transactions that have taken a number.
ReadNext(u) ==
  /\ type = "sql" /\ work[u].at = "open" /\ work[u].got = {} /\ work[u].restart = 0
  /\ \A v \in Others(u) : work[v].restart = 0
  /\ work' = [work EXCEPT ![u].at = "written", ![u].next = sqlNext]
  /\ UNCHANGED sqlNext /\ Rest
Restart(u) ==
  /\ work[u].at = "written"
  /\ \A v \in Others(u) : work[v].restart = 0 /\ work[v].got = {}
  /\ work' = [work EXCEPT ![u].at = "open", ![u].restart = work[u].next]
  /\ stale' = (stale \/ work[u].next < sqlNext)
  /\ UNCHANGED <<type, row, sqlNext, issued, twice, now, opened>>

CommitWork(u) ==
  /\ work[u].at \in {"open", "locked", "changed"}
  /\ issued' = issued \cup work[u].got
  /\ twice' = (twice \/ issued \cap work[u].got # {})
  /\ row' = IF work[u].at = "changed" THEN [next |-> work[u].row, version |-> row.version + 1]
                                      ELSE row
  /\ sqlNext' = IF work[u].restart = 0 THEN sqlNext ELSE work[u].restart
  /\ AbortWork(u) /\ UNCHANGED <<type, now, opened, stale>>
Rollback(u) ==
  /\ work[u].at # "idle" /\ AbortWork(u)
  /\ UNCHANGED sqlNext /\ Rest

SequenceNext ==
  \/ Tick
  \/ \E u \in User :
       \/ BeginWork(u) \/ Nextval(u) \/ Lock(u) \/ TakeNumber(u) \/ TakeTimestamp(u)
       \/ ReadNext(u) \/ Restart(u) \/ CommitWork(u) \/ Rollback(u)
SequenceSpec == SequenceInit /\ [][SequenceNext]_svars

(* -------------------------------- properties ------------------------------- *)
\* No two committed transactions have the same number, and the numbers of a
\* sequence kept in its row follow one another without a gap, whatever is rolled
\* back.  (A write of an SQL sequence that races with nextval may restart it at a
\* number that is already taken.)
NumbersOnce ==
  /\ ~stale => ~twice
  /\ type \in {"plain", "strict"} => issued = 1..(row.next - 1)
==============================================================================
