----------------------------- MODULE RecordsProofs -----------------------------
(* Theorems of Records for any clients, records and values: a change sent with  *)
(* a timestamp replaces no version that its client has not read, and the rows   *)
(* of the history give the record as it was at any date.                        *)
EXTENDS Records, FiniteSetTheorems, SequenceTheorems, TLAPS

Row == {NoRow} \cup [value : Value, date : Nat, made : Nat]
HistoryRow == [id : Record, date : Nat, value : Value \cup {NoSuchValue}]
Tx == [status : {"open"}, start : Nat, table : [Record -> Row], old : [Record -> Row],
       past : Seq(HistoryRow), touched : SUBSET Record, rows : Seq(HistoryRow),
       timestamp : SUBSET Record, guarded : SUBSET (Record \X Nat)]

-------------------------------------------------------------------------------
(* The last row of a record *)

\* What Max is.
LEMMA MaxIs ==
  ASSUME NEW T, T \subseteq Int, NEW k \in T, \A y \in T : k >= y
  PROVE  Max(T) = k
<1>1. \A x \in T : (\A y \in T : x >= y) => x = k
  OBVIOUS
<1> QED BY <1>1 DEF Max

\* A set of natural numbers with a bound has a greatest one.
LEMMA MaxExists ==
  ASSUME NEW n \in Nat, NEW T, T \subseteq 0..n, T # {}
  PROVE  Max(T) \in T /\ \A y \in T : Max(T) >= y
<1> DEFINE Down == {n - x : x \in T}
<1>0. T \subseteq Int /\ \A x \in T : n - x \in Nat
  OBVIOUS
<1>1. Down \subseteq Nat /\ Down # {}
  BY <1>0
<1>2. PICK m \in Down : \A y \in Down : ~(<<y, m>> \in OpToRel(<, Nat))
  BY <1>1, WFMin, NatLessThanWellFounded
<1>3. \A y \in Down : ~(y < m)
  BY <1>1, <1>2 DEF OpToRel
<1>4. PICK k \in T : m = n - k
  OBVIOUS
<1>5. \A y \in T : k >= y
  <2> TAKE y \in T
  <2>1. n - y \in Down /\ ~(n - y < n - k)
    BY <1>3, <1>4
  <2> QED BY <2>1
<1>6. Max(T) = k
  BY <1>0, <1>5, MaxIs
<1> QED BY <1>5, <1>6

\* Row i of s is of record r, not later than d; and it is the last one of them.
In(s, i, r, d) == i \in 1..Len(s) /\ s[i].id = r /\ s[i].date <= d
IsLast(s, i, r, d) == In(s, i, r, d) /\ \A j \in 1..Len(s) : In(s, j, r, d) => j <= i
Some(s, r, d) == \E i \in 1..Len(s) : In(s, i, r, d)

\* There is a last row of r, when there is one.
LEMMA LastExists ==
  ASSUME NEW s \in Seq(HistoryRow), NEW r, NEW d, Some(s, r, d)
  PROVE  \E i \in 1..Len(s) : IsLast(s, i, r, d)
<1> DEFINE T == {i \in 1..Len(s) : In(s, i, r, d)}
<1>1. Len(s) \in Nat /\ T \subseteq 0..Len(s) /\ T # {}
  BY DEF Some
<1>2. Max(T) \in T /\ \A y \in T : Max(T) >= y
  BY <1>1, MaxExists
<1> QED BY <1>1, <1>2 DEF IsLast

\* What LastRow returns is a row of r, or none.
LEMMA LastRowTyped ==
  ASSUME NEW s \in Seq(HistoryRow), NEW r \in Record, NEW d \in Nat, NEW before \in BOOLEAN
  PROVE  LastRow(s, r, d, before).value \in Value \cup {NoSuchValue}
<1> DEFINE S == {i \in 1..Len(s) : /\ s[i].id = r
                                   /\ IF before THEN s[i].date < d ELSE s[i].date <= d}
           Dates == {s[i].date : i \in S}
           top == Max(Dates)
           Top == {i \in S : s[i].date = top}
<1>1. LastRow(s, r, d, before) = IF S = {} THEN NoRow ELSE s[Max(Top)]
  BY DEF LastRow
<1>0. \A i \in 1..Len(s) : s[i] \in HistoryRow
  BY ElementOfSeq
<1>2. \A i \in 1..Len(s) : s[i] \in HistoryRow /\ s[i].date \in Nat
  BY <1>0 DEF HistoryRow
<1>3. CASE S = {}
  BY <1>1, <1>3 DEF NoRow
<1>4. CASE S # {}
  <2>1. Dates \subseteq 0..d /\ Dates # {}
    BY <1>2, <1>4
  <2>2. top \in Dates
    BY <2>1, MaxExists
  <2> HIDE DEF top
  <2>3. Top # {} /\ Top \subseteq 0..Len(s) /\ Len(s) \in Nat
    <3>1. Len(s) \in Nat
      BY LenProperties
    <3>2. \E i \in S : s[i].date = top
      BY <2>2
    <3>3. S \subseteq 0..Len(s)
      BY <3>1
    <3> QED BY <3>1, <3>2, <3>3
  <2> HIDE DEF Top
  <2>4. Max(Top) \in Top
    BY <2>3, MaxExists
  <2>5. s[Max(Top)] \in HistoryRow
    BY <1>2, <2>4 DEF Top
  <2> QED BY <1>1, <1>4, <2>5 DEF HistoryRow
<1> QED BY <1>3, <1>4

Sorted(s, r) ==
  \A i, j \in 1..Len(s) : i <= j /\ s[i].id = r /\ s[j].id = r => s[i].date <= s[j].date

\* When the rows of a record are in the order of their dates, LastRow is the last one.
LEMMA LastRowIs ==
  ASSUME NEW s \in Seq(HistoryRow), NEW r \in Record, Sorted(s, r), NEW d \in Nat
  PROVE  /\ ~Some(s, r, d) => LastRow(s, r, d, FALSE) = NoRow
         /\ \A k \in 1..Len(s) : IsLast(s, k, r, d) => LastRow(s, r, d, FALSE) = s[k]
<1> DEFINE S == {i \in 1..Len(s) : s[i].id = r /\ s[i].date <= d}
           Dates == {s[i].date : i \in S}
           top == Max(Dates)
           Top == {i \in S : s[i].date = top}
<1>1. LastRow(s, r, d, FALSE) = IF S = {} THEN NoRow ELSE s[Max(Top)]
  BY DEF LastRow
<1>0. \A i \in 1..Len(s) : s[i] \in HistoryRow
  BY ElementOfSeq
<1>2. \A i \in 1..Len(s) : s[i].date \in Nat
  BY <1>0 DEF HistoryRow
<1>3. ~Some(s, r, d) => S = {}
  BY DEF Some, In
<1>4. ASSUME NEW k \in 1..Len(s), IsLast(s, k, r, d)
      PROVE  LastRow(s, r, d, FALSE) = s[k]
  <2>1. k \in S /\ \A i \in S : i <= k
    BY <1>4 DEF IsLast, In
  <2>2. s[k].date \in Dates /\ Dates \subseteq Int
    BY <1>2, <2>1
  <2>3. \A i \in S : s[k].date >= s[i].date
    BY <1>2, <2>1 DEF Sorted
  <2>4. top = s[k].date
    <3>1. \A x \in Dates : s[k].date >= x
      BY <2>3
    <3> HIDE DEF Dates
    <3> QED BY <2>2, <3>1, MaxIs
  <2>5. k \in Top /\ Top \subseteq Int /\ \A i \in Top : k >= i
    BY <2>1, <2>4
  <2> HIDE DEF Top
  <2>6. Max(Top) = k
    BY <2>5, MaxIs
  <2> QED BY <1>1, <2>1, <2>6
<1> QED BY <1>1, <1>3, <1>4

\* The last row of two sequences together.
LEMMA LastOfConcat ==
  ASSUME NEW s \in Seq(HistoryRow), NEW t \in Seq(HistoryRow), NEW r, NEW d
  PROVE  /\ Some(s \o t, r, d) <=> Some(s, r, d) \/ Some(t, r, d)
         /\ \A k \in 1..Len(s \o t) : IsLast(s \o t, k, r, d) =>
              IF Some(t, r, d)
              THEN /\ k - Len(s) \in 1..Len(t) /\ IsLast(t, k - Len(s), r, d)
                   /\ (s \o t)[k] = t[k - Len(s)]
              ELSE k \in 1..Len(s) /\ IsLast(s, k, r, d) /\ (s \o t)[k] = s[k]
<1> DEFINE u == s \o t
<1>1. /\ Len(s) \in Nat /\ Len(t) \in Nat /\ Len(u) = Len(s) + Len(t)
      /\ \A i \in 1..Len(s) + Len(t) : u[i] = IF i <= Len(s) THEN s[i] ELSE t[i - Len(s)]
  BY LenProperties, ConcatProperties
<1> HIDE DEF u
<1>2. \A i \in 1..Len(s) : i \in 1..Len(u) /\ u[i] = s[i] /\ (In(u, i, r, d) <=> In(s, i, r, d))
  BY <1>1 DEF In
<1>3. \A i \in 1..Len(t) : /\ Len(s) + i \in 1..Len(u) /\ u[Len(s) + i] = t[i]
                           /\ In(u, Len(s) + i, r, d) <=> In(t, i, r, d)
  <2> SUFFICES ASSUME NEW i \in 1..Len(t)
               PROVE  /\ Len(s) + i \in 1..Len(u) /\ u[Len(s) + i] = t[i]
                      /\ In(u, Len(s) + i, r, d) <=> In(t, i, r, d)
    OBVIOUS
  <2>1. /\ Len(s) + i \in 1..Len(s) + Len(t) /\ ~(Len(s) + i <= Len(s))
        /\ (Len(s) + i) - Len(s) = i
    BY <1>1
  <2>2. Len(s) + i \in 1..Len(u) /\ u[Len(s) + i] = t[i]
    BY <1>1, <2>1
  <2> QED BY <2>2 DEF In
<1>4. \A k \in 1..Len(u) : \/ k \in 1..Len(s)
                           \/ k - Len(s) \in 1..Len(t) /\ k = Len(s) + (k - Len(s))
  BY <1>1
<1>5. Some(u, r, d) <=> Some(s, r, d) \/ Some(t, r, d)
  BY <1>2, <1>3, <1>4 DEF Some
<1>6. ASSUME NEW k \in 1..Len(u), IsLast(u, k, r, d), Some(t, r, d)
      PROVE  k - Len(s) \in 1..Len(t) /\ IsLast(t, k - Len(s), r, d) /\ u[k] = t[k - Len(s)]
  <2>1. PICK j \in 1..Len(t) : In(t, j, r, d)
    BY <1>6 DEF Some
  <2>2. Len(s) + j <= k
    BY <1>3, <1>6, <2>1 DEF IsLast
  <2>3. k - Len(s) \in 1..Len(t) /\ k = Len(s) + (k - Len(s))
    BY <1>1, <1>4, <2>2
  <2>4. In(t, k - Len(s), r, d) /\ u[k] = t[k - Len(s)]
    BY <1>3, <1>6, <2>3 DEF IsLast
  <2>5. \A i \in 1..Len(t) : In(t, i, r, d) => i <= k - Len(s)
    <3> SUFFICES ASSUME NEW i \in 1..Len(t), In(t, i, r, d) PROVE i <= k - Len(s)
      OBVIOUS
    <3>1. Len(s) + i <= k
      BY <1>3, <1>6 DEF IsLast
    <3> QED BY <1>1, <3>1
  <2> QED BY <2>3, <2>4, <2>5 DEF IsLast
<1>7. ASSUME NEW k \in 1..Len(u), IsLast(u, k, r, d), ~Some(t, r, d)
      PROVE  k \in 1..Len(s) /\ IsLast(s, k, r, d) /\ u[k] = s[k]
  <2>1. k \in 1..Len(s)
    BY <1>3, <1>4, <1>7 DEF Some, IsLast
  <2> QED BY <1>2, <1>7, <2>1 DEF IsLast
<1> QED BY <1>5, <1>6, <1>7 DEF u

\* The entries of a set of records: one for each.
LEMMA EntriesOfSet ==
  ASSUME NEW T, IsFiniteSet(T)
  PROVE  /\ Cardinality(T) \in Nat
         /\ \A i \in 1..Cardinality(T) : SetToSeq(T)[i] \in T
         /\ \A x \in T : \E i \in 1..Cardinality(T) : SetToSeq(T)[i] = x
<1> DEFINE n == Cardinality(T)
<1>1. n \in Nat /\ ExistsBijection(1..n, T)
  BY FS_CardinalityType
<1>2. \E f \in [1..n -> T] : IsInjective(f)
  BY <1>1 DEF ExistsBijection, Bijection, Injection
<1>3. SetToSeq(T) \in Injection(1..n, T)
  BY <1>2 DEF SetToSeq, Injection
<1>4. IsFiniteSet(1..n) /\ Cardinality(1..n) = n
  BY <1>1, FS_Interval
<1>5. SetToSeq(T) \in Surjection(1..n, T)
  BY <1>3, <1>4, FS_Injection
<1> QED BY <1>1, <1>5 DEF Surjection

-------------------------------------------------------------------------------
(* The versions of a record *)

RecordsTyped ==
  /\ table \in [Record -> Row] /\ seen \in [Client -> [Record -> Row]]
  /\ history \in Seq(HistoryRow) /\ timeline \in Seq(HistoryRow)
  /\ clock \in Nat /\ ops \in Nat
  /\ client \in [Client -> {Idle} \cup Tx]

OpenClient == {c \in Client : client[c].status = "open"}
\* The rows of r that the table holds, that a client has read, or that a transaction
\* saw when it began.
Known(r) ==
  {NoRow, table[r]} \cup {seen[c][r] : c \in Client} \cup {client[c].old[r] : c \in OpenClient}
\* A date tells the rows of a record apart; none of them is of an open transaction,
\* and open transactions have begun at different dates.
KnownInv ==
  /\ \A r \in Record : \A a \in Known(r) :
       /\ a.date <= clock /\ \A b \in Known(r) : a.date = b.date => a = b
       /\ \A c \in OpenClient : a.date # client[c].start
  /\ \A c, q \in OpenClient : client[c].start = client[q].start => c = q

\* A transaction, and what its client had read, see what has earlier dates than it; it
\* has touched what it gives another row, and what it has checked.
TxInv(c, tx) ==
  /\ tx.start <= clock
  /\ \A r \in Record :
       /\ tx.old[r].date < tx.start /\ seen[c][r].date < tx.start
       /\ tx.table[r] \in {tx.old[r], NoRow} \/ tx.table[r].date = tx.start
       /\ r \notin tx.touched => tx.table[r] = tx.old[r]
  /\ \A g \in tx.guarded : g[1] \in tx.touched /\ tx.old[g[1]].made = g[2]
\* The rows it adds to the history: the last one of a record is its version.
RowsInv(tx) ==
  /\ tx.touched \subseteq Versioned(tx)
  /\ \A i \in 1..Len(tx.rows) :
       /\ tx.rows[i].date = tx.start
       /\ IsLast(tx.rows, i, tx.rows[i].id, tx.start) =>
            tx.rows[i].value = tx.table[tx.rows[i].id].value
\* The history it saw is older than it; where nothing was added to it since, the table
\* is as the transaction saw it.
PastInv(tx) ==
  /\ Len(tx.past) <= Len(history)
  /\ \A i \in 1..Len(tx.past) : history[i].date < tx.start
  /\ \A r \in Record : (\A i \in Len(tx.past) + 1..Len(history) : history[i].id # r)
                       => table[r] = tx.old[r]
VersionInv ==
  /\ KnownInv
  /\ \A c \in OpenClient : TxInv(c, client[c]) /\ RowsInv(client[c]) /\ PastInv(client[c])

\* The rows of a record are in the order of their dates; at each date the last one of
\* the history has the value of the last commit.
SameLast(s, t, r, d) ==
  /\ Some(s, r, d) <=> Some(t, r, d)
  /\ \A i \in 1..Len(s), j \in 1..Len(t) :
       IsLast(s, i, r, d) /\ IsLast(t, j, r, d) => s[i].value = t[j].value
HistoryInv ==
  /\ \A i \in 1..Len(history) : history[i].date <= clock
  /\ \A r \in Record \ overlapped :
       Sorted(history, r) /\ \A d \in Nat : SameLast(history, timeline, r, d)

RecordsInv == RecordsTyped /\ VersionInv /\ HistoryInv

\* What a row holds.
LEMMA RowTyped ==
  ASSUME NEW a \in Row
  PROVE  /\ a.date \in Nat /\ a.made \in Nat /\ a.value \in Value \cup {NoSuchValue}
         /\ ~Exists(a) => a = NoRow
BY RecordsAssumption DEF Row, NoRow, Exists

LEMMA TxTyped ==
  ASSUME RecordsTyped, NEW c \in Client, client[c] # Idle
  PROVE  client[c] \in Tx /\ c \in OpenClient
BY DEF RecordsTyped, Idle, Tx, OpenClient

LEMMA OpenTyped ==
  ASSUME RecordsTyped, NEW c \in OpenClient
  PROVE  c \in Client /\ client[c] \in Tx /\ client[c].status = "open"
BY DEF RecordsTyped, Idle, OpenClient

\* The known rows of a record are rows.
LEMMA KnownTyped ==
  ASSUME RecordsTyped, NEW r \in Record
  PROVE  Known(r) \subseteq Row
<1>1. NoRow \in Row /\ table[r] \in Row /\ \A c \in Client : seen[c][r] \in Row
  BY DEF RecordsTyped, NoRow, Row
<1>2. \A c \in OpenClient : client[c].old[r] \in Row
  BY OpenTyped DEF Tx
<1> QED BY <1>1, <1>2 DEF Known

\* The table is empty, or holds one record with its row in the history, or none of one
\* that has its mark there.
LEMMA InitInv == RecordsInit => RecordsInv
<1> SUFFICES ASSUME RecordsInit PROVE RecordsInv
  OBVIOUS
<1>1. NoRow \in Row /\ NoRows \in [Record -> Row] /\ NoRow.date = 0
      /\ \A q \in Record : NoRows[q] = NoRow
  BY DEF NoRow, NoRows, Row
<1>2. /\ clock \in {1, 2} /\ ops = 2 /\ timeline = history /\ OpenClient = {}
      /\ client = [c \in Client |-> Idle] /\ seen = [c \in Client |-> table]
  BY DEF RecordsInit, OpenClient, Idle
<1>3. ASSUME table \in [Record -> Row], history \in Seq(HistoryRow),
             \A q \in Record : table[q] = NoRow \/ table[q].date = 1,
             \A i \in 1..Len(history) : history[i].date <= clock,
             \A q \in Record : Sorted(history, q)
      PROVE  RecordsInv
  <2>1. RecordsTyped
    BY <1>2, <1>3 DEF RecordsTyped
  <2>2. \A q \in Record : Known(q) = {NoRow, table[q]}
    BY <1>2 DEF Known
  <2>3. KnownInv
    BY <1>1, <1>2, <1>3, <2>2 DEF KnownInv
  <2>4. VersionInv
    BY <1>2, <2>3 DEF VersionInv
  <2>5. \A q \in Record, d \in Nat : SameLast(history, timeline, q, d)
    <3>1. \A q \in Record, d \in Nat : \A i, j \in 1..Len(history) :
            IsLast(history, i, q, d) /\ IsLast(history, j, q, d) => i = j
      BY DEF IsLast
    <3> QED BY <1>2, <3>1 DEF SameLast
  <2> QED BY <1>3, <2>1, <2>4, <2>5 DEF RecordsInv, HistoryInv
<1>4. CASE clock = 1 /\ table = NoRows /\ history = <<>>
  <2>1. history \in Seq(HistoryRow) /\ Len(history) = 0
    BY <1>4
  <2> QED BY <1>1, <1>3, <1>4, <2>1 DEF Sorted
<1>5. ASSUME NEW r \in Record, NEW v \in Value, clock = 2,
             table = [NoRows EXCEPT ![r] = [value |-> v, date |-> 1, made |-> 1]],
             history = <<HistoryRowOf(r, 1, v)>>
      PROVE  RecordsInv
  <2>1. [value |-> v, date |-> 1, made |-> 1] \in Row /\ HistoryRowOf(r, 1, v) \in HistoryRow
        /\ HistoryRowOf(r, 1, v).date = 1
    BY DEF Row, HistoryRow, HistoryRowOf
  <2>2. history \in Seq(HistoryRow) /\ Len(history) = 1 /\ history[1].date = 1
    BY <1>5, <2>1
  <2>3. table \in [Record -> Row] /\ \A q \in Record : table[q] = NoRow \/ table[q].date = 1
    BY <1>1, <1>5, <2>1
  <2>4. \A i \in 1..1 : i = 1
    OBVIOUS
  <2> QED BY <1>3, <1>5, <2>2, <2>3, <2>4 DEF Sorted
<1>6. ASSUME NEW r \in Record, NEW v \in Value, clock = 2, table = NoRows,
             history = <<HistoryRowOf(r, 1, v), HistoryRowOf(r, 2, NoSuchValue)>>
      PROVE  RecordsInv
  <2>1. /\ HistoryRowOf(r, 1, v) \in HistoryRow /\ HistoryRowOf(r, 1, v).date = 1
        /\ HistoryRowOf(r, 2, NoSuchValue) \in HistoryRow
        /\ HistoryRowOf(r, 2, NoSuchValue).date = 2
    BY DEF HistoryRow, HistoryRowOf
  <2>2. /\ history \in Seq(HistoryRow) /\ Len(history) = 2
        /\ history[1].date = 1 /\ history[2].date = 2
    BY <1>6, <2>1
  <2>3. \A i \in 1..2 : i = 1 \/ i = 2
    OBVIOUS
  <2>4. \A i \in 1..2 : history[i].date = i
    BY <2>2, <2>3
  <2> QED BY <1>1, <1>3, <1>6, <2>2, <2>4 DEF Sorted
<1> QED BY <1>4, <1>5, <1>6 DEF RecordsInit

-------------------------------------------------------------------------------
(* The steps *)

\* What is known stays as it is while nothing is added to it and no transaction begins.
LEMMA KnownKept ==
  ASSUME RecordsInv, clock' = clock, \A r \in Record : Known(r)' \subseteq Known(r),
         OpenClient' \subseteq OpenClient,
         \A c \in OpenClient' : client'[c].start = client[c].start
  PROVE  KnownInv'
BY DEF RecordsInv, VersionInv, KnownInv

\* What holds of a transaction holds while nothing is committed, and its client reads
\* nothing.
LEMMA TxKept ==
  ASSUME RecordsInv, NEW c \in OpenClient, client'[c] = client[c], seen'[c] = seen[c],
         clock' \in Nat, clock' >= clock, table' = table, history' = history
  PROVE  TxInv(c, client[c])' /\ RowsInv(client[c])' /\ PastInv(client[c])'
<1>1. TxInv(c, client[c]) /\ RowsInv(client[c]) /\ PastInv(client[c])
  BY DEF RecordsInv, VersionInv
<1>2. client[c].start \in Nat /\ clock \in Nat
  BY OpenTyped DEF RecordsInv, RecordsTyped, Tx
<1>3. TxInv(c, client[c])'
  BY <1>1, <1>2 DEF TxInv
<1>4. RowsInv(client[c])' /\ PastInv(client[c])'
  BY <1>1 DEF RowsInv, PastInv
<1> QED BY <1>3, <1>4

\* A read: the rows of the table were known.
LEMMA ReadInv ==
  ASSUME RecordsInv, NEW c \in Client, Read(c)
  PROVE  RecordsInv'
<1>0. /\ RecordsTyped /\ client[c].status = "idle" /\ seen' = [seen EXCEPT ![c] = table]
      /\ UNCHANGED <<table, history, clock, ops, client, timeline, overlapped>>
  BY DEF RecordsInv, Read, ghosts
<1>1. RecordsTyped'
  BY <1>0 DEF RecordsTyped
<1>2. HistoryInv'
  BY <1>0 DEF RecordsInv, HistoryInv
<1>3. OpenClient' = OpenClient /\ c \notin OpenClient
      /\ \A q \in Client \ {c} : seen'[q] = seen[q]
  BY <1>0 DEF OpenClient, RecordsTyped
<1>4. \A q \in OpenClient' : TxInv(q, client[q])' /\ RowsInv(client[q])' /\ PastInv(client[q])'
  <2> TAKE q \in OpenClient'
  <2>1. q \in OpenClient /\ seen'[q] = seen[q] /\ clock \in Nat /\ clock >= clock
    BY <1>0, <1>3 DEF OpenClient, RecordsTyped
  <2> QED BY <1>0, <2>1, TxKept
<1>5. \A r \in Record : Known(r)' \subseteq Known(r)
  <2>1. \A r \in Record, q \in Client : seen'[q][r] \in {table[r], seen[q][r]}
    BY <1>0 DEF RecordsTyped
  <2> QED BY <1>0, <1>3, <2>1 DEF Known
<1>6. KnownInv'
  BY <1>0, <1>3, <1>5, KnownKept
<1> QED BY <1>1, <1>2, <1>4, <1>6 DEF RecordsInv, VersionInv

\* A transaction begins: all that is committed has earlier dates than it.
LEMMA BeginInv ==
  ASSUME RecordsInv, NEW c \in Client, NEW timestamp \in SUBSET Record, Begin(c, timestamp)
  PROVE  RecordsInv'
<1> DEFINE tx == [status |-> "open", start |-> clock + 1, table |-> table, old |-> table,
                  past |-> history, touched |-> {}, rows |-> <<>>, timestamp |-> timestamp,
                  guarded |-> {}]
<1>0. RecordsTyped /\ clock \in Nat /\ c \notin OpenClient
  BY DEF RecordsInv, RecordsTyped, Begin, OpenClient
<1>1. tx \in Tx
  <2>1. clock + 1 \in Nat /\ table \in [Record -> Row] /\ <<>> \in Seq(HistoryRow)
        /\ history \in Seq(HistoryRow)
    BY <1>0 DEF RecordsTyped
  <2> QED BY <2>1 DEF Tx
<1>2. client' = [client EXCEPT ![c] = tx]
  BY DEF Begin
<1>3. clock' = clock + 1 /\ UNCHANGED <<table, history, ops, seen, timeline, overlapped>>
  BY DEF Begin, ghosts
<1>4. /\ tx.status = "open" /\ tx.start = clock + 1 /\ tx.table = table /\ tx.old = table
      /\ tx.past = history /\ tx.touched = {} /\ Len(tx.rows) = 0 /\ tx.guarded = {}
  OBVIOUS
<1> HIDE DEF tx
<1>5. client' \in [Client -> {Idle} \cup Tx] /\ client'[c] = tx
      /\ \A q \in Client \ {c} : client'[q] = client[q]
  BY <1>0, <1>1, <1>2 DEF RecordsTyped
<1>6. RecordsTyped'
  BY <1>0, <1>3, <1>5 DEF RecordsTyped
<1>7. HistoryInv'
  <2>1. \A i \in 1..Len(history) : history[i] \in HistoryRow
    BY <1>0, ElementOfSeq DEF RecordsTyped
  <2>2. \A i \in 1..Len(history) : history[i].date \in Nat /\ history[i].date <= clock
    BY <2>1 DEF RecordsInv, HistoryInv, HistoryRow
  <2>3. \A i \in 1..Len(history) : history[i].date <= clock + 1
    BY <1>0, <2>2
  <2> QED BY <1>3, <2>3 DEF RecordsInv, HistoryInv
<1>8. OpenClient' = OpenClient \cup {c} /\ \A q \in OpenClient : q # c /\ client'[q] = client[q]
  BY <1>0, <1>4, <1>5 DEF OpenClient
<1>9. \A r \in Record : Known(r)' = Known(r)
  <2>1. client'[c].old = table /\ \A q \in OpenClient : client'[q].old = client[q].old
    BY <1>4, <1>5, <1>8
  <2> QED BY <1>3, <1>8, <2>1 DEF Known
<1>10. \A r \in Record : \A a \in Known(r) : a.date \in Nat /\ a.date <= clock
  BY <1>0, KnownTyped, RowTyped DEF RecordsInv, VersionInv, KnownInv
<1>11. \A q \in OpenClient : client[q].start \in Nat /\ client[q].start <= clock
  BY <1>0, OpenTyped DEF RecordsInv, VersionInv, TxInv, Tx
<1>12. KnownInv'
  <2>1. client'[c].start = clock + 1 /\ \A q \in OpenClient : client'[q].start = client[q].start
    BY <1>4, <1>5, <1>8
  <2>2. \A r \in Record : \A a \in Known(r) :
          /\ a.date <= clock + 1 /\ \A b \in Known(r) : a.date = b.date => a = b
          /\ \A q \in OpenClient' : a.date # client'[q].start
    BY <1>0, <1>8, <1>10, <2>1 DEF RecordsInv, VersionInv, KnownInv
  <2>3. \A p, q \in OpenClient' : client'[p].start = client'[q].start => p = q
    BY <1>0, <1>8, <1>11, <2>1 DEF RecordsInv, VersionInv, KnownInv
  <2> QED BY <1>3, <1>9, <2>2, <2>3 DEF KnownInv
<1>13. \A q \in OpenClient : TxInv(q, client[q])' /\ RowsInv(client[q])' /\ PastInv(client[q])'
  BY <1>0, <1>3, <1>8, TxKept
<1>14. TxInv(c, client[c])'
  <2>1. \A r \in Record : table[r] \in Known(r) /\ seen[c][r] \in Known(r)
    BY DEF Known
  <2>2. \A r \in Record : table[r].date < clock + 1 /\ seen[c][r].date < clock + 1
    BY <1>0, <1>10, <2>1
  <2>3. clock + 1 <= clock + 1
    BY <1>0
  <2> QED BY <1>3, <1>4, <1>5, <2>2, <2>3 DEF TxInv
<1>15. RowsInv(client[c])'
  BY <1>4, <1>5 DEF RowsInv
<1>16. PastInv(client[c])'
  <2>1. \A i \in 1..Len(history) : history[i] \in HistoryRow
    BY <1>0, ElementOfSeq DEF RecordsTyped
  <2>2. \A i \in 1..Len(history) : history[i].date < clock + 1
    BY <1>0, <2>1 DEF RecordsInv, HistoryInv, HistoryRow
  <2>3. Len(history) \in Nat
    BY <1>0, LenProperties DEF RecordsTyped
  <2> QED BY <1>3, <1>4, <1>5, <2>2, <2>3 DEF PastInv
<1>17. VersionInv'
  BY <1>8, <1>12, <1>13, <1>14, <1>15, <1>16 DEF VersionInv
<1> QED BY <1>6, <1>7, <1>17 DEF RecordsInv

\* A transaction ends without a trace.
LEMMA AbortInv ==
  ASSUME RecordsInv, NEW c \in Client, Abort(c), Kept, ops' = ops \/ ops' = ops + 1
  PROVE  RecordsInv'
<1>0. RecordsTyped /\ ops' \in Nat /\ UNCHANGED <<table, history, clock, seen, timeline, overlapped>>
  BY DEF RecordsInv, RecordsTyped, Kept, ghosts
<1>1. client' \in [Client -> {Idle} \cup Tx] /\ client'[c] = Idle
      /\ \A q \in Client \ {c} : client'[q] = client[q]
  BY <1>0 DEF RecordsTyped, Abort
<1>2. RecordsTyped'
  BY <1>0, <1>1 DEF RecordsTyped
<1>3. HistoryInv'
  BY <1>0 DEF RecordsInv, HistoryInv
<1>4. OpenClient' \subseteq OpenClient /\ \A q \in OpenClient' : client'[q] = client[q]
  BY <1>1 DEF OpenClient, Idle
<1>5. \A q \in OpenClient' : TxInv(q, client[q])' /\ RowsInv(client[q])' /\ PastInv(client[q])'
  <2>1. clock \in Nat /\ clock >= clock
    BY <1>0 DEF RecordsTyped
  <2> QED BY <1>0, <1>4, <2>1, TxKept
<1>6. \A r \in Record : Known(r)' \subseteq Known(r)
  BY <1>0, <1>4 DEF Known
<1>7. KnownInv'
  BY <1>0, <1>4, <1>6, KnownKept
<1> QED BY <1>2, <1>3, <1>5, <1>7 DEF RecordsInv, VersionInv

\* A change of r: the transaction has touched r if its version differs from what it saw,
\* and adds the value to the history.
LEMMA ChangedInv ==
  ASSUME RecordsInv, NEW c \in Client, NEW r \in Record, NEW v \in Value \cup {NoSuchValue},
         NEW timestamp \in SUBSET Record, NEW guarded,
         Open(c), Kept, Changed(c, r, v, timestamp, guarded),
         \A g \in guarded : \/ g \in client[c].guarded
                            \/ Exists(client[c].table[r]) /\ g = <<r, client[c].old[r].made>>
  PROVE  RecordsInv'
<1> DEFINE tx == client[c]
           row == Version(tx, v)
           entry == HistoryRowOf(r, tx.start, v)
           rows == Append(tx.rows, entry)
           touched == tx.touched \cup {q \in {r} : v # NoSuchValue \/ Exists(tx.table[r])}
           new == [tx EXCEPT !.table = [tx.table EXCEPT ![r] = row], !.touched = touched,
                             !.rows = rows, !.timestamp = timestamp, !.guarded = guarded]
<1>0. /\ RecordsTyped /\ c \in OpenClient /\ tx \in Tx /\ tx.status = "open"
      /\ ops \in Nat /\ ops' \in Nat /\ clock \in Nat
      /\ UNCHANGED <<table, history, clock, seen, timeline, overlapped>>
  BY OpenTyped DEF RecordsInv, RecordsTyped, Open, OpenClient, Kept, ghosts
<1>00. TxInv(c, tx) /\ RowsInv(tx) /\ PastInv(tx)
  BY <1>0 DEF RecordsInv, VersionInv
<1>1. client' = [client EXCEPT ![c] = new]
  BY <1>0 DEF Changed, InsertHistory, Tx, RecordsTyped
<1>2. /\ tx.start \in Nat /\ tx.old \in [Record -> Row] /\ tx.table \in [Record -> Row]
      /\ tx.rows \in Seq(HistoryRow) /\ tx.guarded \subseteq Record \X Nat
      /\ tx.touched \subseteq Record
  BY <1>0 DEF Tx
<1>3. row \in Row /\ row.value = v /\ (row = NoRow \/ row.date = tx.start)
      /\ (v = NoSuchValue => row = NoRow)
  BY <1>0, <1>2 DEF Version, Row, NoRow
<1>4. entry \in HistoryRow /\ entry.id = r /\ entry.date = tx.start /\ entry.value = v
  BY <1>2 DEF HistoryRow, HistoryRowOf
<1> HIDE DEF row, entry
<1>5. /\ rows \in Seq(HistoryRow) /\ Len(rows) = Len(tx.rows) + 1 /\ Len(tx.rows) \in Nat
      /\ rows[Len(tx.rows) + 1] = entry /\ \A i \in 1..Len(tx.rows) : rows[i] = tx.rows[i]
  BY <1>2, <1>4, AppendProperties, LenProperties
<1> HIDE DEF rows
<1>6. /\ touched \subseteq Record /\ tx.touched \subseteq touched /\ touched \subseteq tx.touched \cup {r}
      /\ Exists(tx.table[r]) => r \in touched
      /\ r \notin touched => v = NoSuchValue /\ ~Exists(tx.table[r])
  BY <1>2
<1> HIDE DEF touched
<1>7. guarded \subseteq Record \X Nat
  <2>1. <<r, tx.old[r].made>> \in Record \X Nat
    BY <1>2, RowTyped
  <2> QED BY <1>2, <2>1
<1>8. /\ new.status = "open" /\ new.start = tx.start /\ new.old = tx.old /\ new.rows = rows
      /\ new.past = tx.past /\ new.touched = touched
      /\ new.guarded = guarded /\ new.table = [tx.table EXCEPT ![r] = row]
  BY <1>0 DEF Tx
<1>9. new \in Tx
  BY <1>0, <1>2, <1>3, <1>5, <1>6, <1>7 DEF Tx
<1> HIDE DEF new
<1>10. new.table[r] = row /\ \A q \in Record \ {r} : new.table[q] = tx.table[q]
  BY <1>2, <1>8
<1>11. client' \in [Client -> {Idle} \cup Tx] /\ client'[c] = new
       /\ \A q \in Client \ {c} : client'[q] = client[q]
  BY <1>0, <1>1, <1>9 DEF RecordsTyped
<1>12. RecordsTyped'
  BY <1>0, <1>11 DEF RecordsTyped
<1>13. HistoryInv'
  BY <1>0 DEF RecordsInv, HistoryInv
<1>14. OpenClient' = OpenClient
  BY <1>0, <1>8, <1>11 DEF OpenClient
<1>15. KnownInv'
  <2>1. \A q \in OpenClient : client'[q].old = client[q].old /\ client'[q].start = client[q].start
    BY <1>8, <1>11 DEF OpenClient
  <2>2. \A q \in Record : Known(q)' \subseteq Known(q)
    BY <1>0, <1>14, <2>1 DEF Known
  <2> QED BY <1>0, <1>14, <2>1, <2>2, KnownKept
<1>16. TxInv(c, client[c])'
  <2>1. ASSUME NEW q \in Record
        PROVE  /\ new.table[q] \in {tx.old[q], NoRow} \/ new.table[q].date = tx.start
               /\ q \notin touched => new.table[q] = tx.old[q]
    <3>1. CASE q # r
      BY <1>00, <1>6, <1>10, <3>1 DEF TxInv
    <3>2. CASE q = r /\ q \in touched
      BY <1>3, <1>10, <3>2
    <3>3. CASE q = r /\ q \notin touched
      <4>1. row = NoRow /\ ~Exists(tx.table[r]) /\ tx.table[r] = tx.old[r]
        BY <1>00, <1>3, <1>6, <3>3 DEF TxInv
      <4>2. tx.table[r] = NoRow
        BY <1>2, <4>1, RowTyped
      <4> QED BY <1>10, <3>3, <4>1, <4>2
    <3> QED BY <3>1, <3>2, <3>3
  <2>2. \A g \in guarded : g[1] \in touched /\ tx.old[g[1]].made = g[2]
    BY <1>00, <1>6 DEF TxInv
  <2> QED BY <1>0, <1>00, <1>8, <1>11, <2>1, <2>2 DEF TxInv
<1>17. RowsInv(new)
  <2> DEFINE n == Len(tx.rows)
  <2>0. n \in Nat /\ Len(new.rows) = n + 1 /\ new.rows[n + 1] = entry
        /\ \A i \in 1..n : new.rows[i] = tx.rows[i]
    BY <1>5, <1>8
  <2>1. \A i \in 1..n + 1 : i \in 1..n \/ i = n + 1
    BY <2>0
  <2>2. touched \subseteq Versioned(new)
    <3>1. tx.touched \subseteq Versioned(new)
      <4>1. \A q \in tx.touched : \E i \in 1..n : q = tx.rows[i].id
        BY <1>00 DEF RowsInv, Versioned
      <4>2. \A i \in 1..n : i \in 1..Len(new.rows) /\ tx.rows[i].id = new.rows[i].id
        BY <2>0
      <4> QED BY <4>1, <4>2 DEF Versioned
    <3>2. r \in Versioned(new)
      BY <1>4, <2>0 DEF Versioned
    <3> QED BY <1>6, <3>1, <3>2
  <2>3. ASSUME NEW i \in 1..n + 1
        PROVE  /\ new.rows[i].date = tx.start
               /\ IsLast(new.rows, i, new.rows[i].id, tx.start) =>
                    new.rows[i].value = new.table[new.rows[i].id].value
    <3>1. CASE i = n + 1
      BY <1>3, <1>4, <1>10, <2>0, <3>1
    <3>2. CASE i \in 1..n
      <4> DEFINE q == tx.rows[i].id
      <4>1. new.rows[i] = tx.rows[i] /\ tx.rows[i].date = tx.start
        BY <1>00, <2>0, <3>2 DEF RowsInv
      <4>2. ASSUME IsLast(new.rows, i, q, tx.start)
            PROVE  q # r /\ IsLast(tx.rows, i, q, tx.start)
        <5>1. q # r
          <6> SUFFICES ASSUME q = r PROVE FALSE
            OBVIOUS
          <6>1. In(new.rows, n + 1, q, tx.start)
            BY <1>2, <1>4, <2>0 DEF In
          <6>2. n + 1 <= i
            BY <2>0, <4>2, <6>1 DEF IsLast
          <6> QED BY <2>0, <3>2, <6>2
        <5>2. \A k \in 1..n : In(new.rows, k, q, tx.start) <=> In(tx.rows, k, q, tx.start)
          BY <2>0 DEF In
        <5>3. IsLast(tx.rows, i, q, tx.start)
          BY <2>0, <3>2, <4>2, <5>2 DEF IsLast
        <5> QED BY <5>1, <5>3
      <4>3. q \in Record
        <5>1. tx.rows[i] \in HistoryRow
          BY <1>2, <3>2, ElementOfSeq
        <5> QED BY <5>1 DEF HistoryRow
      <4>4. IsLast(tx.rows, i, q, tx.start) => tx.rows[i].value = tx.table[q].value
        BY <1>00, <3>2 DEF RowsInv
      <4> QED BY <1>10, <4>1, <4>2, <4>3, <4>4
    <3> QED BY <2>1, <3>1, <3>2
  <2> HIDE DEF n
  <2> QED BY <1>8, <2>0, <2>2, <2>3 DEF RowsInv
<1>18. PastInv(client[c])'
  BY <1>0, <1>00, <1>8, <1>11 DEF PastInv
<1>19. ASSUME NEW q \in OpenClient', q # c
       PROVE  TxInv(q, client[q])' /\ RowsInv(client[q])' /\ PastInv(client[q])'
  <2>1. q \in OpenClient /\ client'[q] = client[q] /\ clock >= clock
    BY <1>0, <1>11, <1>14, <1>19 DEF OpenClient
  <2> QED BY <1>0, <2>1, TxKept
<1>20. VersionInv'
  BY <1>11, <1>15, <1>16, <1>17, <1>18, <1>19 DEF VersionInv
<1> QED BY <1>12, <1>13, <1>20 DEF RecordsInv

\* Rows of a later date than those of r before them keep the order of its dates.
LEMMA OrderOfConcat ==
  ASSUME NEW s \in Seq(HistoryRow), NEW t \in Seq(HistoryRow), NEW r \in Record, NEW d \in Nat,
         Sorted(s, r), \A i \in 1..Len(t) : t[i].date = d,
         \A i \in 1..Len(s) : s[i].id = r => s[i].date <= d
  PROVE  Sorted(s \o t, r)
<1> DEFINE u == s \o t
<1>1. /\ Len(s) \in Nat /\ Len(t) \in Nat /\ Len(u) = Len(s) + Len(t)
      /\ \A i \in 1..Len(s) + Len(t) : u[i] = IF i <= Len(s) THEN s[i] ELSE t[i - Len(s)]
  BY LenProperties, ConcatProperties
<1> HIDE DEF u
<1>2. \A i \in 1..Len(u) : \/ i \in 1..Len(s) /\ u[i] = s[i]
                           \/ i > Len(s) /\ i - Len(s) \in 1..Len(t) /\ u[i] = t[i - Len(s)]
  BY <1>1
<1>3. ASSUME NEW i \in 1..Len(u), NEW j \in 1..Len(u), i <= j, u[i].id = r, u[j].id = r
      PROVE  u[i].date <= u[j].date
  <2>1. CASE i \in 1..Len(s) /\ u[i] = s[i] /\ j \in 1..Len(s) /\ u[j] = s[j]
    BY <1>3, <2>1 DEF Sorted
  <2>2. CASE i \in 1..Len(s) /\ u[i] = s[i] /\ j - Len(s) \in 1..Len(t) /\ u[j] = t[j - Len(s)]
    BY <1>3, <2>2
  <2>3. CASE i > Len(s) /\ i - Len(s) \in 1..Len(t) /\ u[i] = t[i - Len(s)]
    <3>1. j - Len(s) \in 1..Len(t) /\ u[j] = t[j - Len(s)]
      BY <1>1, <1>2, <1>3, <2>3
    <3>2. u[i].date = d /\ u[j].date = d
      BY <2>3, <3>1
    <3> QED BY <3>2
  <2> QED BY <1>2, <2>1, <2>2, <2>3
<1> QED BY <1>3 DEF u, Sorted

\* What a commit adds keeps the last row the same, when it is the same in both parts.
LEMMA SameLastOfConcat ==
  ASSUME NEW s \in Seq(HistoryRow), NEW t \in Seq(HistoryRow), NEW r, NEW d,
         NEW rows \in Seq(HistoryRow), NEW entries \in Seq(HistoryRow),
         SameLast(s, t, r, d), SameLast(rows, entries, r, d)
  PROVE  SameLast(s \o rows, t \o entries, r, d)
<1>1. /\ Some(s \o rows, r, d) <=> Some(s, r, d) \/ Some(rows, r, d)
      /\ \A k \in 1..Len(s \o rows) : IsLast(s \o rows, k, r, d) =>
           IF Some(rows, r, d)
           THEN /\ k - Len(s) \in 1..Len(rows) /\ IsLast(rows, k - Len(s), r, d)
                /\ (s \o rows)[k] = rows[k - Len(s)]
           ELSE k \in 1..Len(s) /\ IsLast(s, k, r, d) /\ (s \o rows)[k] = s[k]
  BY LastOfConcat
<1>2. /\ Some(t \o entries, r, d) <=> Some(t, r, d) \/ Some(entries, r, d)
      /\ \A k \in 1..Len(t \o entries) : IsLast(t \o entries, k, r, d) =>
           IF Some(entries, r, d)
           THEN /\ k - Len(t) \in 1..Len(entries) /\ IsLast(entries, k - Len(t), r, d)
                /\ (t \o entries)[k] = entries[k - Len(t)]
           ELSE k \in 1..Len(t) /\ IsLast(t, k, r, d) /\ (t \o entries)[k] = t[k]
  BY LastOfConcat
<1>3. Some(s \o rows, r, d) <=> Some(t \o entries, r, d)
  BY <1>1, <1>2 DEF SameLast
<1>4. ASSUME NEW i \in 1..Len(s \o rows), NEW j \in 1..Len(t \o entries),
             IsLast(s \o rows, i, r, d), IsLast(t \o entries, j, r, d)
      PROVE  (s \o rows)[i].value = (t \o entries)[j].value
  <2>1. CASE Some(rows, r, d)
    <3>1. Some(entries, r, d)
      BY <2>1 DEF SameLast
    <3>2. /\ i - Len(s) \in 1..Len(rows) /\ IsLast(rows, i - Len(s), r, d)
          /\ (s \o rows)[i] = rows[i - Len(s)]
      BY <1>4, <1>1, <2>1
    <3>3. /\ j - Len(t) \in 1..Len(entries) /\ IsLast(entries, j - Len(t), r, d)
          /\ (t \o entries)[j] = entries[j - Len(t)]
      BY <1>4, <1>2, <3>1
    <3> QED BY <3>2, <3>3 DEF SameLast
  <2>2. CASE ~Some(rows, r, d)
    <3>1. ~Some(entries, r, d)
      BY <2>2 DEF SameLast
    <3>2. i \in 1..Len(s) /\ IsLast(s, i, r, d) /\ (s \o rows)[i] = s[i]
      BY <1>4, <1>1, <2>2
    <3>3. j \in 1..Len(t) /\ IsLast(t, j, r, d) /\ (t \o entries)[j] = t[j]
      BY <1>4, <1>2, <3>1
    <3> QED BY <3>2, <3>3 DEF SameLast
  <2> QED BY <2>1, <2>2
<1> QED BY <1>3, <1>4 DEF SameLast

\* The records a transaction has versioned are finitely many.
LEMMA VersionedFinite ==
  ASSUME NEW tx \in Tx
  PROVE  IsFiniteSet(Versioned(tx)) /\ Versioned(tx) \subseteq Record
<1>1. tx.rows \in Seq(HistoryRow) /\ Len(tx.rows) \in Nat
  BY LenProperties DEF Tx
<1>2. \A i \in 1..Len(tx.rows) : tx.rows[i].id \in Record
  <2>1. \A i \in 1..Len(tx.rows) : tx.rows[i] \in HistoryRow
    BY <1>1, ElementOfSeq
  <2> QED BY <2>1 DEF HistoryRow
<1> DEFINE f == [i \in 1..Len(tx.rows) |-> tx.rows[i].id]
<1>3. f \in Surjection(1..Len(tx.rows), Versioned(tx))
  BY DEF Surjection, Versioned
<1>4. IsFiniteSet(1..Len(tx.rows))
  BY <1>1, FS_Interval
<1> QED BY <1>2, <1>3, <1>4, FS_Surjection DEF Versioned

\* The rows of a transaction and the versions it commits agree on a record that has the
\* transaction's version.
LEMMA RowsAgree ==
  ASSUME NEW tx \in Tx, RowsInv(tx), NEW entries \in Seq(HistoryRow), NEW r \in Record, NEW d \in Nat,
         \A i \in 1..Len(entries) :
           /\ entries[i].id \in Versioned(tx) /\ entries[i].date = tx.start
           /\ entries[i].id = r => entries[i].value = tx.table[r].value,
         \A q \in Versioned(tx) : \E i \in 1..Len(entries) : entries[i].id = q
  PROVE  SameLast(tx.rows, entries, r, d)
<1>0. tx.start \in Nat /\ tx.start <= tx.start
  BY DEF Tx
<1>1. CASE r \in Versioned(tx) /\ tx.start <= d
  <2>1. \A i \in 1..Len(tx.rows) : In(tx.rows, i, r, d) <=> In(tx.rows, i, r, tx.start)
    BY <1>0, <1>1 DEF RowsInv, In
  <2>2. \A i \in 1..Len(tx.rows) : IsLast(tx.rows, i, r, d) =>
          tx.rows[i].id = r /\ IsLast(tx.rows, i, r, tx.start)
    BY <2>1 DEF IsLast, In
  <2>3. Some(tx.rows, r, d) /\ Some(entries, r, d)
    BY <1>1 DEF RowsInv, Versioned, Some, In
  <2>4. \A i \in 1..Len(tx.rows) : IsLast(tx.rows, i, r, d) => tx.rows[i].value = tx.table[r].value
    BY <2>2 DEF RowsInv
  <2>5. \A j \in 1..Len(entries) : IsLast(entries, j, r, d) => entries[j].value = tx.table[r].value
    BY DEF IsLast, In
  <2> QED BY <2>3, <2>4, <2>5 DEF SameLast
<1>2. CASE ~(r \in Versioned(tx) /\ tx.start <= d)
  <2>1. ~Some(tx.rows, r, d) /\ ~Some(entries, r, d)
    BY <1>2 DEF RowsInv, Versioned, Some, In
  <2>2. \A i : ~IsLast(entries, i, r, d)
    BY <2>1 DEF Some, IsLast, In
  <2> QED BY <2>1, <2>2 DEF SameLast
<1> QED BY <1>1, <1>2

\* A commit: its rows and its versions agree, and are later than what they follow,
\* unless something was added to the history of a record since it began.
LEMMA CommitInv ==
  ASSUME RecordsInv, NEW c \in Client, Commit(c)
  PROVE  RecordsInv'
<1> DEFINE tx == client[c]
           V == Versioned(tx)
           ids == SetToSeq(V)
           entries == [i \in 1..Cardinality(V) |-> HistoryRowOf(ids[i], tx.start, table'[ids[i]].value)]
           Since(r) == \E i \in Len(tx.past) + 1..Len(history) : history[i].id = r
<1>0. /\ RecordsTyped /\ c \in OpenClient /\ tx \in Tx
      /\ ops \in Nat /\ clock \in Nat /\ table \in [Record -> Row]
      /\ history \in Seq(HistoryRow) /\ timeline \in Seq(HistoryRow)
  BY OpenTyped DEF RecordsInv, RecordsTyped, OpenClient, Commit
<1>00. TxInv(c, tx) /\ RowsInv(tx) /\ PastInv(tx)
  BY <1>0 DEF RecordsInv, VersionInv
<1>1. /\ ~Conflict(tx) /\ history' = history \o tx.rows /\ timeline' = timeline \o entries
      /\ table' = [r \in Record |-> IF r \in tx.touched THEN tx.table[r] ELSE table[r]]
      /\ overlapped' = overlapped \cup {r \in V : Since(r)}
      /\ client' = [client EXCEPT ![c] = Idle] /\ UNCHANGED <<clock, ops, seen>>
  BY DEF Commit
<1>2. /\ tx.start \in Nat /\ tx.old \in [Record -> Row] /\ tx.table \in [Record -> Row]
      /\ tx.rows \in Seq(HistoryRow) /\ tx.touched \subseteq Record
  BY <1>0 DEF Tx
<1>3. V \subseteq Record /\ tx.touched \subseteq V /\ \A r \in tx.touched : table[r] = tx.old[r]
  BY <1>0, <1>00, <1>1, VersionedFinite DEF RowsInv, Conflict
<1>4. table' \in [Record -> Row]
  BY <1>0, <1>1, <1>2
<1>5. /\ entries \in Seq(HistoryRow)
      /\ \A i \in 1..Len(entries) : /\ entries[i].id \in V /\ entries[i].date = tx.start
                                    /\ entries[i].value = table'[entries[i].id].value
      /\ \A r \in V : \E i \in 1..Len(entries) : entries[i].id = r
  <2>1. IsFiniteSet(V)
    BY <1>0, VersionedFinite
  <2> DEFINE n == Cardinality(V)
  <2> HIDE DEF V, tx
  <2>2. /\ n \in Nat /\ \A i \in 1..n : ids[i] \in V
        /\ \A x \in V : \E i \in 1..n : ids[i] = x
    BY <2>1, EntriesOfSet
  <2>3. \A r \in V : HistoryRowOf(r, tx.start, table'[r].value) \in HistoryRow
    BY <1>2, <1>3, <1>4, RowTyped DEF HistoryRow, HistoryRowOf
  <2> HIDE DEF n, ids
  <2>5. entries = [i \in 1..n |-> HistoryRowOf(ids[i], tx.start, table'[ids[i]].value)]
    BY DEF n
  <2> HIDE DEF entries
  <2>6. \A i \in 1..n : /\ entries[i] \in HistoryRow /\ entries[i].id = ids[i]
                        /\ entries[i].date = tx.start
                        /\ entries[i].value = table'[ids[i]].value
    BY <2>2, <2>3, <2>5 DEF HistoryRowOf
  <2>7. entries \in Seq(HistoryRow) /\ Len(entries) = n
    BY <2>2, <2>5, <2>6
  <2> QED BY <2>2, <2>6, <2>7
<1> HIDE DEF entries
<1>6. client' \in [Client -> {Idle} \cup Tx] /\ client'[c] = Idle
      /\ \A q \in Client \ {c} : client'[q] = client[q]
  BY <1>0, <1>1 DEF RecordsTyped
<1>7. history' \in Seq(HistoryRow) /\ timeline' \in Seq(HistoryRow)
  BY <1>0, <1>1, <1>2, <1>5, ConcatProperties
<1>8. RecordsTyped'
  BY <1>0, <1>1, <1>4, <1>6, <1>7 DEF RecordsTyped
<1>9. OpenClient' = OpenClient \ {c} /\ \A q \in OpenClient' : client'[q] = client[q]
  BY <1>6 DEF OpenClient, Idle
\* The rows of the new history.
<1>10. /\ Len(history) \in Nat /\ Len(history') \in Nat /\ Len(history') >= Len(history)
       /\ \A i \in 1..Len(history) : i \in 1..Len(history') /\ history'[i] = history[i]
       /\ \A i \in 1..Len(tx.rows) : /\ Len(history) + i \in Len(history) + 1..Len(history')
                                     /\ history'[Len(history) + i] = tx.rows[i]
       /\ \A i \in 1..Len(history') :
            \/ i \in 1..Len(history)
            \/ i - Len(history) \in 1..Len(tx.rows) /\ history'[i] = tx.rows[i - Len(history)]
  <2>1. /\ Len(tx.rows) \in Nat /\ Len(history) \in Nat
        /\ Len(history') = Len(history) + Len(tx.rows)
        /\ \A i \in 1..Len(history) + Len(tx.rows) :
             history'[i] = IF i <= Len(history) THEN history[i] ELSE tx.rows[i - Len(history)]
    BY <1>0, <1>1, <1>2, LenProperties, ConcatProperties
  <2>2. ASSUME NEW i \in 1..Len(tx.rows)
        PROVE  Len(history) + i \in Len(history) + 1..Len(history')
               /\ history'[Len(history) + i] = tx.rows[i]
    <3>1. Len(history) + i \in 1..Len(history) + Len(tx.rows) /\ ~(Len(history) + i <= Len(history))
          /\ (Len(history) + i) - Len(history) = i
      BY <2>1
    <3> QED BY <2>1, <3>1
  <2> QED BY <2>1, <2>2
<1>11. \A i \in 1..Len(tx.rows) : tx.rows[i].date = tx.start
  BY <1>00 DEF RowsInv
<1>12. tx.start <= clock
  BY <1>00 DEF TxInv
<1>13. KnownInv'
  <2>1. ASSUME NEW r \in Record
        PROVE  /\ Known(r)' \subseteq Known(r) \cup {table'[r]}
               /\ table'[r] \in Known(r) \/ table'[r].date = tx.start
    <3>1. Known(r)' \subseteq Known(r) \cup {table'[r]}
      BY <1>1, <1>9 DEF Known
    <3>2. table'[r] \in {table[r], tx.table[r]}
      BY <1>1
    <3>3. tx.table[r] \in {tx.old[r], NoRow} \/ tx.table[r].date = tx.start
      BY <1>00 DEF TxInv
    <3> QED BY <1>0, <3>1, <3>2, <3>3 DEF Known
  <2>2. \A r \in Record : \A a \in Known(r) :
          /\ a.date <= clock /\ a.date # tx.start /\ \A b \in Known(r) : a.date = b.date => a = b
          /\ \A q \in OpenClient : a.date # client[q].start
    BY <1>0 DEF RecordsInv, VersionInv, KnownInv
  <2>3. \A p, q \in OpenClient : client[p].start = client[q].start => p = q
    BY DEF RecordsInv, VersionInv, KnownInv
  <2>4. \A q \in OpenClient' : q \in OpenClient /\ client'[q].start = client[q].start
                               /\ client[q].start # tx.start
    BY <1>0, <1>9, <2>3
  <2>5. ASSUME NEW r \in Record, NEW a \in Known(r)'
        PROVE  /\ a.date <= clock /\ \A b \in Known(r)' : a.date = b.date => a = b
               /\ \A q \in OpenClient' : a.date # client'[q].start
    <3> DEFINE K == Known(r)
               new == table'[r]
    <3>1. /\ a \in K \cup {new} /\ \A b \in Known(r)' : b \in K \cup {new}
          /\ new \in K \/ new.date = tx.start
      BY <2>1, <2>5
    <3>2. \A x \in K : /\ x.date <= clock /\ x.date # tx.start
                        /\ \A b \in K : x.date = b.date => x = b
                        /\ \A q \in OpenClient : x.date # client[q].start
      BY <2>2
    <3> HIDE DEF K, new
    <3>3. a.date <= clock
      BY <1>12, <3>1, <3>2
    <3>4. \A b \in Known(r)' : a.date = b.date => a = b
      BY <3>1, <3>2
    <3>5. \A q \in OpenClient' : a.date # client'[q].start
      BY <2>4, <3>1, <3>2
    <3> QED BY <3>3, <3>4, <3>5
  <2>6. \A p, q \in OpenClient' : client'[p].start = client'[q].start => p = q
    BY <2>3, <2>4
  <2>7. clock' = clock
    BY <1>1
  <2> QED BY <2>5, <2>6, <2>7 DEF KnownInv
<1>14. ASSUME NEW q \in OpenClient'
       PROVE  TxInv(q, client[q])' /\ RowsInv(client[q])' /\ PastInv(client[q])'
  <2> DEFINE p == client[q]
  <2>0. q \in OpenClient /\ client'[q] = p
    BY <1>9
  <2>1. TxInv(q, p) /\ RowsInv(p) /\ PastInv(p)
    BY <2>0 DEF RecordsInv, VersionInv
  <2>2. TxInv(q, client[q])'
    BY <1>1, <2>0, <2>1 DEF TxInv
  <2>3. RowsInv(client[q])'
    BY <2>0, <2>1 DEF RowsInv
  <2>4. Len(p.past) \in Nat /\ Len(p.past) <= Len(history)
    BY <1>0, <2>0, <2>1, OpenTyped, LenProperties DEF PastInv, Tx
  <2>5. \A i \in 1..Len(p.past) : history'[i].date < p.start
    <3>1. \A i \in 1..Len(p.past) : i \in 1..Len(history)
      BY <1>10, <2>4
    <3>2. \A i \in 1..Len(p.past) : history'[i] = history[i]
      BY <1>10, <3>1
    <3> QED BY <2>1, <3>2 DEF PastInv
  <2>6. ASSUME NEW r \in Record, \A i \in Len(p.past) + 1..Len(history') : history'[i].id # r
        PROVE  table'[r] = p.old[r]
    <3>1. \A i \in Len(p.past) + 1..Len(history) : history[i].id # r
      BY <1>10, <2>4, <2>6
    <3>2. r \notin V
      <4>1. \A i \in Len(history) + 1..Len(history') : i \in Len(p.past) + 1..Len(history')
        BY <1>10, <2>4
      <4>2. \A i \in 1..Len(tx.rows) : history'[Len(history) + i].id # r
        BY <1>10, <2>6, <4>1
      <4>3. \A i \in 1..Len(tx.rows) : tx.rows[i].id # r
        BY <1>10, <4>2
      <4> QED BY <4>3 DEF Versioned
    <3>3. table'[r] = table[r]
      BY <1>1, <1>3, <3>2
    <3> QED BY <2>1, <3>1, <3>3 DEF PastInv
  <2>7. PastInv(client[q])'
    <3>1. Len(p.past) <= Len(history')
      BY <1>10, <2>4
    <3> HIDE DEF p
    <3> QED BY <2>0, <2>5, <2>6, <3>1 DEF PastInv
  <2> QED BY <2>2, <2>3, <2>7
<1>15. \A i \in 1..Len(history') : history'[i].date <= clock'
  <2> TAKE i \in 1..Len(history')
  <2>1. CASE i \in 1..Len(history)
    BY <1>1, <1>10, <2>1 DEF RecordsInv, HistoryInv
  <2>2. CASE i - Len(history) \in 1..Len(tx.rows) /\ history'[i] = tx.rows[i - Len(history)]
    BY <1>1, <1>11, <1>12, <2>2
  <2> QED BY <1>10, <2>1, <2>2
<1>16. ASSUME NEW r \in Record \ overlapped'
       PROVE  Sorted(history', r) /\ \A d \in Nat : SameLast(history', timeline', r, d)
  <2>1. r \notin overlapped /\ ~(r \in V /\ Since(r))
    BY <1>1, <1>16
  <2>2. Sorted(history, r) /\ \A d \in Nat : SameLast(history, timeline, r, d)
    BY <2>1 DEF RecordsInv, HistoryInv
  <2>3. CASE r \in V
    <3>1. \A i \in 1..Len(history) : history[i].id = r => history[i].date <= tx.start
      <4> SUFFICES ASSUME NEW i \in 1..Len(history), history[i].id = r
                   PROVE  history[i].date <= tx.start
        OBVIOUS
      <4>1. Len(tx.past) \in Nat /\ i \notin Len(tx.past) + 1..Len(history)
        BY <1>0, <2>1, <2>3, LenProperties DEF Tx
      <4>2. i \in 1..Len(tx.past)
        BY <1>10, <4>1
      <4>3. history[i].date < tx.start
        BY <1>00, <4>2 DEF PastInv
      <4>4. history[i].date \in Nat
        <5>1. history[i] \in HistoryRow
          BY <1>0, ElementOfSeq
        <5> QED BY <5>1 DEF HistoryRow
      <4> QED BY <1>2, <4>3, <4>4
    <3>2. Sorted(history', r)
      BY <1>0, <1>1, <1>2, <1>11, <2>2, <3>1, OrderOfConcat
    <3>3. table'[r] = tx.table[r]
      <4>1. CASE r \in tx.touched
        BY <1>1, <4>1
      <4>2. CASE r \notin tx.touched
        <5>1. table'[r] = table[r] /\ table[r] = tx.old[r]
          BY <1>00, <1>1, <2>1, <2>3, <4>2 DEF PastInv
        <5>2. tx.table[r] = tx.old[r]
          BY <1>00, <4>2 DEF TxInv
        <5> QED BY <5>1, <5>2
      <4> QED BY <4>1, <4>2
    <3>4. \A i \in 1..Len(entries) :
            /\ entries[i].id \in V /\ entries[i].date = tx.start
            /\ entries[i].id = r => entries[i].value = tx.table[r].value
      BY <1>5, <3>3
    <3>5. ASSUME NEW d \in Nat PROVE SameLast(history', timeline', r, d)
      <4>1. SameLast(tx.rows, entries, r, d)
        BY <1>0, <1>00, <1>5, <3>4, RowsAgree
      <4>2. SameLast(history \o tx.rows, timeline \o entries, r, d)
        BY <1>0, <1>2, <1>5, <2>2, <4>1, SameLastOfConcat
      <4> QED BY <1>1, <4>2
    <3> QED BY <3>2, <3>5
  <2>4. CASE r \notin V
    <3>1. \A i \in 1..Len(tx.rows) : tx.rows[i].id # r
      BY <2>4 DEF Versioned
    <3>2. Sorted(history', r)
      <4>1. \A i \in 1..Len(history') : history'[i].id = r =>
              i \in 1..Len(history) /\ history'[i] = history[i]
        BY <1>10, <3>1
      <4> QED BY <2>2, <4>1 DEF Sorted
    <3>3. ASSUME NEW d \in Nat PROVE SameLast(history', timeline', r, d)
      <4>1. /\ ~Some(tx.rows, r, d) /\ ~Some(entries, r, d)
            /\ \A i \in 1..Len(tx.rows) : ~IsLast(tx.rows, i, r, d)
        BY <1>5, <2>4, <3>1 DEF Some, IsLast, In
      <4>2. SameLast(tx.rows, entries, r, d)
        BY <4>1 DEF SameLast
      <4>3. SameLast(history \o tx.rows, timeline \o entries, r, d)
        BY <1>0, <1>2, <1>5, <2>2, <4>2, SameLastOfConcat
      <4> QED BY <1>1, <4>3
    <3> QED BY <3>2, <3>3
  <2> QED BY <2>3, <2>4
<1>17. HistoryInv'
  BY <1>15, <1>16 DEF HistoryInv, SameLast, Some, IsLast, In, Sorted
<1>18. VersionInv'
  BY <1>13, <1>14 DEF VersionInv
<1> QED BY <1>8, <1>17, <1>18 DEF RecordsInv

\* A timestamp that is neither older nor newer than what the transaction sees is the one
\* of the version that was committed before it began.
LEMMA GuardIs ==
  ASSUME RecordsInv, NEW c \in OpenClient, NEW r \in Record,
         ~TimestampRefused(c, r), NEW g \in Guard(c, r)
  PROVE  \/ g \in client[c].guarded
         \/ Exists(client[c].table[r]) /\ g = <<r, client[c].old[r].made>>
<1> DEFINE tx == client[c]
<1>1. tx \in Tx /\ c \in Client /\ TxInv(c, tx)
  BY OpenTyped DEF RecordsInv, VersionInv
<1>2. /\ tx.old[r] \in Row /\ tx.table[r] \in Row /\ seen[c][r] \in Row /\ tx.start \in Nat
      /\ seen[c][r].date \in Nat
  BY <1>1, RowTyped DEF RecordsInv, RecordsTyped, Tx
<1>3. CASE Checked(tx, r)
  <2>1. tx.table[r].date = seen[c][r].date /\ Exists(tx.table[r])
    BY <1>3 DEF TimestampRefused, Checked
  <2>2. seen[c][r].date < tx.start /\ (tx.table[r] \in {tx.old[r], NoRow} \/ tx.table[r].date = tx.start)
    BY <1>1 DEF TxInv
  <2>3. tx.table[r] = tx.old[r]
    BY <1>2, <2>1, <2>2 DEF Exists, NoRow
  <2>4. seen[c][r] \in Known(r) /\ tx.old[r] \in Known(r)
    BY <1>1 DEF Known
  <2>5. seen[c][r] = tx.old[r]
    BY <2>1, <2>3, <2>4 DEF RecordsInv, VersionInv, KnownInv
  <2> QED BY <2>1, <2>5 DEF Guard
<1>4. CASE ~Checked(tx, r)
  BY <1>4 DEF Guard
<1> QED BY <1>3, <1>4

\* The changes: each is refused, or a version of its transaction.
LEMMA WriteInv ==
  ASSUME RecordsInv, NEW c \in Client, NEW r \in Record, NEW v \in Value, Write(c, r, v)
  PROVE  RecordsInv'
<1>1. Open(c) /\ Kept /\ (ops' = ops \/ ops' = ops + 1)
  BY DEF Write, Open
<1>2. CASE TimestampRefused(c, r) \/ ~Exists(client[c].table[r])
  BY <1>1, <1>2, AbortInv DEF Write
<1>3. CASE ~(TimestampRefused(c, r) \/ ~Exists(client[c].table[r]))
  <2>1. Changed(c, r, v, client[c].timestamp \ {r}, Guard(c, r))
    BY <1>3 DEF Write
  <2>2. client[c].timestamp \ {r} \in SUBSET Record
    BY <1>1, OpenTyped DEF RecordsInv, Tx, Open, OpenClient
  <2>3. \A g \in Guard(c, r) : \/ g \in client[c].guarded
                               \/ /\ Exists(client[c].table[r])
                                  /\ g = <<r, client[c].old[r].made>>
    BY <1>1, <1>3, GuardIs DEF Open, OpenClient
  <2> QED BY <1>1, <2>1, <2>2, <2>3, ChangedInv
<1> QED BY <1>2, <1>3

LEMMA DeleteInv ==
  ASSUME RecordsInv, NEW c \in Client, NEW r \in Record, Delete(c, r)
  PROVE  RecordsInv'
<1>1. Open(c) /\ Kept /\ (ops' = ops \/ ops' = ops + 1)
  BY DEF Delete, Open
<1>2. CASE TimestampRefused(c, r)
  BY <1>1, <1>2, AbortInv DEF Delete
<1>3. CASE ~TimestampRefused(c, r)
  <2>1. Changed(c, r, NoSuchValue, client[c].timestamp \ {r}, Guard(c, r))
    BY <1>3 DEF Delete
  <2>2. client[c].timestamp \ {r} \in SUBSET Record
    BY <1>1, OpenTyped DEF RecordsInv, Tx, Open, OpenClient
  <2>3. \A g \in Guard(c, r) : \/ g \in client[c].guarded
                               \/ /\ Exists(client[c].table[r])
                                  /\ g = <<r, client[c].old[r].made>>
    BY <1>1, <1>3, GuardIs DEF Open, OpenClient
  <2> QED BY <1>1, <2>1, <2>2, <2>3, ChangedInv
<1> QED BY <1>2, <1>3

LEMMA CreateInv ==
  ASSUME RecordsInv, NEW c \in Client, NEW r \in Record, NEW v \in Value, Create(c, r, v)
  PROVE  RecordsInv'
<1>1. /\ Open(c) /\ Kept
      /\ Changed(c, r, v, client[c].timestamp, client[c].guarded)
  BY DEF Create
<1>2. client[c].timestamp \in SUBSET Record
  BY <1>1, OpenTyped DEF RecordsInv, Tx, Open, OpenClient
<1> QED BY <1>1, <1>2, ChangedInv

LEMMA RestoreInv ==
  ASSUME RecordsInv, NEW c \in Client, NEW r \in Record, NEW d \in Nat, NEW before \in BOOLEAN,
         Restore(c, r, d, before)
  PROVE  RecordsInv'
<1> DEFINE v == LastRow(client[c].past \o client[c].rows, r, d, before).value
<1>1. /\ Open(c) /\ Kept
      /\ Changed(c, r, v, client[c].timestamp, client[c].guarded)
  BY DEF Restore
<1>2. client[c].timestamp \in SUBSET Record /\ client[c].rows \in Seq(HistoryRow)
      /\ client[c].past \in Seq(HistoryRow)
  BY <1>1, OpenTyped DEF RecordsInv, Tx, Open, OpenClient
<1>3. client[c].past \o client[c].rows \in Seq(HistoryRow)
  BY <1>2, ConcatProperties
<1>4. v \in Value \cup {NoSuchValue}
  BY <1>3, LastRowTyped
<1> HIDE DEF v
<1> QED BY <1>1, <1>2, <1>4, ChangedInv

LEMMA NextInv ==
  ASSUME RecordsInv, [RecordsNext]_recordsVars
  PROVE  RecordsInv'
<1>1. CASE UNCHANGED recordsVars
  <2>1. /\ UNCHANGED <<table, history, clock, ops, client, seen, timeline, overlapped>>
        /\ OpenClient' = OpenClient
    BY <1>1 DEF recordsVars, ghosts, OpenClient
  <2>2. RecordsTyped' /\ HistoryInv'
    BY <2>1 DEF RecordsInv, RecordsTyped, HistoryInv
  <2>3. KnownInv'
    BY <2>1 DEF RecordsInv, VersionInv, KnownInv, Known
  <2>4. VersionInv'
    BY <2>1, <2>3 DEF RecordsInv, VersionInv, TxInv, RowsInv, PastInv
  <2> QED BY <2>2, <2>4 DEF RecordsInv
<1>2. CASE RecordsNext
  <2>1. PICK c \in Client :
          \/ Read(c)
          \/ \E timestamp \in {{}, {r \in Record : Exists(seen[c][r])}} : Begin(c, timestamp)
          \/ \E r \in Record, v \in Value : Create(c, r, v) \/ Write(c, r, v)
          \/ \E r \in Record : Delete(c, r)
          \/ \E r \in Record, d \in 1..MaxClock, before \in BOOLEAN :
               d <= clock /\ Restore(c, r, d, before)
          \/ Commit(c)
          \/ Refuse(c)
    BY <1>2 DEF RecordsNext
  <2>2. CASE Read(c)
    BY <2>2, ReadInv
  <2>3. ASSUME NEW timestamp \in {{}, {r \in Record : Exists(seen[c][r])}}, Begin(c, timestamp)
        PROVE  RecordsInv'
    <3>1. timestamp \in SUBSET Record
      OBVIOUS
    <3> QED BY <2>3, <3>1, BeginInv
  <2>4. ASSUME NEW r \in Record, NEW v \in Value, Create(c, r, v) \/ Write(c, r, v)
        PROVE  RecordsInv'
    BY <2>4, CreateInv, WriteInv
  <2>5. ASSUME NEW r \in Record, Delete(c, r)
        PROVE  RecordsInv'
    BY <2>5, DeleteInv
  <2>6. ASSUME NEW r \in Record, NEW d \in 1..MaxClock, NEW before \in BOOLEAN,
               Restore(c, r, d, before)
        PROVE  RecordsInv'
    <3>1. d \in Nat
      OBVIOUS
    <3> QED BY <2>6, <3>1, RestoreInv
  <2>7. CASE Commit(c)
    BY <2>7, CommitInv
  <2>8. CASE Refuse(c)
    BY <2>8, AbortInv DEF Refuse, Kept
  <2> QED BY <2>1, <2>2, <2>3, <2>4, <2>5, <2>6, <2>7, <2>8
<1> QED BY <1>1, <1>2

-------------------------------------------------------------------------------
(* The theorems *)

\* The invariant, for any clients, records and values, and without bounds.
THEOREM RecordsInvHolds == RecordsSpec => []RecordsInv
<1>1. RecordsInit => RecordsInv
  BY InitInv
<1>2. RecordsInv /\ [RecordsNext]_recordsVars => RecordsInv'
  BY NextInv
<1> QED BY <1>1, <1>2, PTL DEF RecordsSpec

\* NoLostUpdate, for any clients and records: the only step that changes the table and
\* ends a transaction commits it, and what it has checked it has changed, so that the
\* back-end compares it with what the transaction saw.
THEOREM NoLostUpdateHolds == RecordsSpec => NoLostUpdate
<1> DEFINE Safe(c) == client[c].status = "open" /\ table' # table /\ client'[c].status = "idle"
                       => \A g \in client[c].guarded : table[g[1]].made = g[2]
<1>1. ASSUME RecordsInv, RecordsNext PROVE \A c \in Client : Safe(c)
  <2> SUFFICES ASSUME NEW c \in Client, client[c].status = "open", table' # table,
                      client'[c].status = "idle", NEW g \in client[c].guarded
               PROVE  table[g[1]].made = g[2]
    OBVIOUS
  <2>1. PICK a \in Client : Commit(a)
    <3>1. \A q \in Client : ~Read(q)
      BY DEF Read
    <3>2. \A q \in Client : \A t : ~Begin(q, t)
      BY DEF Begin
    <3>0. ~Kept
      BY DEF Kept
    <3>3. \A q \in Client, r \in Record, v \in Value : ~Create(q, r, v) /\ ~Write(q, r, v)
      BY <3>0 DEF Create, Write
    <3>4. \A q \in Client, r \in Record : ~Delete(q, r)
      BY <3>0 DEF Delete
    <3>5. \A q \in Client, r \in Record, d \in 1..MaxClock, b \in BOOLEAN : ~Restore(q, r, d, b)
      BY <3>0 DEF Restore
    <3>6. \A q \in Client : ~Refuse(q)
      BY DEF Refuse
    <3> QED BY <1>1, <3>1, <3>2, <3>3, <3>4, <3>5, <3>6 DEF RecordsNext
  <2>2. c = a
    BY <1>1, <2>1 DEF Commit, RecordsInv, RecordsTyped
  <2>3. g[1] \in client[c].touched /\ client[c].old[g[1]].made = g[2]
    BY <1>1 DEF RecordsInv, VersionInv, TxInv, OpenClient
  <2>4. table[g[1]] = client[c].old[g[1]]
    <3>1. ~Conflict(client[c])
      BY <2>1, <2>2 DEF Commit
    <3> QED BY <2>3, <3>1, Zenon DEF Conflict
  <2> QED BY <2>3, <2>4
<1>2. RecordsInv /\ [RecordsNext]_recordsVars => [\A c \in Client : Safe(c)]_recordsVars
  BY <1>1
<1> QED BY <1>2, RecordsInvHolds, PTL DEF RecordsSpec, NoLostUpdate

\* HistoryFaithful, for any clients, records and values and at any date: as long as each
\* transaction that versions a record has seen the versions before its own, the rows of
\* the record stay in the order of their dates, and the last one at a date has the value
\* that the last commit up to that date gave the record.
THEOREM HistoryFaithfulHolds == RecordsSpec => []HistoryFaithful
<1>1. ASSUME RecordsInv, NEW r \in Record \ overlapped, NEW d \in 1..clock
      PROVE  ReadAt(r, d) = AsOf(r, d)
  <2> DEFINE S == {i \in 1..Len(timeline) : timeline[i].id = r /\ timeline[i].date <= d}
  <2>1. /\ d \in Nat /\ history \in Seq(HistoryRow) /\ timeline \in Seq(HistoryRow)
        /\ Sorted(history, r) /\ SameLast(history, timeline, r, d)
    BY <1>1 DEF RecordsInv, RecordsTyped, HistoryInv
  <2>2. CASE ~Some(history, r, d)
    <3>1. LastRow(history, r, d, FALSE) = NoRow
      BY <2>1, <2>2, LastRowIs
    <3>2. ~Some(timeline, r, d)
      BY <2>1, <2>2 DEF SameLast
    <3>3. S = {}
      BY <3>2 DEF Some, In
    <3>4. AsOf(r, d) = NoSuchValue
      BY <3>3 DEF AsOf
    <3>5. ReadAt(r, d) = NoRow.value
      BY <3>1 DEF ReadAt
    <3>6. NoRow.value = NoSuchValue
      BY DEF NoRow
    <3> QED BY <3>4, <3>5, <3>6
  <2>3. CASE Some(history, r, d)
    <3>1. PICK i \in 1..Len(history) : IsLast(history, i, r, d)
      BY <2>1, <2>3, LastExists
    <3>2. LastRow(history, r, d, FALSE) = history[i]
      BY <2>1, <3>1, LastRowIs
    <3>3. PICK j \in 1..Len(timeline) : IsLast(timeline, j, r, d)
      BY <2>1, <2>3, LastExists DEF SameLast
    <3>4. j \in S /\ S \subseteq Int /\ \A k \in S : j >= k
      BY <3>3 DEF IsLast, In
    <3> HIDE DEF S
    <3>5. Max(S) = j
      BY <3>4, MaxIs
    <3>6. AsOf(r, d) = timeline[j].value
      BY <3>4, <3>5 DEF AsOf, S
    <3> QED BY <2>1, <3>1, <3>2, <3>3, <3>6 DEF ReadAt, SameLast
  <2> QED BY <2>2, <2>3
<1>2. RecordsInv => HistoryFaithful
  BY <1>1 DEF HistoryFaithful
<1> QED BY <1>2, RecordsInvHolds, PTL
===============================================================================
