-------------------------------- MODULE Schema --------------------------------
(* The tables of a model through the versions of its modules                  *)
(* (model/modelsql.py __register__, backend/*/table.py).                        *)
(* An upgrade is one transaction: it calls what the module asks for before     *)
(* (renames), registers the fields in order with the handlers of the table and *)
(* of its history, and calls what the module asks for after.  A handler reads   *)
(* the definition of the columns once and forgets it when it changes them.     *)
EXTENDS Naturals, Sequences, FiniteSets, FiniteSetsExt, SequencesExt, TLC
CONSTANTS
  SQLite,     \* the back-end: SQLite, or PostgreSQL
  Versions,   \* what the modules may ask, in the order of their numbers:
              \* [number, table, fields, history, before, after]
  Value,      \* what a client stores; Null is no value
  Null, MaxId, MaxOps
VARIABLES
  db,         \* the existing tables: name -> [cols, rows, gen]
  seqs,       \* the generators of numbers: name -> the last given
  installed,  \* the version of the last upgrade that ended
  kept,       \* what was stored and has to be there: id -> (field -> value)
  past,       \* the same for the history: the sequence of the [id, val] added
  ops,        \* writes and upgrades so far
  refused,    \* the legal writes that the database refused
  hazard      \* an upgrade renamed the table of a history
schemaVars == <<db, seqs, installed, kept, past, ops, refused, hazard>>

Name(v, kind) == <<v.table, kind>>
HistoryOf == ("main" :> "history") @@ ("temp" :> "temp history")
TempOf == ("main" :> "temp") @@ ("history" :> "temp history")
FieldNames(v) == {v.fields[i].name : i \in DOMAIN v.fields}
FieldOf(v, f) == CHOOSE x \in Range(v.fields) : x.name = f

(* The state of an upgrade: the tables, the generators, what the handlers know, *)
(* whether a statement failed and whether the table of a history was renamed.   *)
Forget(S, h) == [S EXCEPT !.known = [x \in DOMAIN @ \ {h} |-> @[x]]]
Fail(S) == [S EXCEPT !.failed = TRUE]
\* _columns: read once, empty for a table that does not exist.
Load(S, h) ==
  IF h \in DOMAIN S.known THEN S
  ELSE [S EXCEPT !.known = (h :> IF h \in DOMAIN S.db THEN S.db[h].cols ELSE <<>>) @@ @]

\* The table moves with its numbers: SQLite keeps them under its name.
Moved(S, old, new) ==
  [S EXCEPT !.db = [t \in (DOMAIN @ \ {old}) \cup {new} |->
                      IF t # new THEN @[t]
                      ELSE IF SQLite THEN [@[old] EXCEPT !.gen = new] ELSE @[old]],
            !.seqs = IF ~SQLite THEN @
                     ELSE [n \in (DOMAIN @ \ {old}) \cup {new} |-> IF n = new THEN @[old] ELSE @[n]]]
MovedIfFree(S, old, new) ==
  IF old \in DOMAIN S.db /\ new \notin DOMAIN S.db THEN Moved(S, old, new) ELSE S
\* PostgreSQL has the numbers of a table in a sequence, renamed with it; those of
\* its history are not.
SequenceRenamed(S, old, new) ==
  IF SQLite \/ old \notin DOMAIN S.seqs \/ new \in DOMAIN S.seqs THEN S
  ELSE [S EXCEPT !.seqs = [n \in (DOMAIN @ \ {old}) \cup {new} |-> IF n = new THEN @[old] ELSE @[n]],
                 !.db = [t \in DOMAIN @ |-> IF @[t].gen = old THEN [@[t] EXCEPT !.gen = new] ELSE @[t]]]
HistoryMoved(S, old, new) ==
  LET hist == <<old[1], HistoryOf[old[2]]>>
  IN  IF old[2] \notin DOMAIN HistoryOf \/ hist \notin DOMAIN S.db THEN S
      ELSE [MovedIfFree(S, hist, <<new[1], HistoryOf[new[2]]>>) EXCEPT !.hazard = TRUE]
TableRename(S, old, new) ==
  HistoryMoved(SequenceRenamed(MovedIfFree(S, old, new), old, new), old, new)

\* The handler creates what is missing and makes the table use its own sequence.
HandlerInit(S, h) ==
  Forget([S EXCEPT !.seqs = @ @@ (h :> 0),
                   !.db = IF h \in DOMAIN @ THEN [@ EXCEPT ![h].gen = h]
                          ELSE (h :> [cols |-> <<>>, rows |-> {}, gen |-> h]) @@ @], h)
\* One handler for each table in a transaction.
Open(S, h) == IF h \in S.open THEN S ELSE [HandlerInit(S, h) EXCEPT !.open = @ \cup {h}]

Column(f) == [type |-> f.type, size |-> IF SQLite THEN 0 ELSE f.size, notnull |-> FALSE]
\* The pairs of types that add_column may change one into the other.
Migratable ==
  {<<"varchar", "text">>, <<"text", "varchar">>, <<"date", "timestamp">>,
   <<"integer", "float">>, <<"integer", "numeric">>, <<"float", "numeric">>}
  \cup IF SQLite THEN {} ELSE {<<"integer", "bigint">>, <<"bigint", "float">>, <<"bigint", "numeric">>}

\* SQLite's way to change a column: the table is renamed, created again and filled.
\* The renaming takes the table of the history with it.
Filled(S, h, temp, cols) ==
  LET rows == S.db[temp].rows
  IN  Forget([S EXCEPT
        !.db = [t \in DOMAIN @ \ {temp} |->
                  IF t = h THEN [@[t] EXCEPT !.cols = cols, !.rows = rows] ELSE @[t]],
        !.seqs = [n \in DOMAIN @ \ {temp} |->
                    IF n = h THEN FoldSet(LAMBDA r, m : IF r.key > m THEN r.key ELSE m, 0, rows)
                             ELSE @[n]]], h)
CreatedAgain(S, h, temp, cols) ==
  IF h \in DOMAIN S.db \/ temp \notin DOMAIN S.db THEN Fail(S)
  ELSE Filled(HandlerInit(S, h), h, temp, cols)
Recreate(S, h, cols) ==
  LET temp == <<h[1], TempOf[h[2]]>> IN CreatedAgain(TableRename(S, h, temp), h, temp, cols)
\* Mutant of Altered: the changed column is dropped and added again.
DropAndAdd(S, h, c, def) ==
  Forget([S EXCEPT !.db[h].cols[c] = def, !.db[h].rows = {[r EXCEPT !.val[c] = Null] : r \in @}], h)
Altered(S, h, c, def) ==
  IF SQLite THEN Recreate(S, h, [S.known[h] EXCEPT ![c] = def])
            ELSE Forget([S EXCEPT !.db[h].cols[c] = def], h)
AlterType(S, h, c, type) == Altered(S, h, c, [S.known[h][c] EXCEPT !.type = type, !.size = 0])
AlterSize(S, h, c, size) == Altered(S, h, c, [S.known[h][c] EXCEPT !.size = size])

\* A column that exists keeps its values: its type and its size only ever grow.
Wider(from, size) == from > 0 /\ (size = 0 \/ size > from)
MigrateSize(S, h, f) ==
  IF ~S.failed /\ f.type = "varchar" /\ S.known[h][f.name].type = "varchar"
     /\ Wider(S.known[h][f.name].size, f.size)
  THEN AlterSize(S, h, f.name, f.size) ELSE S
Migrate(S, h, f) ==
  MigrateSize(Load(IF <<S.known[h][f.name].type, f.type>> \in Migratable
                   THEN AlterType(S, h, f.name, f.type) ELSE S, h), h, f)

\* A new column is filled with the default of its field.
AddKnown(S, h, f, default) ==
  IF f.name \in DOMAIN S.known[h] THEN Migrate(S, h, f)
  ELSE IF h \notin DOMAIN S.db THEN Fail(S)
  ELSE Forget([S EXCEPT !.db[h].cols = (f.name :> Column(f)) @@ @,
                        !.db[h].rows = {[r EXCEPT !.val = (f.name :> default) @@ @] : r \in @}], h)
AddColumn(S, h, f, default) == IF S.failed THEN S ELSE AddKnown(Load(S, h), h, f, default)

\* NOT NULL is set only when no row is in the way; SQLite has none.
NotNullKnown(S, h, c, required) ==
  LET free == \A r \in S.db[h].rows : r.val[c] # Null
  IN  IF c \notin DOMAIN S.known[h] \/ required = S.known[h][c].notnull \/ (required /\ ~free)
      THEN S ELSE Forget([S EXCEPT !.db[h].cols[c].notnull = required], h)
NotNullAction(S, h, c, required) ==
  IF S.failed \/ SQLite THEN S ELSE NotNullKnown(Load(S, h), h, c, required)

UnderNew(fun, old, new) ==
  [x \in (DOMAIN fun \ {old}) \cup {new} |-> fun[IF x = new THEN old ELSE x]]
Without(fun, c) == [x \in DOMAIN fun \ {c} |-> fun[x]]
RenameKnown(S, h, old, new) ==
  IF old \notin DOMAIN S.known[h] \/ new \in DOMAIN S.known[h] THEN S
  ELSE Forget([S EXCEPT !.db[h].cols = UnderNew(@, old, new),
                        !.db[h].rows = {[r EXCEPT !.val = UnderNew(@, old, new)] : r \in @}], h)
ColumnRename(S, h, old, new) == RenameKnown(Load(S, h), h, old, new)
DropKnown(S, h, c) ==
  IF c \notin DOMAIN S.known[h] THEN S
  ELSE Forget([S EXCEPT !.db[h].cols = Without(@, c),
                        !.db[h].rows = {[r EXCEPT !.val = Without(@, c)] : r \in @}], h)
DropColumn(S, h, c) == DropKnown(Load(S, h), h, c)

(* What the module asks for, on the table and on that of the history. *)
TablesOf(v) == IF v.history THEN <<Name(v, "main"), Name(v, "history")>> ELSE <<Name(v, "main")>>
Asked(S, v, move) ==
  LET main == Name(v, "main")
  IN  CASE move.op = "table" -> TableRename(S, <<move.old, "main">>, main)
        [] move.op = "rename" ->
             FoldLeft(LAMBDA T, h : ColumnRename(Open(T, h), h, move.old, move.new), S, TablesOf(v))
        [] move.op = "drop" ->
             FoldLeft(LAMBDA T, h : DropColumn(Open(T, h), h, move.old), S, TablesOf(v))
        [] move.op = "optional" -> NotNullAction(Open(S, main), main, move.old, FALSE)
AskedAll(S, v, moves) == FoldLeft(LAMBDA T, move : IF T.failed THEN T ELSE Asked(T, v, move), S, moves)

\* __register__ of one field.
RegisterField(S, v, f) ==
  LET historized(T) == IF v.history THEN AddColumn(T, Name(v, "history"), f, Null) ELSE T
      main == Name(v, "main")
  IN  NotNullAction(historized(AddColumn(S, main, f, f.default)), main, f.name, f.required)

\* An empty history starts with the records there are.
Copied(S, v, hist, ids) ==
  LET row(id) == CHOOSE r \in S.db[Name(v, "main")].rows : r.key = id
      gen == S.db[hist].gen
      of(fun) == [c \in DOMAIN S.db[hist].cols |-> IF c \in FieldNames(v) THEN fun[c] ELSE Null]
  IN  IF ids = <<>> THEN S
      ELSE IF hist \notin DOMAIN S.db THEN Fail(S)
      ELSE IF S.db[hist].rows # {} THEN S
      ELSE [S EXCEPT !.db[hist].rows = {[key |-> S.seqs[gen] + i, id |-> ids[i],
                                         val |-> of(row(ids[i]).val)] : i \in DOMAIN ids},
                     !.seqs[gen] = @ + Len(ids)]
HistoryStarted(S, v) ==
  LET hist == Name(v, "history")
      ids(T) == SetToSortSeq({r.key : r \in T.db[Name(v, "main")].rows}, <)
      started(T) == IF T.failed THEN T ELSE Copied(T, v, hist, ids(T))
  IN  IF S.failed \/ ~v.history THEN S
      ELSE started(FoldLeft(LAMBDA T, f : AddColumn(T, hist, f, Null), S, v.fields))

Opened(S, v) == FoldLeft(LAMBDA T, h : Open(T, h), S, TablesOf(v))
FieldsRegistered(S, v) ==
  FoldLeft(LAMBDA T, f : IF T.failed THEN T ELSE RegisterField(T, v, f), S, v.fields)
Register(S, v) ==
  AskedAll(HistoryStarted(FieldsRegistered(Opened(AskedAll(S, v, v.before), v), v), v), v, v.after)
Registered(v) == Register([db |-> db, seqs |-> seqs, known |-> <<>>, open |-> {}, failed |-> FALSE,
                           hazard |-> FALSE], v)

(* What has to be there after an upgrade: the renamed columns under their new   *)
(* name, the new ones with their default.                                       *)
RenamedVal(val, moves) ==
  FoldLeft(LAMBDA w, move :
             IF move.op = "rename" /\ move.old \in DOMAIN w /\ move.new \notin DOMAIN w
             THEN [x \in (DOMAIN w \ {move.old}) \cup {move.new} |->
                     w[IF x = move.new THEN move.old ELSE x]]
             ELSE IF move.op = "drop" THEN [x \in DOMAIN w \ {move.old} |-> w[x]]
             ELSE w, val, moves)
Expected(val, v, default(_)) ==
  RenamedVal(LET w == RenamedVal(val, v.before)
             IN  w @@ [c \in FieldNames(v) |-> default(FieldOf(v, c))], v.after)
KeptAfter(v) ==
  [id \in DOMAIN kept |-> LET d(f) == f.default IN Expected(kept[id], v, d)]
PastAfter(v) ==
  IF ~v.history THEN past
  ELSE IF past # <<>>
       THEN [i \in DOMAIN past |->
               LET d(f) == Null IN [past[i] EXCEPT !.val = Expected(@, v, d)]]
       ELSE LET ids == SetToSortSeq(DOMAIN kept, <)
                want(id) == KeptAfter(v)[id]
            IN  [i \in DOMAIN ids |->
                   [id |-> ids[i], val |-> [c \in FieldNames(v) \cap DOMAIN want(ids[i]) |-> want(ids[i])[c]]]]

Upgrade(v) ==
  /\ ops < MaxOps /\ ops' = ops + 1
  /\ v.number >= installed.number
  /\ \E S \in {Registered(v)} :
       /\ hazard' = (hazard \/ S.hazard)
       /\ IF S.failed
          THEN refused' = TRUE /\ UNCHANGED <<db, seqs, installed, kept, past>>
          ELSE /\ db' = S.db /\ seqs' = S.seqs /\ installed' = v
               /\ kept' = KeptAfter(v) /\ past' = PastAfter(v) /\ UNCHANGED refused

(* A request of a client, legal for the installed version: it leaves out only   *)
(* what is not required.  The columns that are not of the version get no value. *)
Main == Name(installed, "main")
Hist == Name(installed, "history")
Legal == {x \in [FieldNames(installed) -> Value \cup {Null}] :
            \A f \in FieldNames(installed) : FieldOf(installed, f).required => x[f] # Null}
Given(table, x) == [c \in DOMAIN db[table].cols |-> IF c \in DOMAIN x THEN x[c] ELSE Null]
Accepted(x) == \A c \in DOMAIN db[Main].cols : db[Main].cols[c].notnull => x[c] # Null
\* The number of a new row is taken even if the row is then refused: a sequence
\* does not roll back.
Taken(gens) == [n \in DOMAIN seqs |-> IF n \in gens THEN seqs[n] + 1 ELSE seqs[n]]
HistoryKeyFree == Hist \in DOMAIN db /\ \A r \in db[Hist].rows : r.key # seqs[db[Hist].gen] + 1
HistoryRow(id, x) == [key |-> seqs[db[Hist].gen] + 1, id |-> id, val |-> Given(Hist, x)]

\* The rows of the main table become rows, with one for each id, and the history
\* gets one for id.
Store(rows, id, x, gens) ==
  LET historyGens == IF installed.history /\ Hist \in DOMAIN db THEN {db[Hist].gen} ELSE {}
      ok == /\ \A r \in rows : Accepted(r.val)
            /\ \A r, q \in rows : r.key = q.key => r = q
            /\ installed.history => HistoryKeyFree
  IN  /\ ops < MaxOps /\ ops' = ops + 1
      /\ IF ok
         THEN /\ db' = [t \in DOMAIN db |->
                          IF t = Main THEN [db[t] EXCEPT !.rows = rows]
                          ELSE IF t = Hist /\ installed.history
                               THEN [db[t] EXCEPT !.rows = @ \cup {HistoryRow(id, x)}]
                               ELSE db[t]]
              /\ seqs' = Taken(gens \cup historyGens)
              /\ kept' = [r \in {row.key : row \in rows} |->
                            IF r = id THEN Given(Main, x) ELSE kept[r]]
              /\ past' = IF installed.history
                         THEN Append(past, [id |-> id, val |-> Given(Hist, x)]) ELSE past
              /\ UNCHANGED refused
         ELSE /\ refused' = TRUE /\ seqs' = (IF SQLite THEN seqs ELSE Taken(gens \cup historyGens))
              /\ UNCHANGED <<db, kept, past>>
      /\ UNCHANGED <<installed, hazard>>
Create(x) ==
  LET id == seqs[db[Main].gen] + 1
  IN  /\ id <= MaxId
      /\ Store(db[Main].rows \cup {[key |-> id, val |-> Given(Main, x)]}, id, x, {db[Main].gen})
Write(r, x) ==
  Store((db[Main].rows \ {r}) \cup {[key |-> r.key, val |-> x @@ r.val]}, r.key, x @@ r.val, {})
\* The row of a deletion has no values.
Delete(r) == Store(db[Main].rows \ {r}, r.key, <<>>, {})

\* A new database.
Init ==
  /\ \E v \in Versions :
       /\ \A w \in Versions : v.number <= w.number
       /\ installed = v
       /\ \E S \in {Register([db |-> <<>>, seqs |-> <<>>, known |-> <<>>, open |-> {},
                              failed |-> FALSE, hazard |-> FALSE], v)} :
            db = S.db /\ seqs = S.seqs
  /\ kept = <<>> /\ past = <<>> /\ ops = 0 /\ refused = FALSE /\ hazard = FALSE
Next ==
  \/ \E v \in Versions : Upgrade(v)
  \/ \E x \in Legal : Create(x) \/ \E r \in db[Main].rows : Write(r, x)
  \/ \E r \in db[Main].rows : Delete(r)
Spec == Init /\ [][Next]_schemaVars

RowsAgree(rows, want) ==
  /\ Cardinality(rows) = Cardinality(DOMAIN want)
  /\ \A i \in DOMAIN want : \E r \in rows :
       /\ r.key = i /\ \A c \in DOMAIN want[i] : c \in DOMAIN r.val /\ r.val[c] = want[i][c]
\* Through every upgrade the values of the records, and of their versions in the
\* history, stay under the columns of their fields: columns are added, renamed and
\* changed without a value being lost (add_column, column_rename, _recreate_table,
\* __register__), unless SQLite has renamed the table of a history.
ValuesKept ==
  (SQLite /\ hazard) \/
  /\ RowsAgree(db[Main].rows, kept)
  /\ past # <<>> => \A i \in DOMAIN past : \E r \in db[Hist].rows :
       r.id = past[i].id /\ \A c \in DOMAIN past[i].val : c \in DOMAIN r.val
                                                     /\ r.val[c] = past[i].val[c]
\* No upgrade fails, and what a version of the model allows is not refused by what
\* is left in the database of the versions before it (not_null_action, table_rename),
\* unless the table of a history was renamed: PostgreSQL then numbers its rows from
\* the start again, and SQLite may not find it any more.
LegalAccepted == refused => hazard
===============================================================================
