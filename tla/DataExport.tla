------------------------------ MODULE DataExport ------------------------------
(* Export and import of records as lines of cells (model/modelstorage.py). A      *)
(* record of many2ones and one2manys is put on a line, the further lines of its   *)
(* lists below it with the cells of the record left empty; import takes the lines *)
(* apart again, creates what has no id and writes what has one.                   *)
EXTENDS Naturals, Sequences, FiniteSets, SequencesExt, FiniteSetsExt
CONSTANTS
  Tables,     \* the tables there may be: id -> row, see TypeOK
  Columns,    \* the lists of columns that are exported, a column is a path of fields
  Target,     \* the targets of the many2one: id -> rec_name
  MaxEdits    \* bound: changes between export and import
VARIABLES
  rows,       \* the records, and the records of their one2manys, which know their owner
  columns,
  file,       \* the cells that export_data returned
  saved,      \* what was exported
  before,     \* what there was when the import began
  io,         \* "new", "exported", "imported" or "refused"
  edits
ioVars == <<rows, columns, file, saved, before, io, edits>>

NoTarget == 0
NoOwner == 0
Null == 9
Empty == <<>>
Scalars == {"id", "x", "to"}
\* The cells of a record; those that Python takes for false are Empty and zero.
Cell(db, id, field) ==
  CASE field = "id" -> <<"id", id>>
    [] field = "x" -> IF db[id].x = Null THEN Empty ELSE <<"x", db[id].x>>
    [] field = "to" -> IF db[id].to = NoTarget THEN Empty ELSE <<"to", Target[db[id].to]>>
IsFalse(cell) == cell = Empty \/ cell = <<"x", 0>>

Init ==
  /\ rows \in Tables /\ columns \in Columns /\ file = <<>> /\ io = "new" /\ edits = 0
  /\ saved = rows /\ before = rows

(* ---------------------------------- export ---------------------------------- *)
Items(db, id, field) ==
  SetToSortSeq({i \in DOMAIN db : db[i].field = field /\ db[i].owner = id}, <)
Under(paths, field) ==
  [c \in DOMAIN paths |-> IF paths[c] # <<>> /\ Head(paths[c]) = field THEN Tail(paths[c]) ELSE <<>>]
\* The one2manys in the order of their first columns.
Lists(paths) ==
  LET First(f) == Min({c \in DOMAIN paths : paths[c] # <<>> /\ Head(paths[c]) = f})
  IN  SetToSortSeq({Head(paths[c]) : c \in {c \in DOMAIN paths : Len(paths[c]) > 1}},
                   LAMBDA f, g : First(f) < First(g))

\* __export_row: the first of each list goes on the record's own line.
RECURSIVE ExportRow(_, _, _)
ExportRow(db, id, paths) ==
  LET Of(field) == LET items == Items(db, id, field)
                   IN  FlattenSeq([k \in 1..Len(items) |-> ExportRow(db, items[k], Under(paths, field))])
      lists == [f \in Range(Lists(paths)) |-> Of(f)]
      own == [c \in DOMAIN paths |->
                CASE paths[c] = <<>> -> Empty
                  [] Len(paths[c]) = 1 -> Cell(db, id, paths[c][1])
                  [] OTHER -> LET items == lists[Head(paths[c])]
                              IN  IF items = <<>> \/ IsFalse(items[1][c]) THEN Empty ELSE items[1][c]]
      below == [k \in DOMAIN Lists(paths) |->
                  LET items == lists[Lists(paths)[k]] IN IF items = <<>> THEN <<>> ELSE Tail(items)]
  IN  <<own>> \o FlattenSeq(below)
ExportData(db) ==
  LET records == Items(db, NoOwner, "")
  IN  FlattenSeq([k \in 1..Len(records) |-> ExportRow(db, records[k], columns)])

(* ---------------------------------- import ---------------------------------- *)
Has(path, prefix) == Len(path) > Len(prefix) /\ SubSeq(path, 1, Len(prefix)) = prefix
\* Only a cell of the owner ends them.
EndsAtOwner(data, prefix, next) ==
  \/ next > Len(data)
  \/ \E c \in DOMAIN columns : Len(columns[c]) < Len(prefix) /\ data[next][c] # Empty
\* The lines of a list end where a cell of what is above is not empty, of whatever field.
EndsAt(data, prefix, next) ==
  \/ next > Len(data)
  \/ \E c \in DOMAIN columns : Len(columns[c]) <= Len(prefix) /\ data[next][c] # Empty
\* process_lines.
RECURSIVE ProcessLines(_, _, _)
ProcessLines(data, prefix, position) ==
  LET own == {c \in DOMAIN columns : Has(columns[c], prefix) /\ Len(columns[c]) = Len(prefix) + 1}
      todo == {columns[c][Len(prefix) + 1] : c \in {c \in DOMAIN columns : Has(columns[c], prefix)} \ own}
      items == [f \in todo |-> ProcessLines(data, Append(prefix, f), position)]
      count == Max({1} \cup {FoldSeq(LAMBDA r, n : r.count + n, 0, items[f]) : f \in todo})
      next == position + count
      row == [values |-> [f \in {columns[c][Len(prefix) + 1] : c \in own} |->
                            data[position][CHOOSE c \in own : columns[c][Len(prefix) + 1] = f]],
              items |-> items, count |-> count]
  IN  <<row>> \o (IF EndsAt(data, prefix, next) THEN <<>> ELSE ProcessLines(data, prefix, next))

Identified(row) == "id" \in DOMAIN row.values /\ row.values["id"] # Empty
RECURSIVE IsBlank(_)
IsBlank(row) ==
  /\ \A f \in DOMAIN row.values : IsFalse(row.values[f])
  /\ \A f \in DOMAIN row.items : \A k \in DOMAIN row.items[f] : IsBlank(row.items[f][k])

\* get_many2one: the one target of that name.
GetMany2One(name) == CHOOSE t \in DOMAIN Target : Target[t] = name
\* convert: no value is made of an empty cell.
Convert(cell) == IF cell = Empty THEN Null ELSE cell[2]
Set(record, values) ==
  [record EXCEPT
     !.x = IF "x" \notin DOMAIN values THEN @ ELSE Convert(values["x"]),
     !.to = IF "to" \notin DOMAIN values THEN @
            ELSE IF values["to"] = Empty THEN NoTarget ELSE GetMany2One(values["to"][2])]
\* dispatch, and create and write of what was dispatched: of a list what has no values
\* is not created.
RECURSIVE Dispatch(_, _, _, _)
Dispatch(db, row, field, owner) ==
  LET id == IF Identified(row) THEN row.values["id"][2] ELSE Max(DOMAIN db \cup {0}) + 1
      old == IF Identified(row) THEN db[id]
             ELSE [field |-> field, owner |-> owner, x |-> Null, to |-> NoTarget]
      with == [i \in DOMAIN db \cup {id} |-> IF i = id THEN Set(old, row.values) ELSE db[i]]
      All(base, f) == FoldLeft(LAMBDA d, item : Dispatch(d, item, f, id), base, row.items[f])
  IN  IF owner # NoOwner /\ ~Identified(row) /\ IsBlank(row) THEN db
      ELSE FoldLeft(All, with, SetToSeq(DOMAIN row.items))
ImportData(data) ==
  FoldLeft(LAMBDA d, row : Dispatch(d, row, "", NoOwner), rows, ProcessLines(data, <<>>, 1))

\* A name of no target or of several, and a record that is not there.
Fails(cell) ==
  CASE cell = Empty -> FALSE
    [] cell[1] = "to" -> Cardinality({t \in DOMAIN Target : Target[t] = cell[2]}) # 1
    [] cell[1] = "id" -> cell[2] \notin DOMAIN rows
    [] OTHER -> FALSE

(* ---------------------------------- actions --------------------------------- *)
Export ==
  /\ io = "new" /\ io' = "exported" /\ file' = ExportData(rows) /\ saved' = rows
  /\ UNCHANGED <<rows, columns, before, edits>>
Import ==
  /\ io = "exported" /\ file # <<>> /\ before' = rows
  /\ IF \E l \in DOMAIN file, c \in DOMAIN columns : Fails(file[l][c])
       THEN io' = "refused" /\ UNCHANGED rows
       ELSE io' = "imported" /\ rows' = ImportData(file)
  /\ UNCHANGED <<columns, file, saved, edits>>
\* Someone changes or deletes a record in between.
Edit(id) ==
  /\ io = "exported" /\ edits < MaxEdits /\ edits' = edits + 1
  /\ \/ \E x \in {0, 1, Null} \ {rows[id].x} : rows' = [rows EXCEPT ![id].x = x]
     \/ /\ \A i \in DOMAIN rows : rows[i].owner # id
        /\ rows' = [i \in DOMAIN rows \ {id} |-> rows[i]]
  /\ UNCHANGED <<columns, file, saved, before, io>>
Next == Export \/ Import \/ \E id \in DOMAIN rows : Edit(id)
Spec == Init /\ [][Next]_ioVars

(* -------------------------------- properties -------------------------------- *)
TypeOK ==
  \A id \in DOMAIN rows :
    /\ rows[id].owner = NoOwner \/ rows[id].owner \in DOMAIN rows
    /\ rows[id].x \in {0, 1, Null} /\ rows[id].to \in DOMAIN Target \cup {NoTarget}

Shown(field) == {c[Len(c)] : c \in {c \in Range(columns) : IF field = "" THEN Len(c) = 1
                                      ELSE Len(c) > 1 /\ c[Len(c) - 1] = field}}
WithIds == \A c \in Range(columns) : "id" \in Shown(IF Len(c) = 1 THEN "" ELSE c[Len(c) - 1])
RECURSIVE Tree(_, _)
Tree(db, id) ==
  [values |-> [f \in Shown(db[id].field) \ {"id"} |-> Cell(db, id, f)],
   items |-> [f \in {db[i].field : i \in {i \in DOMAIN db : db[i].owner = id /\ Shown(db[i].field) # {}}} |->
                LET items == Items(db, id, f) IN [k \in 1..Len(items) |-> Tree(db, items[k])]]]
\* Without ids a record is told from the one before by a cell that is not empty.
Recognised ==
  \A id \in DOMAIN saved : Shown(saved[id].field) = {} \/
    \E f \in Shown(saved[id].field) : ~IsFalse(Cell(saved, id, f))
\* A zero of a record of a list may be written as an empty cell.
NoZeros == \A id \in DOMAIN saved : saved[id].owner # NoOwner => saved[id].x # 0

\* What is exported with the ids is what an import writes: the fields are as they were,
\* what is not in the file stays; without ids an import makes copies of the records and
\* of their lists; and one that is refused changes nothing (export_data, import_data).
ImportedIsExported ==
  /\ io = "imported" /\ NoZeros =>
       IF WithIds
       THEN rows = [id \in DOMAIN before |->
                      IF id \notin DOMAIN saved THEN before[id]
                      ELSE [before[id] EXCEPT
                              !.x = IF "x" \in Shown(saved[id].field) THEN saved[id].x ELSE @,
                              !.to = IF "to" \in Shown(saved[id].field) THEN saved[id].to ELSE @]]
       ELSE LET new == SetToSortSeq({i \in DOMAIN rows \ DOMAIN before : rows[i].field = ""}, <)
                old == Items(saved, NoOwner, "")
            IN  /\ \A id \in DOMAIN before : rows[id] = before[id]
                /\ Recognised => /\ Len(new) = Len(old)
                                 /\ \A k \in DOMAIN new : Tree(rows, new[k]) = Tree(saved, old[k])
  /\ io = "refused" => rows = before
===============================================================================
