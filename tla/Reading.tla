------------------------------- MODULE Reading --------------------------------
(* ModelSQL.read: the values of fields of records, also of those their relations   *)
(* link ("to.x"), with the getters of the function fields and the cache of the     *)
(* transaction.  The model has a number x, a many2one to, the one2many lines of    *)
(* the other side of it, a many2many, a reference, which no constraint protects,   *)
(* and functions: total and count of the lines, by one getter, and scaled, whose   *)
(* getter reads the context.  The order of a list is left out.                     *)
EXTENDS Naturals, Sequences, FiniteSets, FiniteSetsExt
CONSTANTS
  Tables,     \* the tables there may be at first: id -> [x, to, ref, many]
  Hidden,     \* the ids that the rules may hide from the user
  Queries,    \* what is asked: pairs of ids and of the paths of fields
  MaxOps      \* bound: operations
VARIABLES
  table,      \* id -> its row, as the transaction sees it
  hidden,
  readonly,   \* of the transaction
  context,    \* the value that scaled takes from the context
  cache,      \* of the transaction: id -> the fields that are cached
  ops,        \* counts the operations, up to MaxOps
  exact       \* ghost: the last answer was the one of the table
readVars == <<table, hidden, readonly, context, cache, ops, exact>>

NoRecord == 0
Refused == [refused |-> TRUE]
Nothing == [f \in {} |-> 0]
Id == UNION {DOMAIN t : t \in Tables}
Uncached == [i \in Id |-> Nothing]
Columns == {"x", "to", "ref"}
ToMany == {"lines", "many"}
Grouped == {"total", "count"}     \* by one getter, that has no need of the context
Update(old, new) == [f \in DOMAIN old \cup DOMAIN new |-> IF f \in DOMAIN new THEN new[f] ELSE old[f]]

Init ==
  /\ table \in Tables /\ hidden \in SUBSET Hidden
  /\ readonly \in BOOLEAN /\ context = 1 /\ cache = Uncached /\ ops = 0 /\ exact = TRUE

(* --------------------------- get of the fields ------------------------------ *)
LinesOf(i) == {j \in DOMAIN table : table[j].to = i}
\* One2Many.get is a search, that the rules restrict, but in a getter.
Lines(i) == LinesOf(i) \ hidden
\* Many2Many.get searches the relation.
Many(i) == IF i \in DOMAIN table THEN table[i].many ELSE {}
\* Reference.get: what is no more there is not given.
Reference(i) == IF table[i].ref \in DOMAIN table THEN table[i].ref ELSE NoRecord

(* ----------------------------------- read ----------------------------------- *)
Heads(paths) == {p[1] : p \in paths}
Related(paths, field) == {Tail(p) : p \in {p \in paths : Len(p) > 1 /\ p[1] = field}}
\* The query, when a column is asked, finds all the records that are asked.
Queried(paths) == Heads(paths) \cap Columns # {}
Missing(ids, checked) == \E i \in ids : i \notin DOMAIN table \/ (checked /\ i \in hidden)

\* A getter gets its records with what was selected of them and reads the others
\* by the cache.
X(store, i) == IF "x" \in DOMAIN store[i] THEN store[i]["x"] ELSE table[i].x
Getter(store, i, fields) ==
  [f \in fields |->
     CASE f = "total" -> MapThenSumSet(LAMBDA j : X(store, j), LinesOf(i))
       [] f = "count" -> Cardinality(LinesOf(i))
       [] f = "scaled" -> X(store, i) * context]
\* Only the lines are read for the total.
Reads(ids, fields) ==
  UNION {LinesOf(i) : i \in IF "total" \in fields THEN ids ELSE {}}
     \cup (IF "scaled" \in fields THEN ids ELSE {})
\* Those whose getter has no context, if nothing can be written.
KeptAlways(fields) == fields \cap Grouped
Kept(fields) == IF readonly THEN fields \cap Grouped ELSE {}
\* What is selected is cached where there are getters, then what getters read, and
\* what they return.
Selected(store, ids, paths) ==
  IF Heads(paths) \subseteq {"x", "to"} THEN store
  ELSE [i \in Id |-> IF i \in ids /\ i \in DOMAIN table /\ Queried(paths)
                     THEN Update(store[i], [f \in Heads(paths) \cap {"x", "to"} |-> table[i][f]])
                     ELSE store[i]]
Known(store, i, fields) == fields \subseteq DOMAIN store[i]
Computed(store, ids, fields) ==
  LET todo == {i \in ids : ~Known(store, i, fields)}
      read == [i \in Id |-> IF i \in Reads(todo, fields) /\ i \in DOMAIN table
                            THEN Update(store[i], [x |-> X(store, i)]) ELSE store[i]]
      value == [i \in ids |-> IF i \in todo THEN Getter(store, i, fields)
                              ELSE [f \in fields |-> store[i][f]]]
  IN  [values |-> value,
       store |-> [i \in Id |-> IF i \in todo
                               THEN Update(read[i], [f \in Kept(fields) |-> value[i][f]]) ELSE read[i]]]

\* The records that a relation of the row of i links.
Linked(row, field) ==
  CASE field \in ToMany -> row[field]
    [] OTHER -> {row[field]} \ {NoRecord}
\* What the columns and the getters give.
Own(store, ids, paths) ==
  LET heads == Heads(paths)
      functions == Computed(Selected(store, ids, paths), ids, heads \cap Grouped)
      scaled == Computed(functions.store, ids, heads \cap {"scaled"})
  IN  [store |-> scaled.store,
       rows |-> [i \in ids |->
                   [f \in heads |->
                      CASE f \in {"x", "to"} -> table[i][f]
                        [] f = "ref" -> Reference(i)
                        [] f = "lines" -> Lines(i)
                        [] f = "many" -> Many(i)
                        [] f \in Grouped -> functions.values[i][f]
                        [] f = "scaled" -> scaled.values[i][f]]]]
\* The rows by id and the cache after, or Refused; the related rows are read for one
\* relation after the other.
RECURSIVE Read(_, _, _)
RECURSIVE AddRelated(_, _, _, _)
Read(store, ids, paths) ==
  LET whole == AddRelated(Own(store, ids, paths), ids, paths,
                          {f \in Heads(paths) : Related(paths, f) # {}})
      asked == {p[1] : p \in {p \in paths : Len(p) = 1}}
  IN  IF \/ Queried(paths) /\ Missing(ids, TRUE)
         \/ "scaled" \in Heads(paths) /\ Missing(ids, FALSE)
         \/ whole = Refused
        THEN Refused
        ELSE [store |-> whole.store,
              rows |-> [i \in ids |-> [f \in (DOMAIN whole.rows[i] \ Heads(paths)) \cup asked |->
                                        whole.rows[i][f]]]]
AddRelated(result, ids, paths, todo) ==
  IF todo = {} \/ result = Refused THEN result
  ELSE LET f == CHOOSE f \in todo : TRUE
           Of(i) == Linked(result.rows[i], f)
           targets == Read(result.store, UNION {Of(i) : i \in ids}, Related(paths, f))
           added == [store |-> targets.store,
                     rows |-> [i \in ids |-> Update(result.rows[i],
                                 [g \in {f \o "."} |-> [j \in Of(i) |-> targets.rows[j]]])]]
       IN  AddRelated(IF targets = Refused THEN Refused ELSE added, ids, paths, todo \ {f})

(* ----------------------------- what there is to read ------------------------- *)
\* Of the table alone, for the ghost.
Value(i, field) ==
  CASE field \in {"x", "to"} -> table[i][field]
    [] field = "ref" -> Max({NoRecord} \cup (DOMAIN table \cap {table[i].ref}))
    [] field = "lines" -> {j \in DOMAIN table \ hidden : table[j].to = i}
    [] field = "many" -> UNION {table[j].many : j \in DOMAIN table \cap {i}}
    [] field = "total" -> MapThenSumSet(LAMBDA j : table[j].x, LinesOf(i))
    [] field = "count" -> Cardinality({j \in DOMAIN table : table[j].to = i})
    [] field = "scaled" -> table[i].x * context
Others(i, field) == Linked([f \in {field} |-> Value(i, field)], field)
RECURSIVE Says(_, _)
Says(i, paths) ==
  Update([f \in {p[1] : p \in {p \in paths : Len(p) = 1}} |-> Value(i, f)],
         [g \in {f \o "." : f \in {p[1] : p \in {p \in paths : Len(p) > 1}}} |->
            LET f == CHOOSE f \in Heads(paths) : f \o "." = g
            IN  [j \in Others(i, f) |-> Says(j, Related(paths, f))]])
RECURSIVE May(_, _)
May(i, paths) ==
  /\ Heads(paths) \cap Columns # {} => i \in DOMAIN table /\ i \notin hidden
  /\ "scaled" \in Heads(paths) => i \in DOMAIN table
  /\ \A f \in Heads(paths) : Related(paths, f) # {} =>
       \A j \in Others(i, f) : May(j, Related(paths, f))

(* --------------------------------- actions ---------------------------------- *)
Op == ops < MaxOps /\ ops' = ops + 1
Ask(ids, paths) ==
  LET result == Read(cache, ids, paths)
  IN  /\ Op /\ UNCHANGED <<table, hidden, readonly, context>>
      /\ cache' = IF result = Refused THEN cache ELSE result.store
      /\ exact' = IF \A i \in ids : May(i, paths)
                  THEN result # Refused /\ result.rows = [i \in ids |-> Says(i, paths)]
                  ELSE result = Refused
Forget(ids) == cache' = [i \in Id |-> IF i \in ids THEN Nothing ELSE cache[i]]
Write(i, field) ==
  /\ Op /\ ~readonly /\ Forget({i})
  /\ \E v \in IF field = "x" THEN {table[i].x + 1} ELSE (DOMAIN table \cup {NoRecord}) \ {table[i][field]} :
       table' = [table EXCEPT ![i][field] = v]
  /\ UNCHANGED <<hidden, readonly, context, exact>>
\* The many2ones to it are emptied, the rows of the many2many go with it.
Delete(i) ==
  /\ Op /\ ~readonly /\ Forget({i} \cup {j \in DOMAIN table : table[j].to = i})
  /\ table' = [j \in DOMAIN table \ {i} |->
                 [table[j] EXCEPT !.to = IF @ = i THEN NoRecord ELSE @, !.many = @ \ {i}]]
  /\ UNCHANGED <<hidden, readonly, context, exact>>
\* set_context in the same transaction.
SetContext == /\ context = 1 /\ context' = 2 /\ UNCHANGED <<table, hidden, readonly, cache, ops, exact>>
\* The next transaction, after others that have changed the rules.
Begin ==
  /\ Op /\ cache' = Uncached /\ context' = 1 /\ readonly' \in BOOLEAN /\ hidden' \in SUBSET Hidden
  /\ UNCHANGED <<table, exact>>
Next ==
  \/ \E q \in Queries : Ask(q[1], q[2])
  \/ \E i \in DOMAIN table : Delete(i) \/ \E field \in Columns : Write(i, field)
  \/ SetContext \/ Begin
Spec == Init /\ [][Next]_readVars

(* -------------------------------- properties -------------------------------- *)
TypeOK ==
  /\ \A i \in DOMAIN table : table[i].to \in DOMAIN table \cup {NoRecord} /\ table[i].many \subseteq DOMAIN table
  /\ hidden \subseteq Hidden /\ readonly \in BOOLEAN /\ context \in 1..2 /\ ops \in 0..MaxOps
\* Whatever was read, written and deleted before in the transaction, a read gives for
\* each record the values of the table and those that functions have for it in the
\* present context, to any depth; it is refused when a column is asked of a record,
\* asked or linked, that the user may not see, and only then; and no value in the cache
\* is another than that of its record (read, Function.get, Reference.get).
ReadAgrees ==
  /\ exact
  /\ \A i \in Id : \A f \in DOMAIN cache[i] :
       (i \in DOMAIN table \/ f \in Grouped) /\ cache[i][f] = Value(i, f)
===============================================================================
