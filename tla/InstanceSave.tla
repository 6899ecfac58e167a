----------------------------- MODULE InstanceSave -----------------------------
(* The save of instances (model/modelstorage.py): parents whose lines were      *)
(* listed, taken out, edited and added in memory become one create and one      *)
(* write, with the actions that the set of a one2many or of a many2many         *)
(* carries out (fields/one2many.py, fields/many2many.py).                       *)
EXTENDS Naturals, Sequences, FiniteSets, SequencesExt, FiniteSetsExt, TLC
CONSTANTS
  Parent, Line,    \* ids, of records and of those that may be created
  Initial, Val,    \* the value of the lines there are, and those that may be set
  MaxOps           \* bound: changes in memory
VARIABLES
  many,            \* the field is a many2many, not a one2many
  alive,           \* parents in the database
  db,              \* [linked: line -> its parents, val: line -> its value, or Gone;
                   \*  last: the last id given to a line]
  pending,         \* parent -> _values of its instance, or Nothing
  ops,
  event            \* ghost: the last save: what was saved, and how it ended
saveVars == <<many, alive, db, pending, ops, event>>

Gone == "gone"
Keep == "keep"
Unedited == [l \in Line |-> Keep]
\* _values of the field: the lines listed, the values set on them, new lines;
\* and _removed or _deleted: the lines given to remove (one2many) or delete.
Nothing == [on |-> FALSE, listed |-> {}, edits |-> Unedited, news |-> <<>>, taken |-> {}]
Exists(l) == db.val[l] # Gone
Previous(p) == {l \in Line : p \in db.linked[l]}
Init ==
  /\ many \in BOOLEAN /\ alive \in {{1}, {1, 2}}
  /\ \E last \in 0..(Max(Line) - 1), owner \in [Line -> alive \cup {0}] :
       db = [linked |-> [l \in Line |-> IF l > last THEN {} ELSE {owner[l]} \ {0}],
             val |-> [l \in Line |-> IF l > last THEN Gone ELSE Initial],
             last |-> last]
  /\ pending = [p \in Parent |-> Nothing] /\ ops = 0 /\ event = <<"none">>

(* --------------------------------- in memory -------------------------------- *)
Values(p) == IF pending[p].on THEN pending[p]
             ELSE [pending[p] EXCEPT !.on = TRUE, !.listed = Previous(p)]
Sets(p, values) ==
  /\ ops < MaxOps /\ ops' = ops + 1 /\ pending' = [pending EXCEPT ![p] = values]
  /\ event' = <<"none">> /\ UNCHANGED <<many, alive, db>>
\* The field is assigned a list with another line, or without one of its lines.
List(p, l) == Exists(l) /\ l \notin Values(p).listed
              /\ Sets(p, [Values(p) EXCEPT !.listed = @ \cup {l}])
Drop(p, l) == l \in Values(p).listed
              /\ Sets(p, [Values(p) EXCEPT !.listed = @ \ {l}, !.edits[l] = Keep])
\* One2Many.remove, Many2Many.delete
Take(p, l) == l \in Values(p).listed
              /\ Sets(p, [Values(p) EXCEPT !.listed = @ \ {l}, !.edits[l] = Keep, !.taken = @ \cup {l}])
Edit(p, l, v) == l \in Values(p).listed /\ Sets(p, [Values(p) EXCEPT !.edits[l] = v])
Add(p, v) == Values(p).news = <<>> /\ Sets(p, [Values(p) EXCEPT !.news = <<v>>])

(* ------------------------------- _save_values ------------------------------- *)
Dropped(p) == Previous(p) \ pending[p].listed
\* What a one2many drops is deleted, but for what was removed; what a many2many
\* drops is removed, but for what was deleted.
DeletedOf(p) == IF many THEN Dropped(p) \cap pending[p].taken ELSE Dropped(p) \ pending[p].taken
Actions(p) == [delete |-> DeletedOf(p), remove |-> Dropped(p) \ DeletedOf(p),
               add |-> pending[p].listed \ Previous(p),
               write |-> pending[p].edits, create |-> pending[p].news]

(* ------------------------------------ set ------------------------------------ *)
\* remove finds the lines that the record still has.
RemovedAsked(d, p, actions) == actions.remove
RemovedOf(d, p, actions) == {l \in actions.remove : p \in d.linked[l]}
AddedOf(d, p, actions) == {l \in actions.add : IF many THEN p \notin d.linked[l]
                                                       ELSE d.linked[l] # {p}}
EditedOf(actions) == {l \in Line : actions.write[l] # Keep}
LinkedBy(d, linked, p, actions) ==
  [l \in Line |->
     CASE l \in AddedOf(d, p, actions) -> IF many THEN linked[l] \cup {p} ELSE {p}
       [] l \in RemovedOf(d, p, actions) -> IF many THEN linked[l] \ {p} ELSE {}
       [] OTHER -> linked[l]]
WrittenBy(val, actions) ==
  [l \in Line |-> IF l \in EditedOf(actions) THEN actions.write[l] ELSE val[l]]
\* One call of set for the parents ps, in their order: it looks for what each action
\* is about, and then deletes, writes and creates.  Lines that are written (a
\* one2many writes its reverse field) or linked have to exist after the deletions.
Set(d, ps, actions) ==
  LET P == ToSet(ps)
      deleted == UNION {actions[p].delete : p \in P}
      needed == UNION {AddedOf(d, p, actions[p]) \cup EditedOf(actions[p]) : p \in P}
      linked == FoldLeft(LAMBDA f, p : LinkedBy(d, f, p, actions[p]),
                         [l \in Line |-> IF l \in deleted THEN {} ELSE d.linked[l]], ps)
      val == FoldLeft(LAMBDA f, p : WrittenBy(f, actions[p]),
                      [l \in Line |-> IF l \in deleted THEN Gone ELSE d.val[l]], ps)
      owners == SelectSeq(ps, LAMBDA p : actions[p].create # <<>>)
      new == (d.last + 1)..(d.last + Len(owners))
  IN [ok |-> d.ok /\ \A l \in needed : d.val[l] # Gone /\ l \notin deleted,
      last |-> d.last + Len(owners),
      linked |-> [l \in Line |-> IF l \in new THEN {owners[l - d.last]} ELSE linked[l]],
      val |-> [l \in Line |-> IF l \in new THEN actions[owners[l - d.last]].create[1] ELSE val[l]]]

(* ----------------------------------- save ------------------------------------ *)
\* The values of all the instances are taken first; then the new ones are created
\* and the others written.
Outcome(ps) ==
  LET actions == [p \in ToSet(ps) |-> Actions(p)]
  IN Set(Set([ok |-> TRUE] @@ db, SelectSeq(ps, LAMBDA p : p \notin alive), actions),
         SelectSeq(ps, LAMBDA p : p \in alive), actions)
Save(ps) ==
  LET o == Outcome(ps) IN
  /\ \A p \in ToSet(ps) : pending[p].on
  /\ IF o.ok
     THEN /\ o.last \in Line \cup {0}
          /\ db' = [linked |-> o.linked, val |-> o.val, last |-> o.last]
          /\ pending' = [p \in Parent |-> IF p \in ToSet(ps) THEN Nothing ELSE pending[p]]
          /\ alive' = alive \cup ToSet(ps) /\ event' = <<"saved", ps>>
     ELSE \* the transaction is rolled back, the instances have their values again
          event' = <<"refused", ps>> /\ UNCHANGED <<alive, db, pending>>
  /\ UNCHANGED <<many, ops>>
\* The save of a record that _save_values finds in the k-th instance raises: the
\* instances before it have given up their values and do not get them back.
NestedSaveFails(ps, k) ==
  /\ \A p \in ToSet(ps) : pending[p].on
  /\ pending' = [p \in Parent |-> IF p \in ToSet(SubSeq(ps, 1, k - 1))
                                  THEN [Nothing EXCEPT !.taken = pending[p].taken] ELSE pending[p]]
  /\ event' = <<"raised", ps>> /\ UNCHANGED <<many, alive, db, ops>>
\* copy of a parent: copies of its lines, or links to them
Copy(p, q) ==
  LET lines == SetToSortSeq(Previous(p), <)
      new == (db.last + 1)..(db.last + Len(lines))
  IN /\ p \in alive /\ q \notin alive /\ pending[q] = Nothing /\ alive' = alive \cup {q}
     /\ IF many
        THEN db' = [db EXCEPT !.linked = [l \in Line |-> IF p \in @[l] THEN @[l] \cup {q} ELSE @[l]]]
        ELSE /\ new \subseteq Line
             /\ db' = [linked |-> [l \in Line |-> IF l \in new THEN {q} ELSE db.linked[l]],
                       val |-> [l \in Line |-> IF l \in new THEN db.val[lines[l - db.last]]
                                                ELSE db.val[l]],
                       last |-> db.last + Len(lines)]
     /\ event' = <<"none">> /\ UNCHANGED <<many, pending, ops>>

Some == {ps \in [{1} -> Parent] \cup [1..2 -> Parent] : \A i, j \in DOMAIN ps : ps[i] = ps[j] => i = j}
Next ==
  \/ \E p \in Parent, l \in Line : List(p, l) \/ Drop(p, l) \/ Take(p, l)
  \/ \E p \in Parent, v \in Val : Add(p, v) \/ \E l \in Line : Edit(p, l, v)
  \/ \E ps \in Some : Save(ps) \/ \E k \in 2..Len(ps) : NestedSaveFails(ps, k)
  \/ \E p \in Parent, q \in Parent : Copy(p, q)
Spec == Init /\ [][Next]_saveVars

(* -------------------------------- properties ------------------------------- *)
\* What two instances of one save ask of a line does not go together: one deletes
\* it and the other lists it; they set two values; or, in a one2many, both list it
\* or the one that removes it is written after the one that lists it.
Disputed(ps) == \E i, j \in DOMAIN ps : i # j /\ LET p == ps[i]  q == ps[j] IN
  \/ \E l \in DeletedOf(p) : l \in pending[q].listed
  \/ many /\ \E l \in Line : Keep \notin {pending[p].edits[l], pending[q].edits[l]}
                              /\ pending[p].edits[l] # pending[q].edits[l]
  \/ ~many /\ \/ pending[p].listed \cap pending[q].listed # {}
              \/ q \in alive /\ i > j /\ Dropped(p) \cap pending[q].listed # {}
\* After a save the database has, for each parent saved, the lines that its instance
\* listed, with the values set on them and one line for each new one; what was dropped
\* is gone or merely unlinked, as it was asked; and no other line has changed.  A save
\* is refused only for a line that another save has deleted, and then the instances
\* still have all that was pending.
SavedIsShown ==
  [][event'[1] \in {"saved", "refused"} =>
       LET ps == event'[2]  P == ToSet(ps)
           deleted == UNION {DeletedOf(p) : p \in P}
           listed == UNION {pending[p].listed : p \in P}
           Old == {l \in Line : Exists(l)}
       IN ~Disputed(ps) =>
       IF event'[1] = "refused" THEN ~ (listed \subseteq Old) /\ pending' = pending
       ELSE /\ \A p \in P : LET shown == {l \in Line : p \in db'.linked[l]} IN
                 /\ shown \cap Old = pending[p].listed
                 /\ Cardinality(shown \ Old) = Len(pending[p].news)
                 /\ \A l \in shown \ Old : db'.val[l] = pending[p].news[1]
                 /\ \A l \in pending[p].listed : pending[p].edits[l] \in {Keep, db'.val[l]}
            /\ \A l \in Old :
                 /\ db'.val[l] = Gone <=> l \in deleted
                 /\ (\A p \in P : pending[p].edits[l] = Keep) => db'.val[l] \in {db.val[l], Gone}
                 /\ \A p \in Parent \ P : p \in db'.linked[l] => p \in db.linked[l]
                 /\ l \notin listed \cup deleted => db'.linked[l] = db.linked[l] \ P]_saveVars
\* A save that raises leaves to every instance what was pending.  The code does not
\* keep this when a nested save raises, and no run claims it.
PendingKept == [][event'[1] \in {"refused", "raised"} => pending' = pending]_saveVars
==============================================================================
