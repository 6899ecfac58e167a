------------------------------- MODULE Deletion -------------------------------
(* ModelSQL.delete (model/modelsql.py) on records of models that refer to one  *)
(* another by Many2One fields: the references are emptied, the records that    *)
(* hold them deleted, or the deletion refused, as ondelete says.               *)
EXTENDS Sequences, FiniteSets, SequencesExt, FiniteSetsExt, Functions
CONSTANTS
  Row,         \* records of all the models
  ModelOf,     \* record -> its model
  Fields,      \* the Many2One fields in the order of the pool: <<[on, to], ...>>
  None         \* an empty reference
VARIABLES
  ondelete,    \* field -> "CASCADE", "SET NULL" or "RESTRICT"
  ref,         \* field -> record -> the record it refers to
  rows,        \* records in their tables
  marks,       \* record -> marks of its deletion in the history
  result       \* how the call ended: "", "ok" or "ForeignKeyError"
vars == <<ondelete, ref, rows, marks, result>>

FieldId == 1..Len(Fields)
Of(model) == {r \in Row : ModelOf[r] = model}
Init ==
  /\ ondelete \in [FieldId -> {"CASCADE", "SET NULL", "RESTRICT"}]
  /\ ref = [f \in FieldId |-> [r \in Row |-> None]]
  /\ rows = Row /\ marks = [r \in Row |-> 0] /\ result = ""

\* get_related_records: the rows that refer to one of ids by the field.
Related(s, f, ids) == {r \in s.rows : s.ref[f][r] \in ids}
To(model, kind) == SelectSeq([f \in FieldId |-> f],
  LAMBDA f : Fields[f].to = model /\ ondelete[f] = kind)
Emptied(s, f, ids) ==
  [s EXCEPT !.ref[f] = [r \in Row |-> IF r \in Related(s, f, ids) THEN None ELSE @[r]]]
\* What the foreign keys of the tables do when rows are deleted.
RECURSIVE SqlDelete(_, _)
SqlDelete(s, ids) ==
  LET gone == {r \in s.rows \ ids : \E f \in FieldId :
                 ondelete[f] = "CASCADE" /\ s.ref[f][r] \in ids}
      t == [s EXCEPT !.rows = @ \ ids, !.failed = \E f \in FieldId :
              ondelete[f] = "RESTRICT" /\ Related([s EXCEPT !.rows = @ \ ids], f, ids) # {}]
      empty == FoldLeft(LAMBDA u, f : IF ondelete[f] = "SET NULL" THEN Emptied(u, f, ids) ELSE u,
                        t, [f \in FieldId |-> f])
  IN IF gone = {} \/ t.failed THEN empty ELSE SqlDelete(empty, gone)

\* One call: s holds the tables and the transaction's delete_records.
RECURSIVE Delete(_, _, _)
Delete(s0, model, records) ==
  LET ids == records \ s0.deleted
      s1 == [s0 EXCEPT !.deleted = @ \cup ids]
      s2 == FoldLeft(LAMBDA s, f : Emptied(s, f, ids), s1, To(model, "SET NULL"))
      Cascade(s, f) == IF s.failed \/ Related(s, f, ids) = {} THEN s
                       ELSE Delete(s, Fields[f].on, Related(s, f, ids))
      s3 == FoldLeft(Cascade, s2, To(model, "CASCADE"))
      refused == \E f \in ToSet(To(model, "RESTRICT")) : Related(s3, f, ids) # {}
      s4 == SqlDelete(s3, ids)
  IN IF s3.failed \/ refused \/ s4.failed THEN [s3 EXCEPT !.failed = TRUE]
     ELSE [s4 EXCEPT !.marks = [r \in Row |-> IF r \in ids THEN @[r] + 1 ELSE @[r]]]

RequestInPart(model, ids) ==
  LET end == Delete([rows |-> rows, ref |-> ref, deleted |-> {}, marks |-> marks,
                     failed |-> FALSE], model, ids)
  IN /\ result = "" /\ ids # {}
     /\ result' = IF end.failed THEN "ForeignKeyError" ELSE "ok"
     /\ rows' = end.rows /\ ref' = end.ref /\ marks' = end.marks
     /\ UNCHANGED ondelete
\* The request: an error undoes the whole transaction.
Request(model, ids) ==
  LET end == Delete([rows |-> rows, ref |-> ref, deleted |-> {}, marks |-> marks,
                     failed |-> FALSE], model, ids)
  IN /\ result = "" /\ ids # {}
     /\ result' = IF end.failed THEN "ForeignKeyError" ELSE "ok"
     /\ rows' = IF end.failed THEN rows ELSE end.rows
     /\ ref' = IF end.failed THEN ref ELSE end.ref
     /\ marks' = IF end.failed THEN marks ELSE end.marks
     /\ UNCHANGED ondelete
\* An earlier request has made r refer to a record.
Refer(f, r, to) ==
  /\ result = "" /\ ref[f][r] = None
  /\ ref' = [ref EXCEPT ![f][r] = to]
  /\ UNCHANGED <<ondelete, rows, marks, result>>
Next ==
  \/ \E f \in FieldId : \E r \in Of(Fields[f].on), to \in Of(Fields[f].to) : Refer(f, r, to)
  \/ \E model \in {ModelOf[r] : r \in Row} : \E ids \in SUBSET Of(model) : Request(model, ids)
Spec == Init /\ [][Next]_vars

(* -------------------------------- properties ------------------------------- *)
\* The records that refer to a deleted one with CASCADE, and so on.
RECURSIVE Cascaded(_)
Cascaded(S) == LET more == S \cup {r \in Row : \E f \in FieldId :
                                     ondelete[f] = "CASCADE" /\ ref[f][r] \in S}
               IN IF more = S THEN S ELSE Cascaded(more)
Restricted(S, from) == \E f \in FieldId, r \in from :
  ondelete[f] = "RESTRICT" /\ ref[f][r] \in S
\* Some of the records of S refer to one another around a cycle.
Cyclic(S) == \E r \in S : \E f \in FieldId :
  ondelete[f] = "CASCADE" /\ ref[f][r] \in Cascaded({r})
\* A deletion ends, around any cycle of references.  It removes the records
\* given and those that cascade from them, and marks each of them once in the
\* history (around a cycle of CASCADE the foreign keys of the tables may delete a
\* record before its turn has come: then it has no mark); it leaves
\* no reference to any of them and empties no other; it is refused when a record
\* that stays is protected by RESTRICT, and only when RESTRICT protects one.
DeletesExactly ==
  [][\E model \in {ModelOf[r] : r \in Row} : \E ids \in SUBSET Of(model) :
       LET C == Cascaded(ids) IN
       result' # result =>
       /\ ids # {}
       /\ \/ /\ result' = "ok"
             /\ ~Restricted(C, Row \ C)
             /\ rows' = Row \ C
             /\ \A r \in Row : marks'[r] \in IF r \notin C THEN {0}
                                           ELSE IF Cyclic(C) THEN {0, 1} ELSE {1}
             /\ \A f \in FieldId, r \in rows' :
                  ref'[f][r] = IF ref[f][r] \in C THEN None ELSE ref[f][r]
          \/ /\ result' = "ForeignKeyError"
             /\ Restricted(C, Row)
             /\ UNCHANGED <<rows, ref, marks>>]_vars
==============================================================================
