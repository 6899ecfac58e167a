------------------------------ MODULE Validation ------------------------------
(* The validation of a relation field whose domain depends on the record, as    *)
(* [('kind', '=', Eval('kind'))], and that is required (model/modelstorage.py,  *)
(* _validate).  The domains are checked one by one or, when nearly every record *)
(* has its own, all in one search.                                              *)
EXTENDS Naturals, FiniteSets
CONSTANTS
  MaxRec,       \* bound: records
  Target,       \* records they may link
  Kind,         \* values of the field that the domain tests
  InMax         \* IN_MAX: ids that a clause of the search may have
ASSUME ValidationAssumption == MaxRec \in Nat
VARIABLES
  linkRow,      \* record -> [kind, links], or Absent
  kindOf,       \* target -> its kind
  answer        \* ghost: the call: the records, their rows as it made them, ok
validationVars == <<linkRow, kindOf, answer>>

Rec == 1..MaxRec
Absent == [links |-> {}]
NoAnswer == [ids |-> {}]
Rows == [kind : Kind, links : SUBSET Target]
ValidationInit ==
  /\ linkRow = [r \in Rec |-> Absent]
  /\ kindOf \in [Target -> Kind]
  /\ answer = NoAnswer

Called == answer.ids # {}
Linked(rows, S) == UNION {rows[r].links : r \in S}          \* relation_domain
Domains(rows, S) == {rows[r].kind : r \in S}
WithDomain(rows, S, d) == {r \in S : rows[r].kind = d}
\* One search for all the domains, if there are more of them than half the records
\* and none has too many ids.
Grouped(rows, S) ==
  /\ 2 * Cardinality(Domains(rows, S)) > Cardinality(S)
  /\ \A d \in Domains(rows, S) : Cardinality(Linked(rows, WithDomain(rows, S, d))) <= InMax
FindsAnyId(rows, S) == {t \in Target : kindOf[t] \in Domains(rows, S)}
\* The grouped domain: ['OR', [('id', 'in', the links of a domain), that domain], ...]
Finds(rows, S) ==
  {t \in Target : \E d \in Domains(rows, S) : t \in Linked(rows, WithDomain(rows, S, d)) /\ kindOf[t] = d}
\* validate_domain and validate_relation_domain
ValidDomain(rows, S) ==
  IF Grouped(rows, S) THEN Linked(rows, S) \subseteq Finds(rows, S)
  ELSE \A d \in Domains(rows, S) : \A t \in Linked(rows, WithDomain(rows, S, d)) : kindOf[t] = d
\* required_test
ValidRequired(rows, S) == \A r \in S : rows[r].links # {}
Validate(rows, S) ==
  LET ok == ValidDomain(rows, S) /\ ValidRequired(rows, S)
  IN /\ ~Called
     /\ linkRow' = IF ok THEN rows ELSE linkRow
     /\ answer' = [ids |-> S, rows |-> rows, ok |-> ok]

\* ModelStorage.create of several records, and write of the same values to several:
\* a write of the kind validates the links too (validation_depends).
CreateRows(first, new) ==
  /\ \A r \in Rec : linkRow[r] = Absent <=> r >= first
  /\ Validate([r \in Rec |-> IF r \in DOMAIN new THEN new[r] ELSE linkRow[r]], DOMAIN new)
  /\ UNCHANGED kindOf
WriteRows(S, values) ==
  /\ \A r \in S : linkRow[r] # Absent
  /\ Validate([r \in Rec |-> IF r \in S
                             THEN [kind |-> IF "kind" \in DOMAIN values THEN values.kind
                                            ELSE linkRow[r].kind,
                                   links |-> IF "links" \in DOMAIN values THEN values.links
                                             ELSE linkRow[r].links]
                             ELSE linkRow[r]], S)
  /\ UNCHANGED kindOf
\* A write of the target does not validate the records that link it.
WriteTarget(t, kind) ==
  /\ ~Called /\ kindOf[t] # kind
  /\ kindOf' = [kindOf EXCEPT ![t] = kind]
  /\ UNCHANGED <<linkRow, answer>>
\* The call returns or raises; the next may come.
Return == Called /\ answer' = NoAnswer /\ UNCHANGED <<linkRow, kindOf>>
ValidationNext ==
  \/ \E i, j \in Rec : \E new \in [i..j -> Rows] : i <= j /\ CreateRows(i, new)
  \/ \E S \in SUBSET Rec \ {{}} :
       \E values \in [kind : Kind] \cup [links : SUBSET Target] : WriteRows(S, values)
  \/ \E t \in Target, kind \in Kind : WriteTarget(t, kind)
  \/ Return
ValidationSpec == ValidationInit /\ [][ValidationNext]_validationVars

(* -------------------------------- properties ------------------------------- *)
Fits(rows, r) == rows[r].links # {} /\ \A t \in rows[r].links : kindOf[t] = rows[r].kind
\* The records r of the call whose links are links of no other domain of the call.
Apart(rows, S) ==
  {r \in S : \A o \in S : rows[o].kind # rows[r].kind => rows[o].links \cap rows[r].links = {}}
\* A call is refused only for a record that does not fit its domain; and where no
\* target is shared by records with other domains, it is accepted only if all fit,
\* whichever strategy the number of records and domains selects.
ValidatedExactly ==
  Called =>
    IF answer.ok THEN \A r \in Apart(answer.rows, answer.ids) : Fits(answer.rows, r)
                 ELSE \E r \in answer.ids : ~Fits(answer.rows, r)
\* Field.domain: "A domain constraint that is applied on the field value".
DomainApplied ==
  Called /\ answer.ok => \A r \in answer.ids : Fits(answer.rows, r)
===============================================================================
