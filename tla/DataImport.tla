------------------------------ MODULE DataImport ------------------------------
(* A record of the XML data of a module: what the imports of convert.py, the   *)
(* users and the button sync make of it and of its ir.model.data (ir/model.py, *)
(* model/modelstorage.py).  The XML is another one at each update.             *)
EXTENDS FiniteSets, Functions
CONSTANTS
  Field,
  XmlVal, UserVal,  \* values the XML gives; values only users give
  NoXmlValue        \* the empty value, and the default of the fields
ASSUME ImportAssumption ==
  Field # {} /\ UserVal \cap (XmlVal \cup {NoXmlValue}) = {}
VARIABLES
  free,         \* the model lets users change its records (check_xml_record)
  record,       \* the record: field -> value, or Gone
  data,         \* its ir.model.data, if it is known: [known, id, values, fs_values,
                \* noupdate]
  byUser,       \* ghost: fields whose value a user has changed
  event         \* ghost: what came last, and the values of an update
importVars == <<free, record, data, byUser, event>>

Gone == [f \in {} |-> NoXmlValue]
NoData == [known |-> FALSE]
Values == UNION {[F -> XmlVal] : F \in SUBSET Field}
XmlRow(values) == [f \in Field |-> IF f \in DOMAIN values THEN values[f] ELSE NoXmlValue]
Merged(old, new) == [f \in DOMAIN old \cup DOMAIN new |->
                       IF f \in DOMAIN new THEN new[f] ELSE old[f]]
ImportInit == record = Gone /\ data = NoData /\ byUser = {} /\ event = <<"none">>
        /\ free \in BOOLEAN

\* create_records: for a new id of the XML.
CreateRecord(values, noupdate) ==
  /\ ~data.known
  /\ record' = XmlRow(values) /\ byUser' = {}
  /\ data' = [known |-> TRUE, id |-> TRUE, values |-> values, fs_values |-> values,
              noupdate |-> noupdate]
ToUpdateAlways(row, values) ==
  [f \in {g \in DOMAIN values : row[g] # values[g]} |-> values[f]]
\* The fields that an update writes: those that differ from the XML and have the
\* value that the last update is believed to have left.
Expected(old, f) == IF f \in DOMAIN old THEN old[f] ELSE NoXmlValue
ToUpdate(row, values) ==
  [f \in {g \in DOMAIN values : row[g] # values[g] /\ row[g] = Expected(data.values, g)}
     |-> values[f]]
\* import_record and write_records for an id that is known (what is marked
\* noupdate is only written when its module is activated again).
ImportRecord(values, noupdate) ==
  LET row == IF record = Gone THEN XmlRow(values) ELSE record
      updated == ToUpdate(row, values)
      kept == Merged(data.values, updated)
      wanted == Merged(data.values, values)
  IN /\ data.known /\ data.id
     /\ record' = Merged(row, updated)
     /\ byUser' = IF record = Gone THEN {} ELSE byUser \ DOMAIN updated
     /\ data' = IF kept = wanted THEN data
                ELSE [data EXCEPT !.values = kept, !.fs_values = wanted, !.noupdate = noupdate]
\* post_import: the id is no longer in the XML; a record that cannot be deleted
\* keeps its data (it is made inactive).
RemoveRecord ==
  /\ data.known
  /\ record' = Gone /\ data' = NoData /\ byUser' = {} /\ event' = <<"removed">>

(* ----------------------------------- users ---------------------------------- *)
\* check_xml_record
Guarded == ~free /\ data.known /\ ~data.noupdate
WriteRefused(f, v) == Guarded /\ f \in DOMAIN data.values /\ v # data.values[f]
UserWrite(f, v) ==
  /\ record # Gone /\ ~WriteRefused(f, v) /\ record[f] # v
  /\ record' = [record EXCEPT ![f] = v] /\ byUser' = byUser \cup {f}
  /\ event' = <<"user">> /\ UNCHANGED data
\* ModelStorage.delete: the data of a noupdate record forgets it.
UserDelete ==
  /\ record # Gone /\ ~Guarded
  /\ record' = Gone /\ byUser' = {} /\ event' = <<"user">>
  /\ data' = IF data.known /\ data.noupdate THEN [data EXCEPT !.id = FALSE] ELSE data
\* ModelData.sync
Sync ==
  /\ data.known /\ data.id /\ record # Gone /\ data.values # data.fs_values
  /\ record' = Merged(record, data.fs_values)
  /\ data' = [data EXCEPT !.values = data.fs_values]
  /\ byUser' = byUser \ DOMAIN data.fs_values /\ event' = <<"sync">>

Update(values, noupdate) ==
  /\ event' = <<"update", values>>
  /\ CreateRecord(values, noupdate) \/ ImportRecord(values, noupdate)
ImportNext == UNCHANGED free /\
  \/ \E values \in Values, noupdate \in BOOLEAN : Update(values, noupdate)
  \/ RemoveRecord \/ UserDelete \/ Sync
  \/ \E f \in Field, v \in XmlVal \cup UserVal \cup {NoXmlValue} : UserWrite(f, v)
ImportSpec == ImportInit /\ [][ImportNext]_importVars

(* -------------------------------- properties ------------------------------- *)
\* No update takes back a value that only a user can have given, whatever updates
\* and changes came before; and a record that a user may delete comes back at an
\* update only where the model data does not say that it was deleted.
UserValuesKept ==
  [][event'[1] = "update" =>
       /\ record # Gone => \A f \in Field : record[f] \in UserVal => record'[f] = record[f]
       /\ record = Gone /\ data.known => free]_importVars
\* An update gives a field that no user has changed the value of the XML.
UpdateApplied ==
  [][event'[1] = "update" => \A f \in DOMAIN event'[2] :
       f \notin byUser => record'[f] = event'[2][f]]_importVars
==============================================================================
