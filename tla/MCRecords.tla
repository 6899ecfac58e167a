------------------------------ MODULE MCRecords ------------------------------
(* The storage of records on small instances.  The components do not meet     *)
(* here: each has its area of the state space, chosen in the initial state.   *)
(* The modules that are proved about are here as they are; the others are     *)
(* instances.                                                                 *)
EXTENDS Records, InstanceCache, Sequence, DataImport, Validation, TLC
CONSTANT OneKind
VARIABLES
  area,
  tree, ended, last, writes,
  ondelete, ref, rows, marks, result,
  column, rowOf, shown, changed, unmarked,
  many, alive, lineDb, instances, saveOps, asked
treeVars == <<tree, ended, last, writes>>
delVars == <<ondelete, ref, rows, marks, result>>
transVars == <<column, rowOf, shown, changed, unmarked>>
instanceVars == <<many, alive, lineDb, instances, saveOps, asked>>

Tree == INSTANCE TreeModel WITH
  Node <- 1..4, NoNode <- 0, Batch <- 2, MaxWrites <- 3, OnDelete <- "SET NULL"
Del == INSTANCE Deletion WITH
  Row <- {"a1", "a2", "b1"}, ModelOf <- ("a1" :> "A") @@ ("a2" :> "A") @@ ("b1" :> "B"),
  Fields <- << [on |-> "A", to |-> "A"], [on |-> "B", to |-> "A"], [on |-> "A", to |-> "B"] >>,
  None <- "none"
Trans == INSTANCE Translation WITH
  Lang <- {"en", "fr", "fr_CA"}, Main <- "en", NoLang <- "no language",
  Up <- ("en" :> "no language") @@ ("fr" :> "no language") @@ ("fr_CA" :> "fr"),
  Text <- {"a", "b"}, Blank <- "", MaxEdits <- 4
Save == INSTANCE InstanceSave WITH
  db <- lineDb, pending <- instances, ops <- saveOps, event <- asked,
  Parent <- {1, 2}, Line <- 1..3, Initial <- "a", Val <- {"b"}, MaxOps <- 3

\* The components that are not in the area stay in one of their initial states.
Init ==
  /\ area \in {"tree", "records", "deletion", "cache", "sequence", "import",
               "translation", "validation", "save"}
  /\ Tree!Init /\ RecordsInit /\ (area = "records" \/ clock = 1) /\ CacheInit
  /\ Del!Init /\ (area = "deletion" \/ ondelete = [f \in Del!FieldId |-> "CASCADE"])
  /\ SequenceInit /\ (area = "sequence" \/ type = "sql")
  /\ ImportInit /\ (area = "import" \/ free)
  /\ Trans!Init
  /\ ValidationInit /\ (area = "validation" \/ \A t \in DOMAIN kindOf : kindOf[t] = OneKind)
  /\ Save!Init /\ (area = "save" \/ (many /\ alive = {1} /\ lineDb.last = 0))
Still(a) ==
  /\ area = a /\ UNCHANGED area
  /\ a # "tree" => UNCHANGED treeVars
  /\ a # "records" => UNCHANGED recordsVars
  /\ a # "deletion" => UNCHANGED delVars
  /\ a # "cache" => UNCHANGED ivars
  /\ a # "sequence" => UNCHANGED svars
  /\ a # "import" => UNCHANGED importVars
  /\ a # "translation" => UNCHANGED transVars
  /\ a # "validation" => UNCHANGED validationVars
  /\ a # "save" => UNCHANGED instanceVars
Next ==
  \/ Still("tree") /\ Tree!Next
  \/ Still("records") /\ RecordsNext
  \/ Still("deletion") /\ Del!Next
  \/ Still("cache") /\ CacheNext
  \/ Still("sequence") /\ SequenceNext
  \/ Still("import") /\ ImportNext
  \/ Still("translation") /\ Trans!Next
  \/ Still("validation") /\ ValidationNext
  \/ Still("save") /\ Save!Next
vars == <<area, treeVars, recordsVars, delVars, ivars, svars, importVars, transVars,
          validationVars, instanceVars>>
Spec == Init /\ [][Next]_vars

(* The properties of the components, with those of the modules above; in another *)
(* area each holds by their Init.                                               *)
\* A search in a tree by its nested set or its paths selects what the parents say.
ChildOfAgrees == area = "tree" => Tree!ChildOfAgrees
\* A deletion removes what it has to, or is refused as a whole.
DeletesExactly == Del!DeletesExactly
\* A record is found by the translation that it shows.
TranslationsAgree == area = "translation" => Trans!TranslationsAgree
\* What was changed in instances is in the database after their save.
SavedIsShown == Save!SavedIsShown
==============================================================================
