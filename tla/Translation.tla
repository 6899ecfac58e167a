------------------------------ MODULE Translation ------------------------------
(* A translated field of one record: the column of its table, the rows of       *)
(* ir.translation for each language with their cache (ir/translation.py), and   *)
(* the expression by which a search selects (model/fields/field.py).            *)
EXTENDS Naturals
CONSTANTS
  Lang, Main,   \* languages; that of ir.configuration
  Up,           \* language -> its parent, or NoLang
  NoLang,
  Text, Blank,  \* texts; the empty one
  MaxEdits      \* bound: changes
VARIABLES
  column,       \* the value in the table of the model, or Gone
  rowOf,        \* language -> [value, src, fuzzy], or NoRow
  shown,        \* _translation_cache: language -> text, Gone or NotCached
  changed,      \* changes so far
  unmarked      \* ghost: languages that were not made fuzzy by a change of the text
                \* of the main one, nor translated since
transVars == <<column, rowOf, shown, changed, unmarked>>

Gone == "none"
NotCached == "not cached"
NoRow == [value |-> Gone, src |-> Gone, fuzzy |-> FALSE]
NothingShown == [l \in Lang |-> NotCached]
Init ==
  /\ column = Gone /\ rowOf = [l \in Lang |-> NoRow]
  /\ shown = NothingShown /\ changed = 0 /\ unmarked = {}

(* --------------------------------- reading ---------------------------------- *)
Usable(l) == rowOf[l] # NoRow /\ ~rowOf[l].fuzzy /\ rowOf[l].value \notin {Blank, Gone}
\* get_ids: the translations of the parent language, then those of the language.
RECURSIVE GetIds(_)
GetIds(l) ==
  IF l = NoLang THEN Gone
  ELSE IF shown[l] # NotCached THEN shown[l]
  ELSE IF Usable(l) THEN rowOf[l].value ELSE GetIds(Up[l])
\* A read caches what it has found for the language and for its parents.
RECURSIVE Fetched(_)
Fetched(l) == IF l = NoLang \/ shown[l] # NotCached THEN {} ELSE {l} \cup Fetched(Up[l])
Or(a, b) == IF a \in {Gone, Blank} THEN b ELSE a
ReadValue(l) == Or(GetIds(l), column)
Cached(l) == [k \in Lang |-> IF k \in Fetched(l) THEN GetIds(k) ELSE shown[k]]
Read(l) ==
  /\ column # Gone /\ Fetched(l) # {}
  /\ shown' = Cached(l)
  /\ UNCHANGED <<column, rowOf, changed, unmarked>>
\* _get_translation_column and convert_domain
RECURSIVE Column(_, _)
Column(l, inner) ==
  IF l = NoLang THEN Or(inner, column)
  ELSE Column(Up[l], Or(inner, IF rowOf[l] # NoRow /\ ~rowOf[l].fuzzy THEN rowOf[l].value
                               ELSE Gone))

(* --------------------------------- writing ---------------------------------- *)
StoredUncleared(rows) == rowOf' = rows /\ UNCHANGED shown
\* create, write and delete of translations clear the cache.
Stored(rows) == rowOf' = rows /\ shown' = NothingShown
Changing == changed < MaxEdits /\ changed' = changed + 1
\* set_ids: the row of the language, with what the record shows in the main language
\* once its column is set; the others become fuzzy with the main one, unless the main
\* language has no row yet or the context says fuzzy_translation = False.
SetIds(l, v, src, fuzzing) ==
  LET new == [value |-> v, src |-> src, fuzzy |-> FALSE]
  IN [k \in Lang |->
        IF k = l THEN new
        ELSE IF l = Main /\ fuzzing /\ NoRow \notin {rowOf[l], rowOf[k]}
        THEN [rowOf[k] EXCEPT !.src = src, !.fuzzy = TRUE] ELSE rowOf[k]]
Translated(l, v, fuzzing) ==
  LET src == IF l = Main THEN v ELSE Or(GetIds(Main), column')
  IN IF rowOf[l] = NoRow /\ src \in {Blank, Gone} /\ v \in {Blank, Gone}
     THEN UNCHANGED rowOf /\ shown' = IF l = Main THEN shown ELSE Cached(Main)
     ELSE Stored(SetIds(l, v, src, fuzzing))
Unmarked == unmarked' = IF ReadValue(Main)' # ReadValue(Main) THEN Lang ELSE unmarked
\* ModelSQL.create: the column has the value, whatever the language.
Create(l, v) ==
  /\ Changing /\ column = Gone /\ column' = v
  /\ Translated(l, v, TRUE) /\ UNCHANGED unmarked
\* ModelSQL.write: the column follows the main language alone.  A copy writes each
\* language of the new record without making the others fuzzy.
Write(l, v, fuzzing) ==
  /\ Changing /\ column # Gone
  /\ column' = IF l = Main THEN v ELSE column
  /\ Translated(l, v, fuzzing)
  /\ IF l # Main THEN unmarked' = unmarked \ {l}
     ELSE IF fuzzing /\ rowOf[l] # NoRow THEN unmarked' = {} ELSE Unmarked
\* ModelSQL.delete: delete_ids
Delete ==
  /\ Changing /\ column # Gone /\ column' = Gone
  /\ Stored([l \in Lang |-> NoRow]) /\ unmarked' = {}
\* A translator works on the rows themselves.
WriteTranslation(l, v, fuzzy) ==
  /\ Changing /\ rowOf[l] # NoRow
  /\ Stored([rowOf EXCEPT ![l].value = v, ![l].fuzzy = fuzzy])
  /\ UNCHANGED column /\ Unmarked
DeleteTranslation(l) ==
  /\ Changing /\ rowOf[l] # NoRow
  /\ Stored([rowOf EXCEPT ![l] = NoRow]) /\ UNCHANGED column /\ Unmarked

Next ==
  \/ \E l \in Lang : Read(l) \/ DeleteTranslation(l)
  \/ \E l \in Lang, v \in Text \cup {Blank} :
       \/ Create(l, v)
       \/ \E fuzzy \in BOOLEAN : Write(l, v, fuzzy) \/ WriteTranslation(l, v, fuzzy)
  \/ Delete
Spec == Init /\ [][Next]_transVars

(* -------------------------------- properties ------------------------------- *)
\* In every language a record is found by the value that it shows there, whatever
\* was translated, made fuzzy or emptied since the value was cached; and what it
\* shows was translated from what the main language shows now, or that has changed
\* since in a way that leaves the translations alone.
TranslationsAgree ==
  /\ column # Gone => \A l \in Lang : ReadValue(l) = Column(l, Gone)
  /\ \A l \in Lang \ unmarked : Usable(l) /\ l # Main => rowOf[l].src = ReadValue(Main)
==============================================================================
