--------------------------------- MODULE Terms ---------------------------------
(* The terms of the program and their translations (ir/translation.py): the terms *)
(* that models and wizards register and those the wizard Set takes from views and *)
(* reports, the wizards Clean and Update, the translator, and the files of a      *)
(* module.  There is one name of each type; the translation of a term is written  *)
(* <<term, n>> for the term that it was made for.                                *)
EXTENDS Naturals, Sequences, FiniteSets, SequencesExt, FiniteSetsExt
CONSTANTS
  Types,       \* the sets of types that are looked at together
  Strings,     \* the terms
  Similar,     \* the pairs of terms of which one is taken for a new form of the other
  Up,          \* language -> its parent, or NoLang; but for "en"
  MaxChanges   \* bound: changes of the program and of translations
VARIABLES
  types,
  program,     \* type -> its terms in the present program
  terms,       \* the rows of ir.translation in the order of their ids
  entries,     \* language -> the file last exported: <<entries>>, or NotExported
  changes,
  synced,      \* ghost: languages updated since the program changed
  outdated,    \* ghost: languages that have imported another term of one resource
  kept         \* ghost: the last Update has lost nothing of what was shown
termVars == <<types, program, terms, entries, changes, synced, outdated, kept>>

NoLang == "none"
NotExported == <<>>
Blank == <<"", 0>>
NoSource == ""
Lang == DOMAIN Up
SourceTypes == {"report", "view", "wizard_button", "selection"}
ResourceTypes == {"field", "model"}
Updatable == {"field", "model", "selection"}
Single == ResourceTypes \cup {"wizard_button"}
Row(type, lang, src, value, fuzzy) ==
  [type |-> type, lang |-> lang, src |-> src, value |-> value, fuzzy |-> fuzzy]
English(type, src) == Row(type, "en", src, Blank, FALSE)
Of(rows, type, lang) == {t \in Range(rows) : t.type = type /\ t.lang = lang}
Sources(rows, type, lang) == {t.src : t \in Of(rows, type, lang)}
Where(rows, Test(_), With(_)) == [i \in DOMAIN rows |-> IF Test(rows[i]) THEN With(rows[i]) ELSE rows[i]]
Insert(rows, set) == rows \o SetToSeq(set)

(* ------------------------------- registration ------------------------------- *)
\* register_fields adds a term, register_model and register_wizard change that there is.
Registered(type, rows, strings) ==
  LET new == strings \ Sources(rows, type, "en")
      Old(t) == t.type = type /\ t.lang = "en"
      Renamed(t) == [t EXCEPT !.src = CHOOSE s \in strings : TRUE]
  IN  CASE type \in {"view", "report"} \/ strings = {} -> rows
        [] type \in {"field", "selection"} \/ Of(rows, type, "en") = {} ->
             Insert(rows, {English(type, s) : s \in new})
        [] OTHER -> Where(rows, Old, Renamed)
Init ==
  /\ types \in Types
  /\ program \in [types -> {{s} : s \in Strings}]
  /\ terms = FoldLeft(LAMBDA rows, t : Registered(t, rows, program[t]), <<>>, SetToSeq(types))
  /\ entries = [l \in Lang |-> NotExported]
  /\ changes = 0 /\ synced = {} /\ outdated = {} /\ kept = TRUE

Changing == changes < MaxChanges /\ changes' = changes + 1 /\ UNCHANGED types
\* A new version of the module is loaded and registers its terms.
Upgrade(type, strings) ==
  /\ Changing /\ strings # program[type] /\ (type \in Single => Cardinality(strings) <= 1)
  /\ program' = [program EXCEPT ![type] = strings]
  /\ terms' = Registered(type, terms, strings)
  /\ synced' = {} /\ kept' = TRUE /\ UNCHANGED <<entries, outdated>>

(* --------------------------------- wizards ---------------------------------- *)
\* An old term and the new form of it, each once.
Renames(old, new) ==
  LET pairs == {p \in old \X new : p \in Similar}
      OneToOne(m) == \A p, q \in m : p = q \/ (p[1] # q[1] /\ p[2] # q[2])
  IN  {m \in SUBSET pairs : OneToOne(m) /\ \A p \in pairs \ m : ~OneToOne(m \cup {p})}
\* The same without the mark.
RenamedUnmarked(type, rows, pairs) ==
  LET Old(t) == t.type = type /\ \E p \in pairs : p[1] = t.src
      New(t) == [t EXCEPT !.src = (CHOOSE p \in pairs : p[1] = t.src)[2]]
  IN  Where(rows, Old, New)
\* set_report renames the terms of all languages, set_view that of English alone; both
\* delete those of all languages that are no more.
Renamed(type, rows, pairs) ==
  LET Old(t) == /\ t.type = type /\ (type = "view" => t.lang = "en")
                /\ \E p \in pairs : p[1] = t.src
      Fuzzy(t) == [t EXCEPT !.src = (CHOOSE p \in pairs : p[1] = t.src)[2], !.fuzzy = TRUE]
  IN  Where(rows, Old, Fuzzy)
SetTerms(type) ==
  LET strings == program[type]
      english == Sources(terms, type, "en")
  IN  /\ Changing /\ type \in {"view", "report"}
      /\ \E pairs \in Renames(english \ strings, strings \ english) :
           LET all == Insert(Renamed(type, terms, pairs),
                             {English(type, s) : s \in strings \ (english \cup {p[2] : p \in pairs})})
           IN  terms' = IF type = "view" /\ strings = {} THEN terms
                        ELSE SelectSeq(all, LAMBDA t : t.type = type => t.src \in strings)
      /\ kept' = TRUE /\ UNCHANGED <<program, entries, synced, outdated>>

\* transition_clean: what is not of the program, and doubles of the first one.
Useless(t) ==
  CASE t.type \in {"field", "selection"} -> t.src \notin program[t.type]
    [] t.type = "wizard_button" -> program[t.type] = {}
    [] OTHER -> FALSE
Clean ==
  LET useful == SelectSeq(terms, LAMBDA t : ~Useless(t))
      Double(i) == /\ useful[i].type \in Single
                   /\ \E j \in 1..(i - 1) : useful[j].type = useful[i].type /\ useful[j].lang = useful[i].lang
      first == SelectSeq([i \in DOMAIN useful |-> i], LAMBDA i : ~Double(i))
  IN  /\ Changing /\ terms' = [k \in DOMAIN first |-> useful[first[k]]]
      /\ kept' = TRUE /\ UNCHANGED <<program, entries, synced, outdated>>

IsBlank(t) == t.value = Blank
\* do_update, in its steps: what is missing in the language, what is the same as in the
\* parent language, what has another source, and what is known from another term.
Completed(rows, l) ==
  LET en == {t \in Range(rows) : t.lang = "en" /\ t.type \in SourceTypes}
  IN  Insert(rows, {Row(t.type, l, t.src, Blank, FALSE) :
                      t \in {t \in en : t.src \notin Sources(rows, t.type, l)}})
Inherited(rows, l) ==
  LET Same(t) == t.lang = l /\ t.type \in SourceTypes /\
                 \E p \in Of(rows, t.type, Up[l]) : p.src = t.src /\
                   \E c \in Of(rows, t.type, l) : c.src = t.src /\ c.value = p.value
      Emptied(t) == [t EXCEPT !.value = Blank]
  IN  Where(rows, Same, Emptied)
CompletedResources(rows, l) ==
  LET en == {t \in Range(rows) : t.lang = "en" /\ t.type \in ResourceTypes}
  IN  Insert(rows, {Row(t.type, l, NoSource, Blank, FALSE) :
                      t \in {t \in en : Of(rows, t.type, l) = {}}})
InheritedResources(rows, l) ==
  LET Same(t) == t.lang = l /\ t.type \in ResourceTypes /\
                 \E p \in Of(rows, t.type, Up[l]), c \in Of(rows, t.type, l) : c.value = p.value
      Emptied(t) == [t EXCEPT !.value = Blank]
  IN  Where(rows, Same, Emptied)
\* The results of marking, one for each of the sources when there are several.
Marked(rows, l) ==
  LET New(type) == Sources(rows, type, "en") \ Sources(rows, type, l)
      Changed(t) == t.lang = l /\ t.type \in Updatable /\ New(t.type) # {}
      With(source, t) == [t EXCEPT !.fuzzy = TRUE, !.src = source[t.type]]
  IN  {Where(rows, Changed, LAMBDA t : With(source, t)) :
         source \in {s \in [types -> Strings \cup {NoSource}] :
                       \A type \in types : IF New(type) = {} THEN s[type] = NoSource ELSE s[type] \in New(type)}}
Greatest(values) == CHOOSE v \in values : \A w \in values : v = w \/ v[2] >= w[2]
Prefilled(rows, l) ==
  LET Known(t) == {k.value : k \in {k \in Range(rows) : k.lang = l /\ k.src = t.src /\ ~IsBlank(k)}}
      Empty(t) == t.lang = l /\ IsBlank(t)
      With(t) == IF Known(t) = {} THEN [t EXCEPT !.fuzzy = FALSE]
                 ELSE [t EXCEPT !.value = Greatest(Known(t)), !.fuzzy = TRUE]
  IN  Where(rows, Empty, With)

(* --------------------------- what the user is shown -------------------------- *)
\* get_sources: by its term, or for a field or model the one there is.
RECURSIVE Shown(_, _, _, _)
Shown(rows, type, l, string) ==
  LET usable == {t \in Of(rows, type, l) : ~t.fuzzy /\ ~IsBlank(t) /\
                                           (type \in SourceTypes => t.src = string)}
  IN  IF l = NoLang THEN {}
      ELSE IF usable # {} THEN {t.value : t \in usable} ELSE Shown(rows, type, Up[l], string)

\* A term with several sources in English, or with another than the language has, is
\* marked; and the parent language may have the same value, but fuzzy.
MayLose(rows, type, l) ==
  \/ type \in ResourceTypes /\ Sources(rows, type, "en") # Sources(rows, type, l)
  \/ Up[l] # NoLang /\ \E p \in Of(rows, type, Up[l]) : p.fuzzy
Update(l) ==
  LET sources == Completed(terms, l)
      own == IF Up[l] = NoLang THEN sources ELSE Inherited(sources, l)
      resources == CompletedResources(own, l)
      all == IF Up[l] = NoLang THEN resources ELSE InheritedResources(resources, l)
  IN  /\ Changing
      /\ \E rows \in Marked(all, l) : terms' = Prefilled(rows, l)
      /\ synced' = synced \cup {l}
      /\ kept' = \A type \in types, s \in Strings :
                   MayLose(terms, type, l) \/ Shown(terms', type, l, s) = Shown(terms, type, l, s)
      /\ UNCHANGED <<program, entries, outdated>>

(* -------------------------- translator and files ---------------------------- *)
Translate(i, n) ==
  /\ Changing /\ terms[i].lang \in Lang /\ terms[i].src # NoSource
  /\ terms' = [terms EXCEPT ![i].value = <<terms[i].src, n>>, ![i].fuzzy = FALSE]
  /\ UNCHANGED <<program, entries, synced, outdated>> /\ kept' = TRUE

Export(l) ==
  /\ Changing /\ {t \in Range(terms) : t.lang = l} # {}
  /\ entries' = [entries EXCEPT ![l] = <<{t \in Range(terms) : t.lang = l /\ (t.src # NoSource \/ ~IsBlank(t))}>>]
  /\ UNCHANGED <<program, terms, synced, outdated>> /\ kept' = TRUE
\* unique_key
Key(t) == IF t.type \in SourceTypes THEN <<t.type, t.src>> ELSE <<t.type, "">>
\* translation_import: the source of a row stays; what is not in the file is deleted.
Import(l) ==
  LET file == entries[l][1]
      Is(t) == t.lang = l /\ \E e \in file : Key(e) = Key(t)
      With(t) == LET e == CHOOSE e \in file : Key(e) = Key(t) IN [t EXCEPT !.value = e.value, !.fuzzy = e.fuzzy]
      new == {e \in file : \A t \in Range(terms) : t.lang = l => Key(t) # Key(e)}
      all == Insert(Where(terms, Is, With), new)
  IN  /\ Changing /\ entries[l] # NotExported
      /\ terms' = IF file = {} THEN all
                  ELSE SelectSeq(all, LAMBDA t : t.lang = l => \E e \in file : Key(e) = Key(t))
      /\ outdated' = IF \E e \in file : e.type \in ResourceTypes /\ e.src \notin program[e.type]
                       THEN outdated \cup {l} ELSE outdated
      /\ UNCHANGED <<program, entries, synced>> /\ kept' = TRUE

Next ==
  \/ \E type \in types, strings \in SUBSET Strings : Upgrade(type, strings)
  \/ \E type \in types : SetTerms(type)
  \/ Clean
  \/ \E l \in Lang : Update(l) \/ Export(l) \/ Import(l)
  \/ \E i \in DOMAIN terms, n \in 1..2 : Translate(i, n)
Spec == Init /\ [][Next]_termVars

(* -------------------------------- properties -------------------------------- *)
TypeOK ==
  /\ types \in Types /\ DOMAIN program = types /\ synced \subseteq Lang /\ outdated \subseteq Lang
  /\ \A t \in Range(terms) : t.type \in types /\ t.lang \in Lang \cup {"en"} /\ t.fuzzy \in BOOLEAN
\* What is shown for a term of a view, report, button or selection was translated from that term, through all
\* its renames, copies and files; that of a field or a model from its present term, once
\* the language was updated, where English has no other term left and no older file was
\* imported; and an update loses nothing of what is shown, but what it has to mark
\* (get_sources, set_report, set_view, do_update, translation_import).
TermsAgree ==
  /\ \A type \in types \cap SourceTypes, l \in Lang, s \in Strings :
       \A v \in Shown(terms, type, l, s) : v[1] = s
  /\ \A l \in synced \ outdated : \A t \in Range(terms) :
       t.lang = l /\ t.type \in ResourceTypes /\ ~t.fuzzy /\ ~IsBlank(t)
         /\ Sources(terms, t.type, "en") = program[t.type] => t.value[1] \in program[t.type]
  /\ kept
===============================================================================
