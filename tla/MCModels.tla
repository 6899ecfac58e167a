------------------------------- MODULE MCModels -------------------------------
(* What a model defines, on small instances: its tables through the versions of  *)
(* the modules, its domains and searches, its views, forms and buttons, the files *)
(* of its records, its terms, its wizards and actions.  As in MCRecords each      *)
(* component has an area of the state space, chosen in the initial state.         *)
EXTENDS Integers, Sequences, FiniteSets, TLC
VARIABLES
  area,
  domain, report,
  statement, depth,
  db, seqs, installed, kept, past, ops, refused, hazard,
  form, touched, inst, requests, steps, edits,
  state, clicks, rules, cached, job, count, changes, overlapped, idleReset,
  searched, joined,
  relations, hiddenIds, readonly, context, localCache, asked, exact,
  viewType, content, denied, locked, closed, guarded, width, extended, screenCache, shown, rights,
  rows, columns, file, saved, previous, io, fileEdits,
  types, program, terms, entries, termChanges, synced, outdated, termsKept,
  session, version, executes, seen, may, sent, accesses, entered, serial,
  budget, actions, actionRows, sequences, creating, keywords, exports, hidden, unreadable,
  keywordCache, toolbarCache, missed, clashed
domainVars == <<domain, report>>
pysonVars == <<statement, depth>>
schemaVars == <<db, seqs, installed, kept, past, ops, refused, hazard>>
formVars == <<form, touched, inst, requests, steps, edits>>
buttonVars == <<state, clicks, rules, cached, job, count, changes, overlapped, idleReset>>
searchVars == <<searched, joined>>
readVars == <<relations, hiddenIds, readonly, context, localCache, asked, exact>>
screenVars == <<viewType, content, denied, locked, closed, guarded, width, extended, screenCache, shown, rights>>
fileVars == <<rows, columns, file, saved, previous, io, fileEdits>>
termVars == <<types, program, terms, entries, termChanges, synced, outdated, termsKept>>
wizardVars == <<session, version, executes, seen, may, sent, accesses, entered, serial>>
actionVars == <<budget, actions, actionRows, sequences, creating, keywords, exports, hidden,
                unreadable, keywordCache, toolbarCache, missed, clashed>>

Dom == INSTANCE DomainInversion WITH
  Fields <- <<"x", "y">>, Val <- {0, 1}, Inner <- 2, Outer <- 2,
  Leaves <- {<<"x", "=", 0>>, <<"x", "<", 1>>, <<"y", "!=", 0>>}

Const(v) == [op |-> "value", is |-> v, args |-> <<>>]
Named(name, default) == [op |-> "Eval", name |-> name, key |-> "", args |-> <<Const(default)>>]
Statements == INSTANCE Pyson WITH
  Leaves <- {Const(<<"int", 1>>), Const(<<"str", "k">>), Const(<<"none", 0>>),
             Named("i", <<"int", 0>>), Named("s", <<"str", "">>), Named("b", <<"bool", FALSE>>),
             Named("o", <<"dict", {}>>), Named("l", <<"list", {}>>)},
  Others <- {Const(<<"str", "k">>), Named("i", <<"int", 0>>), Named("o", <<"dict", {}>>)},
  Stored <- [i |-> {<<"int", 2>>}, s |-> {<<"str", "k">>}, b |-> {<<"bool", TRUE>>},
             o |-> {<<"dict", {<<"k", <<"str", "k">>>>}>>}, l |-> {<<"list", {<<"int", 1>>}>>}],
  MaxDepth <- 2

\* Five versions of a model, with and without a history: its fields change their
\* types and sizes, one is renamed, one dropped, the table is renamed.
Typed(name, type, size, required, default) ==
  [name |-> name, type |-> type, size |-> size, required |-> required, default |-> default]
Version(n, table, fields, history, before, after) ==
  [number |-> n, table |-> table, fields |-> fields, history |-> history, before |-> before,
   after |-> after]
Null == "null"
Optional(f) == [op |-> "optional", old |-> f]
VersionsSet ==
  UNION {{
    Version(1, "t", <<Typed("a", "varchar", 5, FALSE, Null), Typed("b", "integer", 0, FALSE, Null)>>,
            h, <<>>, <<>>),
    Version(2, "t", <<Typed("a", "text", 0, TRUE, "d"), Typed("b", "float", 0, FALSE, Null)>>,
            h, <<>>, <<Optional("c")>>),
    Version(3, "t", <<Typed("a", "varchar", 10, FALSE, Null), Typed("c", "integer", 0, TRUE, "d")>>,
            h, <<[op |-> "rename", old |-> "b", new |-> "c"]>>, <<>>),
    Version(4, "t", <<Typed("b", "numeric", 0, TRUE, Null)>>,
            h, <<>>, <<[op |-> "drop", old |-> "a"], Optional("c")>>),
    Version(5, "u", <<Typed("a", "varchar", 0, FALSE, "d"), Typed("b", "integer", 0, FALSE, Null)>>,
            h, <<[op |-> "table", old |-> "t"]>>, <<Optional("c")>>)} : h \in BOOLEAN}
Upgrade(sqlite) == INSTANCE Schema WITH
  SQLite <- sqlite, Versions <- VersionsSet, Value <- {"x"}, MaxId <- 2, MaxOps <- 4

\* A record with two tags and two lines, and a third that a method may add.
Item(id, v) == [id |-> id, v |-> v]
Form == INSTANCE OnChange WITH
  Val <- {0, 1}, Spare <- {3}, MaxRequests <- 1, MaxSteps <- 2, MaxEdits <- 1,
  Stored <- [name |-> 0, owner |-> -100, tags |-> <<Item(11, -100), Item(12, -100)>>,
             lines |-> <<Item(1, 0), Item(2, 1)>>]
\* Of the users that may click only two count, and one counts who may not.
Click == INSTANCE Buttons WITH
  User <- {"u1", "u2", "u3", "u4"}, Record <- {"r1"}, Handler <- {1, 2},
  Allowed <- {"u1", "u2", "u3"}, InGroup <- {"u1", "u2", "u4"}, Ruled <- {"r1"},
  Numbers <- {1, 2}, MaxClicks <- 3, MaxRules <- 1

\* Records of two sorts: with targets, and with lines and links, some gone astray.
Aim(id, x, active) == [id |-> id, x |-> x, active |-> active]
Aims == {Aim("t1", "a", "true"), Aim("t2", "b", "false"), Aim("t3", Null, "true"), Aim("t4", "a", "false")}
Nowhere == Aim(Null, Null, Null)
Line(id, x) == [id |-> id, x |-> x]
Found(x, active, to, lines, links, orphan) ==
  [x |-> x, active |-> active, to |-> to, lines |-> lines, links |-> links, orphan |-> orphan]
FoundSet ==
  {Found(x, "true", to, {}, {}, FALSE) : x \in {"a", Null}, to \in Aims \cup {Nowhere}}
  \cup {Found("b", active, Nowhere, lines, {Aim("t1", "a", "true")}, FALSE) : active \in {"true", "false"},
          lines \in {{}, {Line("l1", "a")}, {Line("l1", Null)}, {Line("l1", "b"), Line("l2", Null)}}}
  \cup {Found("a", "true", Aim("t2", "b", "false"), {Line("l1", "a")}, links, orphan) :
          orphan \in BOOLEAN,
          links \in {{}, {Aim("t2", "b", "false")}, {Aim("t2", "b", "false"), Aim("t3", Null, "true")}}}
Asked(field, sub, op, values, where) ==
  [field |-> field, sub |-> sub, op |-> op, values |-> values, where |-> where, parts |-> <<>>]
Plain(field, sub, op, values) == Asked(field, sub, op, values, <<>>)
IsA == <<Plain("x", "", "=", {"a"})>>
IsB == <<Plain("x", "", "=", {"b"})>>
StartSet ==
  {Plain("x", "", "=", {"a"}), Plain("x", "", "!=", {"a"}), Plain("x", "", "in", {"a", Null}),
   Plain("active", "", "=", {"false"}), Plain("to", "x", "=", {"a"}), Plain("to", "x", "!=", {"a"}),
   Plain("to", "x", "=", {Null}), Plain("to", "", "!=", {"t1"}), Asked("to", "", "not where", {}, IsA),
   Plain("lines", "x", "=", {"a"}), Plain("lines", "x", "!=", {"a"}), Plain("lines", "", "=", {Null}),
   Asked("lines", "", "not where", {}, IsA), Plain("links", "x", "not in", {"a"}),
   Asked("links", "", "where", {}, IsB), Plain("to", "x", "in", {"a", Null})}
BesideSet == {Plain("x", "", "=", {"a"}), Plain("active", "", "=", {"false"}), Plain("to", "x", "!=", {"a"})}
Together(op, parts) ==
  [field |-> "", sub |-> "", op |-> op, values |-> {}, where |-> <<>>, parts |-> parts]
RuleSet == {Together("AND", <<>>), Together("", <<Plain("to", "x", "=", {"a"})>>)}
Query == INSTANCE DomainSearch WITH
  domain <- searched, MaxClauses <- 3, Records <- FoundSet, Targets <- Aims,
  Starts <- StartSet, Clauses <- BesideSet, Rules <- RuleSet

\* Three records that link each other, of which the rules may hide the second.
Row(x, to, ref, many) == [x |-> x, to |-> to, ref |-> ref, many |-> many]
TableSet ==
  {<<Row(0, 0, 2, {}), Row(1, 1, 3, {1, 3}), Row(2, 1, 1, {2})>>,
   <<Row(1, 3, 0, {3}), Row(2, 1, 2, {}), Row(3, 0, 1, {1, 2})>>}
QuestionSet ==
  {<<{1, 2, 3}, {<<"x">>, <<"to", "x">>, <<"to", "total">>}>>,
   <<{1, 2}, {<<"total">>, <<"count">>, <<"scaled">>, <<"lines">>}>>,
   <<{1}, {<<"lines", "x">>, <<"many", "count">>, <<"total">>}>>,
   <<{3}, {<<"ref", "to", "x">>, <<"ref", "scaled">>, <<"ref">>}>>,
   <<{2, 3}, {<<"many">>, <<"many", "ref", "total">>, <<"count">>}>>}
Answers == INSTANCE Reading WITH
  table <- relations, hidden <- hiddenIds, cache <- localCache, ops <- asked, MaxOps <- 3,
  Tables <- TableSet, Hidden <- {2}, Queries <- QuestionSet

\* A view that two modules extend, the first of them what the second has put there.
Known(target, depends, visible, editable) ==
  [target |-> target, depends |-> depends, shown |-> visible, edited |-> editable]
KnownSet ==
  [a |-> Known("", {}, {}, {}), b |-> Known("", {"a"}, {}, {"c"}), c |-> Known("", {}, {"a"}, {}),
   m |-> Known("M", {}, {}, {}), d |-> Known("", {"b"}, {}, {}), active |-> Known("", {}, {}, {})]
Tag(tag, name, kids) == [tag |-> tag, name |-> name, kids |-> kids]
Shows(name) == Tag("field", name, <<>>)
BaseSet ==
  [t \in {"form", "tree", "editable tree"} |->
     IF t = "form"
     THEN Tag("form", "", <<Tag("label", "a", <<>>), Shows("a"),
                            Tag("group", "m", <<Shows("m"), Tag("button", "go", <<>>)>>),
                            Tag("page", "p", <<Shows("c")>>)>>)
     ELSE Tag("tree", "", <<Shows("a"), Shows("m"), Shows("c"), Tag("button", "go", <<>>)>>)]
Change(at, position, kids) == [at |-> at, position |-> position, kids |-> kids]
ContentSet ==
  <<{<<Change(<<"field", "b">>, "before", <<Shows("d")>>),
       Change(<<"field", "a">>, "after", <<Tag("button", "do", <<>>)>>)>>,
     <<Change(<<"field", "b">>, "replace", <<Shows("d")>>)>>},
    {<<Change(<<"field", "a">>, "after", <<Shows("b")>>)>>,
     <<Change(<<"field", "c">>, "replace", <<Shows("b")>>)>>,
     <<Change(<<"field", "c">>, "replace_attributes", <<Shows("b")>>),
       Change(<<"field", "a">>, "inside", <<>>)>>}>>
Screen == INSTANCE Views WITH
  type <- viewType, cached <- screenCache, changes <- rights, MaxChanges <- 2,
  Fields <- KnownSet, Buttons <- [go |-> {"a"}, do |-> {"m"}], Base <- BaseSet,
  Contents <- ContentSet, Rank <- <<2, 1>>, Changeable <- {"a", "c", "M"}

\* Two records, the first with lines, of which one has lines of its own.
Stored(field, owner, x, to) == [field |-> field, owner |-> owner, x |-> x, to |-> to]
StoredSet ==
  {<<Stored("", 0, x, to), Stored("lines", 1, y, 0), Stored("lines", 1, 1, 0), Stored("subs", 2, 1, 0),
     Stored("subs", 2, z, 0), Stored("", 0, 1, 1), Stored("others", o, 1, 0), Stored("others", 1, 1, 0)>> :
     x \in {1, 9}, to \in {0, 1, 2}, y \in {0, 1}, z \in {1, 9}, o \in {1, 6}}
ColumnSet ==
  {<<<<"id">>, <<"x">>, <<"to">>, <<"lines", "id">>, <<"lines", "x">>, <<"lines", "subs", "id">>,
     <<"lines", "subs", "x">>, <<"others", "id">>, <<"others", "x">>>>,
   <<<<"x">>, <<"to">>, <<"lines", "x">>, <<"lines", "subs", "x">>>>,
   <<<<"x">>, <<"others", "x">>, <<"lines", "x">>>>, <<<<"id">>, <<"to">>>>}
Csv == INSTANCE DataExport WITH
  before <- previous, edits <- fileEdits, MaxEdits <- 1,
  Tables <- StoredSet, Columns <- ColumnSet, Target <- <<"n1", "n2", "n2">>

\* Two terms of which one is taken for the new form of the other, in a language and in
\* a variant of it.
Programs == INSTANCE Terms WITH
  changes <- termChanges, kept <- termsKept, MaxChanges <- 5,
  Types <- {{"view"}, {"report"}, {"wizard_button"}, {"field"}, {"model", "selection"}},
  Strings <- {"A", "B"}, Similar <- {<<"A", "B">>, <<"B", "A">>}, Up <- [fr |-> "none", ca |-> "fr"]

\* Two views, a transition that may skip the second, and two actions in a row.
State(kind, reads, sets, next, buttons) ==
  [kind |-> kind, reads |-> reads, sets |-> sets, next |-> next, buttons |-> buttons]
ChosenBy(value, one, other) == [v \in 0..2 |-> IF v = value THEN one ELSE other]
StateSet ==
  [start |-> State("view", "start", "start", <<>>, {"check", "open", "end"}),
   check |-> State("transition", "start", "ask", ChosenBy(1, "open", "ask"), {}),
   ask |-> State("view", "ask", "ask", <<>>, {"open", "start", "end"}),
   open |-> State("action", "ask", "start", ChosenBy(2, "end", "print"), {}),
   print |-> State("action", "start", "start", <<>>, {})]
Assistant == INSTANCE Wizards WITH
  States <- StateSet, requests <- executes, shown <- seen, Value <- 0..2, Request <- {"r1", "r2"},
  MaxRetry <- 1, MaxRequests <- 4, MaxAccess <- 1

Budget(present, creations, changed) ==
  [present |-> present, creations |-> creations, changes |-> changed]
Offers == INSTANCE Actions WITH
  rows <- actionRows, seqs <- sequences, Kind <- {"window", "wizard"}, Model <- {"M"},
  User <- {"u"}, Thread <- {1, 2}, Budgets <- {Budget(0, 3, 0), Budget(1, 1, 2), Budget(2, 0, 3)}

\* The components that are not in the area stay in one of their initial states.
Init ==
  /\ area \in {"domain", "pyson", "schema", "schema of SQLite", "form", "buttons",
              "search", "reading", "views", "files", "terms", "wizard", "actions"}
  /\ IF area = "domain" THEN Dom!Init
                        ELSE domain = (CHOOSE d \in Dom!Domains : TRUE) /\ report = <<>>
  /\ Statements!Init /\ (area = "pyson" \/ statement = Const(<<"int", 1>>))
  /\ IF area = "schema of SQLite" THEN Upgrade(TRUE)!Init ELSE Upgrade(FALSE)!Init
  /\ area \in {"schema", "schema of SQLite"} \/ installed.history
  /\ Form!Init /\ Click!Init /\ (area = "buttons" \/ rules[1] = 2)
  /\ IF area = "search" THEN Query!Init
     ELSE searched = Together("", <<Plain("x", "", "=", {"a"})>>) /\ joined = FALSE
  /\ IF area = "reading" THEN Answers!Init
     ELSE /\ relations = <<>> /\ hiddenIds = {} /\ readonly = FALSE /\ context = 1
          /\ localCache = Answers!Uncached /\ asked = 0 /\ exact = TRUE
  /\ IF area = "views" THEN Screen!Init
     ELSE /\ viewType = "form" /\ content = <<<<>>, <<>>>> /\ denied = {} /\ locked = {}
          /\ closed = {} /\ guarded = {} /\ width = {} /\ extended = <<>> /\ screenCache = <<>>
          /\ shown = <<>> /\ rights = 0
  /\ IF area = "files" THEN Csv!Init
     ELSE /\ rows = <<>> /\ columns = <<>> /\ file = <<>> /\ saved = <<>> /\ previous = <<>>
          /\ io = "new" /\ fileEdits = 0
  /\ Programs!Init /\ (area = "terms" \/ (types = {"view"} /\ program = [view |-> {"A"}]))
  /\ Assistant!Init
  /\ Offers!Init /\ (area = "actions" \/ budget.present = 0)
Still(areas) ==
  /\ area \in areas /\ UNCHANGED area
  /\ "domain" \notin areas => UNCHANGED domainVars
  /\ "pyson" \notin areas => UNCHANGED pysonVars
  /\ "schema" \notin areas => UNCHANGED schemaVars
  /\ "form" \notin areas => UNCHANGED formVars
  /\ "buttons" \notin areas => UNCHANGED buttonVars
  /\ "search" \notin areas => UNCHANGED searchVars
  /\ "reading" \notin areas => UNCHANGED readVars
  /\ "views" \notin areas => UNCHANGED screenVars
  /\ "files" \notin areas => UNCHANGED fileVars
  /\ "terms" \notin areas => UNCHANGED termVars
  /\ "wizard" \notin areas => UNCHANGED wizardVars
  /\ "actions" \notin areas => UNCHANGED actionVars
Next ==
  \/ Still({"domain"}) /\ Dom!Next
  \/ Still({"pyson"}) /\ Statements!Next
  \/ /\ Still({"schema", "schema of SQLite"})
     /\ IF area = "schema" THEN Upgrade(FALSE)!Next ELSE Upgrade(TRUE)!Next
  \/ Still({"form"}) /\ Form!Next
  \/ Still({"buttons"}) /\ Click!Next
  \/ Still({"search"}) /\ Query!Next
  \/ Still({"reading"}) /\ Answers!Next
  \/ Still({"views"}) /\ Screen!Next
  \/ Still({"files"}) /\ Csv!Next
  \/ Still({"terms"}) /\ Programs!Next
  \/ Still({"wizard"}) /\ Assistant!Next
  \/ Still({"actions"}) /\ Offers!Next
vars == <<area, domainVars, pysonVars, schemaVars, formVars, buttonVars, searchVars, readVars, screenVars,
          fileVars, termVars, wizardVars, actionVars>>
Spec == Init /\ [][Next]_vars

(* The properties of the components; in another area each holds by their Init. *)
\* Simplified and merged domains select the same records, a domain inverted for a field
\* excludes no value that it admits, and a statement that can be made has a value of
\* its type.
ExpressionsSound ==
  /\ area = "domain" => Dom!MeaningKept /\ Dom!InversionSound
  /\ area = "pyson" => Statements!StatementsSound
\* An upgrade keeps the values of the records and of their history, and afterwards
\* what the model allows is accepted.
UpgradesKeep ==
  /\ CASE area = "schema" -> Upgrade(FALSE)!ValuesKept
       [] area = "schema of SQLite" -> Upgrade(TRUE)!ValuesKept
       [] OTHER -> TRUE
  /\ refused => hazard
\* A form shows what the methods on_change have made of it.
FormShowsInstance == Form!FormShowsInstance
\* A button runs when enough users have clicked on it.
ClicksDecide == Click!ClicksDecide
\* A search finds the active records that meet its domain and the rules, and a read
\* gives the values that these have now.
SearchAgrees ==
  /\ area = "search" => Query!SearchAgrees
  /\ area = "reading" => Answers!TypeOK /\ Answers!ReadAgrees
\* What a user is shown is the view there is, without what he may not read, and the
\* actions there are for him, whose rows have one id.
ScreenAgrees ==
  /\ area = "views" => Screen!TypeOK /\ Screen!ScreenAgrees
  /\ area = "actions" => Offers!TypeOK /\ Offers!ActionsAgree
\* An import of what was exported writes what was exported.
ImportedIsExported == area = "files" => Csv!TypeOK /\ Csv!ImportedIsExported
\* What is shown of a term was translated from that term.
TermsAgree == area = "terms" => Programs!TypeOK /\ Programs!TermsAgree
\* The session of a wizard holds what was entered, and its answers follow from that.
SessionSerial == area = "wizard" => Assistant!TypeOK /\ Assistant!SessionSerial
==============================================================================
