-------------------------------- MODULE Actions --------------------------------
(* Actions and what the user is offered of them (ir/action.py): an action has a row *)
(* in ir_action and one in the table of its kind, that get the same id; keywords    *)
(* offer it on the records of a model; the answers of get_keyword and of            *)
(* view_toolbar_get (model/modelview.py) are cached.  The database is PostgreSQL:    *)
(* sequences are not part of a transaction, and an id waits for who holds it.       *)
EXTENDS Naturals, Sequences, FiniteSets
CONSTANTS
  Kind,         \* the tables, of them "window" for ir.action.act_window
  Model, User,
  Thread,       \* transactions that create an action
  Budgets       \* bounds, one taken initially: [present, creations, changes]
VARIABLES
  budget,
  actions,      \* id -> [name, views, active] of the committed actions
  rows,         \* kind -> id -> the action of the committed row
  seqs,         \* table -> the last value of its sequence
  creating,     \* Thread -> the creation in progress, or Idle
  keywords,     \* pairs of a model, or AnyModel, and an action
  exports,      \* the models that have an export
  hidden,       \* pairs of a user and an action, by the groups of the action
  unreadable,   \* users without access to the model of the windows
  keywordCache, \* user, model -> the last get_keyword in a set, or NotCached
  toolbarCache, \* the same of view_toolbar_get
  missed,       \* ghost: the caches that a change has left as they were
  clashed       \* ghost: a creation without another beside it has failed
stored == <<actions, rows, keywords>>
making == <<seqs, creating, clashed>>
offering == <<exports, hidden, unreadable>>
caches == <<keywordCache, toolbarCache, missed>>
actionVars == <<budget, stored, making, offering, caches>>

AnyModel == "any"
NotCached == {}
Idle == [todo |-> <<>>]
Nothing == [u \in User, m \in Model |-> NotCached]
New == [name |-> 0, views |-> 0, active |-> TRUE]
Init ==
  /\ budget \in Budgets
  /\ actions = [a \in 1..budget.present |-> New]
  /\ \E kind \in [1..budget.present -> Kind] :
       rows = [k \in Kind |-> [a \in {a \in 1..budget.present : kind[a] = k} |-> a]]
  /\ seqs = [t \in Kind \cup {"action"} |-> budget.present]
  /\ creating = [t \in Thread |-> Idle] /\ clashed = FALSE
  /\ keywords = {AnyModel} \X (1..budget.present)
  /\ exports = {} /\ hidden = {} /\ unreadable = {}
  /\ keywordCache = Nothing /\ toolbarCache = Nothing /\ missed = {}

(* ---------------------------- create of the mixin ---------------------------- *)
Beside(t, kind) == {s \in Thread \ {t} : creating[s] # Idle /\ creating[s].kind = kind}
\* copy copies the action before it creates the row.
Start(t, kind, copy) ==
  /\ budget.creations > 0 /\ budget' = [budget EXCEPT !.creations = @ - 1]
  /\ creating[t] = Idle
  /\ LET first == IF copy THEN <<"action", "next", "read", "set">>
                  ELSE <<"next", "read", "set", "action">>
         others == Beside(t, kind)
     IN  creating' = [s \in Thread |->
           CASE s = t -> [todo |-> first \o <<"insert", "number", "commit">>, kind |-> kind, last |-> 0,
                          action |-> 0, row |-> 0, held |-> {}, beside |-> others # {}]
             [] s \in others -> [creating[s] EXCEPT !.beside = TRUE]
             [] OTHER -> creating[s]]
  /\ UNCHANGED <<stored, seqs, clashed, offering, caches>>
Does(t, step, with) ==
  /\ creating[t] # Idle /\ Head(creating[t].todo) = step
  /\ creating' = [creating EXCEPT ![t] = [with EXCEPT !.todo = Tail(@)]]
  /\ UNCHANGED <<budget, stored, clashed, offering, caches>>
\* nextid, which advances the sequence of the kind, currid and setnextid are three
\* statements.
AdvanceSequence(t) ==
  LET c == creating[t] IN Does(t, "next", c) /\ seqs' = [seqs EXCEPT ![c.kind] = @ + 1]
ReadSequence(t) ==
  LET c == creating[t] IN Does(t, "read", [c EXCEPT !.last = seqs["action"]]) /\ UNCHANGED seqs
SetSequence(t) ==
  LET c == creating[t] IN Does(t, "set", c) /\ seqs' = [seqs EXCEPT ![c.kind] = c.last]
CreateAction(t) ==
  LET c == creating[t]
  IN  /\ Does(t, "action", [c EXCEPT !.action = seqs["action"] + 1])
      /\ seqs' = [seqs EXCEPT !["action"] = @ + 1]
\* An id of the table: one that another transaction has put there or taken away has to
\* be waited for, one that is committed is refused.
Holders(t, id) == {s \in Beside(t, creating[t].kind) : id \in creating[s].held}
Taken(c, id) == id \in DOMAIN rows[c.kind]
RowId(c) == IF Head(c.todo) = "insert" THEN seqs[c.kind] + 1 ELSE c.action
InsertRow(t) ==
  LET c == creating[t]
      id == RowId(c)
  IN  /\ Does(t, "insert", [c EXCEPT !.row = id, !.held = {id}])
      /\ Holders(t, id) = {} /\ ~Taken(c, id) /\ seqs' = [seqs EXCEPT ![c.kind] = id]
NumberRow(t) ==
  LET c == creating[t]
      id == RowId(c)
  IN  /\ Does(t, "number", [c EXCEPT !.row = id, !.held = @ \cup {id}])
      /\ id # c.row => Holders(t, id) = {} /\ ~Taken(c, id)
      /\ UNCHANGED seqs
Waits(t, s) == /\ creating[t] # Idle /\ Head(creating[t].todo) \in {"insert", "number"}
               /\ RowId(creating[t]) # creating[t].row /\ s \in Holders(t, RowId(creating[t]))
\* The id is taken, or both wait for each other: the transaction is rolled back.
Fail(t) ==
  LET c == creating[t]
  IN  /\ c # Idle /\ Head(c.todo) \in {"insert", "number"} /\ RowId(c) # c.row
      /\ \/ Holders(t, RowId(c)) = {} /\ Taken(c, RowId(c))
         \/ \E s \in Thread : Waits(t, s) /\ Waits(s, t)
      /\ creating' = [creating EXCEPT ![t] = Idle]
      /\ clashed' = (clashed \/ ~c.beside)
      /\ seqs' = IF Head(c.todo) = "insert" THEN [seqs EXCEPT ![c.kind] = @ + 1] ELSE seqs
      /\ UNCHANGED <<budget, stored, offering, caches>>

(* ----------------------------------- caches ---------------------------------- *)
\* After a change that clears these caches and that changes what those hold: a toolbar
\* is made from the cached keywords, as they are.
Cleared(cleared, changed) ==
  /\ keywordCache' = IF "keyword" \in cleared THEN Nothing ELSE keywordCache
  /\ toolbarCache' = IF "toolbar" \in cleared THEN Nothing ELSE toolbarCache
  /\ LET missing == (missed \cup changed) \ cleared
     IN  missed' = missing \cup (IF "keyword" \in missing THEN {"toolbar"} ELSE {})
Both == {"keyword", "toolbar"}
\* The values that the mixin sets in ir.action are written after, which clears both.
Commit(t) ==
  LET c == creating[t]
  IN  /\ c # Idle /\ Head(c.todo) = "commit"
      /\ creating' = [creating EXCEPT ![t] = Idle]
      /\ actions' = [a \in DOMAIN actions \cup {c.action} |-> IF a = c.action THEN New ELSE actions[a]]
      /\ rows' = [rows EXCEPT ![c.kind] = [i \in DOMAIN @ \cup {c.row} |-> IF i = c.row THEN c.action ELSE @[i]]]
      /\ Cleared(Both, Both)
      /\ UNCHANGED <<budget, keywords, seqs, clashed, offering>>

(* ---------------------------------- changes ---------------------------------- *)
Changing == budget.changes > 0 /\ budget' = [budget EXCEPT !.changes = @ - 1] /\ UNCHANGED making
Unstored == UNCHANGED <<actions, rows, keywords>>
KindOf(a) == CHOOSE k \in Kind : a \in DOMAIN rows[k]
\* By the row of its kind, or by ir.action itself.
Write(a, field, mixin) ==
  /\ Changing
  /\ actions' = CASE field = "name" -> [actions EXCEPT ![a].name = 1 - @]
                  [] field = "active" -> [actions EXCEPT ![a].active = ~@]
  /\ Cleared(IF mixin THEN Both ELSE {"keyword"}, Both)
  /\ UNCHANGED <<rows, keywords, offering>>
\* The views or the domains of a window.
WriteViews(a) ==
  /\ Changing /\ KindOf(a) = "window" /\ actions' = [actions EXCEPT ![a].views = 1 - @]
  /\ Cleared({"keyword"}, Both) /\ UNCHANGED <<rows, keywords, offering>>
\* The keywords of the action are deleted with it.
Delete(a) ==
  /\ Changing
  /\ rows' = [k \in Kind |-> [i \in {i \in DOMAIN rows[k] : rows[k][i] # a} |-> rows[k][i]]]
  /\ actions' = [b \in DOMAIN actions \ {a} |-> actions[b]]
  /\ keywords' = {k \in keywords : k[2] # a}
  /\ Cleared(IF keywords' # keywords THEN Both ELSE {"toolbar"}, Both) /\ UNCHANGED offering
\* A keyword is created with the id of the action or of the row of its kind.
GetActionId(id) ==
  IF id \in DOMAIN actions THEN id ELSE LET k == CHOOSE k \in Kind : id \in DOMAIN rows[k] IN rows[k][id]
AddKeyword(m, kind, id) ==
  /\ Changing /\ keywords' = keywords \cup {<<m, GetActionId(id)>>} /\ keywords' # keywords
  /\ Cleared(Both, Both) /\ UNCHANGED <<actions, rows, offering>>
DeleteKeywordKept(k) ==
  /\ Changing /\ keywords' = keywords \ {k}
  /\ Cleared({"keyword"}, Both) /\ UNCHANGED <<actions, rows, offering>>
DeleteKeyword(k) ==
  /\ Changing /\ keywords' = keywords \ {k}
  /\ Cleared(Both, Both) /\ UNCHANGED <<actions, rows, offering>>
ChangeExport(m) ==
  /\ Changing /\ exports' = IF m \in exports THEN exports \ {m} ELSE exports \cup {m}
  /\ Cleared({"toolbar"}, {"toolbar"}) /\ Unstored /\ UNCHANGED <<hidden, unreadable>>
\* The groups of an action and the access to a model clear neither.
ChangeGroups(u, a) ==
  /\ Changing /\ hidden' = (hidden \ {<<u, a>>}) \cup ({<<u, a>>} \ hidden)
  /\ Cleared({}, Both) /\ Unstored /\ UNCHANGED <<exports, unreadable>>
ChangeAccess(u) ==
  /\ Changing /\ unreadable' = (unreadable \ {u}) \cup ({u} \ unreadable)
  /\ Cleared({}, Both) /\ Unstored /\ UNCHANGED <<exports, hidden>>

(* ---------------------------------- answers ---------------------------------- *)
Offered(u, m) ==
  {[id |-> a, values |-> actions[a]] : a \in
     {a \in DOMAIN actions : /\ actions[a].active /\ <<u, a>> \notin hidden
                             /\ {<<m, a>>, <<AnyModel, a>>} \cap keywords # {}
                             /\ KindOf(a) = "window" => u \notin unreadable}}
GetKeyword(u, m) == IF keywordCache[u, m] = NotCached THEN {Offered(u, m)} ELSE keywordCache[u, m]
Toolbar(offered, m) == [actions |-> offered, export |-> m \in exports]
ViewToolbarGet(u, m) ==
  /\ toolbarCache[u, m] = NotCached
  /\ keywordCache' = [keywordCache EXCEPT ![u, m] = GetKeyword(u, m)]
  /\ toolbarCache' = [toolbarCache EXCEPT ![u, m] = {Toolbar(o, m) : o \in GetKeyword(u, m)}]
  /\ UNCHANGED <<budget, stored, making, offering, missed>>

Next ==
  \/ \E t \in Thread :
       \/ \E kind \in Kind, copy \in BOOLEAN : Start(t, kind, copy)
       \/ AdvanceSequence(t) \/ ReadSequence(t) \/ SetSequence(t) \/ CreateAction(t) \/ InsertRow(t) \/ NumberRow(t)
       \/ Fail(t) \/ Commit(t)
  \/ \E a \in DOMAIN actions :
       \/ \E field \in {"name", "active"}, mixin \in BOOLEAN : Write(a, field, mixin)
       \/ WriteViews(a) \/ Delete(a) \/ \E u \in User : ChangeGroups(u, a)
  \/ \E m \in Model, kind \in Kind : \E id \in DOMAIN rows[kind] : AddKeyword(m, kind, id)
  \/ \E k \in keywords : DeleteKeyword(k)
  \/ \E u \in User : ChangeAccess(u)
  \/ \E m \in Model : ChangeExport(m) \/ \E u \in User : ViewToolbarGet(u, m)
Spec == Init /\ [][Next]_actionVars

(* -------------------------------- properties -------------------------------- *)
TypeOK ==
  /\ DOMAIN rows = Kind /\ \A k \in Kind : \A i \in DOMAIN rows[k] : rows[k][i] \in DOMAIN actions
  /\ \A k \in keywords : k[1] \in Model \cup {AnyModel} /\ k[2] \in Nat
  /\ hidden \subseteq User \X Nat /\ unreadable \subseteq User /\ missed \subseteq Both
\* Whatever creations run at the same time, the row of an action has the id of the
\* action, no two actions of one kind or another have the same one, and a creation fails
\* only beside another one of the kind; and a user is offered the actions that are there
\* for him, with the exports, as long as nothing has changed that leaves the caches as
\* they are - and never one that was deleted or has lost its keyword
\* (ActionMixin.create, get_keyword, view_toolbar_get and the clearing of their caches).
ActionsAgree ==
  /\ ~clashed
  /\ \A k \in Kind : \A i \in DOMAIN rows[k] :
       rows[k][i] = i /\ \A l \in Kind \ {k} : i \notin DOMAIN rows[l]
  /\ \A u \in User, m \in Model :
       LET kept == keywordCache[u, m]
           bar == toolbarCache[u, m]
           ids == {o.id : o \in UNION (kept \cup {b.actions : b \in bar})}
       IN  /\ "keyword" \notin missed => kept \subseteq {Offered(u, m)}
           /\ "toolbar" \notin missed => bar \subseteq {Toolbar(Offered(u, m), m)}
           /\ \A a \in ids : a \in DOMAIN actions /\ {<<m, a>>, <<AnyModel, a>>} \cap keywords # {}
===============================================================================
