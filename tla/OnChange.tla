------------------------------- MODULE OnChange -------------------------------
(* The calls on_change of a form (model/modelview.py, model/model.py): the client *)
(* sends the values of fields, the server makes an instance of them, calls the   *)
(* methods, which change it, and answers with what they have changed.            *)
EXTENDS Integers, Sequences, FiniteSets, FiniteSetsExt, SequencesExt, TLC
CONSTANTS
  Val,          \* the values of the name and of a line
  Stored,       \* the record in the database: [name, owner, tags, lines]
  Spare,        \* the ids of stored records that a method may add to the lists
  MaxRequests, MaxSteps, MaxEdits   \* bounds: calls, changes in one, of the user
VARIABLES
  form,         \* what the client shows: lists are sequences of [id, v]
  touched,      \* the fields that are not as in the database
  inst,         \* the instance: [values, init, removed, deleted], or NoRequest
  requests, steps, edits
formVars == <<form, touched, inst, requests, steps, edits>>

Null == -100
NoRequest == <<>>
Lists == {"tags", "lines"}
Scalars == {"name", "owner"}
\* A target made by the server has no id; the client gives it a negative one.
NoId == 0
\* An instance that is not saved, as the value of the owner.
Temporary == NoId
StoredV(id) == LET known == {l \in Range(Stored.lines) : l.id = id}
               IN  IF known = {} THEN Null ELSE (CHOOSE l \in known : TRUE).v

(* -------------------------------- instances --------------------------------- *)
\* _record: the values there are, not more.
Put(values, f, v) == (f :> v) @@ values
Target(id, values) == [id |-> id, values |-> values, init |-> values]
\* Many2Many instances the targets, One2Many tells them also their parent.
Instance(f, item) ==
  IF f = "tags" THEN Target(item.id, <<>>)
  ELSE Target(item.id, Put(Put(<<>>, "v", item.v), "parent", "instance"))
Instances(f, items) == [i \in DOMAIN items |-> Instance(f, items[i])]
\* Model.__init__ with what was sent; the initial values are a copy.
Made(sent) ==
  LET values == [f \in sent |-> IF f \in Lists THEN Instances(f, form[f]) ELSE form[f]]
  IN  [values |-> values, init |-> values, removed |-> {}, deleted |-> {}]
\* A field that was not sent is read from the database.
Saved(f) == [i \in DOMAIN Stored[f] |-> Target(Stored[f][i].id, <<>>)]
Get(f) == IF f \in DOMAIN inst.values THEN inst.values[f]
          ELSE IF f \in Lists THEN Saved(f) ELSE Stored[f]
WithParent(f, targets) ==
  [i \in DOMAIN targets |->
     IF f = "tags" THEN targets[i]
     ELSE [targets[i] EXCEPT !.values = Put(@, "parent", "instance")]]

(* ---------------------------------- methods --------------------------------- *)
Step == inst # NoRequest /\ steps < MaxSteps /\ steps' = steps + 1
Assign(f, value) == inst' = [inst EXCEPT !.values = Put(@, f, value)]
AssignList(f, targets) == Assign(f, WithParent(f, targets))
SetScalar(f, value) == Step /\ Assign(f, value)
EditLine(i, v) ==
  Step /\ AssignList("lines", [Get("lines") EXCEPT ![i].values = Put(@, "v", v)])
\* A new line, or one that is stored.
Insert(f, i, target) == Step /\ AssignList(f, InsertAt(Get(f), i, target))
NewLine(v) == Target(NoId, Put(<<>>, "v", v))
Drop(f, i) == Step /\ AssignList(f, RemoveAt(Get(f), i))
\* One2Many.remove and Many2Many.delete also tell what to do with the record.
RemoveLine(i) ==
  Step /\ inst' = [inst EXCEPT !.values = Put(@, "lines", WithParent("lines", RemoveAt(Get("lines"), i))),
                               !.removed = @ \cup {Get("lines")[i].id}]
DeleteTag(i) ==
  Step /\ inst' = [inst EXCEPT !.values = Put(@, "tags", RemoveAt(Get("tags"), i)),
                               !.deleted = @ \cup {Get("tags")[i].id}]
Reorder == Step /\ AssignList("lines", Reverse(Get("lines")))

(* ---------------------------------- changes --------------------------------- *)
\* Mutant of Same: a list of the same lines is the same, whatever is in them.
SameIds(f, value, init) ==
  IF f \in Lists THEN [i \in DOMAIN value |-> value[i].id] = [i \in DOMAIN init |-> init[i].id]
  ELSE value = init
\* Instances are compared by their ids: the lines have to be looked into.
Same(f, value, init) ==
  CASE f = "lines" -> FALSE
    [] f = "tags" -> [i \in DOMAIN value |-> value[i].id] = [i \in DOMAIN init |-> init[i].id]
    [] OTHER -> value = init
\* What a target has of its own, without its reverse field.
Changes(target, init) ==
  [f \in {g \in DOMAIN target.values \ {"parent"} :
            ~(g \in DOMAIN init /\ target.values[g] = init[g])} |-> target.values[f]]
\* What to do with the targets that are not there any more.
ToDelete(f, gone) == IF f = "lines" THEN gone \ inst.removed ELSE gone \cap inst.deleted
ToRemove(f, gone) == gone \ ToDelete(f, gone)
ListChanges(f, targets, previous) ==
  LET kept(i) == targets[i].id \in previous
      gone == previous \ {targets[i].id : i \in DOMAIN targets}
      added == SetToSortSeq({i \in DOMAIN targets : ~kept(i)}, <)
  IN  [update |-> {[id |-> targets[i].id, values |-> Changes(targets[i], targets[i].init)] :
                     i \in {j \in DOMAIN targets :
                              kept(j) /\ Changes(targets[j], targets[j].init) # <<>>}},
       add |-> [k \in DOMAIN added |-> [at |-> added[k], id |-> targets[added[k]].id,
                                        values |-> Changes(targets[added[k]], <<>>)]],
       delete |-> ToDelete(f, gone), remove |-> ToRemove(f, gone)]
NoChanges == [update |-> {}, add |-> <<>>, delete |-> {}, remove |-> {}]
Previous(f) ==
  LET before == IF f \in DOMAIN inst.init THEN inst.init[f] ELSE Saved(f)
  IN  {before[i].id : i \in DOMAIN before} \ {NoId}
ChangeOf(f) == IF f \in Lists THEN ListChanges(f, inst.values[f], Previous(f)) ELSE inst.values[f]
\* _changed_values: an owner that is not saved is no change.
ChangedValues ==
  LET changed == {f \in DOMAIN inst.values :
                    /\ ~(f \in DOMAIN inst.init /\ Same(f, inst.values[f], inst.init[f]))
                    /\ f = "owner" => inst.values[f] # Temporary
                    /\ f \in Lists => ChangeOf(f) # NoChanges}
  IN  [f \in changed |-> ChangeOf(f)]

(* ---------------------------------- client ---------------------------------- *)
NewId == Min({l.id : l \in Range(form.lines)} \cup {0}) - 1
Value(add) == IF "v" \in DOMAIN add.values THEN add.values.v ELSE StoredV(add.id)
\* Removes, adds each at its place, and updates.
Applied(list, change) ==
  LET rest == SelectSeq(list, LAMBDA l : l.id \notin change.delete \cup change.remove)
      updated(l) == LET u == {x \in change.update : x.id = l.id /\ "v" \in DOMAIN x.values}
                    IN  IF u = {} THEN l ELSE [l EXCEPT !.v = (CHOOSE x \in u : TRUE).values.v]
      put(acc, add) ==
        <<InsertAt(acc[1], IF add.at > Len(acc[1]) THEN Len(acc[1]) + 1 ELSE add.at,
                   [id |-> IF add.id = NoId THEN acc[2] ELSE add.id, v |-> Value(add)]),
          IF add.id = NoId THEN acc[2] - 1 ELSE acc[2]>>
  IN  FoldLeft(put, <<[i \in DOMAIN rest |-> updated(rest[i])], NewId>>, change.add)[1]
Shown(changes) ==
  [f \in DOMAIN form |->
     IF f \notin DOMAIN changes THEN form[f]
     ELSE IF f \in Lists THEN Applied(form[f], changes[f]) ELSE changes[f]]

\* The methods ask for the fields they need: what the user has changed is sent.
Ask(sent) ==
  /\ inst = NoRequest /\ requests < MaxRequests /\ requests' = requests + 1
  /\ touched \subseteq sent
  /\ inst' = Made(sent) /\ steps' = 0
  /\ UNCHANGED <<form, touched, edits>>
Answer ==
  /\ inst # NoRequest
  /\ form' = Shown(ChangedValues)
  /\ touched' = touched \cup DOMAIN ChangedValues
  /\ inst' = NoRequest /\ UNCHANGED <<requests, steps, edits>>
\* The user changes the lines between two calls.
Edit(lines) ==
  /\ inst = NoRequest /\ edits < MaxEdits /\ edits' = edits + 1
  /\ form' = [form EXCEPT !.lines = lines] /\ touched' = touched \cup {"lines"}
  /\ UNCHANGED <<inst, requests, steps>>

Init ==
  /\ form = Stored /\ touched = {} /\ inst = NoRequest
  /\ requests = 0 /\ steps = 0 /\ edits = 0
Method ==
  /\ inst # NoRequest /\ UNCHANGED <<form, touched, requests, edits>>
  /\ \/ \E v \in Val : SetScalar("name", v)
     \/ \E o \in Spare \cup {Null, Temporary} : SetScalar("owner", o)
     \/ \E i \in DOMAIN Get("lines"), v \in Val : EditLine(i, v)
     \/ \E i \in 1..Len(Get("lines")) + 1, v \in Val : Insert("lines", i, NewLine(v))
     \/ \E f \in Lists : \E id \in Spare, i \in 1..Len(Get(f)) + 1 :
          /\ \A k \in DOMAIN Get(f) : Get(f)[k].id # id
          /\ Insert(f, i, Target(id, <<>>))
     \/ \E f \in Lists : \E i \in DOMAIN Get(f) : Drop(f, i)
     \/ \E i \in DOMAIN Get("lines") : RemoveLine(i)
     \/ \E i \in DOMAIN Get("tags") : DeleteTag(i)
     \/ Reorder
Next ==
  \/ \E sent \in SUBSET DOMAIN Stored : Ask(sent)
  \/ Method
  \/ Answer
  \/ \E i \in DOMAIN form.lines : \E v \in Val : Edit([form.lines EXCEPT ![i].v = v])
  \/ \E i \in DOMAIN form.lines : Edit(RemoveAt(form.lines, i))
  \/ \E v \in Val : Edit(Append(form.lines, [id |-> NewId, v |-> v]))
Spec == Init /\ [][Next]_formVars

(* -------------------------------- properties -------------------------------- *)
\* What there was keeps its order.
KeepsOrder(f) ==
  LET targets == inst.values[f]
      before == IF f \in DOMAIN inst.init THEN inst.init[f] ELSE Saved(f)
      place(id) == CHOOSE k \in DOMAIN before : before[k].id = id
      kept(i) == targets[i].id \in Previous(f)
  IN  \A i, j \in DOMAIN targets :
        kept(i) /\ kept(j) /\ i < j => place(targets[i].id) < place(targets[j].id)
ListShows(list, targets) ==
  /\ Len(list) = Len(targets)
  /\ \A i \in DOMAIN targets :
       /\ IF targets[i].id = NoId THEN list[i].id < 0 ELSE list[i].id = targets[i].id
       /\ list[i].v = IF "v" \in DOMAIN targets[i].values THEN targets[i].values.v
                                                           ELSE StoredV(targets[i].id)
FieldShows(f, shown) ==
  CASE f \in Lists -> KeepsOrder(f) => ListShows(shown[f], inst.values[f])
    [] f = "owner" /\ inst.values[f] = Temporary -> shown[f] = form[f]
    [] OTHER -> shown[f] = inst.values[f]
\* After an answer the form shows the instance as the methods have left it: the
\* lines in their order, with their values, the new ones included, and the other
\* fields as they were.
FormShowsInstance ==
  [][inst # NoRequest /\ inst' = NoRequest =>
       \A f \in DOMAIN form :
         IF f \in DOMAIN inst.values THEN FieldShows(f, form') ELSE form'[f] = form[f]]_formVars
==============================================================================
