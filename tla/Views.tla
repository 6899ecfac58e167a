--------------------------------- MODULE Views ---------------------------------
(* The view a user gets of a model: the view of one module, extended by those of  *)
(* others (ir/ui/view.py), without what the user may not read, with the fields    *)
(* the client needs (model/modelview.py), and the caches of both.                *)
EXTENDS Naturals, Sequences, FiniteSets, SequencesExt
CONSTANTS
  Fields,      \* name -> what the field is: see TypeOK
  Buttons,     \* name -> the fields its states depend on
  Base,        \* type of view -> its elements
  Contents,    \* extension -> what it may contain
  Rank,        \* extension -> how many modules are loaded before its own
  Changeable,  \* the fields and models of which the rights change
  MaxChanges   \* bound: changes of views and rights
VARIABLES
  type,        \* the type of the view: "form", "tree" or "editable tree"
  content,     \* extension -> what it contains
  denied,      \* fields that may not be read (ir.model.field.access)
  locked,      \* fields that may not be written
  closed,      \* models that may not be read (ir.model.access)
  guarded,     \* buttons for groups the user is not in
  width,       \* the user's widths of columns
  extended,    \* _view_get_cache: <<the extended view>>, or NotCached
  cached,      \* _fields_view_get_cache: <<the answer>>, or NotCached
  shown,       \* <<the last answer>>, or NotCached after a change
  changes
configVars == <<content, denied, locked, closed, guarded, width>>
viewVars == <<type, configVars, extended, cached, shown, changes>>

NotCached == <<>>
Element(tag, name, kids) == [tag |-> tag, name |-> name, kids |-> kids]
Failed == Element("AssertionError", "", <<>>)
Names == DOMAIN Fields

Init ==
  /\ type \in DOMAIN Base
  /\ content \in [DOMAIN Contents -> UNION {c : c \in {Contents[e] : e \in DOMAIN Contents}}]
  /\ \A e \in DOMAIN Contents : content[e] \in Contents[e]
  /\ denied = {} /\ locked = {} /\ closed = {} /\ guarded = {} /\ width = {}
  /\ extended = NotCached /\ cached = NotCached /\ shown = NotCached /\ changes = 0

(* ------------------------------- inheritance -------------------------------- *)
RECURSIVE Elements(_)
Elements(element) == {<<element.tag, element.name>>} \cup UNION {Elements(k) : k \in Range(element.kids)}

RECURSIVE Matches(_, _)
Matches(element, at) ==
  FoldLeft(LAMBDA n, kid : n + Matches(kid, at),
           IF <<element.tag, element.name>> = at THEN 1 ELSE 0, element.kids)

\* The element as it is after the extension e, of which it holds one match: what
\* stands in its place.
RECURSIVE Placed(_, _)
Placed(element, e) ==
  LET kids == FlattenSeq([i \in 1..Len(element.kids) |-> Placed(element.kids[i], e)])
      same == [element EXCEPT !.kids = kids]
  IN  CASE <<element.tag, element.name>> # e.at -> <<same>>
        [] e.position = "inside" -> <<[element EXCEPT !.kids = kids \o e.kids]>>
        [] e.position = "after" -> <<same>> \o e.kids
        [] e.position = "before" -> e.kids \o <<same>>
        [] e.position = "replace" -> e.kids
        [] e.position = "replace_attributes" -> <<[same EXCEPT !.name = e.kids[1].name]>>
\* An expression that finds nothing is refused, and so is what is put beside the root.
\* Left out, and refused here: an expression that finds several elements (only the
\* first would get the new ones, which move) and a root that is replaced.
Inherit(tree, e) ==
  IF \/ tree = Failed \/ Matches(tree, e.at) # 1
     \/ e.at = <<tree.tag, tree.name>> /\ e.position \in {"before", "after", "replace"}
  THEN Failed ELSE Placed(tree, e)[1]

\* The extensions in the order of the modules.
InOrder ==
  SetToSortSeq(DOMAIN content, LAMBDA v, w : Rank[v] < Rank[w] \/ (Rank[v] = Rank[w] /\ v < w))
Extended(order) ==
  FoldLeft(LAMBDA tree, v : FoldLeft(Inherit, tree, content[v]), Base[type], order)
ViewGet == Extended(InOrder)

(* ----------------------------- what is not shown ----------------------------- *)
RECURSIVE WithDependents(_)
WithDependents(S) ==
  LET more == S \cup {f \in Names : Fields[f].depends \cap S # {}}
  IN  IF more = S THEN S ELSE WithDependents(more)
ToRemove == WithDependents(denied \cup {f \in Names : Fields[f].target \in closed})
ButtonsToRemove == {b \in DOMAIN Buttons : Buttons[b] \cap ToRemove # {}}
Removed(element) ==
  IF element.tag = "button" THEN element.name \in ButtonsToRemove
                            ELSE element.name \in ToRemove
\* A form keeps the place of what is not shown, with nothing in it but its children.
RECURSIVE Stripped(_)
Stripped(element) ==
  LET kids == FlattenSeq([i \in 1..Len(element.kids) |-> Stripped(element.kids[i])])
  IN  CASE ~Removed(element) -> <<[element EXCEPT !.kids = kids]>>
        [] type # "form" \/ element.tag = "page" -> <<>>
        [] OTHER -> <<Element("label", "", kids)>>
RECURSIVE WithoutEmptyPages(_)
WithoutEmptyPages(element) ==
  [element EXCEPT !.kids =
     FlattenSeq([i \in 1..Len(@) |-> IF @[i].tag = "page" /\ @[i].kids = <<>> THEN <<>>
                                     ELSE <<WithoutEmptyPages(@[i])>>])]
Arch(tree) == IF type = "form" THEN WithoutEmptyPages(Stripped(tree)[1]) ELSE Stripped(tree)[1]

(* ------------------------------ what it needs -------------------------------- *)
ReadOnlyView == type = "tree"
Depends(f) == Fields[f].depends \cup Fields[f].shown \cup (IF ReadOnlyView THEN {} ELSE Fields[f].edited)
RECURSIVE WithDepends(_)
WithDepends(S) == LET more == S \cup UNION {Depends(f) : f \in S}
                  IN  IF more = S THEN S ELSE WithDepends(more)
Needed(arch) ==
  LET buttons == {e[2] : e \in {e \in Elements(arch) : e[1] = "button"}}
  IN  WithDepends(({e[2] : e \in Elements(arch)} \cup UNION {Buttons[b] : b \in buttons} \cup {"active"})
                    \cap Names)
\* The buttons of other groups, and the widths that the user has set.
Off(arch) == {b \in DOMAIN Buttons : <<"button", b>> \in Elements(arch) /\ b \in guarded}
Widths(arch) == IF type = "form" THEN {} ELSE {w \in width : <<"field", w[1]>> \in Elements(arch)}
Answer(tree) ==
  LET arch == Arch(tree)
  IN  [arch |-> arch, fields |-> Needed(arch), readonly |-> Needed(arch) \cap locked,
       off |-> Off(arch), width |-> Widths(arch)]

(* --------------------------------- actions ---------------------------------- *)
\* fields_view_get: by the cache, or by that of view_get.
FieldsViewGet ==
  /\ shown = NotCached
  /\ IF cached # NotCached THEN shown' = cached /\ UNCHANGED <<extended, cached>>
     ELSE LET tree == IF extended # NotCached THEN extended[1] ELSE ViewGet
          IN  /\ tree # Failed
              /\ shown' = <<Answer(tree)>> /\ cached' = shown' /\ extended' = <<tree>>
  /\ UNCHANGED <<type, configVars, changes>>

Changes == changes < MaxChanges /\ changes' = changes + 1 /\ shown' = NotCached /\ UNCHANGED type
ClearFields == cached' = NotCached /\ UNCHANGED extended
ClearViews == cached' = NotCached /\ extended' = NotCached
Toggled(S, x) == IF x \in S THEN S \ {x} ELSE S \cup {x}

\* create, write and delete of ir.ui.view.
WriteView(e) ==
  /\ Changes /\ ClearViews
  /\ \E c \in Contents[e] : c # content[e] /\ content' = [content EXCEPT ![e] = c]
  /\ UNCHANGED <<denied, locked, closed, guarded, width>>
\* The rights change and the views are kept.
WriteFieldAccessUncleared ==
  /\ Changes /\ UNCHANGED <<cached, extended>>
  /\ \E f \in Changeable \cap Names :
       \/ denied' = Toggled(denied, f) /\ UNCHANGED locked
       \/ locked' = Toggled(locked, f) /\ UNCHANGED denied
  /\ UNCHANGED <<content, closed, guarded, width>>
\* Those of ir.model.field.access, ir.model.access.
WriteFieldAccess ==
  /\ Changes /\ ClearFields
  /\ \E f \in Changeable \cap Names :
       \/ denied' = Toggled(denied, f) /\ UNCHANGED locked
       \/ locked' = Toggled(locked, f) /\ UNCHANGED denied
  /\ UNCHANGED <<content, closed, guarded, width>>
WriteAccess ==
  /\ Changes /\ ClearFields
  /\ \E m \in Changeable \ Names : closed' = Toggled(closed, m)
  /\ UNCHANGED <<content, denied, locked, guarded, width>>
\* The caches of the buttons are cleared, but not those of the views.
WriteButton ==
  /\ Changes /\ UNCHANGED <<extended, cached>>
  /\ \E b \in DOMAIN Buttons : guarded' = Toggled(guarded, b)
  /\ UNCHANGED <<content, denied, locked, closed, width>>
\* set_width: the records of the user are replaced.
SetWidth ==
  /\ Changes /\ ClearFields
  /\ \E f \in Changeable \cap Names, n \in 1..2 : width' = {w \in width : w[1] # f} \cup {<<f, n>>}
  /\ UNCHANGED <<content, denied, locked, closed, guarded>>
Next ==
  \/ FieldsViewGet \/ \E e \in DOMAIN Contents : WriteView(e)
  \/ WriteFieldAccess \/ WriteAccess \/ WriteButton \/ SetWidth
Spec == Init /\ [][Next]_viewVars

(* -------------------------------- properties -------------------------------- *)
TypeOK ==
  /\ \A f \in Names : {"target", "depends", "shown", "edited"} = DOMAIN Fields[f]
  /\ denied \subseteq Names /\ locked \subseteq Names /\ changes \in 0..MaxChanges
\* What may be read, field by field; on what it depends is for the programmer to say.
RECURSIVE Readable(_)
Readable(f) == /\ f \notin denied /\ Fields[f].target \notin closed
               /\ \A g \in Fields[f].depends : Readable(g)
Named(arch) == {e[2] : e \in {e \in Elements(arch) : e[1] = "field"}}
\* The modules extend the view one after the other; what a user is given is that of
\* the views and the rights there are (but for the groups of the buttons), shows the
\* fields that can be read and no others, and has the fields that what it shows depends
\* on; of those that cannot be read only what a state tests (fields_view_get,
\* parse_view, view_get).
ScreenAgrees ==
  /\ ViewGet # Failed
  /\ shown # NotCached =>
       LET now == Answer(ViewGet)
           fields == shown[1].fields
       IN  /\ shown[1] = [now EXCEPT !.off = shown[1].off]
           /\ Named(now.arch) = {f \in Named(ViewGet) : Readable(f)}
           /\ \A f \in fields : Fields[f].shown \subseteq fields
           /\ \A f \in fields : Readable(f) \/ f = "active"
                               \/ \E g \in fields : f \in (Fields[g].shown \cup Fields[g].edited)
==============================================================================
