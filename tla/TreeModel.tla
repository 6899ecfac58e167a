------------------------------ MODULE TreeModel ------------------------------
(* A model with the tree mixin (model/tree.py) whose parent field keeps both a *)
(* path and the left and right numbers of a nested set (model/modelsql.py).    *)
(* The three expressions of "child_of" of fields/many2one.py select by one of  *)
(* them or by following the parents; a search must not depend on which.        *)
EXTENDS Integers, Sequences, FiniteSets, TLC, SequencesExt, FiniteSetsExt, Functions
CONSTANTS
  Node,        \* ids, 1..n: the records that may be created
  NoNode,      \* the parent of a root
  Batch,       \* ids written or deleted by one call, at most
  MaxWrites,   \* bound: calls that modify the table
  OnDelete     \* "SET NULL" or "CASCADE", ondelete of the parent field
VARIABLES
  tree,        \* the table: id -> [parent, left, right, path]
  ended,       \* how the last call ended: "ok", "RecursionError" or "never"
  last,        \* the last id given
  writes       \* calls so far
vars == <<tree, ended, last, writes>>

Ids(t) == DOMAIN t
Sorted(S) == SetToSortSeq(S, <)
Children(t, p) == {i \in Ids(t) : t[i].parent = p}
Init == tree = [i \in {} |-> <<>>] /\ ended = "ok" /\ last = 0 /\ writes = 0

(* ------------------------------ nested sets ------------------------------- *)
\* The largest right of the roots, the new root's own included.
MaxRight(t) == Max({t[i].right : i \in Children(t, NoNode)})
Numbered(t, i) ==
  IF t[i].left = 0 /\ t[i].right = 0
  THEN [t EXCEPT ![i].left = MaxRight(t) + 1, ![i].right = MaxRight(t) + 2]
  ELSE t
ShiftPast(t, bound, size) ==
  [j \in Ids(t) |-> [t[j] EXCEPT !.left = IF @ > bound THEN @ + size ELSE @,
                                 !.right = IF @ > bound THEN @ + size ELSE @]]
Shift(t, bound, size) ==
  [j \in Ids(t) |-> [t[j] EXCEPT !.left = IF @ >= bound THEN @ + size ELSE @,
                                 !.right = IF @ >= bound THEN @ + size ELSE @]]
Slide(t, low, high, delta) ==
  [j \in Ids(t) |-> IF t[j].left >= low /\ t[j].right <= high
                    THEN [t[j] EXCEPT !.left = @ + delta, !.right = @ + delta]
                    ELSE t[j]]
UpdateTree(t0, i) ==
  IF i \notin Ids(t0) THEN t0
  ELSE LET t == Numbered(t0, i)
           l == t[i].left
           r == t[i].right
           size == r - l + 1
           bound == IF t[i].parent = NoNode THEN MaxRight(t) + 1
                                            ELSE t[t[i].parent].right
           wide == Shift(t, bound, size)
       IN IF l < bound THEN Slide(wide, l, r, bound - l)
                       ELSE Slide(wide, l + size, r + size, bound - l - size)
RECURSIVE Rebuilt(_, _, _)
Rebuilt(t, p, l) ==
  LET Visit(acc, child) == Rebuilt(acc.t, child, acc.right)
      done == FoldLeft(Visit, [t |-> t, right |-> l + 1], Sorted(Children(t, p)))
  IN [t |-> IF p = NoNode THEN done.t
            ELSE [done.t EXCEPT ![p].left = l, ![p].right = done.right],
      right |-> done.right + 1]
\* Four ids or more may rebuild the whole tree: count() is only an estimate.
UpdatesMptt(t, ids) ==
  {FoldLeft(UpdateTree, t, ids)}
    \cup IF Len(ids) < 4 THEN {} ELSE {Rebuilt(t, NoNode, 0).t}

(* ---------------------------------- paths ---------------------------------- *)
NewPath(t, i) == (IF t[i].parent = NoNode THEN <<>> ELSE t[t[i].parent].path) \o <<i>>
SetPath(t, ids) == [i \in Ids(t) |-> IF i \in ToSet(ids)
                                     THEN [t[i] EXCEPT !.path = NewPath(t, i)] ELSE t[i]]
Alone(t, old, new) ==
  [j \in Ids(t) |-> IF t[j].path = old THEN [t[j] EXCEPT !.path = new] ELSE t[j]]
Below(t, old, new) ==
  [j \in Ids(t) |->
     IF IsPrefix(old, t[j].path)
     THEN [t[j] EXCEPT !.path = new \o SubSeq(@, Len(old) + 1, Len(@))] ELSE t[j]]
\* One pass: the rows are read before the first of them is updated, and the pass
\* is given up at a row whose old path is below one that it has updated.
PathPass(t, ids) ==
  LET Row(acc, i) ==
        LET old == t[i].path
            new == NewPath(t, i)
        IN IF ~acc.done \/ old = new THEN acc
           ELSE IF \E p \in acc.updated : IsPrefix(p, old)
                THEN [acc EXCEPT !.done = FALSE]
                ELSE [t |-> Below(acc.t, old, new), done |-> TRUE,
                      updated |-> acc.updated \cup {old}]
  IN FoldLeft(Row, [t |-> t, done |-> TRUE, updated |-> {}], ids)
\* Passes are repeated until one is complete; each moves one row more to its
\* place, so more passes than rows means that they never end.
RECURSIVE UpdatePath(_, _, _)
UpdatePath(t, ids, fuel) ==
  LET pass == PathPass(t, ids)
  IN IF pass.done THEN [t |-> pass.t, ends |-> TRUE]
     ELSE IF fuel = 0 THEN [t |-> pass.t, ends |-> FALSE]
     ELSE UpdatePath(pass.t, ids, fuel - 1)

(* ----------------------------- recursion check ----------------------------- *)
RECURSIVE Walk(_, _, _, _)
Walk(t, i, walker, fuel) ==
  IF walker = NoNode THEN "ok"
  ELSE IF walker = i THEN "RecursionError"
  ELSE IF fuel = 0 THEN "never"
  ELSE Walk(t, i, t[walker].parent, fuel - 1)
CheckFirst(t, ids) == Walk(t, ids[1], t[ids[1]].parent, Cardinality(Ids(t)))
\* The records are walked in turn and the first that does not come to a root
\* decides.  (The "visited" ids never stop a walk: it looks a record up in them.)
CheckRecursion(t, ids) ==
  LET Next1(acc, i) == IF acc # "ok" THEN acc
                       ELSE Walk(t, i, t[i].parent, Cardinality(Ids(t)))
  IN FoldLeft(Next1, "ok", ids)

(* --------------------------------- methods --------------------------------- *)
Committed(t) == tree' = t /\ ended' = "ok"
Failed(how) == tree' = tree /\ ended' = how
MayWrite == ended # "never" /\ writes < MaxWrites /\ writes' = writes + 1

\* ModelSQL.create: path, then nested set, then the validation.
Create(parents) ==
  LET new == [k \in 1..Len(parents) |-> last + k]
      inserted == tree @@ [i \in ToSet(new) |->
                             [parent |-> parents[i - last], left |-> 0, right |-> 0,
                              path |-> <<>>]]
  IN /\ MayWrite
     /\ ToSet(new) \subseteq Node
     /\ last' = last + Len(parents)
     /\ \E t \in UpdatesMptt(SetPath(inserted, new), new) :
          IF CheckRecursion(t, new) = "ok" THEN Committed(t)
                                           ELSE Failed(CheckRecursion(t, new))

\* ModelSQL.write of the parent of records: path, nested set, validation.
Write(t0, ids, p) ==
  LET moved == [i \in Ids(t0) |-> IF i \in ToSet(ids) THEN [t0[i] EXCEPT !.parent = p]
                                                      ELSE t0[i]]
      paths == UpdatePath(moved, ids, Cardinality(Node) + 1)
  IN IF ~paths.ends THEN {[t |-> t0, how |-> "never"]}
     ELSE {[t |-> t, how |-> CheckRecursion(t, ids)] : t \in UpdatesMptt(paths.t, ids)}
Move(ids, p) ==
  /\ MayWrite /\ UNCHANGED last
  /\ \E w \in Write(tree, ids, p) :
       IF w.how = "ok" THEN Committed(w.t) ELSE Failed(w.how)

\* ModelSQL.delete: the children are written without parent or deleted first,
\* and the nested set of those that are left is updated at the end.
RECURSIVE Delete(_, _)
Delete(t, S) ==
  LET children == {i \in Ids(t) : t[i].parent \in S}
      others == IF children \ S = {} /\ (OnDelete = "CASCADE" \/ children = {}) THEN {t}
                ELSE IF OnDelete = "CASCADE" THEN Delete(t, children \ S)
                ELSE {w.t : w \in Write(t, Sorted(children), NoNode)}
  IN UNION {UpdatesMptt(Restrict(o, Ids(o) \ S), Sorted(children)) : o \in others}
Unlink(S) == MayWrite /\ UNCHANGED last /\ \E t \in Delete(tree, S) : Committed(t)

Next ==
  \/ \E k \in 1..Cardinality(Node) :
       \E parents \in [1..k -> Ids(tree) \cup {NoNode}] : Create(parents)
  \/ \E S \in SUBSET Ids(tree) \ {{}} : \E p \in Ids(tree) \cup {NoNode} :
       Cardinality(S) <= Batch /\ Move(Sorted(S), p)
  \/ \E S \in SUBSET Ids(tree) \ {{}} : Cardinality(S) <= Batch /\ Unlink(S)
Spec == Init /\ [][Next]_vars

(* -------------------------------- properties ------------------------------- *)
\* The reference: a record and those reached by following the parents down
\* (convert_domain_tree).
RECURSIVE ChildOf(_, _)
ChildOf(t, S) == LET more == S \cup {i \in Ids(t) : t[i].parent \in S}
                 IN IF more = S THEN S ELSE ChildOf(t, more)
\* convert_domain_mptt and convert_domain_path.
MpttChildOf(t, i) == {j \in Ids(t) : t[j].left >= t[i].left /\ t[j].right <= t[i].right}
MpttParentOf(t, i) == {j \in Ids(t) : t[j].left <= t[i].left /\ t[j].right >= t[i].right}
PathChildOf(t, i) == {j \in Ids(t) : IsPrefix(t[i].path, t[j].path)}
PathParentOf(t, i) == ToSet(t[i].path)

\* After any sequence of creations, moves and deletions of one or of several
\* records, a search with child_of or parent_of by the nested set, or by the paths,
\* selects the records it would select by following the parents.
ChildOfAgrees ==
  \A i \in Ids(tree) :
    LET below == ChildOf(tree, {i})
        above == {j \in Ids(tree) : i \in ChildOf(tree, {j})}
    IN /\ MpttChildOf(tree, i) = below /\ MpttParentOf(tree, i) = above
       /\ PathChildOf(tree, i) = below /\ PathParentOf(tree, i) = above
\* A write that would make a recursion is answered with RecursionError.
RecursionAnswered == ended # "never"
==============================================================================
