----------------------------- MODULE DomainSearch -----------------------------
(* How search makes SQL of a domain (model/modelsql.py, model/modelstorage.py     *)
(* and model/fields): active records only, fields of other models by subquery or  *)
(* join, the rules of the user, a UNION for an OR of other models' fields.        *)
(* SQL has three truth values, and a record is found when its clause is True.     *)
EXTENDS Naturals, Sequences, FiniteSets, SequencesExt, FiniteSetsExt
CONSTANTS
  Records,    \* records: x, active, to (a target or NoTarget), its lines and links
  Targets,    \* the targets of the relations: id, x, active
  Starts,     \* the clauses a domain begins with
  Clauses,    \* the clauses that are put beside them
  Rules,      \* the domains of the rules of users
  MaxClauses  \* bound: clauses of a domain
VARIABLES
  domain,     \* what is searched
  joined      \* target_search of the many2one is 'join'
searchVars == <<domain, joined>>

Null == "null"
NoTarget == [id |-> Null, x |-> Null, active |-> Null]
\* What a clause compares with: one value, a set of them or a domain of the target.
Clause(field, sub, op, values) ==
  [field |-> field, sub |-> sub, op |-> op, values |-> values, where |-> <<>>, parts |-> <<>>]
Where(field, op, where) ==
  [field |-> field, sub |-> "", op |-> op, values |-> {}, where |-> where, parts |-> <<>>]
Node(op, parts) ==
  [field |-> "", sub |-> "", op |-> op, values |-> {}, where |-> <<>>, parts |-> parts]
IsLeaf(d) == d.field # ""
ActiveOnly == Clause("active", "", "=", {"true"})
AnyActive == Clause("active", "", "in", {"true", "false"})

(* ------------------------------- truth in SQL ------------------------------- *)
True == 2
Unknown == 1
False == 0
Truth(b) == IF b THEN True ELSE False
Not(t) == True - t
And(truths) == Min(truths \cup {True})
Or(truths) == Max(truths \cup {False})
In(value, set) ==
  IF set = {} THEN False
  ELSE IF value = Null THEN Unknown
  ELSE IF value \in set THEN True
  ELSE IF Null \in set THEN Unknown ELSE False

\* Null is compared with IS, and taken out of lists.
Compared(value, op, values) ==
  LET isNull == Truth(value = Null)
  IN  CASE op = "=" /\ values = {Null} -> isNull
        [] op = "!=" /\ values = {Null} -> Not(isNull)
        [] op = "=" -> In(value, values)
        [] op = "!=" -> Not(In(value, values))
        [] op = "in" -> Or({In(value, values \ {Null}), IF Null \in values THEN isNull ELSE False})
        [] op = "not in" ->
             And({Not(In(value, values \ {Null})), IF Null \in values THEN Not(isNull) ELSE True})

(* ------------------------- the domain of the search ------------------------- *)
RECURSIVE Reduced(_)
Reduced(d) ==
  IF IsLeaf(d) \/ d.parts = <<>> THEN d
  ELSE LET op == IF d.op = "" THEN "AND" ELSE d.op
           Parts(part) == IF ~IsLeaf(part) /\ part.parts # <<>> /\ Reduced(part).op = op
                            THEN Reduced(part).parts ELSE <<Reduced(part)>>
       IN  Node(op, FlattenSeq([i \in 1..Len(d.parts) |-> Parts(d.parts[i])]))

\* An OR is not wrapped but extended.
WithActiveInside(d) ==
  IF \E i \in 1..Len(d.parts) : d.parts[i].field = "active" THEN d
                                                 ELSE Node(d.op, Append(d.parts, ActiveOnly))
\* Each list in which active is not a clause of its own asks for active records.
RECURSIVE WithActive(_)
WithActive(d) ==
  LET parts == [i \in 1..Len(d.parts) |-> IF IsLeaf(d.parts[i]) THEN d.parts[i] ELSE WithActive(d.parts[i])]
  IN  IF \E i \in 1..Len(parts) : parts[i].field = "active" THEN Node(d.op, parts)
      ELSE IF parts # <<>> /\ d.op = "AND" THEN Node("AND", Append(parts, ActiveOnly))
      ELSE Node("AND", <<Node(d.op, parts), ActiveOnly>>)

(* -------------------------------- conversion -------------------------------- *)
\* On a target, whose fields are all its own.
RECURSIVE OfTarget(_, _)
OfTarget(t, d) ==
  IF IsLeaf(d) THEN Compared(t[d.field], d.op, d.values)
  ELSE LET parts == {OfTarget(t, p) : p \in Range(d.parts)}
       IN  IF d.op = "OR" /\ parts # {} THEN Or(parts) ELSE And(parts)
Selected(d) == {t \in Targets : OfTarget(t, d) = True}
Ids(targets) == {t.id : t \in targets}

\* A clause on the target is a subquery or is evaluated on the joined row, which is
\* of Nulls when there is no target.
Many2One(target, d, join) ==
  LET on == Node("AND", <<Clause(d.sub, "", d.op, d.values), AnyActive>>)
      where == Node("AND", d.where)
      found == In(target.id, Ids({t \in Selected(where) : t.id = target.id}))
  IN  CASE d.op = "where" -> found
        [] d.op = "not where" -> Not(found)
        [] d.sub = "" -> Compared(target.id, d.op, d.values)
        [] OTHER -> IF join THEN OfTarget(target, on) ELSE In(target.id, Ids(Selected(on)))

Negative(op) == op \in {"!=", "not in"}
\* The ids found in the column of the origin: of the lines that are selected, and of
\* all of them, where one without origin leaves a Null.
Origins(r, some) == (IF some THEN {"self"} ELSE {}) \cup (IF r.orphan THEN {Null} ELSE {})
ToMany(r, d, Meets(_), all) ==
  LET found == \E l \in all : Meets(l) = True
      in == In("self", {"other"} \cup (IF found THEN {"self"} ELSE {}))
      none == Not(In("self", {"other"} \cup Origins(r, all # {})))
  IN  CASE d.values = {Null} /\ d.sub = "" ->
             IF d.op = "=" THEN Truth(all = {}) ELSE Truth(all # {})
        [] d.op = "not where" -> Not(in)
        [] Negative(d.op) -> Or({in, none})
        [] OTHER -> in
One2Many(r, d) ==
  LET sub == IF d.sub = "" THEN "id" ELSE d.sub
      Meets(line) == IF d.op \in {"where", "not where"} THEN OfTarget(line, Node("AND", d.where))
                     ELSE Compared(line[sub], d.op, d.values)
  IN  ToMany(r, d, Meets, r.lines)
\* Through the many2one of the relation, with the inactive targets.
Many2Many(r, d) ==
  LET sub == IF d.sub = "" THEN "id" ELSE d.sub
      Meets(t) == IF d.op \in {"where", "not where"} THEN Many2One(t, [d EXCEPT !.op = "where"], FALSE)
                  ELSE Many2One(t, [d EXCEPT !.sub = sub], FALSE)
  IN  ToMany(r, d, Meets, r.links)

RECURSIVE Expression(_, _)
Expression(r, d) ==
  IF IsLeaf(d)
    THEN CASE d.field = "to" -> Many2One(r.to, d, joined)
           [] d.field = "lines" -> One2Many(r, d)
           [] d.field = "links" -> Many2Many(r, d)
           [] OTHER -> Compared(r[d.field], d.op, d.values)
    ELSE LET parts == {Expression(r, p) : p \in Range(d.parts)}
         IN  IF d.op = "OR" /\ parts # {} THEN Or(parts) ELSE And(parts)
RuleOf(r, rule) == Expression(r, Reduced(rule))

(* --------------------------------- the query -------------------------------- *)
\* A branch of the UNION that is a bare clause: the reduction goes into its list.
Corrupted(branch) == IsLeaf(branch) /\ branch.op \in {"in", "not in"}
BranchDomain(branch) == WithActive(IF IsLeaf(branch) THEN Node("AND", <<branch>>) ELSE Reduced(branch))

RECURSIVE Related(_)
Related(d) == IF IsLeaf(d) THEN d.sub # "" ELSE \E p \in Range(d.parts) : Related(p)
\* The clauses of an OR on other models apart, the others together.
Branches(d) ==
  LET local == SelectSeq(d.parts, LAMBDA p : ~Related(p) /\ (IsLeaf(p) \/ p.parts # <<>>))
  IN  SelectSeq(d.parts, Related) \o (IF local = <<>> THEN <<>> ELSE <<Node("OR", local)>>)
ByUnion(d, local) == d.op = "OR" /\ local /\ Related(d)
Fails(d, local) == ByUnion(d, local) /\ \E b \in Range(Branches(d)) : Corrupted(b)

\* What is asked of the table: one domain, or that of each query of the UNION.
Queries(d, local) ==
  IF ByUnion(d, local) THEN {BranchDomain(b) : b \in Range(Branches(d))}
                       ELSE {WithActive(Reduced(d))}

(* --------------------------------- actions ---------------------------------- *)
Init ==
  \E op \in {"", "AND", "OR"}, c \in Starts :
    /\ domain = Node(op, <<c>>)
    /\ joined \in IF c.field = "to" THEN BOOLEAN ELSE {FALSE}
RECURSIVE Size(_)
Size(d) == IF IsLeaf(d) THEN 1 ELSE FoldSeq(LAMBDA p, n : n + Size(p), 0, d.parts)
\* One more clause in the list, or the list in a list.
Extend(c) ==
  /\ Size(domain) < MaxClauses /\ domain' = [domain EXCEPT !.parts = Append(@, c)]
  /\ UNCHANGED joined
Enclose(op, c) ==
  /\ Size(domain) < MaxClauses /\ domain' = Node(op, <<domain, c>>)
  /\ UNCHANGED joined
Next ==
  \/ \E c \in Clauses : Extend(c)
  \/ \E c \in Clauses, op \in {"", "OR"} : Enclose(op, c)
Spec == Init /\ [][Next]_searchVars

(* -------------------------------- properties -------------------------------- *)
RECURSIVE Meets(_, _)
\* What a clause says of a record, in two values; what is Null is not different from a
\* value, and a negative clause on many records is met when there is none.
Says(value, op, values) ==
  CASE op \in {"=", "in"} -> value \in values
    [] op \in {"!=", "not in"} -> value \notin values /\ (value # Null \/ values = {Null})
OfMany(all, d) ==
  LET sub == IF d.sub = "" THEN "id" ELSE d.sub
  IN  CASE d.op = "where" -> \E l \in all : Meets(l, Node("AND", d.where))
        [] d.op = "not where" -> ~\E l \in all : Meets(l, Node("AND", d.where))
        [] d.values = {Null} /\ d.sub = "" -> (all = {}) = (d.op = "=")
        [] OTHER -> (\E l \in all : Says(l[sub], d.op, d.values)) \/ (Negative(d.op) /\ all = {})
Meets(r, d) ==
  CASE ~IsLeaf(d) -> IF d.op = "OR" /\ d.parts # <<>> THEN \E p \in Range(d.parts) : Meets(r, p)
                                                      ELSE \A p \in Range(d.parts) : Meets(r, p)
    [] d.field = "lines" -> OfMany(r.lines, d)
    [] d.field = "links" -> OfMany(r.links, d)
    [] d.field = "to" /\ (d.sub # "" \/ d.where # <<>>) -> OfMany({r.to} \ {NoTarget}, d)
                                     /\ (Negative(d.op) => r.to # NoTarget)
    [] d.field = "to" -> Says(r.to.id, d.op, d.values)
    [] OTHER -> Says(r[d.field], d.op, d.values)

RECURSIVE Clauses_(_)
Clauses_(d) == IF IsLeaf(d) THEN {d} ELSE UNION {Clauses_(p) : p \in Range(d.parts)}
AsksActive(d) == \E c \in Clauses_(d) : c.field = "active"
\* Active is asked for beside the other clauses, and there is no other list.
AsksBeside(d) == \A p \in Range(Reduced(d).parts) : IsLeaf(p)
\* There are lines without origin, and a clause that is negative about lines.
Astray(r, d) ==
  r.orphan /\ \E c \in Clauses_(d) : c.field \in {"lines", "links"} /\ Negative(c.op)

\* What an order has to do with it.
Orders(d) == IF ByUnion(d, TRUE) THEN BOOLEAN ELSE {FALSE}
\* A search finds the records that meet the domain and the rules of the user, and that
\* are active unless the domain is about active, whatever the order and the way to the
\* other models; where active is asked for in one list of several, or lines have lost
\* their origin, it may find less (search_domain, split_subquery_domain).
SearchAgrees ==
  \A local \in Orders(domain) : ~Fails(domain, local) =>
    LET queries == Queries(domain, local)
        any == AsksActive(domain)
        exact == any => AsksBeside(domain)
    IN  \A r \in Records :
          LET answers == {Expression(r, q) : q \in queries}
              meets == Meets(r, domain) /\ (any \/ r.active = "true")
          IN  \A rule \in Rules :
                LET found == \E answer \in answers : And({answer, RuleOf(r, rule)}) = True
                IN  /\ found => meets /\ Meets(r, rule)
                    /\ exact /\ ~Astray(r, domain) /\ meets /\ Meets(r, rule) => found
==============================================================================
