---------------------------- MODULE DomainInversion ----------------------------
(* The algebra of domains (tools/domain_inversion.py) and what the validation   *)
(* of a record reports with it (model/modelstorage.py).  A domain is a leaf, a  *)
(* mark or a list, as in the source; a value is a natural number or Null.       *)
EXTENDS Integers, Sequences, SequencesExt, FiniteSets, Functions
CONSTANTS
  Fields,       \* the fields, in the order of their names
  Val,          \* their values
  Leaves,       \* the leaves of the domains, as [field, op, value]
  Inner, Outer  \* bounds: elements of a domain, and of one in another
VARIABLES
  domain,       \* the domain
  report        \* what a validation told: [field, part, env], or nothing
domainVars == <<domain, report>>

Null == -1
Field == ToSet(Fields)
Env == [Field -> Val \cup {Null}]
Leaf(l) == [k |-> "leaf", field |-> l[1], op |-> l[2], value |-> l[3]]
Mark(m) == [k |-> "mark", mark |-> m]
Node(seq) == [k |-> "list", parts |-> seq]

(* -------------------------------- evaluation -------------------------------- *)
BoolOperator(parts) ==
  IF parts # <<>> /\ Head(parts).k = "mark" THEN Head(parts).mark ELSE "AND"
\* What is compared with nothing is false, but for equality.
EvalLeaf(leaf, context) ==
  LET a == context[leaf.field]  b == leaf.value
  IN CASE leaf.op = "=" -> a = b
       [] leaf.op = "!=" -> a # b
       [] leaf.op = "<" -> a # Null /\ b # Null /\ a < b
\* eval_domain
RECURSIVE EvalDomain(_, _)
EvalDomain(d, context) ==
  IF d.k = "leaf" THEN EvalLeaf(d, context)
  ELSE LET op == BoolOperator(d.parts)
           parts == {d.parts[i] : i \in {j \in DOMAIN d.parts : d.parts[j].k # "mark"}}
       IN IF op = "OR" THEN \E part \in parts : EvalDomain(part, context)
          ELSE \A part \in parts : EvalDomain(part, context)

(* ------------------------------ simplification ------------------------------ *)
RECURSIVE SimplifyNested(_)
SimplifyNested(d) ==
  IF d.k # "list" THEN <<d>>
  ELSE IF Len(d.parts) = 1 THEN SimplifyNested(d.parts[1])
  ELSE LET Extend(simplified, branch) ==
             LET nested == SimplifyNested(branch)
             IN IF BoolOperator(nested) # BoolOperator(d.parts) /\ Len(nested) # 1
                THEN Append(simplified, Node(nested))
                ELSE IF simplified # <<>> /\ nested # <<>> /\ Head(nested).k = "mark"
                THEN simplified \o Tail(nested) ELSE simplified \o nested
       IN FoldLeft(Extend, <<>>, d.parts)
\* simplify_duplicate: each branch once; an empty one is dropped, or makes an OR empty.
Dedup(branches, marked, op) ==
  LET kept == FoldLeft(LAMBDA seen, b : IF b \in ToSet(seen) THEN seen ELSE Append(seen, b),
                       <<>>, SelectSeq(branches, LAMBDA b : b.parts # <<>>))
  IN IF op = "OR" /\ Node(<<>>) \in ToSet(branches) THEN <<>>
     ELSE IF marked /\ Len(kept) > 1 THEN <<Mark(op)>> \o kept ELSE kept
RECURSIVE Simplify(_)
Simplify(d) ==
  IF d.k = "leaf" THEN <<d>>
  ELSE IF d.parts = <<>> THEN <<>>
  ELSE LET marked == Head(d.parts).k = "mark"
           rest == IF marked THEN Tail(d.parts) ELSE d.parts
           branches == [i \in DOMAIN rest |-> Node(Simplify(rest[i]))]
       IN SimplifyNested(Node(Dedup(branches, marked, BoolOperator(d.parts))))

Flatten(seqs) == FoldLeft(\o, <<>>, seqs)
\* merge: nested lists of the same operator become one.
RECURSIVE Merge(_, _)
Merge(d, operator) ==
  IF d.k = "mark" THEN <<>>
  ELSE IF d.k = "leaf" THEN <<d>>
  ELSE IF d.parts = <<>> THEN <<>>
  ELSE LET type == BoolOperator(d.parts)
           merged == Flatten([i \in DOMAIN d.parts |-> Merge(d.parts[i], type)])
       IN IF operator = "none" THEN <<Mark(type)>> \o merged
          ELSE IF type = operator THEN merged
          ELSE <<Node(<<Mark(type)>> \o merged)>>
Concat(d, e, operator) == Node(Simplify(Node(Merge(Node(<<Mark(operator), d, e>>), "none"))))

(* --------------------------------- inversion -------------------------------- *)
RECURSIVE Variables(_)
Variables(d) == CASE d.k = "leaf" -> {d.field}
                  [] d.k = "mark" -> {}
                  [] d.k = "list" -> UNION {Variables(d.parts[i]) : i \in DOMAIN d.parts}
Yes == [k |-> "bool", is |-> TRUE]
No == [k |-> "bool", is |-> FALSE]
OtherLeafUnknown(leaf, context, op) ==
  IF leaf.field \notin DOMAIN context THEN No
  ELSE IF EvalLeaf(leaf, context) \/ (op = "AND" /\ leaf.op = "=") THEN Yes ELSE No
\* A leaf on another field: an equality is left to the inversion for that field.
OtherLeaf(leaf, context, op) ==
  IF leaf.field \notin DOMAIN context THEN IF op = "AND" THEN Yes ELSE No
  ELSE IF EvalLeaf(leaf, context) \/ (op = "AND" /\ leaf.op = "=") THEN Yes ELSE No
\* And.inverse and Or.inverse: what the domain says of one field where the context
\* has the values of others.
RECURSIVE InverseOf(_, _, _)
InverseOf(d, symbol, context) ==
  LET op == BoolOperator(d.parts)
      Part(part) ==
        IF part.k = "list" THEN IF symbol \in Variables(part) \/ op = "OR"
                                THEN InverseOf(part, symbol, context) ELSE Yes
        ELSE IF part.field = symbol THEN part ELSE OtherLeaf(part, context, op)
      branches == SelectSeq(d.parts, LAMBDA p : p.k # "mark")
      inverses == [i \in DOMAIN branches |-> Part(branches[i])]
      asked == SelectSeq(inverses, LAMBDA i : i.k # "bool")
  IN IF op = "OR" /\ ~(Variables(d) \ {symbol} \subseteq DOMAIN context) THEN Yes
     ELSE IF op = "OR"
     THEN IF Yes \in ToSet(inverses) THEN Yes
          ELSE IF asked = <<>> THEN No ELSE Node(Simplify(Node(<<Mark("OR")>> \o asked)))
     ELSE IF No \in ToSet(inverses) THEN No
          ELSE IF asked = <<>> THEN Yes ELSE Node(Simplify(Node(asked)))
DomainInversion(d, symbol, context) ==
  IF symbol \notin Variables(d) THEN Yes ELSE InverseOf(d, symbol, context)
Admits(inverse, env) == IF inverse.k = "bool" THEN inverse.is ELSE EvalDomain(inverse, env)

(* --------------------------------- validation ------------------------------- *)
\* validate_relation_domain for a record that is not in the domain.  Its
\* EvalEnvironment gives the values, but as a dictionary it is empty.
Unknown == [f \in {} |-> Null]
Invalid(env) ==
  LET named == SelectSeq(Fields, LAMBDA f : f \in Variables(domain))
      Inv(f) == DomainInversion(domain, f, Unknown)
      blamed == SelectSeq(named, LAMBDA f :
                            Inv(f).k # "bool" /\ (Len(named) = 1 \/ ~EvalDomain(Inv(f), env)))
  IN /\ report = <<>> /\ ~EvalDomain(domain, env)
     /\ report' = IF blamed = <<>> THEN [field |-> "any", part |-> domain, env |-> env]
                  ELSE [field |-> blamed[1], part |-> Inv(blamed[1]), env |-> env]
     /\ UNCHANGED domain

Lists(parts, marks, n) ==
  {Node(m \o s) : m \in {<<>>} \cup {<<Mark(x)>> : x \in marks},
                  s \in UNION {[1..i -> parts] : i \in 1..n}}
Parts == {Leaf(l) : l \in Leaves}
Domains == Lists(Parts \cup {Node(<<>>)} \cup Lists(Parts, {"OR"}, Inner), {"OR", "AND"}, Outer)
Init == domain \in Domains /\ report = <<>>
Next == \E env \in Env : Invalid(env)
Spec == Init /\ [][Next]_domainVars

(* -------------------------------- properties ------------------------------- *)
\* To simplify a domain, or to merge it with another, does not change the records
\* that it selects (merge is not made for domains with an empty one in them).
MeaningKept ==
  report = <<>> =>
    LET merges == Node(<<>>) \notin ToSet(domain.parts)
        simple == Node(Simplify(domain))
        merged == Node(Merge(domain, "none"))
        either == [part \in Parts |-> Concat(domain, part, "OR")]
        both == [part \in Parts |-> Concat(domain, part, "AND")]
    IN \A env \in Env :
         LET is == EvalDomain(domain, env)
         IN /\ EvalDomain(simple, env) = is
            /\ merges =>
                 /\ EvalDomain(merged, env) = is
                 /\ \A part \in Parts :
                      /\ EvalDomain(either[part], env) = (is \/ EvalDomain(part, env))
                      /\ EvalDomain(both[part], env) = (is /\ EvalDomain(part, env))
\* The inversion for a field never excludes a value with which the domain is true,
\* whatever is known of the other fields; so what a validation reports is broken by
\* the record, and kept by every value of that field that would make it valid.
InversionSound ==
  IF report # <<>> THEN ~EvalDomain(report.part, report.env)
  ELSE LET true == {env \in Env : EvalDomain(domain, env)}
       IN \A symbol \in Field : \A known \in SUBSET (Field \ {symbol}) :
            \A context \in {Restrict(env, known) : env \in true} :
              LET inverse == DomainInversion(domain, symbol, context)
              IN \A env \in true : Restrict(env, known) = context => Admits(inverse, env)
================================================================================
