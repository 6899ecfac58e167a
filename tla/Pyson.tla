--------------------------------- MODULE Pyson ---------------------------------
(* The statements of the domain specific language of views and domains         *)
(* (pyson.py): they are typed when they are made and evaluated, by a client or   *)
(* by the server, from the innermost, in a context it knows nothing of then.    *)
(* A value is <<type, what>>: only what the operators look at is kept of it.    *)
EXTENDS Naturals, Sequences, FiniteSets, SequencesExt, FiniteSetsExt
CONSTANTS
  Leaves,     \* the statements to begin with
  Others,     \* those of them put beside a statement
  Stored,     \* name -> the values that a context may hold for it
  MaxDepth    \* bound: statements around a leaf
VARIABLES statement, depth
pysonVars == <<statement, depth>>

None == <<"none", 0>>
Failed == <<"error", 0>>
Bool(b) == <<"bool", b>>
IsValue(s) == s.op = "value"
Literal(v) == [op |-> "value", is |-> v, args |-> <<>>]
\* Eval(name, default); with a key, name is a record of the context.
Name(name, default) == [op |-> "Eval", name |-> name, key |-> "", args |-> <<default>>]
Dotted(name, key, default) == [op |-> "Eval", name |-> name, key |-> key, args |-> <<default>>]
Make(op, args) == [op |-> op, args |-> args]

(* ---------------------------------- types ----------------------------------- *)
Dates == {"date", "datetime"}
Tests == {"Not", "Bool", "And", "Or", "Equal", "Greater", "Less", "In"}
RECURSIVE Types(_)
Types(s) ==
  CASE IsValue(s) -> {s.is[1]}
    [] s.op \in Tests -> {"bool"}
    [] s.op = "Eval" -> Types(s.args[1])
    [] s.op = "Get" -> Types(s.args[3])
    [] s.op = "If" -> Types(s.args[2]) \cup Types(s.args[3])
    [] s.op = "Len" -> {"int"}
    [] s.op = "Date" -> {"date"}
    [] s.op = "DateTime" -> {"datetime"}
    [] s.op = "TimeDelta" -> {"timedelta"}
\* isinstance for what is written as it is, where a bool is an integer, and types()
\* for a statement.
Among(s, types) ==
  \/ Types(s) \subseteq types
  \/ IsValue(s) /\ s.is[1] = "bool" /\ "int" \in types

EqualTyped(s1, s2) == Types(s1) = Types(s2)
GreaterTyped(s1, s2) == \A s \in {s1, s2} : Among(s, {"int", "float", "none"} \cup Dates)
InTyped(k, v) ==
  /\ Among(k, {"str", "int"}) /\ Among(v, {"dict", "list"})
  /\ Types(v) = {"dict"} => Types(k) = {"str"}
GetTyped(v, k) == Types(v) = {"dict"} /\ Types(k) = {"str"}
LenTyped(v) == Among(v, {"dict", "list", "str"})
\* The parts of a date, and what is added to it.
DateTyped(parts) == \A s \in Range(parts) : Among(s, {"int", "none"})
\* For the parts of the time a statement has to be able to be both.
TimeTyped(parts) ==
  \A s \in Range(parts) : IF IsValue(s) THEN Among(s, {"int", "none"})
                                        ELSE Types(s) = {"int", "none"}
TimeDeltaTyped(days) == Among(days, {"int", "float"})

\* The assertions of the constructors.
RECURSIVE Constructed(_)
Constructed(s) ==
  /\ \A a \in Range(s.args) : Constructed(a)
  /\ CASE s.op = "Equal" -> EqualTyped(s.args[1], s.args[2])
       [] s.op \in {"Greater", "Less"} -> GreaterTyped(s.args[1], s.args[2])
       [] s.op = "In" -> InTyped(s.args[1], s.args[2])
       [] s.op = "Get" -> GetTyped(s.args[1], s.args[2])
       [] s.op = "Len" -> LenTyped(s.args[1])
       [] s.op = "Date" -> DateTyped(<<s.args[1]>>)
       [] s.op = "DateTime" -> DateTyped(<<s.args[1]>>) /\ TimeTyped(<<s.args[2]>>)
       [] s.op = "TimeDelta" -> TimeDeltaTyped(s.args[1])
       [] OTHER -> TRUE

(* -------------------------------- evaluation -------------------------------- *)
True(v) ==
  CASE v[1] = "bool" -> v[2]
    [] v[1] \in {"int", "timedelta"} -> v[2] # 0
    [] v[1] = "str" -> v[2] # ""
    [] v[1] \in {"dict", "list"} -> v[2] # {}
    [] v[1] = "none" -> FALSE
    [] OTHER -> TRUE
\* A dictionary is its set of pairs, a list its set of items; a day has 24 hours.
Item(v, key, default) ==
  LET found == {p \in v[2] : p[1] = key} IN IF found = {} THEN default ELSE (CHOOSE p \in found : TRUE)[2]
Number(v) == CASE v[1] = "bool" -> (IF v[2] THEN 1 ELSE 0)
               [] v[1] = "date" -> 24 * v[2]
               [] OTHER -> v[2]
IsNumber(v) == v[1] \in {"bool", "int"}
\* Python's ==, in which True is 1.
Same(v, w) == v = w \/ (IsNumber(v) /\ IsNumber(w) /\ Number(v) = Number(w))

EvalValue(s, context, default) ==
  LET base == IF s.name \in DOMAIN context THEN context[s.name] ELSE None
  IN  IF s.key # "" THEN (IF True(base) THEN Item(base, s.key, default) ELSE default)
      ELSE IF s.name \in DOMAIN context THEN base ELSE default
EqualValue(v, w) == Bool(Same(v, w))
Compared(v, w, Holds(_, _)) ==
  IF None \in {v, w} THEN Bool(FALSE)
  ELSE IF \A x \in {v, w} : IsNumber(x) \/ x[1] \in Dates THEN Bool(Holds(Number(v), Number(w)))
  ELSE Failed
GreaterValue(v, w) == Compared(v, w, >)
LessValue(v, w) == Compared(v, w, <)
InValue(k, v) ==
  CASE ~True(v) -> Bool(FALSE)
    [] v[1] = "dict" -> Bool(k[1] = "str" /\ \E p \in v[2] : p[1] = k[2])
    [] v[1] = "list" -> Bool(\E i \in v[2] : Same(k, i))
    [] v[1] = "str" /\ k[1] = "str" -> Bool(k[2] \in {"", v[2]})
    [] OTHER -> Failed
IfValue(c, t, e) == IF True(c) THEN t ELSE e
GetValue(v, k, d) == IF v[1] # "dict" THEN Failed ELSE IF k[1] # "str" THEN d ELSE Item(v, k[2], d)
LenValue(v) == CASE v[1] \in {"dict", "list"} -> <<"int", Cardinality(v[2])>>
                 [] v[1] = "str" -> <<"int", IF v[2] = "" THEN 0 ELSE 1>>
                 [] OTHER -> Failed
\* The day it is, or start, and what is added: None cannot be.
Today == 1
DayOf(v) == CASE v[1] = "date" -> v[2]
              [] v[1] = "datetime" -> v[2] \div 24
              [] OTHER -> Today
HourOf(v) == CASE v[1] = "datetime" -> v[2]
               [] v[1] = "date" -> 24 * v[2]
               [] OTHER -> 24 * Today
DateValue(days, start) == IF ~IsNumber(days) THEN Failed ELSE <<"date", DayOf(start) + Number(days)>>
DateTimeValue(days, hour, start) ==
  LET at == HourOf(start)
  IN  IF ~IsNumber(days) \/ ~(IsNumber(hour) \/ hour = None) THEN Failed
      ELSE <<"datetime", 24 * Number(days) + IF hour = None THEN at ELSE 24 * (at \div 24) + Number(hour)>>
TimeDeltaValue(days) == IF ~IsNumber(days) THEN Failed ELSE <<"timedelta", Number(days)>>

\* The decoder evaluates from the innermost: also the branch that is not taken, and
\* the default of what is found.
RECURSIVE ValueIn(_, _)
ValueIn(s, context) ==
  LET v == [i \in DOMAIN s.args |-> ValueIn(s.args[i], context)]
  IN  CASE IsValue(s) -> s.is
        [] Failed \in Range(v) -> Failed
        [] s.op = "Eval" -> EvalValue(s, context, v[1])
        [] s.op = "Not" -> Bool(~True(v[1]))
        [] s.op = "Bool" -> Bool(True(v[1]))
        [] s.op = "And" -> Bool(\A i \in DOMAIN v : True(v[i]))
        [] s.op = "Or" -> Bool(\E i \in DOMAIN v : True(v[i]))
        [] s.op = "Equal" -> EqualValue(v[1], v[2])
        [] s.op = "Greater" -> GreaterValue(v[1], v[2])
        [] s.op = "Less" -> LessValue(v[1], v[2])
        [] s.op = "In" -> InValue(v[1], v[2])
        [] s.op = "If" -> IfValue(v[1], v[2], v[3])
        [] s.op = "Get" -> GetValue(v[1], v[2], v[3])
        [] s.op = "Len" -> LenValue(v[1])
        [] s.op = "Date" -> DateValue(v[1], v[2])
        [] s.op = "DateTime" -> DateTimeValue(v[1], v[2], v[3])
        [] s.op = "TimeDelta" -> TimeDeltaValue(v[1])

(* --------------------------------- operators -------------------------------- *)
AsBool(s) == IF IsValue(s) THEN Literal(Bool(True(s.is)))
             ELSE IF Types(s) # {"bool"} THEN Make("Bool", <<s>>) ELSE s
Negation(s) == Make("Not", <<AsBool(s)>>)
\* Mutant of Taken: an Or is an And, of which it is a subclass.
TakenByAnd(op, s, t) ==
  Make(op, IF s.op \in {op, "Or"} THEN Append(s.args, AsBool(t)) ELSE <<AsBool(s), AsBool(t)>>)
\* a & b and a | b take b into the statement that a already is; what is not a
\* statement leaves the operation to the one that is.
Taken(op, s, t) ==
  Make(op, IF s.op = op THEN Append(s.args, AsBool(t)) ELSE <<AsBool(s), AsBool(t)>>)
Conjunction(s, t) == IF IsValue(s) THEN Taken("And", t, s) ELSE Taken("And", s, t)
Disjunction(s, t) == IF IsValue(s) THEN Taken("Or", t, s) ELSE Taken("Or", s, t)
(* One more statement around, if it can be made. *)
Around(s, l, m) ==
  {Negation(s), Conjunction(s, l), Disjunction(l, s), Disjunction(s, l),
   Make("Len", <<s>>), Make("TimeDelta", <<s>>),
   Make("If", <<s, l, m>>), Make("If", <<l, s, m>>), Make("If", <<l, m, s>>),
   Make("Get", <<s, l, m>>), Make("Get", <<l, s, m>>), Make("Get", <<l, m, s>>),
   Make("Date", <<s, l>>), Make("DateTime", <<l, s, m>>), Make("DateTime", <<s, l, m>>),
   Make("DateTime", <<l, m, s>>), [Name("o", s) EXCEPT !.key = "k"]}
  \cup {Make(op, x) : op \in {"Equal", "Greater", "Less", "In"}, x \in {<<s, l>>, <<l, s>>}}
Init == statement \in Leaves /\ depth = 0
Next ==
  \E l, m \in Others : \E s \in Around(statement, l, m) :
    /\ depth < MaxDepth /\ depth' = depth + 1
    /\ Constructed(s) /\ statement' = s
Spec == Init /\ [][Next]_pysonVars

(* -------------------------------- properties -------------------------------- *)
RECURSIVE Within(_)
Within(s) == {s} \cup UNION {Within(a) : a \in Range(s.args)}
NamesIn(s) == {t.name : t \in {u \in Within(s) : u.op = "Eval"}}
\* The contexts in which a name has a value of its type, or None, or is missing.
Contexts(s) ==
  LET all(ns) == {c \in [ns -> UNION {Stored[n] : n \in ns} \cup {None}] :
                    \A n \in ns : c[n] \in Stored[n] \cup {None}}
  IN  UNION {all(ns) : ns \in SUBSET NamesIn(s)}
\* Get and the key of a record give what is there, which has no declared type.
Untyped(s) == \E t \in Within(s) : t.op = "Get" \/ (t.op = "Eval" /\ t.key # "")
\* The statements that None makes fail, which may be made nevertheless.
NeedsValue(t, context) ==
  /\ t.op \in {"Len", "Get", "Date", "DateTime", "TimeDelta"}
  /\ ValueIn(t.args[1], context) = None
\* In every context a statement that can be made has a value, of one of its types,
\* except for what None and what is without a type do; and the operators of Python
\* mean for statements what they mean for their values.
StatementsSound ==
  \A context \in Contexts(statement) :
    LET v == ValueIn(statement, context)
        nulls == None \in Range(context)
    IN  /\ v = Failed => Untyped(statement)
                         \/ \E t \in Within(statement) : NeedsValue(t, context)
        /\ v # Failed => v[1] \in Types(statement) \/ Untyped(statement) \/ (nulls /\ v = None)
        /\ ~IsValue(statement) /\ v # Failed =>
             /\ ValueIn(Negation(statement), context) = Bool(~True(v))
             /\ \A l \in Others : LET w == ValueIn(l, context) IN
                  /\ ValueIn(Conjunction(statement, l), context) = Bool(True(v) /\ True(w))
                  /\ ValueIn(Disjunction(l, statement), context) = Bool(True(v) \/ True(w))
================================================================================
