------------------------------- MODULE Buttons --------------------------------
(* The buttons of records that need the clicks of several users                 *)
(* (ModelView.button, ir.model.button, its rules and its clicks), on methods     *)
(* that are transitions of a workflow: "validate" takes a draft record, when     *)
(* enough users have clicked, and "draft" takes it back and resets the clicks.   *)
(* A click is a transaction, which sees the database as it was at its start and  *)
(* is refused if another one has changed a row that it changes.                  *)
EXTENDS Naturals, FiniteSets, TLC
CONSTANTS
  User, Record, Handler,
  Allowed,      \* the users of the groups of the buttons
  InGroup,      \* the users of the group of the rule
  Ruled,        \* the records for which the condition of the rule is true
  Numbers,      \* what number_user may be set to
  MaxClicks, MaxRules   \* bounds
VARIABLES
  state,        \* the records: [at, version]
  clicks,       \* [n, button, record, user, active]
  rules,        \* the rules of "validate": id -> number_user
  cached,       \* the ids of rules in _rules_cache, or NoIds
  job,          \* what each handler runs: [user, button, records, state, clicks, rules, fresh], or NoJob
  count, changes,
  overlapped,   \* the records clicked by two transactions that did not see each other
  idleReset     \* the records whose clicks were reset by a "draft" that did not move them
buttonVars == <<state, clicks, rules, cached, job, count, changes, overlapped, idleReset>>

NoIds == {0}
NoJob == <<>>
Button == {"validate", "draft"}
\* The transitions of the workflow.
Transitions == {<<"draft", "validated">>, <<"validated", "draft">>}
Target(button) == IF button = "validate" THEN "validated" ELSE "draft"
\* Button.reset
Reset(button) == IF button = "draft" THEN {"validate"} ELSE {}

\* A user of its groups clicks on the button for some records.
Begin(h, u, b, rs) ==
  /\ job[h] = NoJob /\ count < MaxClicks /\ count' = count + 1
  /\ u \in Allowed
  /\ job' = [job EXCEPT ![h] = [user |-> u, button |-> b, records |-> rs, state |-> state,
                                clicks |-> clicks, rules |-> rules, fresh |-> TRUE]]
  /\ UNCHANGED <<state, clicks, rules, cached, changes, overlapped, idleReset>>

\* get_rules: a transaction older than the last clear does not use the cache.  The
\* ids are cached, the rules are read.
RulesOf(j) == IF j.fresh /\ cached # NoIds THEN cached ELSE DOMAIN j.rules
\* ModelButtonClick.register: the clicks of the records with the new ones.
Registered(j) ==
  LET new == {[n |-> count, button |-> j.button, record |-> r, user |-> j.user, active |-> TRUE] :
                r \in j.records}
  IN  IF j.button = "validate" /\ RulesOf(j) # {} THEN j.clicks \cup new ELSE j.clicks
Of(all, button, r) == {c \in all : c.active /\ c.button = button /\ c.record = r}
\* Mutant of Test: the clicks are counted.
TestClicks(r, all, number) ==
  r \notin Ruled \/ Cardinality({c \in Of(all, "validate", r) : c.user \in InGroup}) >= number
\* ModelButtonRule.test: the users of the group are counted, if the rule applies.
Test(r, all, number) ==
  r \notin Ruled
  \/ Cardinality({c.user : c \in {d \in Of(all, "validate", r) : d.user \in InGroup}}) >= number
Passing(j) == IF j.button = "draft" THEN j.records
              ELSE {r \in j.records : \A id \in RulesOf(j) : Test(r, Registered(j), j.rules[id])}
\* ModelButtonClick.reset: the clicks of the records that pass are made inactive.
ResetClicks(j) == {c \in Registered(j) : c.active /\ c.button \in Reset(j.button)
                                         /\ c.record \in Passing(j)}
\* Workflow.transition
Moved(j) == {r \in Passing(j) : <<j.state[r].at, Target(j.button)>> \in Transitions}

\* The rows that another transaction has changed since.
\* or a rule that its transaction does not find.
Conflict(j) ==
  \/ j.button = "validate" /\ ~(RulesOf(j) \subseteq DOMAIN j.rules)
  \/ \E r \in Moved(j) : state[r].version # j.state[r].version
  \/ \E c \in ResetClicks(j) : c \notin clicks
New(j) == Registered(j) \ j.clicks
Finish(h) ==
  LET j == job[h]
  IN  /\ j # NoJob /\ job' = [job EXCEPT ![h] = NoJob]
      /\ cached' = IF j.button = "validate" /\ j.fresh THEN RulesOf(j) ELSE cached
      /\ IF Conflict(j) THEN UNCHANGED <<state, clicks, overlapped, idleReset>>
         ELSE /\ state' = [r \in Record |->
                    IF r \notin Moved(j) THEN state[r]
                    ELSE [at |-> Target(j.button), version |-> state[r].version + 1]]
              /\ clicks' = ((clicks \cup New(j)) \ ResetClicks(j))
                           \cup {[c EXCEPT !.active = FALSE] : c \in ResetClicks(j)}
              /\ overlapped' = overlapped \cup
                   {r \in j.records : {c \in clicks : c.record = r} # {c \in j.clicks : c.record = r}
                                      \/ state[r] # j.state[r]}
              /\ idleReset' = (idleReset \cup {c.record : c \in ResetClicks(j)}) \ Moved(j)
      /\ UNCHANGED <<rules, count, changes>>

Older == [h \in Handler |-> IF job[h] = NoJob THEN NoJob ELSE [job[h] EXCEPT !.fresh = FALSE]]
\* Mutant of Configure: the cache is left.
ConfigureUncleared(new) ==
  /\ new # rules /\ changes < MaxRules /\ changes' = changes + 1
  /\ rules' = new
  /\ UNCHANGED <<state, clicks, cached, job, count, overlapped, idleReset>>
\* create, write and delete of ModelButtonRule
Configure(new) ==
  /\ new # rules /\ changes < MaxRules /\ changes' = changes + 1
  /\ rules' = new /\ cached' = NoIds /\ job' = Older
  /\ UNCHANGED <<state, clicks, count, overlapped, idleReset>>

Init ==
  /\ state = [r \in Record |-> [at |-> "draft", version |-> 0]]
  /\ clicks = {} /\ (\E number \in Numbers : rules = (1 :> number)) /\ cached = NoIds
  /\ job = [h \in Handler |-> NoJob] /\ count = 0 /\ changes = 0
  /\ overlapped = {} /\ idleReset = {}
Next ==
  \/ \E h \in Handler : \/ Finish(h)
                        \/ \E u \in User, b \in Button, rs \in SUBSET Record \ {{}} : Begin(h, u, b, rs)
  \/ \E number \in Numbers : \/ Configure((changes + 2 :> number) @@ rules)
                             \/ \E id \in DOMAIN rules : Configure([rules EXCEPT ![id] = number])
  \/ \E id \in DOMAIN rules : Configure([other \in DOMAIN rules \ {id} |-> rules[other]])
Spec == Init /\ [][Next]_buttonVars

\* The users whose clicks count for a record now.
Clickers(r) == {c.user : c \in {d \in Of(clicks, "validate", r) : d.user \in InGroup}}
\* A click on "validate" is committed.
Clicked(h, r) ==
  /\ job[h] # NoJob /\ job'[h] = NoJob /\ job[h].button = "validate"
  /\ r \in job[h].records /\ ~Conflict(job[h])
\* A record gets validated only when enough users have clicked on the button since
\* the clicks were reset, whoever clicks at the same time (button, test, register,
\* reset, transition), unless a reset that did not move the record came in between;
\* and a click of the last user needed validates it, unless two clicks overlap.
ClicksDecide ==
  [][\A r \in Ruled, h \in Handler : Clicked(h, r) =>
       LET enough == \A id \in DOMAIN job[h].rules : Cardinality(Clickers(r)') >= job[h].rules[id]
       IN  /\ state'[r].at # state[r].at /\ r \notin idleReset => enough
           /\ job[h].state[r].at = "draft" /\ r \notin overlapped' /\ enough
                => state'[r].at = "validated"]_buttonVars
===============================================================================
