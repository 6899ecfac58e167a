-------------------------------- MODULE Access --------------------------------
(* What a user may do with the records of one model: the model accesses         *)
(* (ir.model.access), the accesses of its field (ir.model.field.access) and the  *)
(* record rules (ir.rule) of the groups of the user, each behind a cache, as are *)
(* the groups themselves, and the checks of ModelStorage and ModelSQL.           *)
EXTENDS Naturals, FiniteSets
CONSTANTS
  Group, NoGroup,
  RuleGroup,
  GroupsOf,     \* rule group -> the groups it is linked to
  Val,          \* values of the field that the domains test
  Tests,        \* what the rules test it for: some values, "own", or a group to be in
  MaxChanges    \* bound: changes of rights
VARIABLES
  member,       \* the groups of the user
  parent,       \* group -> its parent, or NoGroup
  active,       \* the active groups
  own,          \* a field of the user, which domains may name
  kind, perm,   \* rule group -> "group", "default" or "global"; its modes
  rules,        \* rule group -> its rules
  access,       \* group or NoGroup -> modes granted by ir.model.access, or NoRecord
  fieldAccess,  \* the same of ir.model.field.access for the field
  groups,       \* _get_groups_cache: the groups of the user, or NotCached
  domains,      \* _domain_get_cache: mode -> values that pass, or NotCached
  granted,      \* _get_access_cache: modes, or NotCached
  fieldGranted, \* the same of ir.model.field.access
  value,        \* the value of the record, or Absent
  asked,        \* the last request of the user: [mode, to, ok]
  changes
userVars == <<member, parent, active, own>>
ruleVars == <<kind, perm, rules>>
rightsVars == <<userVars, ruleVars, access, fieldAccess>>
cacheVars == <<groups, domains, granted, fieldGranted>>
accessVars == <<rightsVars, cacheVars, value, asked, changes>>

Modes == {"read", "write", "create", "delete"}
NoRecord == {"no record"}
NotCached == {"not cached"}
Absent == "absent"
NoDomains == [mode \in Modes |-> NotCached]
Init ==
  /\ member \in SUBSET Group /\ parent = [g \in Group |-> NoGroup] /\ active = Group
  /\ own = CHOOSE v \in Val : TRUE
  /\ kind \in [RuleGroup -> {"group", "default", "global"}]
  /\ perm = [rg \in RuleGroup |-> Modes]
  /\ rules \in [RuleGroup -> {{}} \cup {{test} : test \in Tests}]
  /\ access = [g \in Group \cup {NoGroup} |-> NoRecord]
  /\ fieldAccess = access
  /\ groups = NotCached /\ domains = NoDomains /\ granted = NotCached /\ fieldGranted = NotCached
  /\ value = Absent /\ asked = <<>> /\ changes = 0

(* -------------------------------- the rights -------------------------------- *)
\* user_group_all_table: the groups and all their parents.
RECURSIVE WithParents(_)
WithParents(S) == LET more == S \cup ({parent[g] : g \in S} \ {NoGroup})
                  IN IF more = S THEN S ELSE WithParents(more)
AllGroups == WithParents(member)
\* get_access of both: by the records without group and those of active groups.
GrantedBy(records) ==
  LET mine == {g \in {NoGroup} \cup (AllGroups \cap active) : records[g] # NoRecord}
  IN IF mine = {} THEN Modes ELSE UNION {records[g] : g \in mine}
ReadAccess == GrantedBy(access)
ReadFieldAccess == GrantedBy(fieldAccess)
\* The mode in which the field is checked; a deletion checks none.
FieldMode(mode) == IF mode = "read" THEN "read" ELSE "write"
\* Rule.get and domain_get: all the global groups, and one of the others; a group
\* of the user that has no rule lets everything pass.
Passes(rg, v, mine) ==
  v \in rules[rg] \/ ("own" \in rules[rg] /\ v = own) \/ rules[rg] \cap mine # {}
Linked(rg) == GroupsOf[rg] \cap AllGroups # {}
ReadDomain(mode, mine) ==
  LET selected == {rg \in RuleGroup : /\ rules[rg] # {} /\ mode \in perm[rg]
                                      /\ kind[rg] # "group" \/ Linked(rg)}
      clause == {rg \in selected : kind[rg] # "global"}
      no_rules == \E rg \in RuleGroup : rules[rg] = {} /\ Linked(rg)
  IN {v \in Val : /\ \A rg \in selected \ clause : Passes(rg, v, mine)
                  /\ clause = {} \/ no_rules \/ \E rg \in clause : Passes(rg, v, mine)}

(* -------------------- changes of the rights, by the root user ---------------- *)
Changed == changes < MaxChanges /\ changes' = changes + 1 /\ UNCHANGED <<value, asked>>
UserCachesCleared ==
  groups' = NotCached /\ domains' = NoDomains /\ granted' = NotCached /\ fieldGranted' = NotCached
\* User.write, and create, write and delete of res.user-res.group.
WriteUser(S, v) ==
  /\ Changed /\ member' = S /\ own' = v /\ <<S, v>> # <<member, own>>
  /\ UserCachesCleared /\ UNCHANGED <<parent, active, ruleVars, access, fieldAccess>>
GroupWritten(g, p, isActive) ==
  /\ Changed /\ p # g /\ (p # NoGroup => g \notin WithParents({p}))
  /\ parent' = [parent EXCEPT ![g] = p]
  /\ active' = IF isActive THEN active \cup {g} ELSE active \ {g}
  /\ <<parent', active'>> # <<parent, active>>
  /\ UNCHANGED <<member, own, ruleVars, access, fieldAccess>>
WriteGroupUncleared(g, p, isActive) ==
  /\ GroupWritten(g, p, isActive)
  /\ domains' = NoDomains /\ granted' = NotCached /\ fieldGranted' = NotCached
  /\ UNCHANGED groups
\* Group.write
WriteGroup(g, p, isActive) == GroupWritten(g, p, isActive) /\ UserCachesCleared
\* RuleGroup.write
WriteRuleGroup(rg, k, modes) ==
  /\ Changed /\ <<k, modes>> # <<kind[rg], perm[rg]>>
  /\ kind' = [kind EXCEPT ![rg] = k] /\ perm' = [perm EXCEPT ![rg] = modes]
  /\ domains' = NoDomains
  /\ UNCHANGED <<userVars, rules, access, fieldAccess, groups, granted, fieldGranted>>
\* Rule.create, write and delete.
WriteRule(rg, tests) ==
  /\ Changed /\ tests # rules[rg]
  /\ rules' = [rules EXCEPT ![rg] = tests]
  /\ domains' = NoDomains
  /\ UNCHANGED <<userVars, kind, perm, access, fieldAccess, groups, granted, fieldGranted>>
\* ModelAccess.create, write and delete; and those of ModelFieldAccess.
WriteAccess(g, modes) ==
  /\ Changed /\ modes # access[g] /\ access' = [access EXCEPT ![g] = modes]
  /\ granted' = NotCached
  /\ UNCHANGED <<userVars, ruleVars, fieldAccess, groups, domains, fieldGranted>>
WriteFieldAccess(g, modes) ==
  /\ Changed /\ modes # fieldAccess[g] /\ fieldAccess' = [fieldAccess EXCEPT ![g] = modes]
  /\ fieldGranted' = NotCached
  /\ UNCHANGED <<userVars, ruleVars, access, groups, domains, granted>>

(* --------------------------- requests of the user ---------------------------- *)
Known(cache, otherwise) == IF cache = NotCached THEN otherwise ELSE cache
ModelAllows(mode) == mode \in Known(granted, ReadAccess)
FieldAllows(mode) == mode = "delete" \/ FieldMode(mode) \in Known(fieldGranted, ReadFieldAccess)
Domain(mode) == Known(domains[mode], ReadDomain(mode, Known(groups, AllGroups)))
\* The order of the checks: the model, its field, then the record as it is, then the
\* record as the request has made it.
Allows(mode, to) ==
  /\ ModelAllows(mode) /\ FieldAllows(mode)
  /\ mode # "create" => value \in Domain(mode)
  /\ mode \in {"create", "write"} => to \in Domain(mode)
Ask(mode, to) ==
  /\ IF mode = "create" THEN value = Absent ELSE value # Absent
  /\ asked' = [mode |-> mode, to |-> to, ok |-> Allows(mode, to)]
  /\ value' = IF Allows(mode, to) THEN to ELSE value
  /\ granted' = Known(granted, ReadAccess)
  /\ fieldGranted' = IF ModelAllows(mode) /\ mode # "delete"
                     THEN Known(fieldGranted, ReadFieldAccess) ELSE fieldGranted
  /\ IF ModelAllows(mode) /\ FieldAllows(mode) /\ domains[mode] = NotCached
     THEN domains' = [domains EXCEPT ![mode] = Domain(mode)] /\ groups' = Known(groups, AllGroups)
     ELSE UNCHANGED <<domains, groups>>
  /\ UNCHANGED rightsVars /\ UNCHANGED changes

Next ==
  \/ \E S \in SUBSET Group, v \in Val : WriteUser(S, v)
  \/ \E g \in Group, p \in Group \cup {NoGroup}, isActive \in BOOLEAN :
       WriteGroup(g, p, isActive)
  \/ \E rg \in RuleGroup, k \in {"group", "default", "global"}, modes \in {{"read"}, Modes} :
       WriteRuleGroup(rg, k, modes)
  \/ \E rg \in RuleGroup, tests \in SUBSET Tests : WriteRule(rg, tests)
  \/ \E g \in Group \cup {NoGroup}, modes \in {NoRecord, {}, {"read"}, Modes} :
       WriteAccess(g, modes)
  \/ \E g \in Group \cup {NoGroup}, modes \in {NoRecord, {}, {"read"}} : WriteFieldAccess(g, modes)
  \/ \E v \in Val : Ask("create", v) \/ Ask("write", v)
  \/ Ask("read", value) \/ Ask("delete", Absent)
Spec == Init /\ [][Next]_accessVars

(* -------------------------------- properties ------------------------------- *)
\* The rights as they are in the tables when the user asks.
MayRule(mode, v) ==
  /\ \A rg \in RuleGroup : kind[rg] = "global" /\ mode \in perm[rg] /\ rules[rg] # {}
       => Passes(rg, v, AllGroups)
  /\ LET others == {rg \in RuleGroup : kind[rg] = "default" \/ (kind[rg] = "group" /\ Linked(rg))}
     IN \/ \A rg \in others : rules[rg] = {} \/ mode \notin perm[rg]
        \/ \E rg \in others : mode \in perm[rg] /\ Passes(rg, v, AllGroups)
        \/ \E rg \in RuleGroup : Linked(rg) /\ rules[rg] = {}
\* A request is done if, and only if, the groups, the accesses and the rules as
\* they are at that moment allow it, to the record before and to the record after,
\* whatever was cached for the user before they were changed.
RightsEnforced ==
  [][asked' # asked =>
       LET a == asked' IN
       a.ok <=> /\ a.mode \in ReadAccess
                /\ a.mode # "delete" => FieldMode(a.mode) \in ReadFieldAccess
                /\ a.mode # "create" => MayRule(a.mode, value)
                /\ a.mode \in {"create", "write"} => MayRule(a.mode, a.to)]_accessVars
\* "The access is granted to a record: [...] or if there is a global matching rule group
\* with the permission" (doc/topics/access_rights.rst): a record that one global group
\* matches can be read.  It does not hold: domain_get joins the global groups with AND.
GlobalGroupGrants ==
  [][asked' # asked /\ asked'.mode = "read" /\ "read" \in ReadAccess \cap ReadFieldAccess
     /\ (\E rg \in RuleGroup : /\ kind[rg] = "global" /\ "read" \in perm[rg]
                                /\ Passes(rg, value, AllGroups))
       => asked'.ok]_accessVars
==============================================================================
