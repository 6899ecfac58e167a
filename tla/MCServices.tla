------------------------------ MODULE MCServices ------------------------------
(* The services of a server on small instances.  As in MCRecords each component *)
(* has an area of the state space, chosen in the initial state.  The modules     *)
(* that are proved about are here as they are; the others are instances.         *)
EXTENDS PoolInit, TransactionStack, Security, Trigger, Bus, TLC
CONSTANTS
  NoValue,
  Areas      \* what a run looks at
VARIABLES
  area,
  state, load, mixed,
  member, parent, active, own, kind, perm, rules, access, fieldAccess, groups, domains,
  granted, fieldGranted, value, asked, changes,
  committed, usedWrites, phase, snap, ownWrites, behind, reset, private, setting, outbox,
  shared, floor, cacheListener, invalid, clearing, due
modVars == <<state, load, mixed>>
accessVars == <<member, parent, active, own, kind, perm, rules, access, fieldAccess, groups,
                domains, granted, fieldGranted, value, asked, changes>>
cacheVars == <<committed, usedWrites, phase, snap, ownWrites, behind, reset, private, setting,
               outbox, shared, floor, cacheListener, invalid, clearing, due>>

\* A trigger on the writes, with a limit and a delay, and one on time, for which the
\* delay alone decides.
MCSettings == {[on_time |-> FALSE, limit |-> 1, delay |-> 2],
               [on_time |-> TRUE, limit |-> 0, delay |-> 2]}
\* A trigger on the writes with a limit.
MCLimited == {[on_time |-> FALSE, limit |-> 1, delay |-> 0]}
MCEvery == (1 :> 1) @@ (2 :> 3)
MCChannelsOf == ("s1" :> {"A"}) @@ ("s2" :> {"A", "B"})
Mod == INSTANCE Modules WITH
  Module <- 1..3, Deps <- (1 :> {}) @@ (2 :> {}) @@ (3 :> {1, 2})
Rights == INSTANCE Access WITH
  Group <- {"g1", "g2"}, NoGroup <- "no group", RuleGroup <- {"R1", "R2"},
  GroupsOf <- ("R1" :> {"g1"}) @@ ("R2" :> {"g2"}), Val <- {"v1", "v2"}, Tests <- {"own", "g1"},
  MaxChanges <- 2

\* The caches of back-ends without channels, of two threads or of two processes.
Threads == INSTANCE MemoryCache WITH
  used <- usedWrites, own <- ownWrites, pending <- setting, listener <- cacheListener,
  Procs <- {"p1"}, Trans <- {"t1", "t2"}, ProcOf <- ("t1" :> "p1") @@ ("t2" :> "p1"),
  Names <- {"n1"}, Writes <- {"w1", "w2"}, Channel <- FALSE, Preemptive <- FALSE
Processes == INSTANCE MemoryCache WITH
  used <- usedWrites, own <- ownWrites, pending <- setting, listener <- cacheListener,
  Procs <- {"p1", "p2"}, Trans <- {"t1", "t2"}, ProcOf <- ("t1" :> "p1") @@ ("t2" :> "p2"),
  Names <- {"n1"}, Writes <- {"w1"}, Channel <- FALSE, Preemptive <- FALSE

\* A user without a group, or in a group that can get the rights of another.
RightsStart ==
  \/ /\ member = {} /\ rules = ("R1" :> {"own"}) @@ ("R2" :> {"own"})
     \* the others are these with one change, or with R1 and R2 swapped
     /\ <<kind["R1"], kind["R2"]>> \in
          {<<"group", "default">>, <<"default", "global">>, <<"global", "global">>}
  \/ /\ member = {"g2"} /\ rules = ("R1" :> {}) @@ ("R2" :> {"own"})
     /\ \A rg \in DOMAIN kind : kind[rg] = "group"
  \/ /\ member = {"g2"} /\ rules = ("R1" :> {"g1"}) @@ ("R2" :> {"own"})
     /\ kind = ("R1" :> "default") @@ ("R2" :> "group")

\* The components that are not in the area stay in one of their initial states.
ServicesInit ==
  /\ area \in Areas
  /\ TriggerInit
  /\ area = "trigger" \/ (trigger.limit = 0 /\ \A r \in DOMAIN cond : cond[r])
  /\ CronInit /\ (area = "cron" \/ \A c \in DOMAIN next_call : next_call[c].at = 0)
  /\ SecurityInit
  /\ Mod!Init /\ (area = "modules" \/ \A m \in DOMAIN state : state[m] = "activated")
  /\ BusInit
  /\ Rights!Init /\ RightsStart
  /\ (area = "access" \/ (member = {} /\ \A rg \in DOMAIN kind : kind[rg] = "global"))
  /\ StackInit
  /\ IF area = "caches of processes" THEN Processes!Init
                                     ELSE Threads!Init
  /\ Init
Still(areas) ==
  /\ area \in areas /\ UNCHANGED area
  /\ "trigger" \notin areas => UNCHANGED triggerVars
  /\ "cron" \notin areas => UNCHANGED cronVars
  /\ "session" \notin areas => UNCHANGED sessionVars
  /\ "login" \notin areas => UNCHANGED loginVars
  /\ "modules" \notin areas => UNCHANGED modVars
  /\ "bus" \notin areas => UNCHANGED busVars
  /\ "access" \notin areas => UNCHANGED accessVars
  /\ "pool" \notin areas => UNCHANGED poolVars
  /\ "transaction" \notin areas => UNCHANGED stackVars
  /\ "caches" \notin areas => UNCHANGED cacheVars
ServicesNext ==
  \/ Still({"trigger"}) /\ TriggerNext
  \/ Still({"cron"}) /\ CronNext
  \/ Still({"session"}) /\ SessionNext
  \/ Still({"login"}) /\ LoginNext
  \* no property says anything of what comes after a mixed loading or a race
  \/ Still({"modules"}) /\ Mod!Next /\ ~mixed
  \* two subscribers, and one that lives longer
  \/ /\ Still({"bus", "one"}) /\ BusNext /\ ~raced
     /\ IF area = "bus" THEN published' < MaxMessage ELSE sub'["s1"] = sub["s1"]
  \/ Still({"access"}) /\ Rights!Next
  \/ Still({"pool"}) /\ Next
  \/ Still({"transaction"}) /\ StackNext
  \/ /\ Still({"caches", "caches of processes"})
     /\ IF area = "caches" THEN Threads!Next
                           ELSE Processes!Next
servicesVars == <<area, triggerVars, cronVars, sessionVars, loginVars, modVars, busVars,
                  accessVars, poolVars, stackVars, cacheVars>>
ServicesSpec == ServicesInit /\ [][ServicesNext]_servicesVars

(* The properties of the components, with those of the modules above; in another *)
(* area each holds by their Init.                                                 *)
\* An activated module depends on activated ones, and a loading that ends has applied
\* the marks.
ModulesConsistent == [](area = "modules" => Mod!DependenciesActivated) /\ Mod!MarksApplied
\* What a request uses is not stale: it is done if, and only if, the rights of its user
\* at that moment allow it; and no cache of a process is filled, after a clear of which
\* the process knows, by a transaction that is older than it.
NothingStale ==
  /\ Rights!RightsEnforced
  /\ [](area = "caches" => Threads!FloorRespected)
  /\ [](area = "caches of processes" => Processes!FloorRespected)
==============================================================================
