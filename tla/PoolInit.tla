------------------------------- MODULE PoolInit -------------------------------
(* The pool of classes of one database in one process (pool.py): requests that  *)
(* list, load and use it (protocols/wrappers.py), an upgrade of the modules     *)
(* here or in another process, and the listener that refreshes (cache.py).      *)
EXTENDS Naturals
CONSTANTS
  Thread,       \* threads that answer requests
  MaxInstance,  \* bounds: instances of Pool that are referred to, upgrades,
  MaxVersion, MaxFail  \* loadings that fail
VARIABLES
  version,      \* the activated modules, by the number of upgrades
  instance,     \* _instances: the registered instance, or 0
  modules,      \* instance -> _modules: None, Partial or a version
  entry,        \* _pool: Absent, Loading or the version of its classes
  dbLock,       \* holder of the lock of the database: one or none
  clsLock,      \* holder of Pool._lock
  thread,       \* thread -> [at, pool, listed, target]
  listener,     \* [at, seen, told]
  cut,          \* ghost: threads whose pool was stopped or reset since they looked,
                \* and no loading has ended since
  fails
poolVars == <<version, instance, modules, entry, dbLock, clsLock, thread, listener, cut, fails>>

None == 0       \* of _modules
Partial == 1
Absent == 0     \* of _pool
Loading == 1
First == 2      \* the version of the modules at the start
Free == {}
Idle == [at |-> "idle", pool |-> 0, listed |-> FALSE, target |-> 0]
Init ==
  /\ version = First /\ instance = 0 /\ modules = [i \in 1..MaxInstance |-> None]
  /\ entry = Absent /\ dbLock = Free /\ clsLock = Free
  /\ thread = [t \in Thread |-> Idle]
  /\ listener = [at |-> "none", seen |-> 0, told |-> FALSE]
  /\ cut = {} /\ fails = 0
At(t, place) == thread[t].at = place
Step(t, place) == thread' = [thread EXCEPT ![t].at = place]

\* Pool(database_name): the registered instance or, under the lock, a new one.
\* An instance that nothing refers to any more is forgotten.
Unused == {i \in 1..MaxInstance : \A t \in Thread : thread[t].pool # i}
Instance(i) ==
  IF instance # 0 THEN i = instance
  ELSE dbLock = Free /\ i \in Unused /\ \A j \in Unused : i <= j
ModulesOf(i) == IF instance # 0 THEN modules ELSE [modules EXCEPT ![i] = None]

(* ------------------------------ requests: with_pool -------------------------- *)
ListUnlocked == entry # Absent
\* database_list: what is being loaded is not listed.
Listed == entry # Absent /\ dbLock = Free
List(t) ==
  /\ At(t, "idle") /\ clsLock = Free
  /\ thread' = [thread EXCEPT ![t] = [at |-> "pool", pool |-> 0, listed |-> Listed,
                                           target |-> 0]]
  /\ cut' = cut \ {t}
  /\ UNCHANGED <<version, instance, modules, entry, dbLock, clsLock, listener, fails>>
GetPool(t) ==
  /\ At(t, "pool")
  /\ \E i \in 1..MaxInstance :
       /\ Instance(i) /\ instance' = i /\ modules' = ModulesOf(i)
       /\ thread' = [thread EXCEPT ![t].pool = i,
                                   ![t].at = IF thread[t].listed THEN "serve" ELSE "init"]
  /\ UNCHANGED <<version, entry, dbLock, clsLock, listener, cut, fails>>
BegunLater(t) == modules
\* _modules is empty, and no longer None, before the activated ones are selected.
Begun(t) == [modules EXCEPT ![thread[t].pool] = Partial]
\* Transaction.start has started the listener (Cache.sync), which begins with a
\* refresh; init waits for the lock of the database.
Acquire(t) ==
  /\ At(t, "init") /\ dbLock = Free
  /\ listener' = IF listener.at = "none" THEN [listener EXCEPT !.at = "idle", !.told = TRUE]
                 ELSE listener
  /\ cut' = cut \ {t}
  /\ IF entry # Absent
     THEN Step(t, "serve") /\ UNCHANGED <<entry, modules, dbLock>>
     ELSE /\ Step(t, "load") /\ dbLock' = {t} /\ entry' = Loading
          /\ modules' = Begun(t)
  /\ UNCHANGED <<version, instance, clsLock, fails>>
\* load_modules: the transaction that selects the activated modules starts here.
Select(t) ==
  /\ At(t, "load")
  /\ thread' = [thread EXCEPT ![t].at = "fill", ![t].target = version]
  /\ UNCHANGED <<version, instance, modules, entry, dbLock, clsLock, listener, cut, fails>>
Filled(t) ==
  /\ At(t, "fill") /\ Step(t, "serve") /\ dbLock' = Free
  /\ entry' = thread[t].target
  /\ modules' = [modules EXCEPT ![thread[t].pool] = thread[t].target]
  /\ cut' = {o \in cut : At(o, "KeyError")}
  /\ UNCHANGED <<version, instance, clsLock, listener, fails>>
LoadFails(t) ==
  /\ At(t, "load") \/ At(t, "fill") \/ At(t, "update")
  /\ fails < MaxFail /\ fails' = fails + 1
  /\ thread' = [thread EXCEPT ![t] = Idle] /\ dbLock' = Free
  /\ entry' = Absent /\ modules' = [modules EXCEPT ![thread[t].pool] = None]
  /\ UNCHANGED <<version, instance, clsLock, listener, cut>>
\* Pool.get, once and again until the request has answered or raised KeyError.
Get(t) ==
  /\ At(t, "serve")
  /\ IF entry > Loading THEN thread' = [thread EXCEPT ![t] = Idle] ELSE Step(t, "KeyError")
  /\ UNCHANGED <<version, instance, modules, entry, dbLock, clsLock, listener, cut, fails>>
Answer(t) ==
  /\ At(t, "KeyError") /\ thread' = [thread EXCEPT ![t] = Idle]
  /\ UNCHANGED <<version, instance, modules, entry, dbLock, clsLock, listener, cut, fails>>

(* ---------------------------------- upgrades -------------------------------- *)
Told == [listener EXCEPT !.told = (listener.at # "none")]
\* transition_upgrade in this process: init(update) resets the entry in place.
Upgrade(t) ==
  /\ At(t, "serve") /\ entry > Loading /\ version < First + MaxVersion
  /\ dbLock = Free /\ dbLock' = {t}
  /\ \E i \in 1..MaxInstance :
       /\ Instance(i) /\ instance' = i
       /\ modules' = [ModulesOf(i) EXCEPT ![i] = Partial]
       /\ thread' = [thread EXCEPT ![t].at = "update", ![t].pool = i]
  /\ entry' = Loading
  /\ cut' = cut \cup {o \in Thread : o # t /\ (At(o, "serve") \/ At(o, "pool"))}
  /\ UNCHANGED <<version, clsLock, listener, fails>>
\* load_module_graph: committed, the pool filled, and the other processes told.
Updated(t) ==
  /\ At(t, "update") /\ version < First + MaxVersion /\ version' = version + 1
  /\ thread' = [thread EXCEPT ![t].at = "fill", ![t].target = version + 1]
  /\ modules' = [modules EXCEPT ![thread[t].pool] = version + 1]
  /\ listener' = Told
  /\ UNCHANGED <<instance, entry, dbLock, clsLock, cut, fails>>
\* The same in another process.
UpgradeElsewhere ==
  /\ version < First + MaxVersion /\ version' = version + 1
  /\ \A t \in Thread : ~At(t, "update")
  /\ listener' = Told
  /\ UNCHANGED <<instance, modules, entry, dbLock, clsLock, thread, cut, fails>>

(* ---------------------------- the listener: refresh -------------------------- *)
\* _get_modules, then Pool(dbname), which may wait.
Notified ==
  /\ listener.at = "idle" /\ listener.told
  /\ listener' = [at |-> "pool", seen |-> version, told |-> FALSE]
  /\ UNCHANGED <<version, instance, modules, entry, dbLock, clsLock, thread, cut, fails>>
Compare ==
  /\ listener.at = "pool"
  /\ \E i \in 1..MaxInstance :
       /\ Instance(i) /\ instance' = i /\ modules' = ModulesOf(i)
       /\ listener' = [listener EXCEPT !.at =
            IF modules'[i] # None /\ modules'[i] # listener.seen THEN "stop" ELSE "idle"]
  /\ UNCHANGED <<version, entry, dbLock, clsLock, thread, cut, fails>>
\* stop: the instance under Pool._lock, then the entry under the other lock too.
StopInstance ==
  /\ listener.at = "stop" /\ clsLock = Free /\ clsLock' = {"listener"}
  /\ instance' = 0 /\ listener' = [listener EXCEPT !.at = "entry"]
  /\ UNCHANGED <<version, modules, entry, dbLock, thread, cut, fails>>
StopEntry ==
  /\ listener.at = "entry" /\ dbLock = Free /\ clsLock' = Free
  /\ entry' = Absent /\ listener' = [listener EXCEPT !.at = "idle"]
  /\ cut' = cut \cup {t \in Thread : At(t, "serve") \/ At(t, "pool")}
  /\ UNCHANGED <<version, instance, modules, dbLock, thread, fails>>

Next ==
  \/ \E t \in Thread : \/ List(t) \/ GetPool(t) \/ Acquire(t) \/ Select(t) \/ Filled(t)
                       \/ LoadFails(t) \/ Get(t) \/ Answer(t) \/ Upgrade(t) \/ Updated(t)
  \/ UpgradeElsewhere \/ Notified \/ Compare \/ StopInstance \/ StopEntry
Spec == Init /\ [][Next]_poolVars

(* -------------------------------- properties ------------------------------- *)
\* A request fails to get a class only between the stop of the pool, or the start of
\* an upgrade, that came after it looked whether the pool is loaded, and the end of
\* the next loading: from there on its pool is whole again.
PoolComplete == \A t \in Thread : At(t, "KeyError") => t \in cut
Quiet == listener.at = "idle" /\ ~listener.told /\ dbLock = Free
\* Once the listener has handled what it was told, the process has the classes of
\* the activated modules, unless the registered instance was never loaded (then
\* refresh has nothing to compare and stops nothing).
PoolRefreshed ==
  Quiet /\ entry # Absent /\ instance # 0 /\ modules[instance] # None => entry = version
\* "Refresh pool of other processes": the same of any process.
RefreshApplied == Quiet /\ entry # Absent => entry = version
===============================================================================
