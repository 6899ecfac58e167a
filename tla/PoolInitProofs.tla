---------------------------- MODULE PoolInitProofs ----------------------------
(* Theorems of PoolInit for any number of threads, upgrades and failures: what  *)
(* a request finds in the pool it has looked at (LockInv: the entry of the pool *)
(* is Loading only for the thread that holds the lock), and that the process    *)
(* has the classes of the activated modules once its listener has compared      *)
(* (RefreshInv).                                                                *)
EXTENDS PoolInit, TLAPS

Places == {"idle", "pool", "init", "load", "fill", "serve", "update", "KeyError"}
Holding == {"load", "fill", "update"}

TypeInv ==
  /\ version \in Nat /\ version >= First
  /\ entry \in Nat
  /\ thread \in [Thread -> [at : Places, pool : Nat, listed : BOOLEAN, target : Nat]]
  /\ cut \subseteq Thread
  /\ \A t \in Thread : thread[t].at = "fill" => thread[t].target >= First

\* A thread that loads holds the lock, alone, and its entry is Loading; no entry is
\* Loading without it.
LockInv ==
  /\ \A t \in Thread : thread[t].at \in Holding => dbLock = {t} /\ entry = Loading
  /\ dbLock # {} => \E t \in Thread : dbLock = {t} /\ thread[t].at \in Holding
  /\ dbLock = {} => entry # Loading

\* A thread that has found the pool loaded still would, or was cut.
Looked(t) == thread[t].at = "serve" \/ (thread[t].at = "pool" /\ thread[t].listed)
LookedInv == \A t \in Thread : Looked(t) /\ t \notin cut => entry > Loading

PoolInv == TypeInv /\ LockInv /\ LookedInv /\ PoolComplete

LEMMA InitPoolInv == Init => PoolInv
BY DEF Init, PoolInv, TypeInv, LockInv, LookedInv, Looked, PoolComplete, At, Idle, Places,
       Holding, First, Absent, Loading, Free

-------------------------------------------------------------------------------
(* Requests *)

LEMMA ListStep ==
  ASSUME PoolInv, NEW t \in Thread, List(t)
  PROVE  PoolInv'
<1> USE DEF PoolInv, List, At
<1>1. thread' = [thread EXCEPT ![t] = [at |-> "pool", pool |-> 0, listed |-> Listed,
                                       target |-> 0]]
  OBVIOUS
<1>2. Listed \in BOOLEAN /\ (Listed => entry > Loading)
  BY DEF Listed, LockInv, TypeInv, Absent, Loading, Free
<1>3. TypeInv'
  BY <1>1, <1>2 DEF TypeInv, Places, First
<1>4. LockInv'
  BY <1>1 DEF LockInv, Holding, TypeInv
<1>5. LookedInv'
  BY <1>1, <1>2 DEF LookedInv, Looked, TypeInv
<1>6. PoolComplete'
  BY <1>1 DEF PoolComplete, TypeInv
<1> QED
  BY <1>3, <1>4, <1>5, <1>6

LEMMA GetPoolStep ==
  ASSUME PoolInv, NEW t \in Thread, GetPool(t)
  PROVE  PoolInv'
<1> USE DEF PoolInv
<1>1. PICK i \in 1..MaxInstance :
        thread' = [thread EXCEPT ![t].pool = i,
                                 ![t].at = IF thread[t].listed THEN "serve" ELSE "init"]
  BY DEF GetPool
<1>2. /\ thread[t].at = "pool"
      /\ UNCHANGED <<version, entry, dbLock, cut>>
  BY DEF GetPool, At
<1>3. i \in Nat
  OBVIOUS
<1>4. TypeInv'
  BY <1>1, <1>2, <1>3 DEF TypeInv, Places
<1>5. LockInv'
  BY <1>1, <1>2 DEF LockInv, Holding, TypeInv
<1>6. LookedInv'
  BY <1>1, <1>2 DEF LookedInv, Looked, TypeInv
<1>7. PoolComplete'
  BY <1>1, <1>2 DEF PoolComplete, TypeInv, At
<1> QED
  BY <1>4, <1>5, <1>6, <1>7

LEMMA AcquireStep ==
  ASSUME PoolInv, NEW t \in Thread, Acquire(t)
  PROVE  PoolInv'
<1> USE DEF PoolInv, At, Step
<1>1. /\ thread[t].at = "init" /\ dbLock = {} /\ cut' = cut \ {t} /\ version' = version
  BY DEF Acquire, Free
<1>2. CASE entry # Absent
  <2>1. /\ thread' = [thread EXCEPT ![t].at = "serve"]
        /\ UNCHANGED <<entry, dbLock>>
    BY <1>2 DEF Acquire
  <2>2. entry > Loading
    BY <1>1, <1>2 DEF LockInv, TypeInv, Absent, Loading
  <2>3. TypeInv'
    BY <1>1, <2>1 DEF TypeInv, Places
  <2>4. LockInv'
    BY <1>1, <2>1 DEF LockInv, Holding, TypeInv
  <2>5. LookedInv' /\ PoolComplete'
    BY <1>1, <2>1, <2>2 DEF LookedInv, Looked, PoolComplete, TypeInv
  <2> QED
    BY <2>3, <2>4, <2>5
<1>3. CASE entry = Absent
  <2>1. /\ thread' = [thread EXCEPT ![t].at = "load"]
        /\ dbLock' = {t} /\ entry' = Loading
    BY <1>3 DEF Acquire
  <2>2. TypeInv'
    BY <1>1, <2>1 DEF TypeInv, Places, Loading
  <2>3. LockInv'
    BY <1>1, <2>1 DEF LockInv, Holding, TypeInv
  <2>4. \A o \in Thread : Looked(o) => o \in cut
    BY <1>3 DEF LookedInv, Absent, Loading
  <2>5. LookedInv' /\ PoolComplete'
    BY <1>1, <2>1, <2>4 DEF LookedInv, Looked, PoolComplete, TypeInv
  <2> QED
    BY <2>2, <2>3, <2>5
<1> QED
  BY <1>2, <1>3

\* The steps of a loading: the entry is that of the thread that loads, so that no
\* other thread has found it loaded.
LEMMA LoadingUnseen ==
  ASSUME PoolInv, NEW t \in Thread, thread[t].at \in Holding
  PROVE  /\ entry = Loading /\ dbLock = {t}
         /\ \A o \in Thread : Looked(o) => o \in cut
         /\ \A o \in Thread : o # t => thread[o].at \notin Holding
BY DEF PoolInv, LockInv, LookedInv, Loading

LEMMA SelectStep ==
  ASSUME PoolInv, NEW t \in Thread, Select(t)
  PROVE  PoolInv'
<1> USE DEF PoolInv, Select, At
<1>1. thread[t].at \in Holding
  BY DEF Holding
<1>2. TypeInv'
  BY DEF TypeInv, Places
<1>3. LockInv'
  BY <1>1, LoadingUnseen DEF LockInv, Holding, TypeInv
<1>4. LookedInv' /\ PoolComplete'
  BY DEF LookedInv, Looked, PoolComplete, TypeInv
<1> QED
  BY <1>2, <1>3, <1>4

LEMMA FilledStep ==
  ASSUME PoolInv, NEW t \in Thread, Filled(t)
  PROVE  PoolInv'
<1> USE DEF PoolInv, Filled, At, Step
<1>1. thread[t].at \in Holding
  BY DEF Holding
<1>2. entry' \in Nat /\ entry' > Loading
  BY DEF TypeInv, First, Loading
<1>3. TypeInv'
  BY <1>2 DEF TypeInv, Places
<1>4. LockInv'
  BY <1>1, <1>2, LoadingUnseen DEF LockInv, Holding, TypeInv, Free, Loading
<1>5. LookedInv' /\ PoolComplete'
  BY <1>2 DEF LookedInv, Looked, PoolComplete, TypeInv
<1> QED
  BY <1>3, <1>4, <1>5

LEMMA LoadFailsStep ==
  ASSUME PoolInv, NEW t \in Thread, LoadFails(t)
  PROVE  PoolInv'
<1> USE DEF PoolInv
<1>1. thread[t].at \in Holding
  BY DEF Holding, LoadFails, At
<1>2. /\ thread' = [thread EXCEPT ![t] = [at |-> "idle", pool |-> 0, listed |-> FALSE,
                                          target |-> 0]]
      /\ dbLock' = {} /\ entry' = Absent /\ UNCHANGED <<version, cut>>
  BY DEF LoadFails, Idle, Free
<1>3. TypeInv'
  BY <1>2 DEF TypeInv, Places, Absent
<1>4. LockInv'
  BY <1>1, <1>2, LoadingUnseen DEF LockInv, Holding, TypeInv, Absent, Loading
<1>5. LookedInv' /\ PoolComplete'
  BY <1>1, <1>2, LoadingUnseen DEF LookedInv, Looked, PoolComplete, TypeInv, At
<1> QED
  BY <1>3, <1>4, <1>5

\* A request that misses a class was cut.
LEMMA GetStep ==
  ASSUME PoolInv, NEW t \in Thread, Get(t) \/ Answer(t)
  PROVE  PoolInv'
<1> USE DEF PoolInv
<1>1. /\ thread[t].at \in {"serve", "KeyError"}
      /\ UNCHANGED <<version, entry, dbLock, cut>>
  BY DEF Get, Answer, At
<1>2. CASE Get(t) /\ ~(entry > Loading)
  <2>1. thread' = [thread EXCEPT ![t].at = "KeyError"]
    BY <1>2 DEF Get, Step
  <2>2. t \in cut
    BY <1>2 DEF Get, At, LookedInv, Looked
  <2>3. TypeInv'
    BY <1>1, <2>1 DEF TypeInv, Places
  <2>4. LockInv'
    BY <1>1, <2>1 DEF LockInv, Holding, TypeInv
  <2>5. LookedInv' /\ PoolComplete'
    BY <1>1, <2>1, <2>2 DEF LookedInv, Looked, PoolComplete, TypeInv, At
  <2> QED
    BY <2>3, <2>4, <2>5
<1>3. CASE thread' = [thread EXCEPT ![t] = Idle]
  <2>1. thread' = [thread EXCEPT ![t] = [at |-> "idle", pool |-> 0, listed |-> FALSE,
                                         target |-> 0]]
    BY <1>3 DEF Idle
  <2>2. TypeInv'
    BY <1>1, <2>1 DEF TypeInv, Places
  <2>3. LockInv'
    BY <1>1, <2>1 DEF LockInv, Holding, TypeInv
  <2>4. LookedInv' /\ PoolComplete'
    BY <1>1, <2>1 DEF LookedInv, Looked, PoolComplete, TypeInv, At
  <2> QED
    BY <2>2, <2>3, <2>4
<1> QED
  BY <1>2, <1>3 DEF Get, Answer

-------------------------------------------------------------------------------
(* Upgrades and the listener *)

LEMMA UpgradeStep ==
  ASSUME PoolInv, NEW t \in Thread, Upgrade(t)
  PROVE  PoolInv'
<1> USE DEF PoolInv
<1>1. PICK i \in 1..MaxInstance :
        thread' = [thread EXCEPT ![t].at = "update", ![t].pool = i]
  BY DEF Upgrade
<1>2. /\ thread[t].at = "serve" /\ dbLock = {} /\ dbLock' = {t} /\ entry' = Loading
      /\ version' = version
      /\ cut' = cut \cup {o \in Thread : o # t /\ (At(o, "serve") \/ At(o, "pool"))}
  BY DEF Upgrade, At, Free
<1>3. TypeInv'
  <2>1. i \in Nat
    OBVIOUS
  <2> QED
    BY <1>1, <1>2, <2>1 DEF TypeInv, Places, Loading
<1>4. LockInv'
  BY <1>1, <1>2 DEF LockInv, Holding, TypeInv
<1>5. LookedInv' /\ PoolComplete'
  BY <1>1, <1>2 DEF LookedInv, Looked, PoolComplete, TypeInv, At
<1> QED
  BY <1>3, <1>4, <1>5

LEMMA UpdatedStep ==
  ASSUME PoolInv, NEW t \in Thread, Updated(t)
  PROVE  PoolInv'
<1> USE DEF PoolInv, Updated, At
<1>1. thread[t].at \in Holding
  BY DEF Holding
<1>2. version' \in Nat /\ version' >= First /\ version + 1 >= First
  BY DEF TypeInv, First
<1>3. TypeInv'
  BY <1>2 DEF TypeInv, Places
<1>4. LockInv'
  BY <1>1, LoadingUnseen DEF LockInv, Holding, TypeInv
<1>5. LookedInv' /\ PoolComplete'
  BY DEF LookedInv, Looked, PoolComplete, TypeInv
<1> QED
  BY <1>3, <1>4, <1>5

\* The steps that leave the threads and the entry as they are.
LEMMA OtherStep ==
  ASSUME PoolInv,
         UpgradeElsewhere \/ Notified \/ Compare \/ StopInstance \/ UNCHANGED poolVars
  PROVE  PoolInv'
<1>1. /\ UNCHANGED <<entry, dbLock, thread, cut>>
      /\ version' = version \/ version' = version + 1
  BY DEF UpgradeElsewhere, Notified, Compare, StopInstance, poolVars
<1>2. TypeInv'
  BY <1>1 DEF PoolInv, TypeInv, First
<1> QED
  BY <1>1, <1>2 DEF PoolInv, LockInv, LookedInv, Looked, PoolComplete, At

LEMMA StopEntryStep ==
  ASSUME PoolInv, StopEntry
  PROVE  PoolInv'
<1> USE DEF PoolInv, StopEntry, At
<1>1. TypeInv'
  BY DEF TypeInv, Absent
<1>2. LockInv'
  BY DEF LockInv, Absent, Loading, Free
<1>3. LookedInv' /\ PoolComplete'
  BY DEF LookedInv, Looked, PoolComplete, TypeInv
<1> QED
  BY <1>1, <1>2, <1>3

\* For any number of threads: a request that has looked whether the pool is loaded
\* finds its classes, unless the pool was stopped or reset after it looked
\* (Pool.database_list, init, get and stop).
THEOREM PoolCompleteHolds == Spec => []PoolComplete
<1>1. ASSUME PoolInv, [Next]_poolVars
      PROVE  PoolInv'
  BY <1>1, ListStep, GetPoolStep, AcquireStep, SelectStep, FilledStep, LoadFailsStep, GetStep,
     UpgradeStep, UpdatedStep, OtherStep, StopEntryStep DEF Next
<1>2. PoolInv => PoolComplete
  BY DEF PoolInv
<1> QED
  BY InitPoolInv, <1>1, <1>2, PTL DEF Spec

-------------------------------------------------------------------------------
(* The process has the classes of the activated modules *)

ModulesTyped ==
  /\ instance \in {0} \cup 1..MaxInstance
  /\ modules \in [1..MaxInstance -> Nat] /\ \A i \in 1..MaxInstance : modules[i] <= version
  /\ entry <= version
  /\ listener \in [at : {"none", "idle", "pool", "stop", "entry"}, seen : Nat, told : BOOLEAN]
  /\ \A t \in Thread : At(t, "fill") => thread[t].target <= version

\* The modules of an instance are not yet known only while a thread loads with it.
PartialHeld ==
  \A i \in 1..MaxInstance :
    modules[i] = Partial => \E t \in Thread : thread[t].at \in Holding /\ thread[t].pool = i

\* The classes are not older than the modules of the registered instance.
NotOlder ==
  instance # 0 /\ modules[instance] > Partial =>
    /\ entry > Loading => modules[instance] <= entry
    /\ \A t \in Thread : At(t, "fill") => modules[instance] <= thread[t].target

\* A thread that loads the registered instance has yet to tell its modules, unless it
\* has upgraded them (Updated).
Fills(t) == At(t, "fill") /\ thread[t].pool = instance
TargetTold ==
  instance # 0 => \A t \in Thread :
    /\ Fills(t) => modules[instance] \in {Partial, thread[t].target}
    /\ thread[t].at \in {"load", "update"} /\ thread[t].pool = instance
         => modules[instance] = Partial

\* Unless the listener is told otherwise, what it compares with are the activated
\* modules, and so are, once it has compared, those of the registered instance.
Compared ==
  ~listener.told =>
    /\ listener.at = "pool" => listener.seen = version
    /\ listener.at \in {"idle", "entry"} /\ instance # 0 =>
         /\ modules[instance] > Partial => modules[instance] = version
         /\ \A t \in Thread : Fills(t) => thread[t].target = version

RefreshInv == PoolInv /\ ModulesTyped /\ PartialHeld /\ NotOlder /\ TargetTold /\ Compared


LEMMA NextPoolInv == PoolInv /\ [Next]_poolVars => PoolInv'
BY ListStep, GetPoolStep, AcquireStep, SelectStep, FilledStep, LoadFailsStep, GetStep,
   UpgradeStep, UpdatedStep, OtherStep, StopEntryStep DEF Next

\* Pool(database_name) leaves a registered instance as it is; a new one is not loaded,
\* and no thread loads then.
LEMMA Registered ==
  ASSUME RefreshInv, NEW i \in 1..MaxInstance, Instance(i)
  PROVE  /\ ModulesOf(i) \in [1..MaxInstance -> Nat]
         /\ \A j \in 1..MaxInstance : ModulesOf(i)[j] = modules[j] \/ ModulesOf(i)[j] = None
         /\ instance # 0 => i = instance /\ ModulesOf(i) = modules
         /\ instance = 0 => /\ ModulesOf(i)[i] = None
                            /\ \A t \in Thread : thread[t].at \notin Holding
BY DEF RefreshInv, PoolInv, LockInv, ModulesTyped, Instance, ModulesOf, None, Free

\* One thread loads at a time.
LEMMA OneLoads ==
  ASSUME RefreshInv, NEW t \in Thread, thread[t].at \in Holding
  PROVE  /\ \A o \in Thread \ {t} : thread[o].at \notin Holding
         /\ \A i \in 1..MaxInstance : modules[i] = Partial => i = thread[t].pool
  <1>1. \A o \in Thread \ {t} : thread[o].at \notin Holding
    BY LoadingUnseen DEF RefreshInv
  <1> QED BY <1>1 DEF RefreshInv, PartialHeld

LEMMA NextRefresh ==
  ASSUME RefreshInv, [Next]_poolVars
  PROVE  RefreshInv'
<1>p. PoolInv'
  BY NextPoolInv DEF RefreshInv
<1>i. /\ ModulesTyped /\ PartialHeld /\ NotOlder /\ TargetTold /\ Compared
      /\ TypeInv /\ LockInv
  BY DEF RefreshInv, PoolInv
<1>v. entry \in Nat /\ version \in Nat /\ version >= First /\ entry <= version
  BY <1>i DEF TypeInv, ModulesTyped
<1>n. instance \in {0} \cup 1..MaxInstance /\ (instance # 0 => instance \in 1..MaxInstance)
  BY <1>i DEF ModulesTyped
<1>m. modules \in [1..MaxInstance -> Nat] /\ \A i \in 1..MaxInstance : modules[i] <= version
  BY <1>i DEF ModulesTyped
<1>l. listener \in [at : {"none", "idle", "pool", "stop", "entry"}, seen : Nat, told : BOOLEAN]
  BY <1>i DEF ModulesTyped
<1>t. thread \in [Thread -> [at : Places, pool : Nat, listed : BOOLEAN, target : Nat]]
  BY <1>i DEF TypeInv
<1> DEFINE Kept == ModulesTyped /\ PartialHeld /\ NotOlder /\ TargetTold /\ Compared
<1>k. SUFFICES Kept'
  BY <1>p DEF RefreshInv
\* A thread that does not load moves.
<1>0. ASSUME UNCHANGED <<version, instance, modules, entry>>,
             \/ listener' = listener
             \/ listener' \in [at : {"idle"}, seen : Nat, told : {TRUE}],
             \A o \in Thread : \/ thread'[o] = thread[o]
                               \/ thread'[o].at \notin Holding /\ thread[o].at \notin Holding
      PROVE  Kept'
  <2>1. \A o \in Thread : At(o, "fill")' \/ thread'[o].at \in {"load", "update"}
                           => thread'[o] = thread[o]
    BY <1>0 DEF At, Holding
  <2>2. ModulesTyped' /\ NotOlder' /\ TargetTold' /\ Compared'
    BY <1>i, <1>0, <2>1 DEF ModulesTyped, NotOlder, TargetTold, Compared, Fills, At
  <2>3. PartialHeld'
    BY <1>i, <1>0 DEF PartialHeld
  <2> QED BY <2>2, <2>3
<1>1. ASSUME NEW t \in Thread, List(t) \/ Get(t) \/ Answer(t) PROVE Kept'
  <2>1. /\ UNCHANGED <<version, instance, modules, entry, listener>>
        /\ thread[t].at \in {"idle", "serve", "KeyError"}
        /\ \A o \in Thread \ {t} : thread'[o] = thread[o]
    BY <1>1, <1>t DEF List, Get, Answer, At, Step
  <2>2. thread'[t].at \in {"pool", "idle", "KeyError"}
    BY <1>1, <1>t DEF List, Get, Answer, Step, Idle
  <2> QED BY <1>0, <2>1, <2>2 DEF Holding
<1>2. ASSUME NEW t \in Thread, GetPool(t) PROVE Kept'
  <2>1. PICK i \in 1..MaxInstance :
          /\ Instance(i) /\ instance' = i /\ modules' = ModulesOf(i)
          /\ thread' = [thread EXCEPT ![t].pool = i,
                                      ![t].at = IF thread[t].listed THEN "serve" ELSE "init"]
    BY <1>2 DEF GetPool
  <2>2. /\ thread[t].at = "pool" /\ thread'[t].at \in {"serve", "init"}
        /\ \A o \in Thread \ {t} : thread'[o] = thread[o]
        /\ UNCHANGED <<version, entry, listener>>
    BY <1>2, <1>t, <2>1 DEF GetPool, At
  <2>3. CASE instance # 0
    BY <1>0, <2>1, <2>2, <2>3, Registered DEF Holding
  <2>4. CASE instance = 0
    <3>1. /\ modules' \in [1..MaxInstance -> Nat] /\ modules'[i] = None
          /\ \A j \in 1..MaxInstance : modules'[j] = modules[j] \/ modules'[j] = None
          /\ \A o \in Thread : thread'[o].at \notin Holding /\ thread[o].at \notin Holding
      BY <2>1, <2>2, <2>4, Registered DEF Holding
    <3>2. \A o \in Thread : ~At(o, "fill")'
      BY <3>1 DEF At, Holding
    <3>3. ModulesTyped'
      <4>1. \A j \in 1..MaxInstance : modules'[j] <= version
        BY <1>m, <1>v, <3>1 DEF None
      <4> QED BY <1>n, <1>v, <1>l, <2>1, <2>2, <3>1, <3>2, <4>1 DEF ModulesTyped
    <3>4. PartialHeld'
      BY <1>i, <3>1 DEF PartialHeld, None, Partial
    <3>5. ~(modules'[instance'] > Partial) /\ \A o \in Thread : ~Fills(o)'
      BY <2>1, <3>1, <3>2 DEF None, Partial, Fills
    <3>6. NotOlder'
      BY <3>5 DEF NotOlder
    <3>7. TargetTold'
      BY <3>1, <3>5 DEF TargetTold, Holding
    <3>8. Compared'
      BY <1>i, <2>2, <3>5 DEF Compared
    <3> QED BY <3>3, <3>4, <3>6, <3>7, <3>8
  <2> QED BY <2>3, <2>4
\* The thread that begins to load is the one that loads.
<1>3. ASSUME NEW t \in Thread, Acquire(t) PROVE Kept'
  <2>1. /\ thread[t].at = "init" /\ dbLock = Free /\ UNCHANGED <<version, instance>>
        /\ \/ listener' = listener
           \/ listener' \in [at : {"idle"}, seen : Nat, told : {TRUE}]
    BY <1>3, <1>l DEF Acquire, At
  <2>2. CASE entry # Absent
    <3>1. UNCHANGED <<entry, modules>> /\ thread' = [thread EXCEPT ![t].at = "serve"]
      BY <1>3, <2>2 DEF Acquire, Step
    <3> QED BY <1>0, <1>t, <2>1, <3>1 DEF Holding
  <2>3. CASE entry = Absent
    <3>1. /\ modules' = [modules EXCEPT ![thread[t].pool] = Partial]
          /\ thread' = [thread EXCEPT ![t].at = "load"] /\ entry' = Loading
      BY <1>3, <2>3 DEF Acquire, Step, Begun
    <3>2. \A o \in Thread : thread[o].at \notin Holding
      BY <1>i, <2>1 DEF LockInv, Free
    <3>3. \A o \in Thread : thread'[o].at # "fill"
      BY <1>t, <3>1, <3>2 DEF Holding
    <3>4. \A j \in 1..MaxInstance : \/ modules'[j] = modules[j]
                                    \/ modules'[j] = Partial /\ j = thread[t].pool
      BY <1>t, <3>1
    <3>5. ModulesTyped'
      <4>0. modules' \in [1..MaxInstance -> Nat]
        <5>1. modules \in [1..MaxInstance -> Nat] /\ Partial \in Nat
          BY <1>m DEF Partial
        <5> QED BY <3>1, <5>1
      <4>1. \A j \in 1..MaxInstance : modules'[j] <= version
        BY <1>m, <1>v, <3>4 DEF Partial, First
      <4>2. listener' \in [at : {"none", "idle", "pool", "stop", "entry"}, seen : Nat,
                            told : BOOLEAN]
        BY <1>l, <2>1
      <4>3. entry' <= version
        BY <1>v, <3>1 DEF Loading, First
      <4> QED BY <1>n, <2>1, <3>3, <4>0, <4>1, <4>2, <4>3 DEF ModulesTyped, At
    <3>6. PartialHeld'
      <4>1. thread'[t].at \in Holding /\ thread'[t].pool = thread[t].pool
        BY <1>t, <3>1 DEF Holding
      <4> QED BY <1>i, <3>2, <3>4, <4>1 DEF PartialHeld
    <3>7. NotOlder' /\ TargetTold'
      <4>1. \A o \in Thread : thread'[o].at \in {"load", "update"} => o = t
        BY <1>t, <3>1, <3>2 DEF Holding
      <4>2. thread'[t].pool = thread[t].pool
        BY <1>t, <3>1
      <4>4. instance # 0 /\ instance = thread[t].pool => modules'[instance] = Partial
        BY <1>m, <1>n, <3>1
      <4> QED BY <2>1, <3>1, <3>3, <4>1, <4>2, <4>4 DEF NotOlder, TargetTold, Fills, At, Loading
    <3>8. Compared'
      <4>1. \A o \in Thread : ~Fills(o)'
        BY <3>3 DEF Fills, At
      <4>2. instance # 0 /\ modules'[instance] > Partial => modules'[instance] = modules[instance]
        BY <1>n, <3>4 DEF Partial
      <4>3. CASE listener' = listener
        BY <1>i, <2>1, <4>1, <4>2, <4>3 DEF Compared
      <4>4. CASE listener'.told
        BY <4>4 DEF Compared
      <4> QED BY <2>1, <4>3, <4>4
    <3> QED BY <3>5, <3>6, <3>7, <3>8
  <2> QED BY <2>2, <2>3
<1>4. ASSUME NEW t \in Thread, Select(t) PROVE Kept'
  <2>1. /\ thread[t].at = "load" /\ UNCHANGED <<version, instance, modules, entry, listener>>
        /\ thread' = [thread EXCEPT ![t].at = "fill", ![t].target = version]
    BY <1>4 DEF Select, At
  <2>2. /\ thread'[t].at = "fill" /\ thread'[t].target = version
        /\ thread'[t].pool = thread[t].pool
        /\ \A o \in Thread \ {t} : thread'[o] = thread[o]
    BY <1>t, <2>1
  <2>3. entry = Loading /\ (\A o \in Thread \ {t} : thread[o].at \notin Holding)
    BY <2>1, OneLoads, LoadingUnseen DEF Holding, RefreshInv
  <2>4. \A o \in Thread : At(o, "fill")' => o = t
    BY <2>2, <2>3 DEF At, Holding
  <2>5. instance # 0 => instance \in 1..MaxInstance /\ modules[instance] <= version
    BY <1>m, <1>n
  <2>6. ModulesTyped'
    <3>1. \A o \in Thread : At(o, "fill")' => thread'[o].target <= version
      BY <1>v, <2>2, <2>4
    <3> QED BY <1>i, <2>1, <3>1 DEF ModulesTyped
  <2>7. PartialHeld'
    <3>1. \A o \in Thread : thread[o].at \in Holding
                              => thread'[o].at \in Holding /\ thread'[o].pool = thread[o].pool
      BY <2>2 DEF Holding
    <3> QED BY <1>i, <2>1, <3>1 DEF PartialHeld
  <2>8. NotOlder'
    <3>1. ~(entry' > Loading)
      BY <2>1, <2>3 DEF Loading
    <3>2. \A o \in Thread : At(o, "fill")' => thread'[o].target = version
      BY <2>2, <2>4
    <3> QED BY <2>1, <2>5, <3>1, <3>2 DEF NotOlder
  <2>9. TargetTold'
    <3>1. \A o \in Thread \ {t} : thread'[o].at \notin {"load", "update", "fill"}
      BY <2>2, <2>3 DEF Holding
    <3> QED BY <1>i, <2>1, <2>2, <3>1 DEF TargetTold, Fills, At
  <2>10. Compared'
    BY <1>i, <2>1, <2>2, <2>4 DEF Compared, Fills
  <2> QED BY <2>6, <2>7, <2>8, <2>9, <2>10
<1>5. ASSUME NEW t \in Thread, Filled(t) PROVE Kept'
  <2> DEFINE new == thread[t].target
  <2>1. /\ thread[t].at = "fill" /\ UNCHANGED <<version, instance, listener>>
        /\ thread' = [thread EXCEPT ![t].at = "serve"] /\ entry' = new
        /\ modules' = [modules EXCEPT ![thread[t].pool] = new]
    BY <1>5 DEF Filled, At, Step
  <2>2. /\ new \in Nat /\ new >= First /\ new <= version
        /\ (\A o \in Thread \ {t} : thread[o].at \notin Holding)
        /\ \A i \in 1..MaxInstance : modules[i] = Partial => i = thread[t].pool
    BY <1>i, <1>t, <2>1, OneLoads DEF TypeInv, ModulesTyped, At, Holding
  <2>3. \A o \in Thread : thread'[o].at \notin Holding
    BY <1>t, <2>1, <2>2 DEF Holding
  <2>4. \A j \in 1..MaxInstance : \/ modules'[j] = modules[j] /\ j # thread[t].pool
                                  \/ modules'[j] = new /\ j = thread[t].pool
    BY <1>m, <2>1
  <2>5. instance # 0 => instance \in 1..MaxInstance
    BY <1>n
  <2> HIDE DEF new
  <2>6. ModulesTyped'
    BY <1>i, <1>t, <2>1, <2>2, <2>3, <2>4 DEF ModulesTyped, At, Holding
  <2>7. PartialHeld'
    <3>1. \A j \in 1..MaxInstance : modules'[j] # Partial
      BY <2>2, <2>4 DEF First, Partial
    <3> QED BY <3>1 DEF PartialHeld
  <2>8. NotOlder'
    <3>1. instance # 0 /\ modules'[instance] > Partial => modules'[instance] <= new
      <4>1. CASE instance # 0 /\ instance = thread[t].pool
        BY <2>2, <2>4, <2>5, <4>1
      <4>2. CASE instance # 0 /\ instance # thread[t].pool
        BY <1>i, <2>1, <2>4, <2>5, <4>2 DEF NotOlder, At, new
      <4> QED BY <4>1, <4>2
    <3> QED BY <2>1, <2>3, <3>1 DEF NotOlder, At, Holding
  <2>9. TargetTold'
    BY <2>3 DEF TargetTold, Fills, At, Holding
  <2>10. Compared'
    <3>1. \A o \in Thread : ~Fills(o)'
      BY <2>3 DEF Fills, At, Holding
    <3>2. ASSUME ~listener.told, listener.at \in {"idle", "entry"}, instance # 0,
                 modules'[instance] > Partial
          PROVE  modules'[instance] = version
      <4>1. CASE instance = thread[t].pool
        BY <1>i, <2>1, <2>4, <2>5, <3>2, <4>1 DEF Compared, Fills, At, new
      <4>2. CASE instance # thread[t].pool
        BY <1>i, <2>4, <2>5, <3>2, <4>2 DEF Compared
      <4> QED BY <4>1, <4>2
    <3> QED BY <1>i, <2>1, <3>1, <3>2 DEF Compared
  <2> QED BY <2>6, <2>7, <2>8, <2>9, <2>10
<1>6. ASSUME NEW t \in Thread, LoadFails(t) PROVE Kept'
  <2>1. /\ thread[t].at \in Holding /\ UNCHANGED <<version, instance, listener>>
        /\ thread' = [thread EXCEPT ![t] = Idle] /\ entry' = Absent
        /\ modules' = [modules EXCEPT ![thread[t].pool] = None]
    BY <1>6 DEF LoadFails, At, Holding
  <2>2. /\ \A o \in Thread \ {t} : thread[o].at \notin Holding
        /\ \A i \in 1..MaxInstance : modules[i] = Partial => i = thread[t].pool
    BY <2>1, OneLoads
  <2>3. \A o \in Thread : thread'[o].at \notin Holding
    BY <1>t, <2>1, <2>2 DEF Holding, Idle
  <2>4. \A j \in 1..MaxInstance : \/ modules'[j] = modules[j] /\ j # thread[t].pool
                                  \/ modules'[j] = None
    BY <1>m, <2>1
  <2>5. ModulesTyped'
    <3>0. modules' \in [1..MaxInstance -> Nat]
      <4>1. modules \in [1..MaxInstance -> Nat] /\ None \in Nat
        BY <1>m DEF None
      <4> QED BY <2>1, <4>1
    <3>1. \A j \in 1..MaxInstance : modules'[j] <= version
      BY <1>m, <1>v, <2>4 DEF None
    <3>2. entry' <= version /\ \A o \in Thread : ~At(o, "fill")'
      BY <1>v, <2>1, <2>3 DEF At, Holding, Absent
    <3> QED BY <1>n, <1>l, <2>1, <3>0, <3>1, <3>2 DEF ModulesTyped
  <2>6. PartialHeld'
    BY <2>2, <2>4 DEF PartialHeld, None, Partial
  <2>7. instance # 0 => instance \in 1..MaxInstance
    BY <1>n
  <2>8. \A o \in Thread : ~At(o, "fill")' /\ ~Fills(o)'
    BY <2>3 DEF Fills, At, Holding
  <2>9. NotOlder' /\ TargetTold'
    BY <2>1, <2>3, <2>8 DEF NotOlder, TargetTold, Holding, Absent, Loading
  <2>10. Compared'
    BY <1>i, <2>1, <2>4, <2>7, <2>8 DEF Compared, None, Partial
  <2> QED BY <2>5, <2>6, <2>9, <2>10
<1>7. ASSUME NEW t \in Thread, Upgrade(t) PROVE Kept'
  <2>1. PICK i \in 1..MaxInstance :
          /\ Instance(i) /\ instance' = i
          /\ modules' = [ModulesOf(i) EXCEPT ![i] = Partial]
          /\ thread' = [thread EXCEPT ![t].at = "update", ![t].pool = i]
    BY <1>7 DEF Upgrade
  <2>2. /\ dbLock = Free /\ entry' = Loading /\ UNCHANGED <<version, listener>>
    BY <1>7 DEF Upgrade
  <2>3. \A o \in Thread : thread[o].at \notin Holding
    BY <1>i, <2>2 DEF LockInv, Free
  <2>4. /\ thread'[t].at = "update" /\ thread'[t].pool = i
        /\ \A o \in Thread \ {t} : thread'[o] = thread[o]
        /\ \A o \in Thread : ~At(o, "fill")'
    BY <1>t, <2>1, <2>3 DEF Holding, At
  <2>5. /\ modules' \in [1..MaxInstance -> Nat] /\ modules'[i] = Partial
        /\ \A j \in 1..MaxInstance : j = i \/ modules'[j] \in {modules[j], None}
    BY <2>1, Registered DEF Partial
  <2>6. ModulesTyped'
    <3>1. \A j \in 1..MaxInstance : modules'[j] <= version
      BY <1>m, <1>v, <2>5 DEF None, Partial, First
    <3>2. entry' <= version
      BY <1>v, <2>2 DEF Loading, First
    <3> QED BY <1>n, <1>l, <2>1, <2>2, <2>4, <2>5, <3>1, <3>2 DEF ModulesTyped
  <2>7. PartialHeld'
    <3>1. \A j \in 1..MaxInstance : modules[j] # Partial
      BY <1>i, <2>3 DEF PartialHeld
    <3> QED BY <2>4, <2>5, <3>1 DEF PartialHeld, Holding, None, Partial
  <2>8. NotOlder' /\ TargetTold' /\ Compared'
    BY <1>i, <2>1, <2>2, <2>4, <2>5 DEF NotOlder, TargetTold, Compared, Fills, Partial
  <2> QED BY <2>6, <2>7, <2>8
<1>8. ASSUME NEW t \in Thread, Updated(t) PROVE Kept'
  <2>1. /\ thread[t].at = "update" /\ UNCHANGED <<instance, entry>> /\ version' = version + 1
        /\ thread' = [thread EXCEPT ![t].at = "fill", ![t].target = version + 1]
        /\ modules' = [modules EXCEPT ![thread[t].pool] = version + 1]
        /\ listener' = [listener EXCEPT !.told = (listener.at # "none")]
    BY <1>8 DEF Updated, At, Told
  <2>0. version' = version + 1
    BY <2>1
  <2>a. version' \in Nat /\ version <= version' /\ version + 1 \in Nat /\ version + 1 >= First
    BY <1>v, <2>0 DEF First
  <2>2. /\ entry = Loading /\ (\A o \in Thread \ {t} : thread[o].at \notin Holding)
        /\ \A i \in 1..MaxInstance : modules[i] = Partial => i = thread[t].pool
    BY <2>1, OneLoads, LoadingUnseen DEF Holding, RefreshInv
  <2>3. /\ thread'[t].at = "fill" /\ thread'[t].target = version + 1
        /\ thread'[t].pool = thread[t].pool
        /\ \A o \in Thread \ {t} : thread'[o] = thread[o]
    BY <1>t, <2>1
  <2>4. \A o \in Thread \ {t} : thread'[o].at \notin {"load", "update", "fill"}
    BY <2>2, <2>3 DEF Holding
  <2>5. \A j \in 1..MaxInstance : \/ modules'[j] = modules[j] /\ j # thread[t].pool
                                  \/ modules'[j] = version + 1 /\ j = thread[t].pool
    BY <1>m, <2>1
  <2>6. instance # 0 => instance \in 1..MaxInstance /\ modules[instance] <= version
    BY <1>m, <1>n
  <2>7. /\ listener' \in [at : {"none", "idle", "pool", "stop", "entry"}, seen : Nat,
                           told : BOOLEAN]
        /\ listener'.told \/ listener'.at = "none"
    BY <1>l, <2>1
  <2>8. ModulesTyped'
    <3>1. modules' \in [1..MaxInstance -> Nat]
      <4>1. modules \in [1..MaxInstance -> Nat]
        BY <1>m
      <4> QED BY <2>1, <2>a, <4>1
    <3>2. \A j \in 1..MaxInstance : modules'[j] <= version'
      BY <1>m, <1>v, <2>0, <2>5
    <3>3. entry' <= version'
      BY <1>v, <2>1, <2>a
    <3>4. \A o \in Thread : At(o, "fill")' => thread'[o].target <= version'
      BY <1>v, <2>0, <2>3, <2>4 DEF At
    <3> QED BY <1>n, <2>1, <2>7, <3>1, <3>2, <3>3, <3>4 DEF ModulesTyped
  <2>9. PartialHeld'
    <3>1. \A j \in 1..MaxInstance : modules'[j] # Partial
      BY <1>v, <2>2, <2>5 DEF First, Partial
    <3> QED BY <3>1 DEF PartialHeld
  <2>10. NotOlder'
    <3>1. ~(entry' > Loading)
      BY <2>1, <2>2 DEF Loading
    <3>2. \A o \in Thread : At(o, "fill")' => thread'[o].target = version + 1
      BY <2>3, <2>4 DEF At
    <3>3. instance # 0 => modules'[instance] <= version + 1
      BY <1>m, <1>v, <2>5, <2>6
    <3> QED BY <2>1, <3>1, <3>2, <3>3 DEF NotOlder
  <2>11. TargetTold'
    BY <2>1, <2>3, <2>4, <2>5, <2>6, Zenon DEF TargetTold, Fills, At
  <2>12. Compared'
    BY <2>7 DEF Compared
  <2> QED BY <2>8, <2>9, <2>10, <2>11, <2>12
<1>9. CASE UpgradeElsewhere
  <2>1. /\ UNCHANGED <<instance, modules, entry, thread>> /\ version' = version + 1
        /\ listener' = [listener EXCEPT !.told = (listener.at # "none")]
    BY <1>9 DEF UpgradeElsewhere, Told
  <2>2. /\ listener' \in [at : {"none", "idle", "pool", "stop", "entry"}, seen : Nat,
                           told : BOOLEAN]
        /\ listener'.told \/ listener'.at = "none"
    BY <1>l, <2>1
  <2>0. version' = version + 1
    BY <2>1
  <2>a. version' \in Nat /\ version <= version'
    BY <1>v, <2>0
  <2>3. ModulesTyped'
    <3>1. \A j \in 1..MaxInstance : modules'[j] <= version'
      BY <1>m, <1>v, <2>0, <2>1
    <3>2. \A t \in Thread : At(t, "fill")' => thread'[t].target <= version'
      BY <1>i, <1>t, <1>v, <2>1 DEF ModulesTyped, TypeInv, At
    <3>3. entry' <= version'
      BY <1>v, <2>1
    <3> QED BY <1>m, <1>n, <2>1, <2>2, <2>a, <3>1, <3>2, <3>3 DEF ModulesTyped
  <2>4. PartialHeld' /\ NotOlder' /\ TargetTold'
    BY <1>i, <2>1 DEF PartialHeld, NotOlder, TargetTold, Fills, At
  <2> QED BY <2>2, <2>3, <2>4 DEF Compared
\* The listener moves.
<1>10. ASSUME UNCHANGED <<version, modules, thread>>, instance' \in {instance, 0},
              entry' \in {entry, Absent},
              listener' \in [at : {"none", "idle", "pool", "stop", "entry"}, seen : Nat,
                             told : BOOLEAN]
       PROVE  ModulesTyped' /\ PartialHeld' /\ NotOlder' /\ TargetTold'
  <2>1. ModulesTyped'
    <3>1. instance' \in {0} \cup 1..MaxInstance
      BY <1>n, <1>10
    <3>2. entry' <= version
      BY <1>v, <1>10 DEF Absent, First
    <3> QED BY <1>i, <1>10, <3>1, <3>2 DEF ModulesTyped, At
  <2>2. PartialHeld' /\ NotOlder' /\ TargetTold'
    BY <1>i, <1>10 DEF PartialHeld, NotOlder, TargetTold, Fills, At, Absent, Loading
  <2> QED BY <2>1, <2>2
<1>11. CASE Notified
  <2>1. /\ listener' = [at |-> "pool", seen |-> version, told |-> FALSE]
        /\ UNCHANGED <<version, instance, modules, entry, thread>>
    BY <1>11 DEF Notified
  <2>2. Compared'
    BY <2>1 DEF Compared
  <2> QED BY <1>v, <1>l, <1>10, <2>1, <2>2
\* The listener compares: the registered instance has the modules that it has seen.
<1>12. CASE Compare
  <2>1. PICK i \in 1..MaxInstance :
          /\ Instance(i) /\ instance' = i /\ modules' = ModulesOf(i)
          /\ listener' = [listener EXCEPT !.at =
               IF modules'[i] # None /\ modules'[i] # listener.seen THEN "stop" ELSE "idle"]
    BY <1>12 DEF Compare
  <2>2. listener.at = "pool" /\ UNCHANGED <<version, entry, thread>>
    BY <1>12 DEF Compare
  <2>3. /\ listener' \in [at : {"idle", "stop"}, seen : Nat, told : BOOLEAN]
        /\ listener'.told = listener.told /\ listener'.seen = listener.seen
        /\ listener'.at = "idle" => modules'[i] \in {None, listener.seen}
    BY <1>l, <2>1
  <2>4. CASE instance # 0
    <3>1. UNCHANGED <<instance, modules>>
      BY <2>1, <2>4, Registered
    <3>2. Compared'
      <4> SUFFICES ASSUME ~listener.told, listener'.at = "idle"
                   PROVE  /\ modules[instance] > Partial => modules[instance] = version
                          /\ \A t \in Thread : Fills(t) => thread[t].target = version
          BY <2>2, <2>3, <3>1 DEF Compared, Fills, At
      <4>1. modules[instance] \in {None, version}
        BY <1>i, <2>1, <2>2, <2>3, <3>1 DEF Compared
      <4>2. \A t \in Thread : Fills(t) => modules[instance] = thread[t].target
        BY <1>i, <1>v, <2>4, <4>1 DEF TargetTold, None, Partial, First
      <4>3. \A t \in Thread : Fills(t) => thread[t].target >= First
        BY <1>i DEF TypeInv, Fills, At
      <4> QED BY <4>1, <4>2, <4>3 DEF None, Partial, First
    <3> QED BY <1>10, <2>2, <2>3, <3>1, <3>2
  <2>5. CASE instance = 0
    <3>1. /\ modules' \in [1..MaxInstance -> Nat] /\ modules'[i] = None
          /\ \A j \in 1..MaxInstance : modules'[j] = modules[j] \/ modules'[j] = None
          /\ \A o \in Thread : thread[o].at \notin Holding
      BY <2>1, <2>5, Registered
    <3>2. \A o \in Thread : ~At(o, "fill")' /\ thread'[o].at \notin {"load", "update"}
      BY <2>2, <3>1 DEF At, Holding
    <3>3. ModulesTyped'
      <4>1. \A j \in 1..MaxInstance : modules'[j] <= version
        BY <1>m, <1>v, <3>1 DEF None
      <4> QED BY <1>n, <1>v, <2>1, <2>2, <2>3, <3>1, <3>2, <4>1 DEF ModulesTyped
    <3>4. PartialHeld'
      BY <1>i, <2>2, <3>1 DEF PartialHeld, None, Partial
    <3> QED BY <2>1, <2>3, <3>1, <3>2, <3>3, <3>4
            DEF NotOlder, TargetTold, Compared, Fills, None, Partial
  <2> QED BY <2>4, <2>5
<1>13. CASE StopInstance
  <2>1. /\ UNCHANGED <<version, modules, entry, thread>> /\ instance' = 0
        /\ listener' = [listener EXCEPT !.at = "entry"]
    BY <1>13 DEF StopInstance
  <2>2. listener'.at = "entry"
    BY <1>l, <2>1
  <2>3. Compared'
    BY <2>1, <2>2 DEF Compared
  <2> QED BY <1>v, <1>l, <1>10, <2>1, <2>3
<1>14. CASE StopEntry
  <2>1. /\ listener.at = "entry" /\ listener' = [listener EXCEPT !.at = "idle"]
        /\ UNCHANGED <<version, instance, modules, thread>> /\ entry' = Absent
    BY <1>14 DEF StopEntry
  <2>2. Compared'
    BY <1>i, <1>l, <2>1 DEF Compared, Fills, At
  <2> QED BY <1>v, <1>l, <1>10, <2>1, <2>2
<1>15. CASE UNCHANGED poolVars
  BY <1>0, <1>15 DEF poolVars
<1> QED
  BY <1>1, <1>2, <1>3, <1>4, <1>5, <1>6, <1>7, <1>8, <1>9, <1>11, <1>12, <1>13, <1>14, <1>15
     DEF Next

\* For any number of threads, instances, upgrades and failures: once the listener has
\* handled what it was told, a process whose registered instance was loaded has the
\* classes of the activated modules (Pool.refresh, stop and init; NOTIFY "ir_cache").
THEOREM PoolRefreshedHolds == Spec => []PoolRefreshed
<1>1. ASSUME Init
      PROVE  RefreshInv
  <2>1. /\ version = First /\ instance = 0 /\ entry = Absent
        /\ modules = [i \in 1..MaxInstance |-> None]
        /\ listener = [at |-> "none", seen |-> 0, told |-> FALSE]
        /\ \A t \in Thread : thread[t].at = "idle"
    BY <1>1 DEF Init, Idle
  <2>2. ModulesTyped
    BY <2>1 DEF ModulesTyped, None, First, Absent, At
  <2>3. PartialHeld /\ NotOlder /\ TargetTold /\ Compared
    BY <2>1 DEF PartialHeld, NotOlder, TargetTold, Compared, Fills, At, None, Partial, Absent, Loading
  <2> QED BY <1>1, <2>2, <2>3, InitPoolInv DEF RefreshInv
<1>2. RefreshInv => PoolRefreshed
  <2> SUFFICES ASSUME RefreshInv, Quiet, entry # Absent, instance # 0,
                      modules[instance] # None
               PROVE  entry = version
      BY DEF PoolRefreshed
  <2>1. /\ instance \in 1..MaxInstance /\ modules[instance] \in Nat
        /\ entry \in Nat /\ version \in Nat /\ entry <= version
    BY DEF RefreshInv, PoolInv, TypeInv, ModulesTyped
  <2>2. entry > Loading /\ modules[instance] # Partial
    BY <2>1 DEF RefreshInv, PoolInv, LockInv, PartialHeld, Quiet, Free, Absent, Loading
  <2>3. modules[instance] = version /\ modules[instance] <= entry
    BY <2>1, <2>2 DEF RefreshInv, NotOlder, Compared, Quiet, None, Partial
  <2> QED BY <2>1, <2>3
<1> QED BY <1>1, <1>2, NextRefresh, PTL DEF Spec
===============================================================================
