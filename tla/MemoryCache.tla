---------------------------- MODULE MemoryCache ----------------------------
(***************************************************************************)
(* trytond.cache.MemoryCache: the per-process cache of query results and   *)
(* the protocol that invalidates it across threads and processes, together *)
(* with the part of trytond.transaction that drives it (start, commit,     *)
(* rollback, stop) and the PostgreSQL snapshots it relies on.              *)
(*                                                                         *)
(* A cached value is the set of writes visible to the query that computed  *)
(* it, so "older" is "subset".  One key stands for all keys of a cache.    *)
(*                                                                         *)
(* Clock readings are kept only through the comparisons the code makes:    *)
(* behind[t] holds the caches whose _transaction_lower exceeds t's         *)
(* started_at, and invalid[p] (table mode) the caches whose ir_cache row   *)
(* is newer than p's _timestamp.  Both clocks are taken to advance between *)
(* two readings.                                                           *)
(***************************************************************************)
EXTENDS Naturals

CONSTANTS
  Procs,       \* server processes (os.getpid())
  Trans,       \* Transaction objects, one per thread and reused after stop
  ProcOf,      \* the process each thread runs in
  Names,       \* the Cache instances, by name
  Writes,      \* identities of the database writes: bounds their number
  NoValue,     \* "not in the cache", "no snapshot yet", "nothing pending"
  Channel,     \* TRUE: clean_timeout = 0 and the back-end has channels
  Preemptive   \* TRUE: a thread may lose the GIL inside _clear and set

ASSUME ConstantsAssumption ==
  /\ ProcOf \in [Trans -> Procs]
  /\ Channel \in BOOLEAN
  /\ Preemptive \in BOOLEAN
  /\ Preemptive => Channel      \* table mode is modelled method by method
  /\ \A v \in SUBSET Writes : v # NoValue
  /\ NoValue \notin Names
  /\ NoValue \notin [Names -> SUBSET Writes]
  /\ NoValue \notin [name : Names, value : SUBSET Writes,
                     at : {"loaded", "shared"}]

VARIABLES
  committed,   \* the database: writes committed under each cache's tables
  used,        \* writes already issued
  phase,       \* "none" (no transaction), "open", "committing"
  snap,        \* the snapshot of the database transaction, once taken
  own,         \* uncommitted writes of the transaction
  behind,      \* caches with started_at < _transaction_lower
  reset,       \* MemoryCache._reset
  private,     \* MemoryCache._transaction_cache
  pending,     \* the value a thread has queried and is about to set
  outbox,      \* NOTIFY payload queued in the database transaction
  shared,      \* MemoryCache._database_cache
  floor,       \* history: what was committed when the cache was last cleared
  listener,    \* MemoryCache._listener: "none", "listening", "running"
  invalid,     \* invalidations published and not yet applied by a process
  clearing,    \* the cache a listener has replaced, lower not yet moved
  due          \* processes where clean_timeout seconds have passed since _clean_last

database == <<committed, used>>
transaction == <<phase, snap, own, behind, reset, private, pending, outbox>>
process == <<shared, floor, listener, invalid, clearing, due>>
vars == <<database, transaction, process>>

Value == SUBSET Writes
Nothing == [n \in Names |-> {}]
Empty == [n \in Names |-> NoValue]

Init ==
  /\ committed = Nothing
  /\ used = {}
  /\ phase = [t \in Trans |-> "none"]
  /\ snap = [t \in Trans |-> NoValue]
  /\ own = [t \in Trans |-> Nothing]
  /\ behind = [t \in Trans |-> {}]
  /\ reset = [t \in Trans |-> {}]
  /\ private = [t \in Trans |-> Empty]
  /\ pending = [t \in Trans |-> NoValue]
  /\ outbox = [t \in Trans |-> {}]
  /\ shared = [p \in Procs |-> Empty]
  /\ floor = [p \in Procs |-> Nothing]
  /\ listener = [p \in Procs |-> "none"]
  /\ invalid = [p \in Procs |-> {}]
  /\ clearing = [p \in Procs |-> NoValue]
  /\ due = {}

-----------------------------------------------------------------------------
(* Reading and filling a cache *)

\* Mutants of UsesPrivate: the lower bound, or the reset mark, is forgotten.
UsesPrivateNoLower(t, n) == reset[t] # {}
UsesPrivateNoReset(t, n) == n \in behind[t]

\* _get_cache: a transaction that cleared any cache, or that started before
\* this cache was last cleared, does not touch the shared dictionary.
UsesPrivate(t, n) == reset[t] # {} \/ n \in behind[t]

Lookup(t, n) ==
  IF UsesPrivate(t, n) THEN private[t][n] ELSE shared[ProcOf[t]][n]

\* The database as the transaction sees it: its snapshot, taken by its first
\* query (REPEATABLE READ), and its own writes.
SnapshotOf(t) == IF snap[t] = NoValue THEN committed ELSE snap[t]
Visible(t, n) == SnapshotOf(t)[n] \cup own[t][n]

Idle(t) == phase[t] = "open" /\ pending[t] = NoValue

\* get misses, so the caller queries the database.
Load(t, n) ==
  /\ Idle(t)
  /\ Lookup(t, n) = NoValue
  /\ snap' = [snap EXCEPT ![t] = SnapshotOf(t)]
  /\ pending' = [pending EXCEPT
       ![t] = [name |-> n, value |-> Visible(t, n), at |-> "loaded"]]
  /\ UNCHANGED <<database, phase, own, behind, reset, private, outbox, process>>

HasPending(t, at) == pending[t] # NoValue /\ pending[t].at = at

\* set, first half: _get_cache compares started_at with the lower bound.  The
\* private dictionary is this thread's own, so filling it ends set.
Choose(t) ==
  LET n == pending[t].name IN
  /\ HasPending(t, "loaded")
  /\ Preemptive \/ clearing[ProcOf[t]] = NoValue
  /\ \/ /\ UsesPrivate(t, n)
        /\ private' = [private EXCEPT ![t][n] = pending[t].value]
        /\ pending' = [pending EXCEPT ![t] = NoValue]
     \/ /\ ~UsesPrivate(t, n)
        /\ pending' = [pending EXCEPT ![t].at = "shared"]
        /\ UNCHANGED private
  /\ UNCHANGED <<database, phase, snap, own, behind, reset, outbox, process>>

\* set, second half: fetch _database_cache[dbname] and store into it.
Store(t) ==
  LET p == ProcOf[t] IN
  /\ HasPending(t, "shared")
  /\ shared' = [shared EXCEPT ![p][pending[t].name] = pending[t].value]
  /\ pending' = [pending EXCEPT ![t] = NoValue]
  /\ UNCHANGED <<database, phase, snap, own, behind, reset, private, outbox,
                 floor, listener, invalid, clearing, due>>

\* The size limit, or the duration, drops an entry.
Evict(p, n) ==
  /\ shared[p][n] # NoValue
  /\ shared' = [shared EXCEPT ![p][n] = NoValue]
  /\ UNCHANGED <<database, transaction, floor, listener, invalid, clearing, due>>

-----------------------------------------------------------------------------
(* Clearing a process's caches *)

\* _clear, first assignment: a new dictionary for each cache of S.
Emptied(p, S) ==
  /\ shared' = [shared EXCEPT
       ![p] = [n \in Names |-> IF n \in S THEN NoValue ELSE shared[p][n]]]
  /\ floor' = [floor EXCEPT
       ![p] = [n \in Names |-> IF n \in S THEN committed[n] ELSE floor[p][n]]]

\* Mutant of Lowered: clearing does not move the lower bound.
NotLowered(p, S) == behind

\* _clear, last assignment: _transaction_lower moves past every transaction
\* of the process that has started.
Lowered(p, S) ==
  [u \in Trans |-> IF ProcOf[u] = p /\ phase[u] # "none"
                     THEN behind[u] \cup S ELSE behind[u]]

\* set is one call for the listener unless Preemptive.
NoneStoring(p) == \A u \in Trans : ProcOf[u] = p => ~HasPending(u, "shared")

-----------------------------------------------------------------------------
(* Transactions *)

\* start: started_at is read before Cache.sync.  With channels, the first
\* transaction of a process starts its listener and waits until the LISTEN is
\* executed or the thread is dead; otherwise, once clean_timeout has passed,
\* the caches whose ir_cache row is newer are cleared.
Start(t) ==
  LET p == ProcOf[t] IN
  /\ phase[t] = "none"
  /\ phase' = [phase EXCEPT ![t] = "open"]
  /\ \/ /\ Channel /\ listener[p] = "none"
        /\ listener' = [listener EXCEPT ![p] = "listening"]
        /\ UNCHANGED <<behind, shared, floor, invalid, due>>
     \/ /\ Channel \/ p \notin due
        /\ UNCHANGED <<behind, shared, floor, listener, invalid, due>>
     \/ /\ ~Channel /\ p \in due /\ NoneStoring(p)
        /\ Emptied(p, invalid[p])
        /\ behind' = [Lowered(p, invalid[p]) EXCEPT ![t] = invalid[p]]
        /\ invalid' = [invalid EXCEPT ![p] = {}]
        /\ due' = due \ {p}
        /\ UNCHANGED listener
  /\ UNCHANGED <<database, snap, own, reset, private, pending, outbox, clearing>>

\* Mutant of Write: clear keeps what the transaction had cached.
WriteKeepsPrivate(t, n, w) ==
  /\ Idle(t)
  /\ w \notin used
  /\ used' = used \cup {w}
  /\ snap' = [snap EXCEPT ![t] = SnapshotOf(t)]
  /\ own' = [own EXCEPT ![t][n] = @ \cup {w}]
  /\ reset' = [reset EXCEPT ![t] = @ \cup {n}]
  /\ UNCHANGED <<committed, phase, behind, private, pending, outbox, process>>

\* A model writes its table, then clears the cache fed by it.
Write(t, n, w) ==
  /\ Idle(t)
  /\ w \notin used
  /\ used' = used \cup {w}
  /\ snap' = [snap EXCEPT ![t] = SnapshotOf(t)]
  /\ own' = [own EXCEPT ![t][n] = @ \cup {w}]
  /\ reset' = [reset EXCEPT ![t] = @ \cup {n}]
  /\ private' = [private EXCEPT ![t][n] = NoValue]
  /\ UNCHANGED <<committed, phase, behind, pending, outbox, process>>

\* Mutant of Notify: the last group of names is not sent.
NotifyIncomplete(t) ==
  /\ outbox' = [outbox EXCEPT ![t] = IF reset[t] = Names THEN {} ELSE reset[t]]
  /\ behind' = [behind EXCEPT ![t] = {}]
  /\ UNCHANGED process

\* Cache.commit with channels: NOTIFY within the database transaction.
Notify(t) ==
  /\ outbox' = [outbox EXCEPT ![t] = reset[t]]
  /\ behind' = [behind EXCEPT ![t] = {}]
  /\ UNCHANGED process

\* Cache.commit without: ir_cache is updated on another, autocommitting,
\* connection, and the process clears its own caches at once.
Stamp(t) ==
  LET p == ProcOf[t]
      newer == [q \in Procs |-> IF q = p THEN invalid[q] \ reset[t]
                                        ELSE invalid[q] \cup reset[t]]
  IN /\ NoneStoring(p)
     /\ Emptied(p, reset[t])
     /\ behind' = [Lowered(p, reset[t]) EXCEPT ![t] = reset[t]]
     /\ invalid' = newer
     /\ due' = IF reset[t] = {} THEN due ELSE due \ {p}
     /\ UNCHANGED <<outbox, listener, clearing>>

\* commit, up to connection.commit: started_at is read again, then the
\* cleared caches are published.
CacheCommit(t) ==
  /\ Idle(t)
  /\ phase' = [phase EXCEPT ![t] = "committing"]
  /\ reset' = [reset EXCEPT ![t] = {}]
  /\ IF Channel THEN Notify(t) ELSE Stamp(t)
  /\ UNCHANGED <<database, snap, own, private, pending>>

\* connection.commit: the writes and their notifications become visible
\* together.  A listener receives them once its LISTEN is executed.
DataCommit(t) ==
  /\ phase[t] = "committing"
  /\ phase' = [phase EXCEPT ![t] = "open"]
  /\ committed' = [n \in Names |-> committed[n] \cup own[t][n]]
  /\ own' = [own EXCEPT ![t] = Nothing]
  /\ snap' = [snap EXCEPT ![t] = NoValue]
  /\ invalid' = [p \in Procs |-> IF Channel /\ listener[p] # "none"
                                   THEN invalid[p] \cup outbox[t]
                                   ELSE invalid[p]]
  /\ outbox' = [outbox EXCEPT ![t] = {}]
  /\ UNCHANGED <<used, behind, reset, private, pending, shared, floor, listener,
                 clearing, due>>

\* rollback, called by the application, by stop, or by commit when
\* connection.commit raises.
Rollback(t) ==
  /\ Idle(t) \/ phase[t] = "committing"
  /\ phase' = [phase EXCEPT ![t] = "open"]
  /\ own' = [own EXCEPT ![t] = Nothing]
  /\ snap' = [snap EXCEPT ![t] = NoValue]
  /\ reset' = [reset EXCEPT ![t] = {}]
  /\ outbox' = [outbox EXCEPT ![t] = {}]
  /\ UNCHANGED <<database, behind, private, pending, process>>

\* stop, after its commit or rollback.
Stop(t) ==
  /\ Idle(t) /\ own[t] = Nothing /\ reset[t] = {}
  /\ phase' = [phase EXCEPT ![t] = "none"]
  /\ snap' = [snap EXCEPT ![t] = NoValue]
  /\ behind' = [behind EXCEPT ![t] = {}]
  /\ private' = [private EXCEPT ![t] = Empty]
  /\ UNCHANGED <<database, own, reset, pending, outbox, process>>

-----------------------------------------------------------------------------
(* The listener of a process *)

\* Mutant of ListenerReady: the caches are not cleared after LISTEN.
ListenerReadyNoClear(p) ==
  /\ listener[p] = "listening"
  /\ listener' = [listener EXCEPT ![p] = "running"]
  /\ UNCHANGED <<database, transaction, shared, floor, invalid, clearing, due>>

\* LISTEN is executed: "clear everything in case we missed a payload".
ListenerReady(p) ==
  /\ listener[p] = "listening"
  /\ listener' = [listener EXCEPT ![p] = "running"]
  /\ invalid' = [invalid EXCEPT ![p] = Names]
  /\ UNCHANGED <<database, transaction, shared, floor, clearing, due>>

\* _clear for one name, first half: the dictionary is replaced.
ClearDict(p, n) ==
  /\ listener[p] = "running"
  /\ clearing[p] = NoValue
  /\ n \in invalid[p]
  /\ Preemptive \/ NoneStoring(p)
  /\ Emptied(p, {n})
  /\ invalid' = [invalid EXCEPT ![p] = @ \ {n}]
  /\ clearing' = [clearing EXCEPT ![p] = n]
  /\ UNCHANGED <<database, transaction, listener, due>>

\* _clear, second half: the lower bound moves.
ClearLower(p) ==
  /\ clearing[p] # NoValue
  /\ behind' = Lowered(p, {clearing[p]})
  /\ clearing' = [clearing EXCEPT ![p] = NoValue]
  /\ UNCHANGED <<database, phase, snap, own, reset, private, pending, outbox,
                 shared, floor, listener, invalid, due>>

\* The thread dies (lost connection, unknown name): what it had not applied
\* is lost until a later transaction starts another one.
ListenerCrash(p) ==
  /\ listener[p] # "none" /\ clearing[p] = NoValue
  /\ listener' = [listener EXCEPT ![p] = "none"]
  /\ invalid' = [invalid EXCEPT ![p] = {}]
  /\ UNCHANGED <<database, transaction, shared, floor, clearing, due>>

\* clean_timeout seconds pass; with channels nothing looks at them.
Elapse(p) ==
  /\ p \notin due
  /\ due' = due \cup {p}
  /\ UNCHANGED <<database, transaction, shared, floor, listener, invalid, clearing>>

-----------------------------------------------------------------------------
Next ==
  \/ \E t \in Trans :
       \/ Start(t) \/ Stop(t)
       \/ CacheCommit(t) \/ DataCommit(t) \/ Rollback(t)
       \/ Choose(t) \/ Store(t)
       \/ \E n \in Names : Load(t, n) \/ \E w \in Writes : Write(t, n, w)
  \/ \E p \in Procs :
       \/ ListenerReady(p) \/ ClearLower(p) \/ ListenerCrash(p) \/ Elapse(p)
       \/ \E n \in Names : ClearDict(p, n) \/ Evict(p, n)

\* A listener that is not dead is scheduled and reads its connection, and a
\* thread inside set leaves it: strong fairness, because other threads may
\* enter and leave set for ever.  Nothing obliges a request to go on.
Fairness ==
  /\ \A p \in Procs : WF_vars(ListenerReady(p)) /\ WF_vars(ClearLower(p))
  /\ \A p \in Procs, n \in Names : SF_vars(ClearDict(p, n))
  /\ \A t \in Trans : WF_vars(Store(t))

Spec == Init /\ [][Next]_vars
FairSpec == Spec /\ Fairness

-----------------------------------------------------------------------------
(* Properties *)

Pending == [name : Names, value : Value, at : {"loaded", "shared"}]

\* Every variable has its type.
Typed ==
  /\ committed \in [Names -> Value]
  /\ used \in Value
  /\ phase \in [Trans -> {"none", "open", "committing"}]
  /\ snap \in [Trans -> [Names -> Value] \cup {NoValue}]
  /\ own \in [Trans -> [Names -> Value]]
  /\ behind \in [Trans -> SUBSET Names]
  /\ reset \in [Trans -> SUBSET Names]
  /\ private \in [Trans -> [Names -> {NoValue} \cup Value]]
  /\ pending \in [Trans -> Pending \cup {NoValue}]
  /\ outbox \in [Trans -> SUBSET Names]
  /\ shared \in [Procs -> [Names -> {NoValue} \cup Value]]
  /\ floor \in [Procs -> [Names -> Value]]
  /\ listener \in [Procs -> {"none", "listening", "running"}]
  /\ invalid \in [Procs -> SUBSET Names]
  /\ clearing \in [Procs -> Names \cup {NoValue}]
  /\ due \subseteq Procs

\* A transaction that is not started holds nothing, one being committed has
\* handed its cleared caches over, and only that one has notified.
TransactionShape ==
  \A t \in Trans :
    /\ phase[t] # "open" => reset[t] = {}
    /\ phase[t] # "committing" => outbox[t] = {}
    /\ phase[t] = "none" => own[t] = Nothing /\ snap[t] = NoValue
    /\ phase[t] # "open" => pending[t] = NoValue

\* The variables have their types, and those of a transaction are the ones
\* its phase allows (transaction.py start, commit and stop).
TypeOK == Typed /\ TransactionShape

\* The shared dictionary never holds a value computed from writes that are
\* not committed, whatever becomes of the transaction that computed it
\* (_get_cache sends a transaction that cleared a cache to its own one).
NoDirtyShared ==
  \A p \in Procs, n \in Names :
    shared[p][n] # NoValue => shared[p][n] \subseteq committed[n]

\* What a transaction reads from a cache includes its own writes (clear drops
\* what it had cached, and _get_cache keeps it off the shared dictionary).
ReadYourWrites ==
  \A t \in Trans, n \in Names :
    phase[t] = "open" /\ Lookup(t, n) # NoValue => own[t][n] \subseteq Lookup(t, n)

\* A process still has to apply an invalidation of this cache: it waits in the
\* connection, it is being applied, or the listener will clear everything.
Owed(p, n) == listener[p] # "running" \/ n \in invalid[p] \/ clearing[p] = n

Stale(p, n) == shared[p][n] # NoValue /\ shared[p][n] # committed[n]

\* A process shares a stale value only while an invalidation is still on its
\* way to it: no transaction, however old, fills the cache for good with what
\* another one has changed (NOTIFY, _listen, _transaction_lower together).
Coherent == \A p \in Procs, n \in Names : Stale(p, n) => Owed(p, n)

\* Clearing is never undone: a shared value was computed from a database that
\* held at least what was committed when the cache was last cleared (the
\* "old transaction does not fill cache" of test_cache.py).
FloorRespected ==
  \A p \in Procs, n \in Names :
    shared[p][n] # NoValue => floor[p][n] \subseteq shared[p][n]

\* Without channels: a value that was overtaken by a commit is one that the
\* process knows, by the ir_cache row, to be older ("the cache resets on
\* Transaction commit", cache.rst).  Cache.commit precedes connection.commit.
ResetOnCommit ==
  \A p \in Procs, n \in Names : Stale(p, n) => n \in invalid[p]

\* A stale value disappears, unless the listener dies (_listen).
EventuallyCoherent ==
  \A p \in Procs, n \in Names :
    Stale(p, n) /\ listener[p] # "none" ~> ~Stale(p, n) \/ listener[p] = "none"

\* The cache a process shares behaves as CoherentCache says: it is only ever
\* filled with the committed value or with an older one that is to be cleared.
Promise == INSTANCE CoherentCache WITH
  view <- shared, owed <- [p \in Procs |-> {n \in Names : Owed(p, n)}]

Implements == Promise!Spec

-----------------------------------------------------------------------------
(* Why NoDirtyShared, Coherent, ReadYourWrites and FloorRespected hold:   *)
(* their inductive strengthenings                                        *)

\* A transaction with writes has cleared the caches of what it wrote.
OwnIsReset ==
  \A t \in Trans, n \in Names :
    phase[t] = "open" /\ own[t][n] # {} => n \in reset[t]

SnapshotCommitted ==
  \A t \in Trans, n \in Names :
    snap[t] # NoValue => snap[t][n] \subseteq committed[n]

\* A pending value was visible to its transaction, and is committed once it is
\* to be stored into the shared dictionary.
PendingVisible ==
  \A t \in Trans : pending[t] # NoValue =>
    LET n == pending[t].name IN
    /\ pending[t].value \subseteq committed[n] \cup own[t][n]
    /\ pending[t].at = "shared" => pending[t].value \subseteq committed[n]

CleanInv ==
  TypeOK /\ OwnIsReset /\ SnapshotCommitted /\ PendingVisible /\ NoDirtyShared

\* What is committed next has been notified in the same transaction.
OwnIsOutbox ==
  \A t \in Trans, n \in Names :
    phase[t] = "committing" /\ own[t][n] # {} => n \in outbox[t]

\* A snapshot that no clearing has overtaken is current, or its cache is owed.
SnapshotCoherent ==
  \A t \in Trans, n \in Names :
    phase[t] = "open" /\ snap[t] # NoValue /\ n \notin behind[t]
      => snap[t][n] = committed[n] \/ Owed(ProcOf[t], n)

\* So is a value that is to be stored into the shared dictionary.
PendingCoherent ==
  \A t \in Trans : pending[t] # NoValue =>
    LET n == pending[t].name IN
    \/ pending[t].value = committed[n] \/ Owed(ProcOf[t], n)
    \/ pending[t].at = "loaded" /\ (own[t][n] # {} \/ n \in behind[t])

\* While a listener clears a cache, it stays empty.
ClearingEmpty ==
  \A p \in Procs : clearing[p] # NoValue =>
    shared[p][clearing[p]] = NoValue /\ NoneStoring(p)

CoherentInv ==
  /\ TypeOK /\ OwnIsReset /\ OwnIsOutbox
  /\ SnapshotCoherent /\ PendingCoherent /\ ClearingEmpty /\ Coherent

\* What a transaction has cached for itself, or is about to cache, was computed
\* after its last write to it.
PrivateOwn ==
  \A t \in Trans, n \in Names :
    private[t][n] # NoValue => own[t][n] \subseteq private[t][n]

PendingOwn ==
  \A t \in Trans :
    pending[t] # NoValue => own[t][pending[t].name] \subseteq pending[t].value

ReadInv == TypeOK /\ OwnIsReset /\ PrivateOwn /\ PendingOwn

FloorCommitted == \A p \in Procs, n \in Names : floor[p][n] \subseteq committed[n]

\* A snapshot that no clearing has overtaken is not older than the last one.
SnapshotFloor ==
  \A t \in Trans, n \in Names :
    phase[t] = "open" /\ snap[t] # NoValue /\ n \notin behind[t]
      => clearing[ProcOf[t]] = n \/ floor[ProcOf[t]][n] \subseteq snap[t][n]

\* Nor is a value that is to be stored into the shared dictionary.
PendingFloor ==
  \A t \in Trans : pending[t] # NoValue =>
    LET n == pending[t].name
        p == ProcOf[t]
    IN  \/ floor[p][n] \subseteq pending[t].value
        \/ pending[t].at = "loaded" /\ (n \in behind[t] \/ clearing[p] = n)

FloorInv ==
  TypeOK /\ FloorCommitted /\ SnapshotFloor /\ PendingFloor /\ FloorRespected
=============================================================================
