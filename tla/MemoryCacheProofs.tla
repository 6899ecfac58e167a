------------------------- MODULE MemoryCacheProofs -------------------------
(***************************************************************************)
(* Theorems of MemoryCache for any number of processes, transactions,      *)
(* caches and writes: the type invariant; that the shared dictionary never *)
(* holds uncommitted data and that a transaction reads its own writes, in  *)
(* every mode; and, without preemption inside set and _clear, that a stale *)
(* value is owed its clearing, that clearing is never undone, and that the *)
(* protocol implements CoherentCache.                                      *)
(***************************************************************************)
EXTENDS MemoryCache, TLAPS

\* Clearing keeps the shared dictionaries and their floor well typed.
LEMMA EmptiedTyped ==
  ASSUME NEW p \in Procs, NEW S, Typed, Emptied(p, S)
  PROVE  /\ shared' \in [Procs -> [Names -> {NoValue} \cup Value]]
         /\ floor' \in [Procs -> [Names -> Value]]
BY DEF Typed, Emptied

\* Clearing drops values and stores none.
LEMMA EmptiedDrops ==
  ASSUME NEW p \in Procs, NEW S, Typed, Emptied(p, S)
  PROVE  \A q \in Procs, n \in Names :
           shared'[q][n] = NoValue \/ shared'[q][n] = shared[q][n]
BY DEF Typed, Emptied

\* Moving the lower bound keeps the sets of overtaken caches well typed.
LEMMA LoweredTyped ==
  ASSUME NEW p \in Procs, NEW S \in SUBSET Names, Typed
  PROVE  Lowered(p, S) \in [Trans -> SUBSET Names]
BY DEF Typed, Lowered

LEMMA SnapshotTyped ==
  ASSUME NEW t \in Trans, Typed
  PROVE  SnapshotOf(t) \in [Names -> Value]
BY DEF Typed, SnapshotOf

\* A pending value is a record as soon as it is there.
LEMMA PendingTyped ==
  ASSUME NEW t \in Trans, Typed, pending[t] # NoValue
  PROVE  pending[t] \in Pending
BY DEF Typed

-----------------------------------------------------------------------------
(* The type invariant *)

LEMMA InitTypeOK == Init => TypeOK
BY ConstantsAssumption
   DEF Init, TypeOK, Typed, TransactionShape, Value, Nothing, Empty

LEMMA NextTypeOK == TypeOK /\ [Next]_vars => TypeOK'
<1> SUFFICES ASSUME TypeOK, [Next]_vars
             PROVE  TypeOK'
    OBVIOUS
<1> USE ConstantsAssumption DEF Value, Nothing, Empty
<1>s. Typed /\ TransactionShape
  BY DEF TypeOK
<1>1. ASSUME NEW t \in Trans, Start(t) PROVE TypeOK'
  <2>1. invalid[ProcOf[t]] \in SUBSET Names /\ ProcOf[t] \in Procs
    BY <1>s DEF Typed
  <2>2. Lowered(ProcOf[t], invalid[ProcOf[t]]) \in [Trans -> SUBSET Names]
    BY <1>s, <2>1, LoweredTyped
  <2>3. behind' \in [Trans -> SUBSET Names]
    BY <1>s, <1>1, <2>1, <2>2 DEF Start, Typed
  <2>4. /\ shared' \in [Procs -> [Names -> {NoValue} \cup Value]]
        /\ floor' \in [Procs -> [Names -> Value]]
    BY <1>s, <1>1, <2>1, EmptiedTyped DEF Start, Typed
  <2>5. Typed'
    BY <1>s, <1>1, <2>1, <2>3, <2>4 DEF Start, Typed, database
  <2>6. TransactionShape'
    BY <1>s, <1>1 DEF Start, Typed, TransactionShape
  <2> QED BY <2>5, <2>6 DEF TypeOK
<1>2. ASSUME NEW t \in Trans, Stop(t) PROVE TypeOK'
  BY <1>s, <1>2 DEF Stop, Idle, TypeOK, Typed, TransactionShape, database, process
<1>3. ASSUME NEW t \in Trans, CacheCommit(t) PROVE TypeOK'
  <2>1. reset[t] \in SUBSET Names /\ ProcOf[t] \in Procs
    BY <1>s DEF Typed
  <2>2. CASE Channel
    <3>1. Notify(t)
      BY <1>3, <2>2 DEF CacheCommit
    <3>2. Typed'
      BY <1>s, <1>3, <2>1, <3>1 DEF CacheCommit, Notify, Typed, database, process
    <3>3. TransactionShape'
      BY <1>s, <1>3, <3>1 DEF CacheCommit, Notify, Idle, Typed, TransactionShape
    <3> QED BY <3>2, <3>3 DEF TypeOK
  <2>3. CASE ~Channel
    <3>1. Stamp(t)
      BY <1>3, <2>3 DEF CacheCommit
    <3>2. Lowered(ProcOf[t], reset[t]) \in [Trans -> SUBSET Names]
      BY <1>s, <2>1, LoweredTyped
    <3>3. behind' \in [Trans -> SUBSET Names]
      BY <2>1, <3>1, <3>2 DEF Stamp
    <3>4. /\ shared' \in [Procs -> [Names -> {NoValue} \cup Value]]
          /\ floor' \in [Procs -> [Names -> Value]]
      BY <1>s, <2>1, <3>1, EmptiedTyped DEF Stamp
    <3>5. invalid' \in [Procs -> SUBSET Names] /\ due' \subseteq Procs
      BY <1>s, <2>1, <3>1 DEF Stamp, Typed
    <3>6. UNCHANGED <<outbox, listener, clearing>>
      BY <3>1 DEF Stamp
    <3>7. Typed'
      BY <1>s, <1>3, <2>1, <3>3, <3>4, <3>5, <3>6 DEF CacheCommit, Typed, database
    <3>8. TransactionShape'
      BY <1>s, <1>3, <3>6 DEF CacheCommit, Idle, Typed, TransactionShape
    <3> QED BY <3>7, <3>8 DEF TypeOK
  <2> QED BY <2>2, <2>3
<1>4. ASSUME NEW t \in Trans, DataCommit(t) PROVE TypeOK'
  <2>1. Typed'
    BY <1>s, <1>4 DEF DataCommit, Typed
  <2>2. TransactionShape'
    BY <1>s, <1>4 DEF DataCommit, Typed, TransactionShape
  <2> QED BY <2>1, <2>2 DEF TypeOK
<1>5. ASSUME NEW t \in Trans, Rollback(t) PROVE TypeOK'
  BY <1>s, <1>5 DEF Rollback, Idle, TypeOK, Typed, TransactionShape, database, process
<1>6. ASSUME NEW t \in Trans, Choose(t) PROVE TypeOK'
  <2>1. pending[t] \in Pending /\ pending[t] # NoValue
    BY <1>s, <1>6, PendingTyped DEF Choose, HasPending
  <2>2. [pending[t] EXCEPT !.at = "shared"] \in Pending
    BY <2>1 DEF Pending
  <2>3. /\ private' \in [Trans -> [Names -> {NoValue} \cup Value]]
        /\ pending' \in [Trans -> Pending \cup {NoValue}]
    <3>1. pending[t].name \in Names /\ pending[t].value \in Value
      BY <2>1 DEF Pending
    <3>2. \/ /\ private' = [private EXCEPT ![t][pending[t].name] = pending[t].value]
             /\ pending' = [pending EXCEPT ![t] = NoValue]
          \/ /\ pending' = [pending EXCEPT ![t].at = "shared"]
             /\ private' = private
      BY <1>6 DEF Choose
    <3>3. /\ private \in [Trans -> [Names -> {NoValue} \cup Value]]
          /\ pending \in [Trans -> Pending \cup {NoValue}]
      BY <1>s DEF Typed
    <3>4. private' \in [Trans -> [Names -> {NoValue} \cup Value]]
      BY <3>1, <3>2, <3>3
    <3>5. pending' \in [Trans -> Pending \cup {NoValue}]
      BY <2>2, <3>2, <3>3
    <3> QED BY <3>4, <3>5
  <2>5. Typed'
    BY <1>s, <1>6, <2>3 DEF Choose, Typed, database, process
  <2>4. TransactionShape'
    BY <1>s, <1>6, <2>1 DEF Choose, Typed, TransactionShape
  <2> QED BY <2>4, <2>5 DEF TypeOK
<1>7. ASSUME NEW t \in Trans, Store(t) PROVE TypeOK'
  <2>1. pending[t] \in Pending
    BY <1>s, <1>7, PendingTyped DEF Store, HasPending
  <2> QED
    BY <1>s, <1>7, <2>1
       DEF Store, TypeOK, Typed, TransactionShape, Pending, database
<1>8. ASSUME NEW t \in Trans, NEW n \in Names, Load(t, n) PROVE TypeOK'
  <2>1. SnapshotOf(t) \in [Names -> Value]
    BY <1>s, SnapshotTyped
  <2>2. Visible(t, n) \in Value
    BY <1>s, <2>1 DEF Visible, Typed
  <2>3. [name |-> n, value |-> Visible(t, n), at |-> "loaded"] \in Pending
    BY <2>2 DEF Pending
  <2>4. Typed'
    BY <1>s, <1>8, <2>1, <2>3 DEF Load, Typed, database, process
  <2>5. TransactionShape'
    BY <1>s, <1>8 DEF Load, Idle, Typed, TransactionShape
  <2> QED BY <2>4, <2>5 DEF TypeOK
<1>9. ASSUME NEW t \in Trans, NEW n \in Names, NEW w \in Writes, Write(t, n, w)
      PROVE TypeOK'
  <2>1. SnapshotOf(t) \in [Names -> Value]
    BY <1>s, SnapshotTyped
  <2>2. Typed'
    BY <1>s, <1>9, <2>1 DEF Write, Typed, process
  <2>3. TransactionShape'
    BY <1>s, <1>9 DEF Write, Idle, Typed, TransactionShape
  <2> QED BY <2>2, <2>3 DEF TypeOK
<1>10. ASSUME NEW p \in Procs,
              ListenerReady(p) \/ ListenerCrash(p) \/ Elapse(p)
       PROVE TypeOK'
  <2>1. TransactionShape'
    BY <1>s, <1>10
       DEF ListenerReady, ListenerCrash, Elapse, TransactionShape, transaction
  <2>2. CASE ListenerReady(p)
    BY <1>s, <2>1, <2>2 DEF ListenerReady, TypeOK, Typed, database, transaction
  <2>3. CASE ListenerCrash(p)
    BY <1>s, <2>1, <2>3 DEF ListenerCrash, TypeOK, Typed, database, transaction
  <2>4. CASE Elapse(p)
    BY <1>s, <2>1, <2>4 DEF Elapse, TypeOK, Typed, database, transaction
  <2> QED BY <1>10, <2>2, <2>3, <2>4
<1>11. ASSUME NEW p \in Procs, ClearLower(p) PROVE TypeOK'
  <2>1. {clearing[p]} \in SUBSET Names
    BY <1>s, <1>11 DEF ClearLower, Typed
  <2>2. behind' \in [Trans -> SUBSET Names]
    BY <1>s, <1>11, <2>1, LoweredTyped DEF ClearLower
  <2> QED
    BY <1>s, <1>11, <2>2 DEF ClearLower, TypeOK, Typed, TransactionShape, database
<1>12. ASSUME NEW p \in Procs, NEW n \in Names, ClearDict(p, n) PROVE TypeOK'
  <2>1. /\ shared' \in [Procs -> [Names -> {NoValue} \cup Value]]
        /\ floor' \in [Procs -> [Names -> Value]]
    BY <1>s, <1>12, EmptiedTyped DEF ClearDict
  <2> QED
    BY <1>s, <1>12, <2>1
       DEF ClearDict, TypeOK, Typed, TransactionShape, database, transaction
<1>13. ASSUME NEW p \in Procs, NEW n \in Names, Evict(p, n) PROVE TypeOK'
  BY <1>s, <1>13 DEF Evict, TypeOK, Typed, TransactionShape, database, transaction
<1>14. CASE UNCHANGED vars
  BY <1>s, <1>14
     DEF vars, database, transaction, process, TypeOK, Typed, TransactionShape
<1> QED
  BY <1>1, <1>2, <1>3, <1>4, <1>5, <1>6, <1>7, <1>8, <1>9, <1>10, <1>11, <1>12,
     <1>13, <1>14 DEF Next

\* Every variable keeps its type, and a transaction holds only what its phase
\* allows, with any number of processes, threads, caches and writes.
THEOREM TypeCorrect == Spec => []TypeOK
<1>1. Init => TypeOK
  BY InitTypeOK
<1>2. TypeOK /\ [Next]_vars => TypeOK'
  BY NextTypeOK
<1> QED BY <1>1, <1>2, PTL DEF Spec

-----------------------------------------------------------------------------
(* The shared dictionary holds committed values only *)

\* Every transaction writes only where its own writes are allowed to grow.
LEMMA OwnIsResetStep == TypeOK /\ OwnIsReset /\ [Next]_vars => OwnIsReset'
<1> SUFFICES ASSUME TypeOK, OwnIsReset, [Next]_vars,
                    NEW u \in Trans, NEW m \in Names,
                    phase'[u] = "open", own'[u][m] # {}
             PROVE  m \in reset'[u]
    BY DEF OwnIsReset
<1> USE DEF Nothing
<1>s. Typed /\ TransactionShape
  BY DEF TypeOK
<1>1. ASSUME NEW t \in Trans, Start(t) PROVE m \in reset'[u]
  BY <1>s, <1>1 DEF Start, OwnIsReset, Typed, TransactionShape
<1>2. ASSUME NEW t \in Trans, Stop(t) PROVE m \in reset'[u]
  BY <1>s, <1>2 DEF Stop, Idle, OwnIsReset, Typed
<1>3. ASSUME NEW t \in Trans, CacheCommit(t) PROVE m \in reset'[u]
  BY <1>s, <1>3 DEF CacheCommit, OwnIsReset, Typed
<1>4. ASSUME NEW t \in Trans, DataCommit(t) PROVE m \in reset'[u]
  BY <1>s, <1>4 DEF DataCommit, OwnIsReset, Typed
<1>5. ASSUME NEW t \in Trans, Rollback(t) PROVE m \in reset'[u]
  BY <1>s, <1>5 DEF Rollback, OwnIsReset, Typed
<1>6. ASSUME NEW t \in Trans, NEW n \in Names, NEW w \in Writes, Write(t, n, w)
      PROVE m \in reset'[u]
  BY <1>s, <1>6 DEF Write, OwnIsReset, Typed
<1>7. ASSUME UNCHANGED <<phase, own, reset>> PROVE m \in reset'[u]
  BY <1>7 DEF OwnIsReset
<1>8. ASSUME NEW t \in Trans, NEW n \in Names, Choose(t) \/ Store(t) \/ Load(t, n)
      PROVE m \in reset'[u]
  BY <1>7, <1>8 DEF Choose, Store, Load
<1>9. ASSUME NEW p \in Procs, NEW n \in Names,
             \/ ListenerReady(p) \/ ClearLower(p) \/ ListenerCrash(p) \/ Elapse(p)
             \/ ClearDict(p, n) \/ Evict(p, n)
      PROVE m \in reset'[u]
  BY <1>7, <1>9
     DEF ListenerReady, ClearLower, ListenerCrash, Elapse, ClearDict, Evict,
         transaction
<1>10. CASE UNCHANGED vars
  BY <1>7, <1>10 DEF vars, transaction
<1> QED
  BY <1>1, <1>2, <1>3, <1>4, <1>5, <1>6, <1>8, <1>9, <1>10 DEF Next

\* What is committed stays committed.
LEMMA CommittedGrows ==
  ASSUME TypeOK, [Next]_vars, NEW n \in Names
  PROVE  committed[n] \subseteq committed'[n]
<1>1. ASSUME NEW t \in Trans, DataCommit(t) PROVE committed[n] \subseteq committed'[n]
  BY <1>1 DEF DataCommit
<1>2. ASSUME ~\E t \in Trans : DataCommit(t) PROVE committed' = committed
  BY <1>2
     DEF Next, Start, Stop, CacheCommit, Rollback, Choose, Store, Load, Write,
         ListenerReady, ClearLower, ListenerCrash, Elapse, ClearDict, Evict,
         vars, database
<1> QED BY <1>1, <1>2

LEMMA CleanStep == CleanInv /\ [Next]_vars => CleanInv'
<1> SUFFICES ASSUME CleanInv, [Next]_vars
             PROVE  CleanInv'
    OBVIOUS
<1> USE ConstantsAssumption DEF Nothing, Value
<1>t. TypeOK /\ OwnIsReset /\ SnapshotCommitted /\ PendingVisible /\ NoDirtyShared
  BY DEF CleanInv
<1>s. Typed /\ TransactionShape
  BY <1>t DEF TypeOK
<1>g. \A n \in Names : committed[n] \subseteq committed'[n]
  BY <1>t, CommittedGrows
<1>a. TypeOK' /\ OwnIsReset'
  BY <1>t, NextTypeOK, OwnIsResetStep
<1>0. ASSUME UNCHANGED <<snap, own, pending, shared>> PROVE CleanInv'
  BY <1>t, <1>s, <1>g, <1>a, <1>0
     DEF CleanInv, SnapshotCommitted, PendingVisible, NoDirtyShared, Typed, Pending
<1>1. ASSUME NEW t \in Trans, DataCommit(t) PROVE CleanInv'
  <2>1. SnapshotCommitted'
    BY <1>t, <1>s, <1>g, <1>1 DEF DataCommit, SnapshotCommitted, Typed
  <2>2. pending[t] = NoValue
    BY <1>s, <1>1 DEF DataCommit, TransactionShape
  <2>3. PendingVisible'
    BY <1>t, <1>s, <1>g, <1>1, <2>2 DEF DataCommit, PendingVisible, Typed, Pending
  <2>4. NoDirtyShared'
    BY <1>t, <1>g, <1>1 DEF DataCommit, NoDirtyShared
  <2> QED BY <1>a, <2>1, <2>3, <2>4 DEF CleanInv
<1>2. ASSUME NEW t \in Trans, Rollback(t) \/ Stop(t) PROVE CleanInv'
  <2>0. /\ snap' = [snap EXCEPT ![t] = NoValue]
        /\ \A u \in Trans \ {t} : own'[u] = own[u]
    BY <1>s, <1>2 DEF Rollback, Stop, Typed
  <2>2. pending[t] = NoValue /\ UNCHANGED <<pending, committed, shared>>
    BY <1>s, <1>2 DEF Rollback, Stop, Idle, TransactionShape, process, database
  <2>1. SnapshotCommitted'
    BY <1>t, <1>s, <2>0, <2>2 DEF SnapshotCommitted, Typed
  <2>3. PendingVisible'
    BY <1>t, <2>0, <2>2 DEF PendingVisible
  <2>4. NoDirtyShared'
    BY <1>t, <2>2 DEF NoDirtyShared
  <2> QED BY <1>a, <2>1, <2>3, <2>4 DEF CleanInv
<1>3. ASSUME NEW t \in Trans, Choose(t) PROVE CleanInv'
  <2>1. pending[t] \in Pending /\ pending[t] # NoValue
    BY <1>s, <1>3, PendingTyped DEF Choose, HasPending
  <2>2. UNCHANGED <<snap, own, shared, committed>>
    BY <1>3 DEF Choose, process, database
  <2>3. SnapshotCommitted' /\ NoDirtyShared'
    BY <1>t, <2>2 DEF SnapshotCommitted, NoDirtyShared
  <2>4. CASE UsesPrivate(t, pending[t].name)
    <3>1. pending' = [pending EXCEPT ![t] = NoValue]
      BY <1>3, <2>4 DEF Choose
    <3>2. PendingVisible'
      BY <1>t, <1>s, <2>2, <3>1 DEF PendingVisible, Typed
    <3> QED BY <1>a, <2>3, <3>2 DEF CleanInv
  <2>5. CASE ~UsesPrivate(t, pending[t].name)
    <3>1. reset[t] = {} /\ phase[t] = "open"
      BY <1>s, <2>1, <2>5 DEF UsesPrivate, TransactionShape
    <3>2. pending[t].name \in Names /\ own[t][pending[t].name] = {}
      BY <1>t, <2>1, <3>1 DEF OwnIsReset, Pending
    <3>3. pending' = [pending EXCEPT ![t].at = "shared"]
      BY <1>3, <2>5 DEF Choose
    <3>4. /\ pending'[t].name = pending[t].name
          /\ pending'[t].value = pending[t].value
          /\ \A u \in Trans \ {t} : pending'[u] = pending[u]
      BY <1>s, <2>1, <3>3 DEF Typed, Pending
    <3>5. PendingVisible'
      BY <1>t, <2>1, <2>2, <3>2, <3>4 DEF PendingVisible
    <3> QED BY <1>a, <2>3, <3>5 DEF CleanInv
  <2> QED BY <2>4, <2>5
<1>4. ASSUME NEW t \in Trans, Store(t) PROVE CleanInv'
  <2>1. pending[t] \in Pending /\ pending[t] # NoValue
    BY <1>s, <1>4, PendingTyped DEF Store, HasPending
  <2>2. UNCHANGED <<snap, own, committed>>
    BY <1>4 DEF Store, database
  <2>3. pending[t].value \subseteq committed[pending[t].name]
    BY <1>t, <1>4, <2>1 DEF Store, HasPending, PendingVisible
  <2>4. SnapshotCommitted'
    BY <1>t, <2>2 DEF SnapshotCommitted
  <2>5. PendingVisible'
    BY <1>t, <1>s, <1>4, <2>2 DEF Store, PendingVisible, Typed
  <2>6. NoDirtyShared'
    BY <1>t, <1>s, <1>4, <2>1, <2>2, <2>3 DEF Store, NoDirtyShared, Typed, Pending
  <2> QED BY <1>a, <2>4, <2>5, <2>6 DEF CleanInv
<1>5. ASSUME NEW t \in Trans, NEW n \in Names, Load(t, n) PROVE CleanInv'
  <2>1. UNCHANGED <<own, shared, committed>>
    BY <1>5 DEF Load, process, database
  <2>2. \A m \in Names : SnapshotOf(t)[m] \subseteq committed[m]
    BY <1>t DEF SnapshotOf, SnapshotCommitted
  <2>3. SnapshotCommitted'
    BY <1>t, <1>s, <1>5, <2>1, <2>2 DEF Load, SnapshotCommitted, Typed
  <2>4. Visible(t, n) \subseteq committed[n] \cup own[t][n]
    BY <2>2 DEF Visible
  <2>5. PendingVisible'
    BY <1>t, <1>s, <1>5, <2>1, <2>4 DEF Load, PendingVisible, Typed
  <2>6. NoDirtyShared'
    BY <1>t, <2>1 DEF NoDirtyShared
  <2> QED BY <1>a, <2>3, <2>5, <2>6 DEF CleanInv
<1>6. ASSUME NEW t \in Trans, NEW n \in Names, NEW w \in Writes, Write(t, n, w)
      PROVE CleanInv'
  <2>1. UNCHANGED <<pending, shared, committed>> /\ pending[t] = NoValue
    BY <1>6 DEF Write, Idle, process
  <2>2. \A m \in Names : SnapshotOf(t)[m] \subseteq committed[m]
    BY <1>t DEF SnapshotOf, SnapshotCommitted
  <2>3. SnapshotCommitted'
    BY <1>t, <1>s, <1>6, <2>1, <2>2 DEF Write, SnapshotCommitted, Typed
  <2>4. PendingVisible'
    BY <1>t, <1>s, <1>6, <2>1 DEF Write, PendingVisible, Typed
  <2>5. NoDirtyShared'
    BY <1>t, <2>1 DEF NoDirtyShared
  <2> QED BY <1>a, <2>3, <2>4, <2>5 DEF CleanInv
<1>7. ASSUME UNCHANGED <<snap, own, pending, committed>>,
             \A p \in Procs, n \in Names :
               shared'[p][n] = NoValue \/ shared'[p][n] = shared[p][n]
      PROVE CleanInv'
  <2>1. NoDirtyShared'
    BY <1>t, <1>7 DEF NoDirtyShared
  <2>2. SnapshotCommitted' /\ PendingVisible'
    BY <1>t, <1>7 DEF SnapshotCommitted, PendingVisible
  <2> QED BY <1>a, <2>1, <2>2 DEF CleanInv
<1>8. ASSUME NEW t \in Trans, Start(t) \/ CacheCommit(t) PROVE CleanInv'
  <2>1. UNCHANGED <<snap, own, pending, committed>>
    BY <1>8 DEF Start, CacheCommit, database
  <2>2. ProcOf[t] \in Procs
    OBVIOUS
  <2>3. \/ UNCHANGED shared
        \/ Emptied(ProcOf[t], invalid[ProcOf[t]]) \/ Emptied(ProcOf[t], reset[t])
    BY <1>8 DEF Start, CacheCommit, Notify, Stamp, process
  <2> QED BY <1>s, <1>7, <2>1, <2>2, <2>3, EmptiedDrops
<1>9. ASSUME NEW p \in Procs, ListenerReady(p) \/ ClearLower(p) \/ ListenerCrash(p)
                              \/ Elapse(p)
      PROVE CleanInv'
  BY <1>0, <1>9 DEF ListenerReady, ClearLower, ListenerCrash, Elapse, transaction
<1>10. ASSUME NEW p \in Procs, NEW n \in Names, ClearDict(p, n) \/ Evict(p, n)
       PROVE CleanInv'
  <2>1. UNCHANGED <<snap, own, pending, committed>>
    BY <1>10 DEF ClearDict, Evict, transaction, database
  <2>2. CASE ClearDict(p, n)
    BY <1>s, <1>7, <2>1, <2>2, EmptiedDrops DEF ClearDict
  <2>3. CASE Evict(p, n)
    BY <1>s, <1>7, <2>1, <2>3 DEF Evict, Typed
  <2> QED BY <1>10, <2>2, <2>3
<1>11. CASE UNCHANGED vars
  BY <1>0, <1>11 DEF vars, transaction, process
<1> QED
  BY <1>1, <1>2, <1>3, <1>4, <1>5, <1>6, <1>8, <1>9, <1>10, <1>11 DEF Next

LEMMA CleanHolds == Spec => []CleanInv
<1>1. Init => CleanInv
  <2>1. ASSUME Init
        PROVE  OwnIsReset /\ SnapshotCommitted /\ PendingVisible /\ NoDirtyShared
    BY <2>1
       DEF Init, OwnIsReset, SnapshotCommitted, PendingVisible, NoDirtyShared, Empty,
           Nothing
  <2> QED BY <2>1, InitTypeOK DEF CleanInv
<1>2. CleanInv /\ [Next]_vars => CleanInv'
  BY CleanStep
<1> QED BY <1>1, <1>2, PTL DEF Spec

\* The shared dictionary of a process never holds what was computed from
\* uncommitted writes, in both modes and even when a thread loses the GIL
\* inside set or _clear.
THEOREM NoDirtySharedHolds == Spec => []NoDirtyShared
<1>1. CleanInv => NoDirtyShared
  BY DEF CleanInv
<1> QED BY <1>1, CleanHolds, PTL

-----------------------------------------------------------------------------
(* With channels, and without preemption inside set and _clear, a process  *)
(* shares a stale value only while it owes its clearing                    *)

\* A debt is only settled by the second half of the clearing it calls for.
LEMMA OwedKept ==
  ASSUME TypeOK, Channel, [Next]_vars, NEW p \in Procs, NEW n \in Names, Owed(p, n)
  PROVE  Owed(p, n)' \/ (ClearLower(p) /\ clearing[p] = n)
<1> USE ConstantsAssumption DEF Owed
<1>s. Typed
  BY DEF TypeOK
<1>0. ASSUME UNCHANGED <<listener, invalid, clearing>> PROVE Owed(p, n)'
  BY <1>0
<1>1. ASSUME NEW t \in Trans, Start(t) PROVE Owed(p, n)'
  BY <1>s, <1>1 DEF Start, Typed
<1>2. ASSUME NEW t \in Trans, CacheCommit(t) PROVE Owed(p, n)'
  BY <1>0, <1>2 DEF CacheCommit, Notify, process
<1>3. ASSUME NEW t \in Trans, DataCommit(t) PROVE Owed(p, n)'
  BY <1>s, <1>3 DEF DataCommit, Typed
<1>4. ASSUME NEW t \in Trans, NEW m \in Names,
             Stop(t) \/ Rollback(t) \/ Choose(t) \/ Load(t, m)
      PROVE Owed(p, n)'
  BY <1>0, <1>4 DEF Stop, Rollback, Choose, Load, process
<1>5. ASSUME NEW t \in Trans, Store(t) PROVE Owed(p, n)'
  BY <1>0, <1>5 DEF Store
<1>6. ASSUME NEW q \in Procs, ListenerReady(q) PROVE Owed(p, n)'
  BY <1>s, <1>6 DEF ListenerReady, Typed
<1>7. ASSUME NEW q \in Procs, ListenerCrash(q) PROVE Owed(p, n)'
  BY <1>s, <1>7 DEF ListenerCrash, Typed
<1>8. ASSUME NEW q \in Procs, ClearLower(q)
      PROVE Owed(p, n)' \/ (ClearLower(p) /\ clearing[p] = n)
  BY <1>s, <1>8 DEF ClearLower, Typed
<1>9. ASSUME NEW q \in Procs, NEW m \in Names, ClearDict(q, m) PROVE Owed(p, n)'
  BY <1>s, <1>9 DEF ClearDict, Typed
<1>10. ASSUME NEW q \in Procs, NEW m \in Names, Evict(q, m) \/ Elapse(q)
       PROVE Owed(p, n)'
  BY <1>0, <1>10 DEF Evict, Elapse
<1>11. CASE UNCHANGED vars
  BY <1>0, <1>11 DEF vars, process
<1>12. ASSUME NEW t \in Trans, NEW m \in Names, NEW w \in Writes, Write(t, m, w)
       PROVE Owed(p, n)'
  BY <1>0, <1>12 DEF Write, process
<1> QED
  BY <1>1, <1>2, <1>3, <1>4, <1>5, <1>6, <1>7, <1>8, <1>9, <1>10, <1>11, <1>12 DEF Next

\* What is committed is owed by every process.
LEMMA CommittedOwed ==
  ASSUME TypeOK, OwnIsOutbox, Channel, [Next]_vars, NEW p \in Procs, NEW n \in Names,
         committed'[n] # committed[n]
  PROVE  Owed(p, n)'
<1>s. Typed
  BY DEF TypeOK
<1>1. PICK t \in Trans : DataCommit(t)
  BY DEF Next, Start, Stop, CacheCommit, Rollback, Choose, Store, Load, Write,
         ListenerReady, ClearLower, ListenerCrash, Elapse, ClearDict, Evict,
         vars, database
<1>2. own[t][n] # {}
  BY <1>1 DEF DataCommit
<1>3. n \in outbox[t]
  BY <1>1, <1>2 DEF DataCommit, OwnIsOutbox
<1>4. CASE listener[p] = "none"
  BY <1>1, <1>4 DEF DataCommit, Owed
<1>5. CASE listener[p] # "none"
  BY <1>1, <1>3, <1>5 DEF DataCommit, Owed
<1> QED BY <1>4, <1>5

LEMMA OwnIsOutboxStep ==
  ASSUME TypeOK, OwnIsReset, OwnIsOutbox, Channel, [Next]_vars
  PROVE  OwnIsOutbox'
<1> SUFFICES ASSUME NEW u \in Trans, NEW m \in Names,
                    phase'[u] = "committing", own'[u][m] # {}
             PROVE  m \in outbox'[u]
    BY DEF OwnIsOutbox
<1> USE DEF Nothing
<1>s. Typed
  BY DEF TypeOK
<1>0. ASSUME UNCHANGED <<phase, own, outbox>> PROVE m \in outbox'[u]
  BY <1>0 DEF OwnIsOutbox
<1>1. ASSUME NEW t \in Trans, Start(t) \/ Stop(t) PROVE m \in outbox'[u]
  BY <1>s, <1>1 DEF Start, Stop, OwnIsOutbox, Typed
<1>2. ASSUME NEW t \in Trans, CacheCommit(t) PROVE m \in outbox'[u]
  BY <1>s, <1>2 DEF CacheCommit, Notify, Idle, OwnIsOutbox, OwnIsReset, Typed
<1>3. ASSUME NEW t \in Trans, DataCommit(t) \/ Rollback(t) PROVE m \in outbox'[u]
  BY <1>s, <1>3 DEF DataCommit, Rollback, OwnIsOutbox, Typed
<1>4. ASSUME NEW t \in Trans, NEW n \in Names, NEW w \in Writes, Write(t, n, w)
      PROVE m \in outbox'[u]
  BY <1>s, <1>4 DEF Write, Idle, OwnIsOutbox, Typed
<1>5. ASSUME NEW t \in Trans, NEW n \in Names, Choose(t) \/ Store(t) \/ Load(t, n)
      PROVE m \in outbox'[u]
  BY <1>0, <1>5 DEF Choose, Store, Load
<1>6. ASSUME NEW p \in Procs, NEW n \in Names,
             \/ ListenerReady(p) \/ ClearLower(p) \/ ListenerCrash(p) \/ Elapse(p)
             \/ ClearDict(p, n) \/ Evict(p, n)
      PROVE m \in outbox'[u]
  BY <1>0, <1>6
     DEF ListenerReady, ClearLower, ListenerCrash, Elapse, ClearDict, Evict, transaction
<1>7. CASE UNCHANGED vars
  BY <1>0, <1>7 DEF vars, transaction
<1> QED BY <1>1, <1>2, <1>3, <1>4, <1>5, <1>6, <1>7 DEF Next

\* A snapshot is the one already held, or the one taken by this step, and an
\* open transaction is never less behind than it was.
LEMMA SnapshotOrigin ==
  ASSUME TypeOK, Channel, [Next]_vars, NEW u \in Trans,
         phase'[u] = "open", snap'[u] # NoValue
  PROVE  /\ phase[u] = "open" /\ behind[u] \subseteq behind'[u]
         /\ snap'[u] = SnapshotOf(u)
<1> USE DEF SnapshotOf
<1>s. Typed /\ TransactionShape
  BY DEF TypeOK
<1> DEFINE Goal == /\ phase[u] = "open" /\ behind[u] \subseteq behind'[u]
                   /\ snap'[u] = SnapshotOf(u)
<1>0. ASSUME UNCHANGED <<phase, snap, behind>> PROVE Goal
  BY <1>0
<1>1. ASSUME NEW t \in Trans, Start(t) \/ Stop(t) PROVE Goal
  BY <1>s, <1>1 DEF Start, Stop, Typed, TransactionShape
<1>2. ASSUME NEW t \in Trans, CacheCommit(t) PROVE Goal
  BY <1>s, <1>2 DEF CacheCommit, Notify, Typed
<1>3. ASSUME NEW t \in Trans, DataCommit(t) \/ Rollback(t) PROVE Goal
  BY <1>s, <1>3 DEF DataCommit, Rollback, Typed
<1>4. ASSUME NEW t \in Trans, NEW n \in Names, NEW w \in Writes,
             Write(t, n, w)
      PROVE Goal
  BY <1>s, <1>4 DEF Write, Typed
<1>5. ASSUME NEW t \in Trans, NEW n \in Names, Load(t, n) PROVE Goal
  BY <1>s, <1>5 DEF Load, Typed
<1>6. ASSUME NEW t \in Trans, Choose(t) \/ Store(t) PROVE Goal
  BY <1>0, <1>6 DEF Choose, Store
<1>7. ASSUME NEW p \in Procs, ClearLower(p) PROVE Goal
  BY <1>s, <1>7 DEF ClearLower, Lowered, Typed
<1>8. ASSUME NEW p \in Procs, ListenerReady(p) \/ ListenerCrash(p) \/ Elapse(p)
      PROVE Goal
  BY <1>0, <1>8 DEF ListenerReady, ListenerCrash, Elapse, transaction
<1>9. ASSUME NEW p \in Procs, NEW n \in Names, ClearDict(p, n) \/ Evict(p, n)
      PROVE Goal
  BY <1>0, <1>9 DEF ClearDict, Evict, transaction
<1>10. CASE UNCHANGED vars
  BY <1>0, <1>10 DEF vars, transaction
<1> QED
  BY <1>1, <1>2, <1>3, <1>4, <1>5, <1>6, <1>7, <1>8, <1>9, <1>10 DEF Next

LEMMA SnapshotCoherentStep ==
  ASSUME CoherentInv, Channel, [Next]_vars
  PROVE  SnapshotCoherent'
<1> SUFFICES ASSUME NEW u \in Trans, NEW m \in Names,
                    phase'[u] = "open", snap'[u] # NoValue, m \notin behind'[u]
             PROVE  snap'[u][m] = committed'[m] \/ Owed(ProcOf[u], m)'
    BY DEF SnapshotCoherent, Owed
<1> USE ConstantsAssumption
<1>1. /\ phase[u] = "open" /\ m \notin behind[u]
      /\ snap'[u] = SnapshotOf(u)
    BY SnapshotOrigin DEF CoherentInv
<1>2. CASE committed'[m] # committed[m]
    BY <1>2, CommittedOwed DEF CoherentInv
<1>3. CASE Owed(ProcOf[u], m)
  <2>1. ASSUME ClearLower(ProcOf[u]), clearing[ProcOf[u]] = m PROVE FALSE
    BY <1>1, <2>1 DEF ClearLower, Lowered, CoherentInv, TypeOK, Typed
  <2> QED BY <1>3, <2>1, OwedKept DEF CoherentInv
<1>4. CASE ~Owed(ProcOf[u], m) /\ committed'[m] = committed[m]
    BY <1>1, <1>4 DEF SnapshotOf, SnapshotCoherent, CoherentInv
<1> QED BY <1>2, <1>3, <1>4

\* A pending value was there before, is the one loaded by this step, or was
\* found by this step to belong into the shared dictionary.
LEMMA PendingOrigin ==
  ASSUME TypeOK, OwnIsReset, Channel, [Next]_vars, NEW u \in Trans,
         pending'[u] # NoValue
  PROVE  /\ phase[u] = "open" /\ pending'[u] \in Pending
         /\ own'[u] = own[u] /\ behind[u] \subseteq behind'[u]
         /\ \/ pending'[u] = pending[u]
            \/ /\ pending'[u].at = "loaded"
               /\ pending'[u].value = Visible(u, pending'[u].name)
            \/ /\ pending[u] # NoValue
               /\ pending'[u].name = pending[u].name
               /\ pending'[u].value = pending[u].value
               /\ own[u][pending[u].name] = {} /\ pending[u].name \notin behind[u]
<1>s. Typed /\ TransactionShape
  BY DEF TypeOK
<1>t. TypeOK'
  BY NextTypeOK
<1>r. pending'[u] \in Pending /\ phase'[u] = "open"
  BY <1>t DEF TypeOK, Typed, TransactionShape
<1> DEFINE Kept == /\ phase[u] = "open" /\ own'[u] = own[u]
                   /\ behind[u] \subseteq behind'[u]
                   /\ pending'[u] = pending[u]
<1>0. ASSUME UNCHANGED <<phase, own, behind>>, pending'[u] = pending[u] PROVE Kept
  BY <1>0, <1>r
<1>1. ASSUME NEW t \in Trans, Start(t) \/ Stop(t) \/ CacheCommit(t) PROVE Kept
  BY <1>s, <1>r, <1>1
     DEF Start, Stop, CacheCommit, Notify, Idle, Typed, TransactionShape
<1>2. ASSUME NEW t \in Trans, DataCommit(t) \/ Rollback(t) PROVE Kept
  BY <1>s, <1>r, <1>2 DEF DataCommit, Rollback, Idle, Typed, TransactionShape
<1>3. ASSUME NEW t \in Trans, NEW n \in Names, NEW w \in Writes, Write(t, n, w)
      PROVE Kept
  BY <1>s, <1>r, <1>3 DEF Write, Idle, Typed
<1>4. ASSUME NEW t \in Trans, Store(t) PROVE Kept
  <2>1. pending'[u] = pending[u]
    BY <1>s, <1>4 DEF Store, Typed
  <2> QED BY <1>0, <1>4, <2>1 DEF Store
<1>5. ASSUME NEW p \in Procs, ClearLower(p) PROVE Kept
  BY <1>s, <1>r, <1>5 DEF ClearLower, Lowered, Typed
<1>6. ASSUME NEW p \in Procs, ListenerReady(p) \/ ListenerCrash(p) \/ Elapse(p)
      PROVE Kept
  BY <1>0, <1>6 DEF ListenerReady, ListenerCrash, Elapse, transaction
<1>7. ASSUME NEW p \in Procs, NEW n \in Names, ClearDict(p, n) \/ Evict(p, n)
      PROVE Kept
  BY <1>0, <1>7 DEF ClearDict, Evict, transaction
<1>8. ASSUME UNCHANGED vars PROVE Kept
  BY <1>0, <1>8 DEF vars, transaction
<1>9. ASSUME NEW t \in Trans, NEW n \in Names, Load(t, n)
      PROVE \/ Kept
            \/ /\ phase[u] = "open" /\ UNCHANGED <<own, behind>>
               /\ pending'[u].at = "loaded"
               /\ pending'[u].value = Visible(u, pending'[u].name)
  BY <1>s, <1>r, <1>9 DEF Load, Typed
<1>10. ASSUME NEW t \in Trans, Choose(t)
       PROVE \/ Kept
             \/ /\ phase[u] = "open" /\ UNCHANGED <<own, behind>>
                /\ pending[u] # NoValue
                /\ pending'[u].name = pending[u].name
                /\ pending'[u].value = pending[u].value
                /\ own[u][pending[u].name] = {} /\ pending[u].name \notin behind[u]
  <2>1. UNCHANGED <<phase, own, behind>>
    BY <1>10 DEF Choose
  <2>2. CASE t # u
    BY <1>s, <1>0, <1>10, <2>1, <2>2 DEF Choose, Typed
  <2>3. CASE t = u
    <3>1. pending[u] \in Pending /\ pending[u] # NoValue
      BY <1>s, <1>10, <2>3, PendingTyped DEF Choose, HasPending
    <3>2. ~UsesPrivate(u, pending[u].name)
          /\ pending' = [pending EXCEPT ![u].at = "shared"]
      BY <1>s, <1>10, <2>3 DEF Choose, Typed
    <3>3. /\ pending'[u].name = pending[u].name
          /\ pending'[u].value = pending[u].value
      BY <1>s, <3>1, <3>2 DEF Typed, Pending
    <3>4. own[u][pending[u].name] = {} /\ pending[u].name \notin behind[u]
      BY <1>r, <2>1, <3>1, <3>2 DEF UsesPrivate, OwnIsReset, Pending
    <3> QED BY <1>r, <2>1, <3>1, <3>3, <3>4
  <2> QED BY <2>2, <2>3
<1> HIDE DEF Kept
<1>11. \/ Kept
       \/ /\ phase[u] = "open" /\ UNCHANGED <<own, behind>>
          /\ pending'[u].at = "loaded"
          /\ pending'[u].value = Visible(u, pending'[u].name)
       \/ /\ phase[u] = "open" /\ UNCHANGED <<own, behind>>
          /\ pending[u] # NoValue
          /\ pending'[u].name = pending[u].name
          /\ pending'[u].value = pending[u].value
          /\ own[u][pending[u].name] = {} /\ pending[u].name \notin behind[u]
  BY <1>1, <1>2, <1>3, <1>4, <1>5, <1>6, <1>7, <1>8, <1>9, <1>10 DEF Next
<1> QED BY <1>r, <1>11 DEF Kept

LEMMA PendingCoherentStep ==
  ASSUME CoherentInv, Channel, [Next]_vars
  PROVE  PendingCoherent'
<1> SUFFICES ASSUME NEW u \in Trans, NEW n, n = pending'[u].name, pending'[u] # NoValue
             PROVE  \/ pending'[u].value = committed'[n] \/ Owed(ProcOf[u], n)'
                    \/ pending'[u].at = "loaded" /\ (own'[u][n] # {} \/ n \in behind'[u])
    BY DEF PendingCoherent, Owed
<1> USE ConstantsAssumption
<1>t. TypeOK /\ OwnIsReset /\ OwnIsOutbox
  BY DEF CoherentInv
<1>1. /\ phase[u] = "open" /\ pending'[u] \in Pending
      /\ own'[u] = own[u] /\ behind[u] \subseteq behind'[u]
      /\ \/ pending'[u] = pending[u]
         \/ /\ pending'[u].at = "loaded"
            /\ pending'[u].value = Visible(u, pending'[u].name)
         \/ /\ pending[u] # NoValue
            /\ pending'[u].name = pending[u].name
            /\ pending'[u].value = pending[u].value
            /\ own[u][pending[u].name] = {} /\ pending[u].name \notin behind[u]
  BY <1>t, PendingOrigin
<1>2. n \in Names /\ ProcOf[u] \in Procs
  BY <1>1 DEF Pending
<1>3. \/ pending'[u].value = committed[n] \/ Owed(ProcOf[u], n)
      \/ pending'[u].at = "loaded" /\ (own[u][n] # {} \/ n \in behind[u])
  <2>1. CASE pending'[u] = pending[u]
    BY <2>1 DEF CoherentInv, PendingCoherent
  <2>2. CASE pending'[u].at = "loaded" /\ pending'[u].value = Visible(u, n)
    <3>1. Visible(u, n) = SnapshotOf(u)[n] \cup own[u][n]
      BY DEF Visible
    <3>2. SnapshotOf(u)[n] = committed[n] \/ Owed(ProcOf[u], n) \/ n \in behind[u]
      BY <1>1, <1>2 DEF SnapshotOf, CoherentInv, SnapshotCoherent
    <3> QED BY <2>2, <3>1, <3>2
  <2>3. CASE /\ pending[u] # NoValue
             /\ pending'[u].name = pending[u].name
             /\ pending'[u].value = pending[u].value
             /\ own[u][pending[u].name] = {} /\ pending[u].name \notin behind[u]
    BY <2>3 DEF CoherentInv, PendingCoherent
  <2> QED BY <1>1, <2>1, <2>2, <2>3
<1>4. CASE committed'[n] # committed[n]
  BY <1>t, <1>2, <1>4, CommittedOwed
<1>5. CASE Owed(ProcOf[u], n)
  <2>1. ASSUME ClearLower(ProcOf[u]), clearing[ProcOf[u]] = n
        PROVE  pending'[u].at = "loaded" /\ n \in behind'[u]
    <3>1. n \in behind'[u]
      BY <1>1, <1>t, <2>1 DEF ClearLower, Lowered, TypeOK, Typed
    <3>2. pending[u] # NoValue /\ pending'[u] = pending[u]
      BY <2>1 DEF ClearLower
    <3>3. NoneStoring(ProcOf[u])
      BY <1>2, <2>1 DEF CoherentInv, ClearingEmpty, ClearLower
    <3>4. pending'[u].at # "shared"
      BY <3>2, <3>3 DEF NoneStoring, HasPending
    <3> QED BY <1>1, <3>1, <3>4 DEF Pending
  <2> QED BY <1>t, <1>2, <1>5, <2>1, OwedKept
<1>6. CASE committed'[n] = committed[n] /\ ~Owed(ProcOf[u], n)
  BY <1>1, <1>3, <1>6
<1> QED BY <1>4, <1>5, <1>6

LEMMA ClearingEmptyStep ==
  ASSUME CoherentInv, ~Preemptive, [Next]_vars
  PROVE  ClearingEmpty'
<1> SUFFICES ASSUME NEW p \in Procs, clearing'[p] # NoValue
             PROVE  /\ shared'[p][clearing'[p]] = NoValue
                    /\ \A u \in Trans : ProcOf[u] = p
                         => ~(pending'[u] # NoValue /\ pending'[u].at = "shared")
    BY DEF ClearingEmpty, NoneStoring, HasPending
<1> DEFINE Goal == /\ shared'[p][clearing'[p]] = NoValue
                   /\ \A u \in Trans : ProcOf[u] = p
                        => ~(pending'[u] # NoValue /\ pending'[u].at = "shared")
<1> USE ConstantsAssumption DEF NoneStoring, HasPending
<1>s. Typed
  BY DEF CoherentInv, TypeOK
<1>k. ASSUME UNCHANGED <<clearing, pending>>,
             \A q \in Procs, n \in Names :
               shared'[q][n] = NoValue \/ shared'[q][n] = shared[q][n]
      PROVE Goal
  BY <1>s, <1>k DEF CoherentInv, ClearingEmpty, Typed
<1>1. ASSUME NEW t \in Trans, Start(t) \/ CacheCommit(t) PROVE Goal
  <2>1. UNCHANGED <<clearing, pending>>
    BY <1>1 DEF Start, CacheCommit, Notify, Stamp, process
  <2>2. \/ UNCHANGED shared
        \/ Emptied(ProcOf[t], invalid[ProcOf[t]]) \/ Emptied(ProcOf[t], reset[t])
    BY <1>1 DEF Start, CacheCommit, Notify, Stamp, process
  <2>3. ProcOf[t] \in Procs
    OBVIOUS
  <2> QED BY <1>s, <1>k, <2>1, <2>2, <2>3, EmptiedDrops
<1>2. ASSUME NEW t \in Trans, Stop(t) \/ DataCommit(t) \/ Rollback(t) PROVE Goal
  BY <1>k, <1>2 DEF Stop, DataCommit, Rollback, process
<1>3. ASSUME NEW t \in Trans, NEW n \in Names, NEW w \in Writes, Write(t, n, w)
      PROVE Goal
  BY <1>k, <1>3 DEF Write, process
<1>4. ASSUME NEW t \in Trans, NEW n \in Names, Load(t, n) PROVE Goal
  <2>1. UNCHANGED <<shared, clearing>>
    BY <1>4 DEF Load, process
  <2>2. /\ pending'[t].at = "loaded"
        /\ \A u \in Trans \ {t} : pending'[u] = pending[u]
    BY <1>s, <1>4 DEF Load, Typed
  <2> QED BY <2>1, <2>2 DEF CoherentInv, ClearingEmpty
<1>5. ASSUME NEW t \in Trans, Choose(t) PROVE Goal
  <2>1. UNCHANGED <<shared, clearing>> /\ clearing[ProcOf[t]] = NoValue
    BY <1>5 DEF Choose, process
  <2>2. \A u \in Trans \ {t} : pending'[u] = pending[u]
    BY <1>s, <1>5 DEF Choose, Typed
  <2> QED BY <2>1, <2>2 DEF CoherentInv, ClearingEmpty
<1>6. ASSUME NEW t \in Trans, Store(t) PROVE Goal
  <2>1. UNCHANGED clearing /\ pending' = [pending EXCEPT ![t] = NoValue]
    BY <1>6 DEF Store
  <2>2. clearing[ProcOf[t]] = NoValue
    BY <1>6 DEF Store, CoherentInv, ClearingEmpty
  <2>3. shared'[p] = shared[p]
    BY <1>s, <1>6, <2>1, <2>2 DEF Store, Typed
  <2> QED BY <1>s, <2>1, <2>3 DEF CoherentInv, ClearingEmpty, Typed
<1>7. ASSUME NEW q \in Procs, ListenerReady(q) \/ ListenerCrash(q) \/ Elapse(q)
      PROVE Goal
  BY <1>k, <1>7 DEF ListenerReady, ListenerCrash, Elapse, transaction
<1>8. ASSUME NEW q \in Procs, ClearLower(q) PROVE Goal
  BY <1>s, <1>8 DEF ClearLower, CoherentInv, ClearingEmpty, Typed
<1>9. ASSUME NEW q \in Procs, NEW n \in Names, ClearDict(q, n) PROVE Goal
  <2>1. /\ NoneStoring(q) /\ UNCHANGED pending /\ Emptied(q, {n})
        /\ clearing' = [clearing EXCEPT ![q] = n]
    BY <1>9 DEF ClearDict, transaction
  <2>2. shared'[q][n] = NoValue
    BY <1>s, <2>1 DEF Emptied, Typed
  <2>3. CASE q = p
    BY <1>s, <2>1, <2>2, <2>3 DEF Typed
  <2>4. CASE q # p
    <3>1. clearing'[p] = clearing[p] /\ shared'[p] = shared[p]
      BY <1>s, <2>1, <2>4 DEF Emptied, Typed
    <3> QED BY <2>1, <3>1 DEF CoherentInv, ClearingEmpty
  <2> QED BY <2>3, <2>4
<1>10. ASSUME NEW q \in Procs, NEW n \in Names, Evict(q, n) PROVE Goal
  BY <1>s, <1>k, <1>10 DEF Evict, Typed, transaction
<1>11. CASE UNCHANGED vars
  BY <1>k, <1>11 DEF vars, transaction, process
<1> QED
  BY <1>1, <1>2, <1>3, <1>4, <1>5, <1>6, <1>7, <1>8, <1>9, <1>10, <1>11 DEF Next

LEMMA CoherentStep ==
  ASSUME CoherentInv, Channel, [Next]_vars
  PROVE  Coherent'
<1> SUFFICES ASSUME NEW p \in Procs, NEW n \in Names,
                    shared'[p][n] # NoValue, shared'[p][n] # committed'[n]
             PROVE  Owed(p, n)'
    BY DEF Coherent, Stale, Owed
<1> USE ConstantsAssumption
<1>t. TypeOK /\ OwnIsReset /\ OwnIsOutbox /\ Typed
  BY DEF CoherentInv, TypeOK
<1>1. CASE committed'[n] # committed[n]
  BY <1>t, <1>1, CommittedOwed
<1>2. CASE committed'[n] = committed[n] /\ shared'[p][n] = shared[p][n]
  <2>1. Owed(p, n)
    BY <1>2 DEF CoherentInv, Coherent, Stale
  <2>2. ~(ClearLower(p) /\ clearing[p] = n)
    BY <1>2 DEF ClearLower, CoherentInv, ClearingEmpty
  <2> QED BY <1>t, <2>1, <2>2, OwedKept
<1>3. ASSUME NEW t \in Trans, Store(t) PROVE Owed(p, n)'
  <2>1. pending[t] \in Pending /\ pending[t] # NoValue
    BY <1>t, <1>3, PendingTyped DEF Store, HasPending
  <2>2. CASE ProcOf[t] = p /\ pending[t].name = n
    <3>1. shared'[p][n] = pending[t].value /\ committed' = committed
      BY <1>t, <1>3, <2>2 DEF Store, Typed, database
    <3>2. Owed(p, n)
      BY <1>3, <2>1, <2>2, <3>1 DEF CoherentInv, PendingCoherent, Store, HasPending
    <3> QED BY <1>3, <3>2 DEF Store, Owed
  <2>3. CASE ~(ProcOf[t] = p /\ pending[t].name = n)
    BY <1>t, <1>2, <1>3, <2>1, <2>3 DEF Store, Typed, Pending, database
  <2> QED BY <2>2, <2>3
<1>4. ASSUME ~\E t \in Trans : Store(t) PROVE shared'[p][n] = shared[p][n]
  <2>1. ASSUME NEW t \in Trans, Start(t) \/ CacheCommit(t)
        PROVE  shared'[p][n] = shared[p][n]
    BY <1>t, <2>1 DEF Start, CacheCommit, Notify, process
  <2>2. ASSUME NEW q \in Procs, NEW m \in Names, ClearDict(q, m) \/ Evict(q, m)
        PROVE  shared'[p][n] = shared[p][n]
    <3>1. CASE ClearDict(q, m)
      BY <1>t, <3>1, EmptiedDrops DEF ClearDict
    <3>2. CASE Evict(q, m)
      BY <1>t, <3>2 DEF Evict, Typed
    <3> QED BY <2>2, <3>1, <3>2
  <2>3. ASSUME ~\E t \in Trans : Start(t) \/ CacheCommit(t),
               ~\E q \in Procs, m \in Names : ClearDict(q, m) \/ Evict(q, m)
        PROVE  shared' = shared
    BY <1>4, <2>3
       DEF Next, Stop, DataCommit, Rollback, Choose, Load, Write, ListenerReady,
           ClearLower, ListenerCrash, Elapse, process, vars
  <2> QED BY <2>1, <2>2, <2>3
<1> QED BY <1>1, <1>2, <1>3, <1>4

LEMMA CoherentInvHolds ==
  ASSUME Channel, ~Preemptive
  PROVE  Spec => []CoherentInv
<1>1. Init => CoherentInv
  <2>1. ASSUME Init
        PROVE  /\ OwnIsReset /\ OwnIsOutbox /\ SnapshotCoherent
               /\ PendingCoherent /\ ClearingEmpty /\ Coherent
    BY <2>1, ConstantsAssumption
       DEF Init, OwnIsReset, OwnIsOutbox, SnapshotCoherent, PendingCoherent,
           ClearingEmpty, Coherent, Stale, Empty, Nothing
  <2> QED BY <2>1, InitTypeOK DEF CoherentInv
<1>2. CoherentInv /\ [Next]_vars => CoherentInv'
  <2> SUFFICES ASSUME CoherentInv, [Next]_vars
               PROVE  CoherentInv'
      OBVIOUS
  <2>1. TypeOK /\ OwnIsReset /\ OwnIsOutbox
    BY DEF CoherentInv
  <2>2. TypeOK' /\ OwnIsReset' /\ OwnIsOutbox'
    BY <2>1, NextTypeOK, OwnIsResetStep, OwnIsOutboxStep
  <2> QED
    BY <2>2, SnapshotCoherentStep, PendingCoherentStep, ClearingEmptyStep, CoherentStep
       DEF CoherentInv
<1> QED BY <1>1, <1>2, PTL DEF Spec

\* With channels, and with set and _clear not interleaved in one process, no
\* process shares a stale value without owing its clearing: whatever the
\* number of processes, threads, caches and writes, and however their steps,
\* their crashes and the notifications interleave.
THEOREM CoherentHolds ==
  ASSUME Channel, ~Preemptive
  PROVE  Spec => []Coherent
<1>1. CoherentInv => Coherent
  BY DEF CoherentInv
<1> QED BY <1>1, CoherentInvHolds, PTL

-----------------------------------------------------------------------------
(* The protocol implements the promise of CoherentCache *)

\* What a process owes, as CoherentCache sees it.
Debt == [p \in Procs |-> {n \in Names : Owed(p, n)}]

LEMMA DebtKept ==
  ASSUME UNCHANGED <<listener, invalid, clearing>>
  PROVE  Debt' = Debt
BY DEF Debt, Owed

\* A step that touches neither the database, nor what is shared, nor what is
\* owed, is not seen.
LEMMA Unseen ==
  ASSUME UNCHANGED <<committed, shared>>, Debt' = Debt
  PROVE  [Promise!Next]_(Promise!vars)
BY DEF Promise!vars, Debt

LEMMA PublishSeen ==
  ASSUME CoherentInv, Channel, [Next]_vars, NEW t \in Trans, DataCommit(t)
  PROVE  [Promise!Next]_(Promise!vars)
<1>t. TypeOK /\ OwnIsOutbox /\ Typed
  BY DEF CoherentInv, TypeOK
<1>1. committed' = [n \in Names |-> committed[n] \cup own[t][n]] /\ shared' = shared
  BY DEF DataCommit
<1>2. own[t] \in [Names -> SUBSET Writes] /\ Debt' \in [Procs -> SUBSET Names]
  BY <1>t DEF Typed, Value, Debt
<1>3. Debt' = [p \in Procs |-> Debt[p] \cup Debt'[p]]
  <2>1. ASSUME NEW p \in Procs, NEW n \in Names, Owed(p, n) PROVE Owed(p, n)'
    BY <1>t, <2>1 DEF DataCommit, Owed, Typed
  <2> QED BY <2>1 DEF Debt
<1>4. \A p \in Procs, n \in Names : committed'[n] # committed[n] => n \in Debt'[p]
  BY <1>t, CommittedOwed DEF Debt
<1>5. Promise!Publish
  BY <1>1, <1>2, <1>3, <1>4 DEF Promise!Publish, Debt
<1> QED BY <1>5 DEF Promise!Next

LEMMA FillSeen ==
  ASSUME CleanInv, CoherentInv, NEW t \in Trans, Store(t)
  PROVE  [Promise!Next]_(Promise!vars)
<1> DEFINE p == ProcOf[t]
           n == pending[t].name
           v == pending[t].value
<1>t. Typed
  BY DEF CoherentInv, TypeOK
<1>1. n \in Names /\ p \in Procs
  BY <1>t, PendingTyped, ConstantsAssumption DEF Store, HasPending, Pending
<1>2. v \in SUBSET committed[n]
  BY DEF CleanInv, PendingVisible, Store, HasPending
<1>3. n \notin Debt[p] => v = committed[n]
  BY <1>1 DEF CoherentInv, PendingCoherent, Store, HasPending, Debt
<1>4. shared' = [shared EXCEPT ![p][n] = v] /\ UNCHANGED <<committed, listener, invalid, clearing>>
  BY DEF Store, database
<1>5. Debt' = Debt
  BY <1>4, DebtKept
<1> HIDE DEF p, n, v
<1>6. Promise!Fill(p, n)
  BY <1>2, <1>3, <1>4, <1>5 DEF Promise!Fill, Debt
<1> QED BY <1>1, <1>6 DEF Promise!Next

LEMMA DiscardSeen ==
  ASSUME TypeOK, NEW p \in Procs, NEW n \in Names, ClearDict(p, n) \/ Evict(p, n)
  PROVE  [Promise!Next]_(Promise!vars)
<1>t. Typed
  BY DEF TypeOK
<1>1. shared' = [shared EXCEPT ![p][n] = NoValue] /\ committed' = committed
  BY <1>t DEF ClearDict, Emptied, Evict, database, Typed
<1>2. Debt' = Debt
  <2>1. CASE Evict(p, n)
    BY <2>1, DebtKept DEF Evict
  <2>2. CASE ClearDict(p, n)
    <3>1. ASSUME NEW q \in Procs, NEW m \in Names PROVE Owed(q, m)' <=> Owed(q, m)
      BY <1>t, <2>2, ConstantsAssumption DEF ClearDict, Owed, Typed
    <3> QED BY <3>1 DEF Debt
  <2> QED BY <2>1, <2>2
<1>3. Promise!Discard(p, n)
  BY <1>1, <1>2 DEF Promise!Discard, Debt
<1> QED BY <1>3 DEF Promise!Next

LEMMA SettleSeen ==
  ASSUME CoherentInv, NEW p \in Procs, ClearLower(p)
  PROVE  [Promise!Next]_(Promise!vars)
<1>t. Typed
  BY DEF CoherentInv, TypeOK
<1>n. PICK n \in Names : clearing[p] = n
  BY <1>t DEF ClearLower, Typed
<1>1. shared[p][n] = NoValue
  BY <1>n DEF ClearLower, CoherentInv, ClearingEmpty
<1>2. UNCHANGED <<committed, shared, listener, invalid>>
      /\ clearing' = [clearing EXCEPT ![p] = NoValue]
  BY DEF ClearLower, database
<1>3. ASSUME NEW q \in Procs, NEW m \in Names, q # p \/ m # n
      PROVE  Owed(q, m)' <=> Owed(q, m)
  BY <1>t, <1>n, <1>2, <1>3, ConstantsAssumption DEF Owed, Typed
<1>4. CASE Owed(p, n)'
  <2>1. Owed(p, n)
    BY <1>n DEF Owed
  <2>2. Debt' = Debt
    BY <1>3, <1>4, <2>1 DEF Debt
  <2> QED BY <1>2, <2>2, Unseen
<1>5. CASE ~Owed(p, n)'
  <2>1. Debt' = [Debt EXCEPT ![p] = @ \ {n}]
    BY <1>3, <1>5 DEF Debt
  <2>2. Promise!Settle(p, n)
    BY <1>1, <1>2, <2>1 DEF Promise!Settle, Debt
  <2> QED BY <1>1, <2>2 DEF Promise!Next
<1> QED BY <1>4, <1>5

LEMMA LoseSeen ==
  ASSUME TypeOK, NEW p \in Procs, ListenerCrash(p)
  PROVE  [Promise!Next]_(Promise!vars)
<1>t. Typed
  BY DEF TypeOK
<1>1. ASSUME NEW q \in Procs, NEW m \in Names
      PROVE  Owed(q, m)' <=> q = p \/ Owed(q, m)
  BY <1>t DEF ListenerCrash, Owed, Typed
<1>2. Debt' = [Debt EXCEPT ![p] = Names]
  BY <1>1 DEF Debt
<1>3. UNCHANGED <<committed, shared>>
  BY DEF ListenerCrash, database
<1>4. Promise!Lose(p)
  BY <1>2, <1>3 DEF Promise!Lose, Debt
<1> QED BY <1>4 DEF Promise!Next

LEMMA StepSeen ==
  ASSUME CleanInv, CoherentInv, Channel, [Next]_vars
  PROVE  [Promise!Next]_(Promise!vars)
<1>t. TypeOK /\ Typed
  BY DEF CoherentInv, TypeOK
<1>0. ASSUME UNCHANGED <<committed, shared, listener, invalid, clearing>>
      PROVE  [Promise!Next]_(Promise!vars)
  BY <1>0, DebtKept, Unseen
<1>1. ASSUME NEW t \in Trans, Start(t) PROVE [Promise!Next]_(Promise!vars)
  <2>1. UNCHANGED <<committed, shared>>
    BY <1>1 DEF Start, database
  <2>2. ASSUME NEW q \in Procs, NEW m \in Names PROVE Owed(q, m)' <=> Owed(q, m)
    BY <1>t, <1>1 DEF Start, Owed, Typed
  <2>3. Debt' = Debt
    BY <2>2 DEF Debt
  <2> QED BY <2>1, <2>3, Unseen
<1>2. ASSUME NEW t \in Trans, Stop(t) \/ CacheCommit(t) \/ Rollback(t) \/ Choose(t)
      PROVE [Promise!Next]_(Promise!vars)
  BY <1>0, <1>2 DEF Stop, CacheCommit, Notify, Rollback, Choose, database, process
<1>3. ASSUME NEW t \in Trans, DataCommit(t) PROVE [Promise!Next]_(Promise!vars)
  BY <1>3, PublishSeen
<1>4. ASSUME NEW t \in Trans, Store(t) PROVE [Promise!Next]_(Promise!vars)
  BY <1>4, FillSeen
<1>5. ASSUME NEW t \in Trans, NEW n \in Names, Load(t, n)
      PROVE [Promise!Next]_(Promise!vars)
  BY <1>0, <1>5 DEF Load, database, process
<1>6. ASSUME NEW t \in Trans, NEW n \in Names, NEW w \in Writes, Write(t, n, w)
      PROVE [Promise!Next]_(Promise!vars)
  BY <1>0, <1>6 DEF Write, process
<1>7. ASSUME NEW p \in Procs, ListenerReady(p) PROVE [Promise!Next]_(Promise!vars)
  <2>1. UNCHANGED <<committed, shared>>
    BY <1>7 DEF ListenerReady, database
  <2>2. ASSUME NEW q \in Procs, NEW m \in Names PROVE Owed(q, m)' <=> Owed(q, m)
    BY <1>t, <1>7 DEF ListenerReady, Owed, Typed
  <2>3. Debt' = Debt
    BY <2>2 DEF Debt
  <2> QED BY <2>1, <2>3, Unseen
<1>8. ASSUME NEW p \in Procs, ClearLower(p) PROVE [Promise!Next]_(Promise!vars)
  BY <1>8, SettleSeen
<1>9. ASSUME NEW p \in Procs, ListenerCrash(p) PROVE [Promise!Next]_(Promise!vars)
  BY <1>t, <1>9, LoseSeen
<1>10. ASSUME NEW p \in Procs, Elapse(p) PROVE [Promise!Next]_(Promise!vars)
  BY <1>0, <1>10 DEF Elapse, database
<1>11. ASSUME NEW p \in Procs, NEW n \in Names, ClearDict(p, n) \/ Evict(p, n)
       PROVE [Promise!Next]_(Promise!vars)
  BY <1>t, <1>11, DiscardSeen
<1>12. CASE UNCHANGED vars
  BY <1>0, <1>12 DEF vars, database, process
<1> QED
  BY <1>1, <1>2, <1>3, <1>4, <1>5, <1>6, <1>7, <1>8, <1>9, <1>10, <1>11, <1>12 DEF Next

\* The invalidation protocol (transaction.py start, commit and rollback, the
\* NOTIFY of Cache.commit, the listener and _transaction_lower) implements the
\* abstract cache, under the assumptions of CoherentHolds.
THEOREM ImplementsPromise ==
  ASSUME Channel, ~Preemptive
  PROVE  Spec => Implements
<1>1. Init => Promise!Init
  BY DEF Init, Promise!Init, Empty, Nothing
<1>2. CleanInv /\ CoherentInv /\ [Next]_vars => [Promise!Next]_(Promise!vars)
  BY StepSeen
<1>3. Spec => []CleanInv
  BY CleanHolds
<1>4. Spec => []CoherentInv
  BY CoherentInvHolds
<1> QED BY <1>1, <1>2, <1>3, <1>4, PTL DEF Spec, Implements, Promise!Spec

-----------------------------------------------------------------------------
(* A transaction reads its own writes *)

LEMMA ReadStep == ReadInv /\ [Next]_vars => ReadInv'
<1> SUFFICES ASSUME ReadInv, [Next]_vars
             PROVE  ReadInv'
    OBVIOUS
<1> USE ConstantsAssumption DEF Nothing, Empty
<1>t. TypeOK /\ OwnIsReset /\ PrivateOwn /\ PendingOwn
  BY DEF ReadInv
<1>s. Typed /\ TransactionShape
  BY <1>t DEF TypeOK
<1>a. TypeOK' /\ OwnIsReset'
  BY <1>t, NextTypeOK, OwnIsResetStep
<1> SUFFICES PrivateOwn' /\ PendingOwn'
    BY <1>a DEF ReadInv
<1>0. CASE UNCHANGED <<own, private, pending>>
  BY <1>t, <1>0 DEF PrivateOwn, PendingOwn
\* Writes that are committed or rolled back are no longer the transaction's own.
<1>1. ASSUME NEW t \in Trans, DataCommit(t) \/ Rollback(t) PROVE PrivateOwn' /\ PendingOwn'
  <2>1. own' = [own EXCEPT ![t] = Nothing] /\ UNCHANGED <<private, pending>>
    BY <1>1 DEF DataCommit, Rollback
  <2>2. \A u \in Trans, n \in Names : own'[u][n] = own[u][n] \/ own'[u][n] = {}
    BY <1>s, <2>1 DEF Typed
  <2>3. \A u \in Trans : pending[u] # NoValue => pending[u].name \in Names
    BY <1>s DEF Typed, Pending
  <2> QED BY <1>t, <2>1, <2>2, <2>3 DEF PrivateOwn, PendingOwn
<1>2. ASSUME NEW t \in Trans, Stop(t) PROVE PrivateOwn' /\ PendingOwn'
  <2>1. private' = [private EXCEPT ![t] = Empty] /\ UNCHANGED <<own, pending>>
    BY <1>2 DEF Stop
  <2> QED BY <1>t, <1>s, <2>1 DEF PrivateOwn, PendingOwn, Typed
<1>3. ASSUME NEW t \in Trans, Choose(t) PROVE PrivateOwn' /\ PendingOwn'
  <2>1. pending[t] \in Pending /\ pending[t] # NoValue /\ own' = own
    BY <1>s, <1>3, PendingTyped DEF Choose, HasPending
  <2>2. CASE UsesPrivate(t, pending[t].name)
    <3>1. /\ private' = [private EXCEPT ![t][pending[t].name] = pending[t].value]
          /\ pending' = [pending EXCEPT ![t] = NoValue]
      BY <1>3, <2>2 DEF Choose
    <3>2. own[t][pending[t].name] \subseteq pending[t].value
      BY <1>t, <2>1 DEF PendingOwn
    <3>3. PrivateOwn'
      BY <1>t, <1>s, <2>1, <3>1, <3>2 DEF PrivateOwn, Typed, Pending
    <3>4. PendingOwn'
      BY <1>t, <1>s, <2>1, <3>1 DEF PendingOwn, Typed
    <3> QED BY <3>3, <3>4
  <2>3. CASE ~UsesPrivate(t, pending[t].name)
    <3>1. pending' = [pending EXCEPT ![t].at = "shared"] /\ private' = private
      BY <1>3, <2>3 DEF Choose
    <3>2. /\ pending'[t].name = pending[t].name /\ pending'[t].value = pending[t].value
          /\ \A u \in Trans \ {t} : pending'[u] = pending[u]
      BY <1>s, <2>1, <3>1 DEF Typed, Pending
    <3> QED BY <1>t, <2>1, <3>1, <3>2 DEF PrivateOwn, PendingOwn
  <2> QED BY <2>2, <2>3
<1>4. ASSUME NEW t \in Trans, Store(t) PROVE PrivateOwn' /\ PendingOwn'
  <2>1. pending' = [pending EXCEPT ![t] = NoValue] /\ UNCHANGED <<own, private>>
    BY <1>4 DEF Store
  <2> QED BY <1>t, <1>s, <2>1 DEF PrivateOwn, PendingOwn, Typed
<1>5. ASSUME NEW t \in Trans, NEW n \in Names, Load(t, n) PROVE PrivateOwn' /\ PendingOwn'
  <2>1. UNCHANGED <<own, private>>
    BY <1>5 DEF Load
  <2>2. own[t][n] \subseteq Visible(t, n)
    BY DEF Visible
  <2>3. PendingOwn'
    BY <1>t, <1>s, <1>5, <2>1, <2>2 DEF Load, PendingOwn, Typed
  <2> QED BY <1>t, <2>1, <2>3 DEF PrivateOwn
<1>6. ASSUME NEW t \in Trans, NEW n \in Names, NEW w \in Writes, Write(t, n, w)
      PROVE  PrivateOwn' /\ PendingOwn'
  <2>1. pending[t] = NoValue /\ pending' = pending
    BY <1>6 DEF Write, Idle
  <2>2. /\ own' = [own EXCEPT ![t][n] = @ \cup {w}]
        /\ private' = [private EXCEPT ![t][n] = NoValue]
    BY <1>6 DEF Write
  <2>3. PrivateOwn'
    BY <1>t, <1>s, <2>2 DEF PrivateOwn, Typed
  <2>4. PendingOwn'
    BY <1>t, <1>s, <2>1, <2>2 DEF PendingOwn, Typed
  <2> QED BY <2>3, <2>4
<1>7. ASSUME NEW t \in Trans, Start(t) \/ CacheCommit(t) PROVE PrivateOwn' /\ PendingOwn'
  BY <1>0, <1>7 DEF Start, CacheCommit
<1>8. ASSUME NEW p \in Procs, NEW n \in Names, ClearDict(p, n) \/ Evict(p, n)
      PROVE  PrivateOwn' /\ PendingOwn'
  BY <1>0, <1>8 DEF ClearDict, Evict, transaction
<1>9. ASSUME NEW p \in Procs,
             ListenerReady(p) \/ ClearLower(p) \/ ListenerCrash(p) \/ Elapse(p)
      PROVE  PrivateOwn' /\ PendingOwn'
  BY <1>0, <1>9 DEF ListenerReady, ClearLower, ListenerCrash, Elapse, transaction
<1>10. CASE UNCHANGED vars
  BY <1>0, <1>10 DEF vars, transaction
<1> QED
  BY <1>1, <1>2, <1>3, <1>4, <1>5, <1>6, <1>7, <1>8, <1>9, <1>10 DEF Next

\* A transaction that reads a cache sees its own writes (clear and _get_cache), in
\* both modes and even when a thread loses the GIL inside set or _clear.
THEOREM ReadYourWritesHolds == Spec => []ReadYourWrites
<1>1. Init => ReadInv
  <2>1. Init => OwnIsReset /\ PrivateOwn /\ PendingOwn
    BY DEF Init, OwnIsReset, PrivateOwn, PendingOwn, Empty, Nothing
  <2> QED BY <2>1, InitTypeOK DEF ReadInv
<1>2. ReadInv => ReadYourWrites
  <2> SUFFICES ASSUME ReadInv, NEW t \in Trans, NEW n \in Names,
                      phase[t] = "open", Lookup(t, n) # NoValue
               PROVE  own[t][n] \subseteq Lookup(t, n)
      BY DEF ReadYourWrites
  <2>1. CASE UsesPrivate(t, n)
    BY <2>1 DEF Lookup, ReadInv, PrivateOwn
  <2>2. CASE ~UsesPrivate(t, n)
    BY <2>2 DEF UsesPrivate, ReadInv, OwnIsReset
  <2> QED BY <2>1, <2>2
<1> QED BY <1>1, <1>2, ReadStep, PTL DEF Spec

-----------------------------------------------------------------------------
(* Without preemption inside set and _clear, clearing is never undone *)

\* What a process has cleared with S: the floor of S is what is committed, and its
\* transactions that have started are behind.
LEMMA EmptiedFloor ==
  ASSUME Typed, NEW p \in Procs, NEW S \in SUBSET Names, Emptied(p, S)
  PROVE  \A q \in Procs, n \in Names :
           /\ q = p /\ n \in S => floor'[q][n] = committed[n] /\ shared'[q][n] = NoValue
           /\ q # p \/ n \notin S => /\ floor'[q][n] = floor[q][n]
                                     /\ shared'[q][n] = shared[q][n]
BY DEF Typed, Emptied

\* What is cleared is nobody's floor any more, once its transactions are behind.
LEMMA ClearedFloor ==
  ASSUME FloorInv, NEW p \in Procs, NEW S \in SUBSET Names, Emptied(p, S), NoneStoring(p),
         \A u \in Trans : snap'[u] # NoValue /\ phase'[u] = "open" => phase[u] = "open",
         \A u \in Trans : phase[u] = "open" /\ ProcOf[u] = p /\ phase'[u] = "open"
                            /\ (snap'[u] # NoValue \/ pending'[u] # NoValue)
                            => S \subseteq behind'[u] \/ \A n \in S : clearing'[p] = n,
         \A u \in Trans : behind[u] \subseteq behind'[u] \/ phase'[u] # "open"
                            \/ (snap'[u] = NoValue /\ pending'[u] = NoValue),
         \A q \in Procs : clearing'[q] = clearing[q] \/ (q = p /\ clearing[p] = NoValue),
         UNCHANGED <<committed, snap, pending>>, TypeOK'
  PROVE  FloorInv'
<1> USE ConstantsAssumption
<1>i. /\ Typed /\ TransactionShape /\ FloorCommitted /\ SnapshotFloor
      /\ PendingFloor /\ FloorRespected
  BY DEF FloorInv, TypeOK
<1>s. TransactionShape'
  BY DEF TypeOK
<1>f. \A q \in Procs, n \in Names :
        /\ q = p /\ n \in S => floor'[q][n] = committed[n] /\ shared'[q][n] = NoValue
        /\ q # p \/ n \notin S => /\ floor'[q][n] = floor[q][n]
                                  /\ shared'[q][n] = shared[q][n]
  BY <1>i, EmptiedFloor
<1>n. NoValue \notin Names
  OBVIOUS
<1>1. FloorCommitted'
  BY <1>i, <1>f DEF FloorCommitted
<1>2. FloorRespected'
  BY <1>i, <1>f DEF FloorRespected
<1>3. SnapshotFloor'
  <2> SUFFICES ASSUME NEW u \in Trans, NEW n \in Names,
                      phase'[u] = "open", snap'[u] # NoValue, n \notin behind'[u]
               PROVE  clearing'[ProcOf[u]] = n \/ floor'[ProcOf[u]][n] \subseteq snap'[u][n]
      BY DEF SnapshotFloor
  <2>1. ProcOf[u] \in Procs /\ phase[u] = "open" /\ n \notin behind[u]
    OBVIOUS
  <2>2. CASE ProcOf[u] = p /\ n \in S
    BY <2>1, <2>2
  <2>3. CASE ProcOf[u] # p \/ n \notin S
    <3>1. clearing[ProcOf[u]] = n \/ floor[ProcOf[u]][n] \subseteq snap[u][n]
      BY <1>i, <2>1 DEF SnapshotFloor
    <3>2. floor'[ProcOf[u]][n] = floor[ProcOf[u]][n]
      BY <1>f, <2>1, <2>3
    <3>3. clearing[ProcOf[u]] = n => clearing'[ProcOf[u]] = n
      BY <1>n, <2>1
    <3> QED BY <3>1, <3>2, <3>3
  <2> QED BY <2>2, <2>3
<1>4. PendingFloor'
  <2> SUFFICES ASSUME NEW u \in Trans, pending[u] # NoValue,
                      NEW n, n = pending[u].name, NEW q, q = ProcOf[u]
               PROVE  \/ floor'[q][n] \subseteq pending[u].value
                      \/ pending[u].at = "loaded" /\ (n \in behind'[u] \/ clearing'[q] = n)
      BY DEF PendingFloor
  <2>1. /\ q \in Procs /\ n \in Names /\ phase[u] = "open" /\ phase'[u] = "open"
        /\ behind[u] \subseteq behind'[u]
        /\ pending[u].at \in {"loaded", "shared"}
    BY <1>i, <1>s DEF Typed, TransactionShape, Pending
  <2>2. CASE q = p /\ n \in S
    <3>1. pending[u].at = "loaded"
      BY <2>1, <2>2 DEF NoneStoring, HasPending
    <3> QED BY <2>1, <2>2, <3>1
  <2>3. CASE q # p \/ n \notin S
    <3>1. \/ floor[q][n] \subseteq pending[u].value
          \/ pending[u].at = "loaded" /\ (n \in behind[u] \/ clearing[q] = n)
      BY <1>i DEF PendingFloor
    <3>2. floor'[q][n] = floor[q][n]
      BY <1>f, <2>1, <2>3
    <3>3. clearing[q] = n => clearing'[q] = n
      BY <1>n, <2>1
    <3> QED BY <2>1, <3>1, <3>2, <3>3
  <2> QED BY <2>2, <2>3
<1> QED BY <1>1, <1>2, <1>3, <1>4 DEF FloorInv

LEMMA FloorStep == FloorInv /\ ~Preemptive /\ [Next]_vars => FloorInv'
<1> SUFFICES ASSUME FloorInv, ~Preemptive, [Next]_vars
             PROVE  FloorInv'
    OBVIOUS
<1> USE ConstantsAssumption DEF Nothing
<1>t. TypeOK /\ FloorCommitted /\ SnapshotFloor /\ PendingFloor /\ FloorRespected
  BY DEF FloorInv
<1>s. Typed /\ TransactionShape
  BY <1>t DEF TypeOK
<1>a. TypeOK'
  BY <1>t, NextTypeOK
<1>g. \A n \in Names : committed[n] \subseteq committed'[n]
  BY <1>t, CommittedGrows
<1>o. \A t \in Trans : pending[t] # NoValue =>
        /\ phase[t] = "open" /\ pending[t] \in Pending /\ pending[t].name \in Names
  BY <1>s DEF TransactionShape, Typed, Pending
\* Nothing but the clearing of a cache moves its floor.
<1>0. ASSUME UNCHANGED <<shared, floor, clearing, pending, snap>>,
             \A u \in Trans : phase'[u] = "open" =>
               /\ snap[u] # NoValue \/ pending[u] # NoValue => phase[u] = "open"
               /\ \/ behind[u] \subseteq behind'[u]
                  \/ snap[u] = NoValue /\ pending[u] = NoValue
      PROVE  FloorInv'
  <2>1. FloorCommitted' /\ FloorRespected'
    BY <1>t, <1>g, <1>0 DEF FloorCommitted, FloorRespected
  <2>2. SnapshotFloor'
    BY <1>t, <1>0 DEF SnapshotFloor
  <2>3. \A u \in Trans : pending[u] # NoValue => behind[u] \subseteq behind'[u]
    BY <1>a, <1>0 DEF TypeOK, TransactionShape
  <2>4. PendingFloor'
    BY <1>t, <1>0, <2>3 DEF PendingFloor
  <2> QED BY <1>a, <2>1, <2>2, <2>4 DEF FloorInv
<1>1. ASSUME NEW t \in Trans, Start(t) PROVE FloorInv'
  <2>1. PICK p \in Procs, S \in SUBSET Names : p = ProcOf[t] /\ S = invalid[p]
    BY <1>s DEF Typed
  <2>2. /\ phase[t] = "none" /\ snap[t] = NoValue /\ pending[t] = NoValue
        /\ phase' = [phase EXCEPT ![t] = "open"]
        /\ UNCHANGED <<committed, snap, pending, clearing>>
    BY <1>s, <1>1 DEF Start, TransactionShape, database
  <2>3. CASE UNCHANGED <<behind, shared, floor>>
    BY <1>0, <1>s, <2>2, <2>3 DEF Typed
  <2>4. CASE /\ Emptied(p, S) /\ NoneStoring(p)
             /\ behind' = [Lowered(p, S) EXCEPT ![t] = S]
    <3>1. \A u \in Trans : phase[u] = "open" =>
            /\ behind[u] \subseteq behind'[u] /\ u # t
            /\ ProcOf[u] = p => S \subseteq behind'[u]
      BY <2>2, <2>4 DEF Lowered
    <3>2. \A u \in Trans \ {t} : phase'[u] = phase[u]
      BY <1>s, <2>2 DEF Typed
    <3>3. \A u \in Trans \ {t} : behind[u] \subseteq behind'[u]
      BY <2>4 DEF Lowered
    <3> QED BY <1>a, <2>2, <2>4, <3>1, <3>2, <3>3, ClearedFloor
  <2> QED BY <1>1, <2>1, <2>3, <2>4 DEF Start
<1>2. ASSUME NEW t \in Trans, Stop(t) PROVE FloorInv'
  <2>1. /\ phase' = [phase EXCEPT ![t] = "none"] /\ pending[t] = NoValue
        /\ snap' = [snap EXCEPT ![t] = NoValue]
        /\ behind' = [behind EXCEPT ![t] = {}]
        /\ UNCHANGED <<committed, pending, shared, floor, clearing>>
    BY <1>2 DEF Stop, Idle, database, process
  <2>2. FloorCommitted' /\ FloorRespected'
    BY <1>t, <2>1 DEF FloorCommitted, FloorRespected
  <2>3. SnapshotFloor'
    BY <1>t, <1>s, <2>1 DEF SnapshotFloor, Typed
  <2>4. PendingFloor'
    BY <1>t, <1>s, <2>1 DEF PendingFloor, Typed
  <2> QED BY <1>a, <2>2, <2>3, <2>4 DEF FloorInv
<1>3. ASSUME NEW t \in Trans, CacheCommit(t) PROVE FloorInv'
  <2>1. PICK p \in Procs, S \in SUBSET Names : p = ProcOf[t] /\ S = reset[t]
    BY <1>s DEF Typed
  <2>2. /\ pending[t] = NoValue
        /\ phase' = [phase EXCEPT ![t] = "committing"]
        /\ UNCHANGED <<committed, snap, pending>>
    BY <1>3 DEF CacheCommit, Idle, database
  <2>3. CASE Notify(t)
    <3>1. UNCHANGED <<shared, floor, clearing>> /\ behind' = [behind EXCEPT ![t] = {}]
      BY <2>3 DEF Notify, process
    <3> QED BY <1>0, <1>s, <2>2, <3>1 DEF Typed
  <2>4. CASE Stamp(t)
    <3>0. /\ Emptied(p, S) /\ NoneStoring(p) /\ clearing' = clearing
          /\ behind' = [Lowered(p, S) EXCEPT ![t] = S]
      BY <2>1, <2>4 DEF Stamp
    <3>1. \A u \in Trans \ {t} : /\ behind[u] \subseteq behind'[u]
                                 /\ ProcOf[u] = p /\ phase[u] = "open" => S \subseteq behind'[u]
      BY <3>0 DEF Lowered
    <3>2. phase'[t] = "committing" /\ \A u \in Trans \ {t} : phase'[u] = phase[u]
      BY <1>s, <2>2 DEF Typed
    <3> QED BY <1>a, <2>2, <3>0, <3>1, <3>2, ClearedFloor
  <2> QED BY <1>3, <2>3, <2>4 DEF CacheCommit
<1>4. ASSUME NEW t \in Trans, DataCommit(t) \/ Rollback(t) PROVE FloorInv'
  <2>1. /\ pending[t] = NoValue /\ snap' = [snap EXCEPT ![t] = NoValue]
        /\ phase' = [phase EXCEPT ![t] = "open"]
        /\ UNCHANGED <<behind, pending, shared, floor, clearing>>
    BY <1>s, <1>4 DEF DataCommit, Rollback, Idle, TransactionShape, process
  <2>2. FloorCommitted' /\ FloorRespected'
    BY <1>t, <1>g, <2>1 DEF FloorCommitted, FloorRespected
  <2>3. SnapshotFloor'
    BY <1>t, <1>s, <2>1 DEF SnapshotFloor, Typed
  <2>4. PendingFloor'
    BY <1>t, <2>1 DEF PendingFloor
  <2> QED BY <1>a, <2>2, <2>3, <2>4 DEF FloorInv
\* The snapshot of a transaction is the one that it has, or what is committed.
<1>5. ASSUME NEW t \in Trans, NEW n \in Names, NEW w \in Writes, Load(t, n) \/ Write(t, n, w)
      PROVE  SnapshotFloor' /\ FloorCommitted' /\ FloorRespected'
  <2>1. /\ phase[t] = "open" /\ snap' = [snap EXCEPT ![t] = SnapshotOf(t)]
        /\ UNCHANGED <<committed, phase, behind, shared, floor, clearing>>
    BY <1>5 DEF Load, Write, Idle, database, process
  <2>2. SnapshotFloor'
    BY <1>t, <1>s, <2>1 DEF SnapshotFloor, FloorCommitted, SnapshotOf, Typed
  <2> QED BY <1>t, <2>1, <2>2 DEF FloorCommitted, FloorRespected
<1>6. ASSUME NEW t \in Trans, NEW n \in Names, NEW w \in Writes, Write(t, n, w)
      PROVE  FloorInv'
  <2>1. UNCHANGED <<behind, pending, floor, clearing>>
    BY <1>6 DEF Write, process
  <2>2. PendingFloor'
    BY <1>t, <2>1 DEF PendingFloor
  <2> QED BY <1>a, <1>5, <1>6, <2>2 DEF FloorInv
<1>7. ASSUME NEW t \in Trans, NEW n \in Names, Load(t, n) PROVE FloorInv'
  <2>1. /\ phase[t] = "open" /\ snap' = [snap EXCEPT ![t] = SnapshotOf(t)]
        /\ pending' = [pending EXCEPT
             ![t] = [name |-> n, value |-> Visible(t, n), at |-> "loaded"]]
        /\ UNCHANGED <<committed, phase, behind, shared, floor, clearing>>
    BY <1>7 DEF Load, Idle, database, process
  <2>2. SnapshotFloor'
    BY <1>t, <1>s, <2>1 DEF SnapshotFloor, FloorCommitted, SnapshotOf, Typed
  <2>3. FloorCommitted' /\ FloorRespected'
    BY <1>t, <2>1 DEF FloorCommitted, FloorRespected
  <2>4. \/ floor[ProcOf[t]][n] \subseteq SnapshotOf(t)[n]
        \/ n \in behind[t] \/ clearing[ProcOf[t]] = n
    BY <1>t, <2>1 DEF SnapshotFloor, FloorCommitted, SnapshotOf
  <2>5. SnapshotOf(t)[n] \subseteq Visible(t, n)
    BY DEF Visible
  <2>6. PendingFloor'
    BY <1>t, <1>s, <2>1, <2>4, <2>5 DEF PendingFloor, Typed
  <2> QED BY <1>a, <2>2, <2>3, <2>6 DEF FloorInv
<1>8. ASSUME NEW t \in Trans, Choose(t) PROVE FloorInv'
  <2>1. /\ pending[t] # NoValue /\ pending[t] \in Pending /\ pending[t].at = "loaded"
        /\ UNCHANGED <<committed, phase, snap, behind, shared, floor, clearing>>
    BY <1>o, <1>8 DEF Choose, HasPending, database, process
  <2>2. FloorCommitted' /\ FloorRespected' /\ SnapshotFloor'
    BY <1>t, <2>1 DEF FloorCommitted, FloorRespected, SnapshotFloor
  <2>3. CASE UsesPrivate(t, pending[t].name)
    <3>1. pending' = [pending EXCEPT ![t] = NoValue]
      BY <1>8, <2>3 DEF Choose
    <3>2. PendingFloor'
      BY <1>t, <1>s, <2>1, <3>1 DEF PendingFloor, Typed
    <3> QED BY <1>a, <2>2, <3>2 DEF FloorInv
  <2>4. CASE ~UsesPrivate(t, pending[t].name)
    <3>1. pending' = [pending EXCEPT ![t].at = "shared"] /\ clearing[ProcOf[t]] = NoValue
      BY <1>8, <2>4 DEF Choose
    <3>2. /\ pending'[t].name = pending[t].name /\ pending'[t].value = pending[t].value
          /\ \A u \in Trans \ {t} : pending'[u] = pending[u]
      BY <1>s, <2>1, <3>1 DEF Typed, Pending
    <3>3. pending[t].name \notin behind[t] /\ clearing[ProcOf[t]] # pending[t].name
      BY <1>o, <2>1, <2>4, <3>1 DEF UsesPrivate
    <3>4. floor[ProcOf[t]][pending[t].name] \subseteq pending[t].value
      BY <1>t, <2>1, <3>3 DEF PendingFloor
    <3>5. PendingFloor'
      BY <1>t, <2>1, <3>2, <3>4 DEF PendingFloor
    <3> QED BY <1>a, <2>2, <3>5 DEF FloorInv
  <2> QED BY <2>3, <2>4
<1>9. ASSUME NEW t \in Trans, Store(t) PROVE FloorInv'
  <2>1. /\ pending[t] # NoValue /\ pending[t] \in Pending /\ pending[t].at = "shared"
        /\ pending' = [pending EXCEPT ![t] = NoValue]
        /\ shared' = [shared EXCEPT ![ProcOf[t]][pending[t].name] = pending[t].value]
        /\ UNCHANGED <<committed, phase, snap, behind, floor, clearing>>
    BY <1>o, <1>9 DEF Store, HasPending, database
  <2>2. FloorCommitted' /\ SnapshotFloor'
    BY <1>t, <2>1 DEF FloorCommitted, SnapshotFloor
  <2>3. PendingFloor'
    BY <1>t, <1>s, <2>1 DEF PendingFloor, Typed
  <2>4. floor[ProcOf[t]][pending[t].name] \subseteq pending[t].value
    BY <1>t, <2>1 DEF PendingFloor
  <2>5. FloorRespected'
    BY <1>t, <1>s, <2>1, <2>4 DEF FloorRespected, Typed, Pending
  <2> QED BY <1>a, <2>2, <2>3, <2>5 DEF FloorInv
<1>10. ASSUME NEW p \in Procs, NEW n \in Names, ClearDict(p, n) PROVE FloorInv'
  <2>1. /\ Emptied(p, {n}) /\ NoneStoring(p) /\ clearing[p] = NoValue
        /\ clearing' = [clearing EXCEPT ![p] = n]
        /\ UNCHANGED <<committed, phase, snap, behind, pending>>
    BY <1>10 DEF ClearDict, database, transaction
  <2>2. clearing'[p] = n /\ \A q \in Procs \ {p} : clearing'[q] = clearing[q]
    BY <1>s, <2>1 DEF Typed
  <2>3. {n} \in SUBSET Names /\ \A m \in {n} : clearing'[p] = m
    BY <2>2
  <2>4. /\ \A u \in Trans : snap'[u] # NoValue /\ phase'[u] = "open" => phase[u] = "open"
        /\ \A u \in Trans : behind[u] \subseteq behind'[u]
        /\ \A q \in Procs : clearing'[q] = clearing[q] \/ (q = p /\ clearing[p] = NoValue)
    BY <2>1, <2>2
  <2> QED BY <1>a, <2>1, <2>3, <2>4, ClearedFloor
<1>11. ASSUME NEW p \in Procs, ClearLower(p) PROVE FloorInv'
  <2>1. PICK c \in Names : c = clearing[p]
    BY <1>s, <1>11 DEF ClearLower, Typed
  <2>2. /\ behind' = Lowered(p, {c}) /\ clearing' = [clearing EXCEPT ![p] = NoValue]
        /\ UNCHANGED <<committed, phase, snap, pending, shared, floor>>
    BY <1>11, <2>1 DEF ClearLower, database
  <2>3. /\ \A u \in Trans : behind[u] \subseteq behind'[u]
        /\ \A u \in Trans : ProcOf[u] = p /\ phase[u] = "open" => c \in behind'[u]
        /\ \A q \in Procs \ {p} : clearing'[q] = clearing[q]
    BY <1>s, <2>2 DEF Lowered, Typed
  <2>4. FloorCommitted' /\ FloorRespected'
    BY <1>t, <2>2 DEF FloorCommitted, FloorRespected
  <2>5. SnapshotFloor'
    <3> SUFFICES ASSUME NEW u \in Trans, NEW n \in Names,
                        phase[u] = "open", snap[u] # NoValue, n \notin behind'[u]
                 PROVE  clearing'[ProcOf[u]] = n \/ floor[ProcOf[u]][n] \subseteq snap[u][n]
        BY <2>2 DEF SnapshotFloor
    <3>1. ProcOf[u] \in Procs /\ n \notin behind[u] /\ (ProcOf[u] = p => n # c)
      BY <2>3
    <3>2. clearing[ProcOf[u]] = n \/ floor[ProcOf[u]][n] \subseteq snap[u][n]
      BY <1>t, <3>1 DEF SnapshotFloor
    <3> QED BY <2>1, <2>3, <3>1, <3>2
  <2>6. PendingFloor'
    BY <1>t, <1>o, <2>1, <2>2, <2>3 DEF PendingFloor
  <2> QED BY <1>a, <2>4, <2>5, <2>6 DEF FloorInv
<1>12. ASSUME NEW p \in Procs, ListenerReady(p) \/ ListenerCrash(p) \/ Elapse(p)
       PROVE  FloorInv'
  BY <1>0, <1>12 DEF ListenerReady, ListenerCrash, Elapse, transaction
<1>13. ASSUME NEW p \in Procs, NEW n \in Names, Evict(p, n) PROVE FloorInv'
  <2>1. /\ shared' = [shared EXCEPT ![p][n] = NoValue]
        /\ UNCHANGED <<committed, phase, snap, behind, pending, floor, clearing>>
    BY <1>13 DEF Evict, transaction, database
  <2>2. FloorCommitted' /\ SnapshotFloor' /\ PendingFloor'
    BY <1>t, <2>1 DEF FloorCommitted, SnapshotFloor, PendingFloor
  <2>3. FloorRespected'
    BY <1>t, <1>s, <2>1 DEF FloorRespected, Typed
  <2> QED BY <1>a, <2>2, <2>3 DEF FloorInv
<1>14. CASE UNCHANGED vars
  BY <1>0, <1>14 DEF vars, transaction, process
<1> QED
  BY <1>1, <1>2, <1>3, <1>4, <1>6, <1>7, <1>8, <1>9, <1>10, <1>11, <1>12, <1>13, <1>14
     DEF Next

\* An old transaction does not fill a cache ("test_cache.py"): whatever the mode, as
\* long as set and _clear are not interleaved, a shared value is never older than
\* the last clearing of its cache.
THEOREM FloorRespectedHolds ==
  ASSUME ~Preemptive
  PROVE  Spec => []FloorRespected
<1>1. Init => FloorInv
  <2>1. Init => FloorCommitted /\ SnapshotFloor /\ PendingFloor /\ FloorRespected
    BY DEF Init, FloorCommitted, SnapshotFloor, PendingFloor, FloorRespected, Empty, Nothing
  <2> QED BY <2>1, InitTypeOK DEF FloorInv
<1>2. FloorInv => FloorRespected
  BY DEF FloorInv
<1>3. FloorInv /\ [Next]_vars => FloorInv'
  BY FloorStep
<1> QED BY <1>1, <1>2, <1>3, PTL DEF Spec
=============================================================================
