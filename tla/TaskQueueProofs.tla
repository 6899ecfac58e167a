-------------------------- MODULE TaskQueueProofs --------------------------
(***************************************************************************)
(* Theorems of TaskQueue for any number of databases, threads, pools and   *)
(* processes: the type invariant, that a task takes effect at most once,   *)
(* and that a committed task is not forgotten.                             *)
(***************************************************************************)
EXTENDS TaskQueue, FiniteSetTheorems, WellFoundedInduction, TLAPS

\* The databases of the command line are databases, and there is one.
LEMMA DbsIn ==
  /\ Len(Dbs) \in Nat \ {0}
  /\ \A k \in 1 .. Len(Dbs) : Dbs[k] \in Db
BY QueueAssumption DEF Db, ToSet

\* What run holds is a call, once it is something.
LEMMA RunTyped ==
  ASSUME QueueTypeOK, NEW e \in Executors, run[e] # NoRun
  PROVE  run[e] \in Call /\ run[e].db \in Db /\ run[e].id \in Ids
BY DEF QueueTypeOK, Call

LEMMA CallIsSomething == \A c \in Call : c # NoRun
BY QueueAssumption DEF Call, Db, Ids

\* A function on the first numbers is a sequence.
LEMMA FunctionIsSeq ==
  ASSUME NEW S, NEW n \in Nat, NEW f \in [1 .. n -> S]
  PROVE  f \in Seq(S) /\ Len(f) = n
OBVIOUS

LEMMA Prefix ==
  ASSUME NEW S, NEW s \in Seq(S), NEW n \in Nat, n <= Len(s)
  PROVE  /\ SubSeq(s, 1, n) \in Seq(S) /\ Len(SubSeq(s, 1, n)) = n
         /\ \A k \in 1 .. n : SubSeq(s, 1, n)[k] = s[k]
OBVIOUS

LEMMA NoneInList ==
  ASSUME NEW S, NEW s \in Seq(S), DOMAIN s = {}
  PROVE  s = <<>>
<1>1. Len(s) \in Nat /\ DOMAIN s = 1 .. Len(s)
  OBVIOUS
<1>2. ~(Len(s) >= 1)
  BY <1>1
<1>3. Len(s) = 0
  BY <1>1, <1>2
<1> QED BY <1>3

\* The end of a list, and what is left of it.
LEMMA LastAndFront ==
  ASSUME NEW S, NEW s \in Seq(S), s # <<>>
  PROVE  /\ Len(s) \in Nat \ {0}
         /\ Last(s) = s[Len(s)] /\ Last(s) \in S
         /\ Front(s) \in Seq(S) /\ Len(Front(s)) = Len(s) - 1
         /\ \A k \in 1 .. Len(s) - 1 : Front(s)[k] = s[k]
<1>1. Len(s) \in Nat \ {0} /\ s[Len(s)] \in S
  OBVIOUS
<1>2. Len(s) - 1 \in Nat /\ Len(s) - 1 <= Len(s)
  BY <1>1
<1> QED BY <1>1, <1>2, Prefix DEF Last, Front

\* Min is a least element, of the sets of ids that it is applied to.
LEMMA MinOfIds ==
  ASSUME NEW S \in SUBSET Ids, S # {}
  PROVE  Min(S) \in S /\ \A i \in S : Min(S) <= i
<1>1. S \in SUBSET Nat
  BY QueueAssumption DEF Ids
<1>2. PICK x \in S : \A y \in S : ~(<<y, x>> \in OpToRel(<, Nat))
  BY <1>1, NatLessThanWellFounded, WFMin
<1>3. \A y \in S : ~(y < x)
  BY <1>1, <1>2 DEF OpToRel
<1>4. \A y \in S : x <= y
  BY <1>1, <1>3
<1> QED BY <1>4 DEF Min

\* A request goes on to another stage, with other ids.
LEMMA RequestTyped ==
  ASSUME NEW r \in [Threads -> RequestOf], NEW t \in Threads
  PROVE  /\ \A S \in SUBSET Ids : [r EXCEPT ![t].pushed = S] \in [Threads -> RequestOf]
         /\ \A S \in SUBSET Ids, stage \in Stage :
              [r EXCEPT ![t].stage = stage, ![t].pushed = S] \in [Threads -> RequestOf]
BY DEF RequestOf

-----------------------------------------------------------------------------
(* The type invariant *)

LEMMA InitTypeOK == QueueInit => QueueTypeOK
<1> SUFFICES ASSUME QueueInit PROVE QueueTypeOK
    OBVIOUS
<1>1. Dbs[1] \in Db
  BY DbsIn
<1>2. req \in [Threads -> RequestOf]
  BY <1>1 DEF QueueInit, NoRequest, Stage, RequestOf
<1>3. tasks \in [Threads -> Seq(Entry)]
  BY DEF QueueInit
<1>4. nextid \in [Db -> 1 .. MaxId + 1] /\ pos \in [Pullers -> 1 .. Len(Dbs)]
  BY DbsIn, QueueAssumption DEF QueueInit
<1> QED BY <1>2, <1>3, <1>4 DEF QueueInit, QueueTypeOK, Status

LEMMA NextTypeOK == QueueTypeOK /\ [QueueNext]_queueVars => QueueTypeOK'
<1> SUFFICES ASSUME QueueTypeOK, [QueueNext]_queueVars
             PROVE  QueueTypeOK'
    OBVIOUS
<1>m. MaxId \in Nat
  BY QueueAssumption
<1>t. /\ row \in [Db -> [Ids -> Status]]
      /\ runnable \subseteq Db \X Ids
      /\ nextid \in [Db -> 1 .. MaxId + 1]
      /\ req \in [Threads -> RequestOf]
      /\ tasks \in [Threads -> Seq(Entry)]
      /\ run \in [Executors -> Call \cup {NoRun}]
      /\ failed \subseteq Db \X Ids
      /\ applied \in [Db -> [Ids -> Nat]]
  BY DEF QueueTypeOK
<1>n. ASSUME NEW d \in Db, NotifyWorker(d) PROVE notified' \in [Pullers -> SUBSET Db]
  BY <1>n DEF NotifyWorker, QueueTypeOK
<1>1. ASSUME NEW t \in Threads, NEW d \in Db, Begin(t, d) PROVE QueueTypeOK'
  <2>1. req' \in [Threads -> RequestOf]
    BY <1>t, <1>1 DEF Begin, Stage, RequestOf
  <2> QED BY <1>1, <2>1 DEF Begin, QueueTypeOK, store, history, loop
<1>2. ASSUME NEW t \in Threads, NEW later \in BOOLEAN, Push(t, later) PROVE QueueTypeOK'
  <2> DEFINE d == req[t].db
  <2> DEFINE i == nextid[d]
  <2>1. d \in Db /\ i \in Ids
    BY <1>t, <1>2, <1>m DEF Push, Ids, RequestOf
  <2>2. req' \in [Threads -> RequestOf]
    <3>1. req' = [req EXCEPT ![t].pushed = req[t].pushed \cup {i}]
      BY <1>2 DEF Push
    <3>2. req[t].pushed \cup {i} \in SUBSET Ids
      BY <1>t, <2>1 DEF RequestOf
    <3> QED BY <1>t, <3>1, <3>2, RequestTyped
  <2>3. nextid' \in [Db -> 1 .. MaxId + 1]
    BY <1>t, <1>2, <1>m, <2>1 DEF Push, Ids
  <2>4. runnable' \subseteq Db \X Ids
    <3>1. <<d, i>> \in Db \X Ids
      BY <2>1
    <3> QED BY <1>t, <1>2, <3>1 DEF Push
  <2>5. tasks' \in [Threads -> Seq(Entry)]
    <3>1. [id |-> i, rolled |-> FALSE] \in Entry
      BY <2>1 DEF Entry
    <3>2. Append(tasks[t], [id |-> i, rolled |-> FALSE]) \in Seq(Entry)
      BY <1>t, <3>1
    <3> QED BY <1>t, <1>2, <3>2 DEF Push
  <2> QED BY <1>2, <2>2, <2>3, <2>4, <2>5 DEF Push, QueueTypeOK, history, loop
<1>3. ASSUME NEW t \in Threads, Commit(t) PROVE QueueTypeOK'
  <2>1. row' \in [Db -> [Ids -> Status]]
    BY <1>t, <1>3 DEF Commit, Status, RequestOf
  <2>2. req' \in [Threads -> RequestOf]
    <3>1. PICK stage \in Stage : req' = [req EXCEPT ![t].stage = stage, ![t].pushed = {}]
      BY <1>3 DEF Commit, Stage
    <3> QED BY <1>t, <3>1, RequestTyped
  <2>3. notified' \in [Pullers -> SUBSET Db]
    BY <1>t, <1>3, <1>n DEF Commit, QueueTypeOK, RequestOf
  <2> QED BY <1>3, <2>1, <2>2, <2>3 DEF Commit, QueueTypeOK, history
<1>4. ASSUME NEW t \in Threads, Abort(t) PROVE QueueTypeOK'
  <2> DEFINE d == req[t].db
  <2>1. d \in Db /\ req[t].pushed \in SUBSET Ids
    BY <1>t DEF RequestOf
  <2>2. req' \in [Threads -> RequestOf]
    <3>1. PICK stage \in Stage : req' = [req EXCEPT ![t].stage = stage, ![t].pushed = {}]
      BY <1>4 DEF Abort, Stage
    <3> QED BY <1>t, <3>1, RequestTyped
  <2>3. runnable' \subseteq Db \X Ids
    BY <1>t, <1>4, <2>1 DEF Abort
  <2>4. tasks' \in [Threads -> Seq(Entry)]
    <3> DEFINE s == tasks[t]
               r == [k \in DOMAIN s |-> IF k > Len(s) - Cardinality(req[t].pushed)
                                        THEN [s[k] EXCEPT !.rolled = TRUE] ELSE s[k]]
    <3>1. s \in Seq(Entry)
      BY <1>t
    <3>2. \A c \in Entry : [c EXCEPT !.rolled = TRUE] \in Entry
      BY DEF Entry
    <3>3. /\ DOMAIN s = 1 .. Len(s) /\ Len(s) \in Nat
          /\ \A k \in DOMAIN s : s[k] \in Entry
      BY <3>1
    <3>4. r \in [1 .. Len(s) -> Entry]
      BY <3>2, <3>3
    <3>5. r \in Seq(Entry)
      <4> HIDE DEF r
      <4> QED BY <3>3, <3>4, FunctionIsSeq
    <3>6. tasks' = [tasks EXCEPT ![t] = r]
      BY <1>4 DEF Abort
    <3> HIDE DEF r
    <3> QED BY <1>t, <3>5, <3>6
  <2>5. nextid' \in [Db -> 1 .. MaxId + 1]
    <3>1. req[t].pushed # {} => Min(req[t].pushed) \in 1 .. MaxId + 1
      <4>1. Ids \subseteq 1 .. MaxId + 1
        BY <1>m DEF Ids
      <4> QED BY <2>1, <4>1, MinOfIds
    <3> QED BY <1>t, <1>m, <1>4, <2>1, <3>1 DEF Abort
  <2> QED BY <1>4, <2>2, <2>3, <2>4, <2>5 DEF Abort, QueueTypeOK, history, loop
<1>5. ASSUME NEW t \in Threads, Pop(t) PROVE QueueTypeOK'
  <2>1. /\ Last(tasks[t]) \in Entry /\ Front(tasks[t]) \in Seq(Entry)
        /\ req[t].db \in Db
    BY <1>t, <1>5, LastAndFront DEF Pop, RequestOf
  <2>2. [db |-> req[t].db, id |-> Last(tasks[t]).id,
         rolled |-> Last(tasks[t]).rolled, stage |-> "search"] \in Call
    BY <2>1 DEF Call, Entry
  <2>3. run' \in [Executors -> Call \cup {NoRun}]
    BY <1>t, <1>5, <2>2 DEF Pop, Executors
  <2>4. tasks' \in [Threads -> Seq(Entry)]
    BY <1>t, <1>5, <2>1 DEF Pop
  <2> QED BY <1>5, <2>3, <2>4 DEF Pop, QueueTypeOK, store, history, loop
<1>6. ASSUME NEW t \in Threads, End(t) PROVE QueueTypeOK'
  <2>1. NoRequest \in RequestOf
    BY DbsIn DEF NoRequest, RequestOf, Stage
  <2>2. req' \in [Threads -> RequestOf]
    BY <1>t, <1>6, <2>1 DEF End
  <2> QED BY <1>6, <2>2 DEF End, QueueTypeOK, store, history, loop
<1>7. ASSUME NEW d \in Db, NEW i \in Ids, Tick(d, i) PROVE QueueTypeOK'
  <2>1. runnable' \subseteq Db \X Ids
    BY <1>t, <1>7 DEF Tick
  <2> QED BY <1>7, <2>1 DEF Tick, QueueTypeOK, serverVars, history, loop
<1>8. ASSUME NEW e \in Executors, RunTask(e) PROVE QueueTypeOK'
  <2>1. run[e] # NoRun
    BY <1>8 DEF RunTask, Search, Complete, GiveUp, Reschedule, Running
  <2>2. run[e] \in Call /\ run[e].db \in Db /\ run[e].id \in Ids
    BY <2>1, RunTyped
  <2>3. CASE Search(e)
    <3>1. [run[e] EXCEPT !.stage = "running"] \in Call
      BY <2>2 DEF Call
    <3>2. run' \in [Executors -> Call \cup {NoRun}]
      BY <1>t, <2>3, <3>1 DEF Search
    <3> QED BY <2>3, <3>2 DEF Search, QueueTypeOK, store, serverVars, history, loop
  <2>4. CASE Complete(e)
    <3>1. row' \in [Db -> [Ids -> Status]] /\ applied' \in [Db -> [Ids -> Nat]]
      BY <1>t, <2>2, <2>4 DEF Complete, Status
    <3>2. run' \in [Executors -> Call \cup {NoRun}]
      BY <1>t, <2>4 DEF Complete
    <3> QED BY <2>4, <3>1, <3>2 DEF Complete, QueueTypeOK, serverVars, loop
  <2>5. CASE GiveUp(e)
    <3>1. failed' \subseteq Db \X Ids
      BY <1>t, <2>2, <2>5 DEF GiveUp
    <3>2. run' \in [Executors -> Call \cup {NoRun}]
      BY <1>t, <2>5 DEF GiveUp
    <3> QED BY <2>5, <3>1, <3>2 DEF GiveUp, QueueTypeOK, store, serverVars, loop
  <2>6. CASE Reschedule(e)
    <3> DEFINE d == run[e].db
    <3> DEFINE i == nextid[d]
    <3>1. d \in Db /\ i \in Ids
      BY <1>t, <1>m, <2>2, <2>6 DEF Reschedule, Ids
    <3>2. row' \in [Db -> [Ids -> Status]]
      BY <1>t, <2>6, <3>1 DEF Reschedule, Status
    <3>3. nextid' \in [Db -> 1 .. MaxId + 1]
      BY <1>t, <1>m, <2>6, <3>1 DEF Reschedule, Ids
    <3>4. tasks' \in [Threads -> Seq(Entry)]
      <4>1. [id |-> i, rolled |-> FALSE] \in Entry
        BY <3>1 DEF Entry
      <4>2. e \in Threads => Append(tasks[e], [id |-> i, rolled |-> FALSE]) \in Seq(Entry)
        BY <1>t, <4>1
      <4> QED BY <1>t, <2>6, <4>2 DEF Reschedule
    <3>5. failed' \subseteq Db \X Ids
      BY <1>t, <2>2, <2>6 DEF Reschedule
    <3>6. run' \in [Executors -> Call \cup {NoRun}]
      BY <1>t, <2>6 DEF Reschedule
    <3>7. notified' \in [Pullers -> SUBSET Db]
      BY <1>n, <2>6, <3>1 DEF Reschedule
    <3> QED BY <2>6, <3>2, <3>3, <3>4, <3>5, <3>6, <3>7 DEF Reschedule, QueueTypeOK
  <2> QED BY <1>8, <2>3, <2>4, <2>5, <2>6 DEF RunTask
<1>9. ASSUME NEW s \in Slots, Crash(s) PROVE QueueTypeOK'
  BY <1>9 DEF Crash, QueueTypeOK, store, serverVars, history, loop
<1>10. ASSUME NEW w \in Pullers, Work(w) PROVE QueueTypeOK'
  <2> DEFINE d == Dbs[pos[w]]
  <2>1. d \in Db /\ pos[w] \in 1 .. Len(Dbs) /\ Len(Dbs) \in Nat \ {0}
    BY DbsIn DEF QueueTypeOK
  <2>2. CASE Miss(w)
    BY <2>1, <2>2 DEF Miss, QueueTypeOK, store, serverVars, history
  <2>3. CASE Listen(w)
    <3>1. heard' \in [Pullers -> SUBSET Db]
      BY <2>1, <2>3 DEF Listen, QueueTypeOK
    <3>2. /\ pos' \in [Pullers -> 1 .. Len(Dbs)]
          /\ at' \in [Pullers -> {"polling", "listen", "waiting"}]
      <4>1. /\ pos \in [Pullers -> 1 .. Len(Dbs)]
            /\ at \in [Pullers -> {"polling", "listen", "waiting"}]
        BY DEF QueueTypeOK
      <4>2. CASE pos[w] < Len(Dbs)
        BY <2>1, <2>3, <4>1, <4>2 DEF Listen
      <4>3. CASE ~(pos[w] < Len(Dbs))
        BY <2>1, <2>3, <4>1, <4>3 DEF Listen
      <4> QED BY <4>2, <4>3
    <3> QED BY <2>3, <3>1, <3>2 DEF Listen, QueueTypeOK, store, serverVars, history
  <2>4. CASE Wake(w)
    BY <2>4 DEF Wake, QueueTypeOK, store, serverVars, history
  <2>5. CASE Timeout(w)
    BY <2>5 DEF Timeout, QueueTypeOK, store, serverVars, history
  <2>6. ASSUME NEW s \in Slots, NEW i \in Ids, Pull(w, s, i) PROVE QueueTypeOK'
    <3>1. row' \in [Db -> [Ids -> Status]]
      BY <1>t, <2>1, <2>6 DEF Pull, Status
    <3>2. [db |-> d, id |-> i, rolled |-> FALSE, stage |-> "search"] \in Call
      BY <2>1 DEF Call
    <3>3. run' \in [Executors -> Call \cup {NoRun}]
      BY <1>t, <2>6, <3>2 DEF Pull, Executors
    <3>4. pos' \in [Pullers -> 1 .. Len(Dbs)]
      BY <2>1, <2>6 DEF Pull, QueueTypeOK
    <3> QED BY <2>6, <3>1, <3>3, <3>4 DEF Pull, QueueTypeOK, serverVars, history
  <2> QED BY <1>10, <2>2, <2>3, <2>4, <2>5, <2>6 DEF Work
<1>11. CASE UNCHANGED queueVars
  BY <1>11 DEF queueVars, QueueTypeOK, store, serverVars, history, loop
<1> QED
  BY <1>1, <1>2, <1>3, <1>4, <1>5, <1>6, <1>7, <1>8, <1>9, <1>10, <1>11
     DEF QueueNext, Request, Executors

\* The variables of the queue have their types.
THEOREM TypeCorrect == QueueSpec => []QueueTypeOK
BY InitTypeOK, NextTypeOK, PTL DEF QueueSpec

-----------------------------------------------------------------------------
(* The ids *)

LEMMA Typed ==
  ASSUME QueueTypeOK
  PROVE  /\ worker \in BOOLEAN
         /\ row \in [Db -> [Ids -> Status]]
         /\ nextid \in [Db -> 1 .. MaxId + 1]
         /\ req \in [Threads -> RequestOf]
         /\ \A t \in Threads : /\ req[t].db \in Db /\ req[t].pushed \in SUBSET Ids
                               /\ req[t].stage \in Stage
         /\ tasks \in [Threads -> Seq(Entry)]
         /\ run \in [Executors -> Call \cup {NoRun}]
BY DEF QueueTypeOK, RequestOf

\* The initial state has no request, no row and no task.
LEMMA InitQueueInv == QueueInit => QueueInv
<1> SUFFICES ASSUME QueueInit PROVE QueueInv
    OBVIOUS
<1>1. QueueTypeOK
  BY InitTypeOK
<1>2. /\ \A t \in Threads : req[t].pushed = {}
      /\ \A d \in Db, i \in Ids : row[d][i] = "absent"
      /\ \A e \in Executors : run[e] = NoRun
      /\ \A t \in Threads : tasks[t] = <<>>
  BY DEF QueueInit, NoRequest
<1> QED
  BY <1>1, <1>2 DEF QueueInv, PushedApart, IdsFresh, ReusedLast, RunsInTurn, Running,
                    Executors

\* What leaves the requests and the next ids alone, and writes only rows that are
\* there, keeps what is known of the ids.
LEMMA IdsKept ==
  ASSUME QueueInv, UNCHANGED <<req, nextid>>,
         \A d \in Db, i \in Ids : row[d][i] = "absent" => row'[d][i] = "absent"
  PROVE  PushedApart' /\ IdsFresh' /\ ReusedLast'
<1>1. PushedApart'
  BY Typed DEF QueueInv, PushedApart
<1>2. IdsFresh'
  BY DEF QueueInv, IdsFresh
<1>3. ReusedLast'
  BY DEF QueueInv, ReusedLast
<1> QED BY <1>1, <1>2, <1>3

\* So does what leaves a request without ids, whatever its database.
LEMMA IdsDropped ==
  ASSUME QueueInv, NEW t \in Threads, req'[t].pushed = {}, UNCHANGED <<row, nextid>>,
         \A u \in Threads \ {t} : req'[u] = req[u]
  PROVE  PushedApart' /\ IdsFresh' /\ ReusedLast'
<1>i. PushedApart /\ IdsFresh /\ ReusedLast
  BY DEF QueueInv
<1>1. \A u \in Threads : req'[u].pushed # {} => u # t /\ req'[u] = req[u]
  OBVIOUS
<1>2. \A u \in Threads : \A i : i \in req'[u].pushed => i \in req[u].pushed /\ req'[u] = req[u]
  OBVIOUS
<1>3. PushedApart'
  BY <1>i, <1>1, <1>2 DEF PushedApart
<1>4. IdsFresh'
  BY <1>i, <1>2 DEF IdsFresh
<1>5. ReusedLast'
  BY <1>i, <1>1, <1>2 DEF ReusedLast
<1> QED BY <1>3, <1>4, <1>5

LEMMA NextIds ==
  ASSUME QueueInv, [QueueNext]_queueVars
  PROVE  PushedApart' /\ IdsFresh' /\ ReusedLast'
<1>t. /\ row \in [Db -> [Ids -> Status]]
      /\ nextid \in [Db -> 1 .. MaxId + 1]
      /\ req \in [Threads -> RequestOf]
      /\ \A t \in Threads : /\ req[t].db \in Db /\ req[t].pushed \in SUBSET Ids
                            /\ req[t].stage \in Stage
  BY Typed DEF QueueInv
<1>i. PushedApart /\ IdsFresh /\ ReusedLast /\ RunsInTurn /\ QueueTypeOK
  BY DEF QueueInv
<1>m. MaxId \in Nat /\ Ids \subseteq Nat
  BY QueueAssumption DEF Ids
<1>1. ASSUME NEW t \in Threads, NEW d \in Db, Begin(t, d)
      PROVE  PushedApart' /\ IdsFresh' /\ ReusedLast'
  <2>1. /\ req[t].pushed = {} /\ req'[t].pushed = {}
        /\ \A u \in Threads \ {t} : req'[u] = req[u]
        /\ UNCHANGED <<row, nextid>>
    BY <1>t, <1>i, <1>1 DEF Begin, store, PushedApart
  <2> QED BY <2>1, IdsDropped
<1>2. ASSUME NEW t \in Threads, NEW later \in BOOLEAN, Push(t, later)
      PROVE  PushedApart' /\ IdsFresh' /\ ReusedLast'
  <2> DEFINE d == req[t].db
  <2> DEFINE i == nextid[d]
  <2>1. /\ d \in Db /\ i \in Ids /\ MayWrite(t, d) /\ req[t].stage = "open"
        /\ req' = [req EXCEPT ![t].pushed = req[t].pushed \cup {i}]
        /\ nextid' = [nextid EXCEPT ![d] = i + 1]
        /\ row' = row
    BY <1>t, <1>m, <1>2 DEF Push, Ids
  <2>2. /\ req'[t].pushed = req[t].pushed \cup {i}
        /\ req'[t].db = d /\ req'[t].stage = "open"
        /\ \A u \in Threads \ {t} : req'[u] = req[u]
        /\ nextid'[d] = i + 1
        /\ \A e \in Db \ {d} : nextid'[e] = nextid[e]
    BY <1>t, <2>1 DEF RequestOf
  <2>3. /\ row[d][i] = "absent"
        /\ \A u \in Threads : req[u].db = d => i \notin req[u].pushed
    BY <1>t, <1>i, <1>m, <2>1 DEF IdsFresh
  <2> HIDE DEF d, i
  <2>4. PushedApart'
    BY <1>t, <1>i, <2>1, <2>2, <2>3 DEF PushedApart, d
  <2>5. IdsFresh'
    BY <1>t, <1>i, <1>m, <2>1, <2>2, <2>3 DEF IdsFresh, d, i
  <2>6. ReusedLast'
    <3> SUFFICES ASSUME Reuse, NEW u \in Threads, req'[u].pushed # {}
                 PROVE  /\ \E j \in Ids : req'[u].pushed = j .. nextid'[req'[u].db] - 1
                        /\ \A v \in Threads \ {u} :
                             req'[v].db = req'[u].db => req'[v].pushed = {}
        BY DEF ReusedLast
    <3>0. i \in Nat /\ nextid'[d] - 1 = i
      BY <1>m, <2>1, <2>2
    <3>1. \A v \in Threads \ {t} : req[v].db = d => req[v].pushed = {}
      BY <2>1 DEF MayWrite, d
    <3>2. CASE u = t
      <4>1. \A v \in Threads \ {u} : req'[v].db = req'[u].db => req'[v].pushed = {}
        BY <2>2, <3>1, <3>2
      <4>2. CASE req[t].pushed = {}
        <5>1. i .. i = {i}
          BY <3>0
        <5>2. req'[t].pushed = i .. nextid'[d] - 1
          BY <2>2, <3>0, <4>2, <5>1
        <5> QED BY <2>1, <2>2, <3>2, <4>1, <5>2
      <4>3. CASE req[t].pushed # {}
        <5>1. PICK j \in Ids : req[t].pushed = j .. i - 1
          BY <1>i, <4>3 DEF ReusedLast, d, i
        <5>2. j <= i - 1
          BY <1>m, <2>1, <4>3, <5>1
        <5>3. j .. i = (j .. i - 1) \cup {i}
          BY <1>m, <3>0, <5>2
        <5>4. req'[t].pushed = j .. nextid'[d] - 1
          BY <2>2, <3>0, <5>1, <5>3
        <5> QED BY <2>2, <3>2, <4>1, <5>4
      <4> QED BY <4>2, <4>3
    <3>3. CASE u # t
      <4>1. req[u].db # d /\ req'[u] = req[u] /\ req[u].db \in Db
        BY <1>t, <2>2, <3>1, <3>3
      <4>2. nextid'[req[u].db] = nextid[req[u].db]
        BY <2>2, <4>1
      <4> QED BY <1>i, <2>2, <3>3, <4>1, <4>2 DEF ReusedLast
    <3> QED BY <3>2, <3>3
  <2> QED BY <2>4, <2>5, <2>6
<1>3. ASSUME NEW t \in Threads, Commit(t)
      PROVE  PushedApart' /\ IdsFresh' /\ ReusedLast'
  <2> DEFINE d == req[t].db
  <2>1. /\ d \in Db
        /\ row' = [row EXCEPT ![d] = [i \in Ids |-> IF i \in req[t].pushed THEN "queued"
                                                    ELSE row[d][i]]]
        /\ req'[t].pushed = {}
        /\ \A u \in Threads \ {t} : req'[u] = req[u]
        /\ nextid' = nextid
    BY <1>t, <1>3 DEF Commit
  <2>2. /\ \A e \in Db \ {d} : row'[e] = row[e]
        /\ \A i \in Ids \ req[t].pushed : row'[d][i] = row[d][i]
    BY <1>t, <2>1
  <2> HIDE DEF d
  <2>3. PushedApart'
    BY <1>t, <1>i, <2>1, <2>2 DEF PushedApart, d
  <2>4. IdsFresh'
    BY <1>t, <1>i, <2>1, <2>2 DEF IdsFresh, d
  <2>5. ReusedLast'
    BY <1>t, <1>i, <2>1 DEF ReusedLast
  <2> QED BY <2>3, <2>4, <2>5
<1>4. ASSUME NEW t \in Threads, Abort(t)
      PROVE  PushedApart' /\ IdsFresh' /\ ReusedLast'
  <2> DEFINE d == req[t].db
  <2>1. /\ d \in Db
        /\ req'[t].pushed = {}
        /\ \A u \in Threads \ {t} : req'[u] = req[u]
        /\ nextid' = IF Reuse /\ req[t].pushed # {}
                       THEN [nextid EXCEPT ![d] = Min(req[t].pushed)] ELSE nextid
        /\ row' = row
    BY <1>t, <1>4 DEF Abort
  <2> HIDE DEF d
  <2>2. PushedApart'
    BY <1>t, <1>i, <2>1 DEF PushedApart
  <2>3. CASE Reuse /\ req[t].pushed # {}
    <3> DEFINE m == Min(req[t].pushed)
    <3>1. /\ m \in req[t].pushed /\ m \in Ids
          /\ \A i \in req[t].pushed : m <= i
      BY <1>t, <2>3, MinOfIds
    <3>2. PICK j \in Ids : req[t].pushed = j .. nextid[d] - 1
      BY <1>i, <2>3 DEF ReusedLast, d
    <3> HIDE DEF m
    <3>3. \A i \in Ids : i >= m /\ i < nextid[d] => i \in req[t].pushed
      BY <1>t, <1>m, <2>1, <3>1, <3>2
    <3>4. nextid'[d] = m /\ \A e \in Db \ {d} : nextid'[e] = nextid[e]
      BY <1>t, <2>1, <2>3 DEF m
    <3>5. \A u \in Threads \ {t} : req[u].db = d => req[u].pushed = {}
      BY <1>i, <2>3 DEF ReusedLast, d
    <3>6. IdsFresh'
      <4> SUFFICES ASSUME NEW e \in Db, NEW i \in Ids, i >= nextid'[e]
                   PROVE  /\ row'[e][i] = "absent"
                          /\ \A u \in Threads : req'[u].db = e => i \notin req'[u].pushed
          BY DEF IdsFresh
      <4>1. CASE e # d
        BY <1>i, <2>1, <3>4, <4>1 DEF IdsFresh
      <4>2. CASE e = d
        <5>1. i >= nextid[d] \/ i \in req[t].pushed
          BY <1>t, <1>m, <2>1, <3>3, <3>4, <4>2
        <5>2. row[d][i] = "absent"
          BY <1>i, <2>1, <5>1 DEF IdsFresh, PushedApart, d
        <5> QED BY <2>1, <3>5, <4>2, <5>2
      <4> QED BY <4>1, <4>2
    <3>7. ReusedLast'
      <4> SUFFICES ASSUME NEW u \in Threads, req'[u].pushed # {}
                   PROVE  /\ \E i \in Ids : req'[u].pushed = i .. nextid'[req'[u].db] - 1
                          /\ \A v \in Threads \ {u} :
                               req'[v].db = req'[u].db => req'[v].pushed = {}
          BY DEF ReusedLast
      <4>1. u # t /\ req'[u] = req[u] /\ req[u].db \in Db /\ req[u].db # d
        BY <1>t, <2>1, <3>5
      <4>2. nextid'[req[u].db] = nextid[req[u].db]
        BY <3>4, <4>1
      <4> QED BY <1>i, <2>1, <2>3, <4>1, <4>2 DEF ReusedLast
    <3> QED BY <2>2, <3>6, <3>7
  <2>4. CASE ~(Reuse /\ req[t].pushed # {})
    <3>1. nextid' = nextid
      BY <2>1, <2>4
    <3> QED BY <2>1, <3>1, IdsDropped
  <2> QED BY <2>3, <2>4
<1>5. ASSUME NEW t \in Threads, End(t)
      PROVE  PushedApart' /\ IdsFresh' /\ ReusedLast'
  <2>1. /\ req[t].pushed = {} /\ req'[t].pushed = {}
        /\ \A u \in Threads \ {t} : req'[u] = req[u]
        /\ UNCHANGED <<row, nextid>>
    BY <1>t, <1>i, <1>5 DEF End, store, PushedApart, NoRequest
  <2> QED BY <2>1, IdsDropped
<1>6. ASSUME NEW e \in Executors, Reschedule(e)
      PROVE  PushedApart' /\ IdsFresh' /\ ReusedLast'
  <2> DEFINE d == run[e].db
  <2> DEFINE i == nextid[d]
  <2>1. /\ d \in Db /\ i \in Ids /\ req' = req /\ ~Reuse
        /\ row' = [row EXCEPT ![d][i] = "queued"]
        /\ nextid' = [nextid EXCEPT ![d] = i + 1]
    BY <1>t, <1>i, <1>m, <1>6, RunTyped DEF Reschedule, Ids
  <2>2. /\ \A f \in Db \ {d} : row'[f] = row[f] /\ nextid'[f] = nextid[f]
        /\ \A j \in Ids \ {i} : row'[d][j] = row[d][j]
        /\ nextid'[d] = i + 1
    BY <1>t, <2>1
  <2>3. \A u \in Threads : req[u].db = d => i \notin req[u].pushed
    BY <1>t, <1>i, <1>m, <2>1 DEF IdsFresh
  <2> HIDE DEF d, i
  <2>4. PushedApart'
    BY <1>t, <1>i, <2>1, <2>2, <2>3 DEF PushedApart
  <2>5. IdsFresh'
    BY <1>t, <1>i, <1>m, <2>1, <2>2, <2>3 DEF IdsFresh, d, i
  <2>6. ReusedLast'
    BY <2>1 DEF ReusedLast
  <2> QED BY <2>4, <2>5, <2>6
<1>7. ASSUME NEW e \in Executors, Complete(e)
      PROVE  PushedApart' /\ IdsFresh' /\ ReusedLast'
  <2>1. row[run[e].db][run[e].id] # "absent"
    BY <1>i, <1>7 DEF Complete, RunsInTurn
  <2>2. /\ row' = [row EXCEPT ![run[e].db][run[e].id] = "finished"]
        /\ UNCHANGED <<req, nextid>>
    BY <1>7 DEF Complete, serverVars
  <2>3. \A d \in Db, i \in Ids : row[d][i] = "absent" => row'[d][i] = "absent"
    BY <1>t, <2>1, <2>2
  <2> QED BY <2>2, <2>3, IdsKept
<1>8. ASSUME NEW w \in Pullers, NEW s \in Slots, NEW i \in Ids, Pull(w, s, i)
      PROVE  PushedApart' /\ IdsFresh' /\ ReusedLast'
  <2>1. /\ row[Dbs[pos[w]]][i] = "queued"
        /\ row' = [row EXCEPT ![Dbs[pos[w]]][i] = "dequeued"]
        /\ UNCHANGED <<req, nextid>>
    BY <1>8 DEF Pull, Ready, serverVars
  <2>2. \A d \in Db, j \in Ids : row[d][j] = "absent" => row'[d][j] = "absent"
    BY <1>t, <2>1
  <2> QED BY <2>1, <2>2, IdsKept
<1>9. CASE UNCHANGED <<req, nextid, row>>
  BY <1>9, IdsKept
<1>10. ASSUME NEW e \in Executors, RunTask(e)
       PROVE  PushedApart' /\ IdsFresh' /\ ReusedLast'
  <2>1. Search(e) \/ GiveUp(e) => UNCHANGED <<req, nextid, row>>
    BY DEF Search, GiveUp, store, serverVars
  <2> QED BY <1>6, <1>7, <1>9, <1>10, <2>1 DEF RunTask
<1>11. ASSUME NEW w \in Pullers, Work(w)
       PROVE  PushedApart' /\ IdsFresh' /\ ReusedLast'
  <2>1. Miss(w) \/ Listen(w) \/ Wake(w) \/ Timeout(w) => UNCHANGED <<req, nextid, row>>
    BY DEF Miss, Listen, Wake, Timeout, store, serverVars
  <2> QED BY <1>8, <1>9, <1>11, <2>1 DEF Work
<1>12. ASSUME NEW t \in Threads, Request(t)
       PROVE  PushedApart' /\ IdsFresh' /\ ReusedLast'
  <2>1. Pop(t) => UNCHANGED <<req, nextid, row>>
    BY DEF Pop, store
  <2> QED BY <1>1, <1>2, <1>3, <1>4, <1>5, <1>9, <1>12, <2>1 DEF Request
<1>13. ASSUME NEW s \in Slots, Crash(s)
       PROVE  PushedApart' /\ IdsFresh' /\ ReusedLast'
  BY <1>9, <1>13 DEF Crash, store, serverVars
<1>14. ASSUME NEW d \in Db, NEW i \in Ids, Tick(d, i)
       PROVE  PushedApart' /\ IdsFresh' /\ ReusedLast'
  BY <1>9, <1>14 DEF Tick, serverVars
<1>15. CASE UNCHANGED queueVars
  BY <1>9, <1>15 DEF queueVars, store, serverVars
<1> QED
  BY <1>10, <1>11, <1>12, <1>13, <1>14, <1>15 DEF QueueNext, Executors

\* Who runs tasks, and when.
LEMMA NextInTurn ==
  ASSUME QueueInv, [QueueNext]_queueVars
  PROVE  RunsInTurn'
<1>t. /\ worker \in BOOLEAN
      /\ row \in [Db -> [Ids -> Status]]
      /\ nextid \in [Db -> 1 .. MaxId + 1]
      /\ req \in [Threads -> RequestOf]
      /\ \A t \in Threads : req[t].db \in Db /\ req[t].pushed \in SUBSET Ids
      /\ tasks \in [Threads -> Seq(Entry)]
      /\ run \in [Executors -> Call \cup {NoRun}]
  BY Typed DEF QueueInv
<1>i. PushedApart /\ IdsFresh /\ RunsInTurn /\ QueueTypeOK
  BY DEF QueueInv
<1>m. MaxId \in Nat /\ Ids \subseteq Nat /\ Threads \cap Slots = {}
  BY QueueAssumption DEF Ids
<1>e. Threads \subseteq Executors /\ Slots \subseteq Executors
  BY DEF Executors
<1>1. ASSUME NEW t \in Threads, NEW d \in Db, Begin(t, d) PROVE RunsInTurn'
  <2>1. run[t] = NoRun
    BY <1>i, <1>1 DEF Begin, RunsInTurn
  <2>2. /\ \A u \in Threads \ {t} : req'[u] = req[u]
        /\ UNCHANGED <<worker, row, run, tasks>>
    BY <1>t, <1>1 DEF Begin, store
  <2> QED BY <1>i, <2>1, <2>2 DEF RunsInTurn, Running
<1>2. ASSUME NEW t \in Threads, NEW later \in BOOLEAN, Push(t, later) PROVE RunsInTurn'
  <2>1. \A u \in Threads : req'[u].stage = req[u].stage
    BY <1>t, <1>2 DEF Push, RequestOf
  <2>2. UNCHANGED <<worker, row, run>> /\ (worker => tasks' = tasks)
    BY <1>2 DEF Push
  <2> QED BY <1>i, <2>1, <2>2 DEF RunsInTurn, Running
<1>3. ASSUME NEW t \in Threads, Commit(t) PROVE RunsInTurn'
  <2>1. run[t] = NoRun
    BY <1>i, <1>3 DEF Commit, RunsInTurn
  <2>2. /\ \A u \in Threads \ {t} : req'[u] = req[u]
        /\ UNCHANGED <<worker, run, tasks>>
    BY <1>t, <1>3 DEF Commit
  <2>3. \A d \in Db, i \in Ids : \/ row'[d][i] = row[d][i]
                                 \/ row'[d][i] = "queued"
    BY <1>t, <1>3 DEF Commit
  <2>4. \A e \in Executors : run[e] # NoRun => run[e].db \in Db /\ run[e].id \in Ids
    BY <1>i, RunTyped
  <2> QED BY <1>i, <2>1, <2>2, <2>3, <2>4 DEF RunsInTurn, Running
<1>4. ASSUME NEW t \in Threads, Abort(t) PROVE RunsInTurn'
  <2>1. run[t] = NoRun
    BY <1>i, <1>4 DEF Abort, RunsInTurn
  <2>2. /\ \A u \in Threads \ {t} : req'[u] = req[u] /\ tasks'[u] = tasks[u]
        /\ UNCHANGED <<worker, run, row>>
    BY <1>t, <1>4 DEF Abort
  <2>3. worker => tasks'[t] = <<>>
    <3> SUFFICES ASSUME worker PROVE tasks'[t] = <<>>
        OBVIOUS
    <3>1. tasks[t] = <<>>
      BY <1>i DEF RunsInTurn
    <3>2. DOMAIN tasks[t] = {}
      BY <3>1
    <3>3. DOMAIN tasks'[t] = {}
      <4> DEFINE r == [k \in DOMAIN tasks[t] |->
                         IF k > Len(tasks[t]) - Cardinality(req[t].pushed)
                         THEN [tasks[t][k] EXCEPT !.rolled = TRUE] ELSE tasks[t][k]]
      <4>1. tasks' = [tasks EXCEPT ![t] = r]
        BY <1>4 DEF Abort
      <4>2. DOMAIN r = DOMAIN tasks[t]
        OBVIOUS
      <4> HIDE DEF r
      <4>3. tasks'[t] = r
        BY <1>t, <4>1
      <4> QED BY <3>2, <4>2, <4>3
    <3>4. tasks'[t] \in Seq(Entry)
      BY <1>i, NextTypeOK DEF QueueTypeOK
    <3> QED BY <3>3, <3>4, NoneInList
  <2> QED BY <1>i, <2>1, <2>2, <2>3 DEF RunsInTurn, Running
<1>5. ASSUME NEW t \in Threads, Pop(t) PROVE RunsInTurn'
  <2>1. ~worker /\ req[t].stage = "tasks"
    BY <1>i, <1>5 DEF Pop, RunsInTurn
  <2>2. run'[t].stage = "search" /\ \A e \in Executors \ {t} : run'[e] = run[e]
    BY <1>t, <1>e, <1>5 DEF Pop
  <2>3. UNCHANGED <<worker, row, req>>
    BY <1>5 DEF Pop, store
  <2> QED BY <1>i, <1>m, <1>e, <2>1, <2>2, <2>3 DEF RunsInTurn, Running
<1>6. ASSUME NEW t \in Threads, End(t) PROVE RunsInTurn'
  <2>1. run[t] = NoRun /\ \A u \in Threads \ {t} : req'[u] = req[u]
    BY <1>t, <1>6 DEF End
  <2>2. UNCHANGED <<worker, row, run, tasks>>
    BY <1>6 DEF End, store
  <2> QED BY <1>i, <2>1, <2>2 DEF RunsInTurn, Running
<1>7. ASSUME NEW e \in Executors, Search(e) PROVE RunsInTurn'
  <2>1. run[e] # NoRun /\ \A f \in Executors \ {e} : run'[f] = run[f]
    BY <1>t, <1>7 DEF Search, Running
  <2>2. run[e] \in Call
    BY <1>i, <2>1, RunTyped
  <2>3. \/ run'[e] = NoRun
        \/ /\ row[run[e].db][run[e].id] # "absent"
           /\ run'[e].db = run[e].db /\ run'[e].id = run[e].id
    BY <1>t, <1>7, <2>2 DEF Search, Call
  <2>4. UNCHANGED <<worker, row, req, tasks>>
    BY <1>7 DEF Search, store, serverVars
  <2> QED BY <1>i, <1>e, <2>1, <2>3, <2>4 DEF RunsInTurn, Running
<1>8. ASSUME NEW e \in Executors, Complete(e) \/ GiveUp(e) PROVE RunsInTurn'
  <2>1. /\ run'[e] = NoRun /\ \A f \in Executors \ {e} : run'[f] = run[f]
        /\ UNCHANGED <<worker, req, tasks>>
    BY <1>t, <1>8 DEF Complete, GiveUp, serverVars
  <2>2. run[e] # NoRun
    BY <1>8 DEF Complete, GiveUp, Running
  <2>3. \A d \in Db, i \in Ids : row'[d][i] = row[d][i] \/ row'[d][i] = "finished"
    BY <1>t, <1>8 DEF Complete, GiveUp, store
  <2>4. \A f \in Executors : run[f] # NoRun => run[f].db \in Db /\ run[f].id \in Ids
    BY <1>i, RunTyped
  <2> QED BY <1>i, <1>e, <2>1, <2>2, <2>3, <2>4 DEF RunsInTurn, Running
<1>9. ASSUME NEW e \in Executors, Reschedule(e) PROVE RunsInTurn'
  <2>1. run'[e] = NoRun /\ \A f \in Executors \ {e} : run'[f] = run[f]
    BY <1>t, <1>9 DEF Reschedule
  <2>2. UNCHANGED <<worker, req>> /\ (worker => tasks' = tasks)
    BY <1>9 DEF Reschedule
  <2>3. \A d \in Db, i \in Ids : row'[d][i] = row[d][i] \/ row'[d][i] = "queued"
    BY <1>t, <1>9 DEF Reschedule
  <2>4. \A f \in Executors : run[f] # NoRun => run[f].db \in Db /\ run[f].id \in Ids
    BY <1>i, RunTyped
  <2> QED BY <1>i, <1>e, <2>1, <2>2, <2>3, <2>4 DEF RunsInTurn, Running
<1>10. ASSUME NEW w \in Pullers, NEW s \in Slots, NEW i \in Ids, Pull(w, s, i)
       PROVE  RunsInTurn'
  <2>1. worker /\ run'[s].stage = "search" /\ \A e \in Executors \ {s} : run'[e] = run[e]
    BY <1>t, <1>e, <1>10 DEF Pull, Polling
  <2>2. UNCHANGED <<worker, req, tasks>>
    BY <1>10 DEF Pull, serverVars
  <2>3. \A d \in Db, j \in Ids : row'[d][j] = row[d][j] \/ row'[d][j] = "dequeued"
    BY <1>t, <1>10 DEF Pull
  <2>4. \A f \in Executors : run[f] # NoRun => run[f].db \in Db /\ run[f].id \in Ids
    BY <1>i, RunTyped
  <2>5. \A t \in Threads : run'[t] = run[t]
    BY <1>m, <1>e, <2>1
  <2>6. \A e \in Executors : run'[e] # NoRun /\ run'[e].stage = "running"
                               => e # s /\ run'[e] = run[e]
    BY <2>1
  <2> QED BY <1>i, <2>1, <2>2, <2>3, <2>4, <2>5, <2>6 DEF RunsInTurn, Running
<1>11. CASE UNCHANGED <<worker, row, req, tasks, run>>
  BY <1>i, <1>11 DEF RunsInTurn, Running
<1>12. ASSUME NEW w \in Pullers, Work(w) PROVE RunsInTurn'
  <2>1. Miss(w) \/ Listen(w) \/ Wake(w) \/ Timeout(w)
          => UNCHANGED <<worker, row, req, tasks, run>>
    BY DEF Miss, Listen, Wake, Timeout, store, serverVars
  <2> QED BY <1>10, <1>11, <1>12, <2>1 DEF Work
<1>13. ASSUME NEW s \in Slots, Crash(s) PROVE RunsInTurn'
  BY <1>11, <1>13 DEF Crash, store, serverVars
<1>14. ASSUME NEW d \in Db, NEW i \in Ids, Tick(d, i) PROVE RunsInTurn'
  BY <1>11, <1>14 DEF Tick, serverVars
<1>15. CASE UNCHANGED queueVars
  BY <1>11, <1>15 DEF queueVars, store, serverVars
<1> QED
  BY <1>1, <1>2, <1>3, <1>4, <1>5, <1>6, <1>7, <1>8, <1>9, <1>12, <1>13, <1>14, <1>15
     DEF QueueNext, Request, RunTask, Executors

LEMMA NextQueueInv == QueueInv /\ [QueueNext]_queueVars => QueueInv'
BY NextTypeOK, NextIds, NextInTurn DEF QueueInv

-----------------------------------------------------------------------------
(* A task takes effect at most once *)

\* A list with one more task.
LEMMA Appended ==
  ASSUME NEW S, NEW s \in Seq(S), NEW x \in S
  PROVE  /\ Append(s, x) \in Seq(S) /\ Len(s) \in Nat /\ DOMAIN s = 1 .. Len(s)
         /\ Len(Append(s, x)) = Len(s) + 1 /\ DOMAIN Append(s, x) = 1 .. Len(s) + 1
         /\ \A k \in 1 .. Len(s) : Append(s, x)[k] = s[k]
         /\ Append(s, x)[Len(s) + 1] = x
OBVIOUS

LEMMA InitOnce == QueueInit /\ OneQueue /\ (worker \/ ~Reuse) => OnceInv
<1> SUFFICES ASSUME QueueInit, OneQueue, worker \/ ~Reuse PROVE OnceInv
    OBVIOUS
<1>1. /\ \A d \in Db, i \in Ids : row[d][i] = "absent" /\ applied[d][i] = 0
      /\ \A e \in Executors : run[e] = NoRun
      /\ \A t \in Threads : DOMAIN tasks[t] = {}
  BY DEF QueueInit
<1> QED
  BY <1>1, InitQueueInv DEF OnceInv, RunOnce, HeldOnce, Listed, AppliedFinished

\* What is applied is finished: only Complete finishes, and nothing twice.
LEMMA NextApplied ==
  ASSUME OnceInv, [QueueNext]_queueVars
  PROVE  AppliedFinished'
<1>t. /\ row \in [Db -> [Ids -> Status]]
      /\ nextid \in [Db -> 1 .. MaxId + 1]
      /\ \A t \in Threads : req[t].db \in Db /\ req[t].pushed \in SUBSET Ids
      /\ applied \in [Db -> [Ids -> Nat]]
  BY Typed DEF OnceInv, QueueInv, QueueTypeOK
<1>i. /\ QueueTypeOK /\ PushedApart /\ IdsFresh /\ RunsInTurn
      /\ RunOnce /\ HeldOnce /\ AppliedFinished
  BY DEF OnceInv, QueueInv
<1>m. MaxId \in Nat /\ Ids \subseteq Nat
  BY QueueAssumption DEF Ids
<1>1. ASSUME applied' = applied,
             \A d \in Db, i \in Ids : row'[d][i] = "finished" <=> row[d][i] = "finished"
      PROVE  AppliedFinished'
  BY <1>i, <1>1 DEF AppliedFinished
<1>2. ASSUME NEW t \in Threads, Commit(t) PROVE AppliedFinished'
  <2>1. \A d \in Db, i \in Ids : \/ row'[d][i] = row[d][i]
                                 \/ row'[d][i] = "queued" /\ row[d][i] = "absent"
    BY <1>t, <1>i, <1>2 DEF Commit, PushedApart
  <2> QED BY <1>1, <1>2, <2>1 DEF Commit, history
<1>3. ASSUME NEW e \in Executors, Reschedule(e) PROVE AppliedFinished'
  <2>1. run[e].db \in Db
    BY <1>i, <1>3, RunTyped DEF Reschedule
  <2>2. row[run[e].db][nextid[run[e].db]] = "absent"
    BY <1>t, <1>i, <1>m, <1>3, <2>1 DEF Reschedule, IdsFresh, Ids
  <2>3. \A d \in Db, i \in Ids : \/ row'[d][i] = row[d][i]
                                 \/ row'[d][i] = "queued" /\ row[d][i] = "absent"
    BY <1>t, <1>3, <2>2 DEF Reschedule
  <2> QED BY <1>1, <1>3, <2>3 DEF Reschedule
<1>4. ASSUME NEW e \in Executors, Complete(e) PROVE AppliedFinished'
  <2> DEFINE d == run[e].db
  <2> DEFINE i == run[e].id
  <2>1. run[e] # NoRun /\ d \in Db /\ i \in Ids
    BY <1>i, <1>4, RunTyped DEF Complete, Running
  <2>2. row[d][i] # "finished"
    BY <1>i, <2>1 DEF RunOnce
  <2>3. /\ row' = [row EXCEPT ![d][i] = "finished"]
        /\ applied' = [applied EXCEPT ![d][i] = @ + 1]
    BY <1>4 DEF Complete
  <2> HIDE DEF d, i
  <2>4. applied[d][i] = 0
    BY <1>i, <2>1, <2>2 DEF AppliedFinished
  <2>5. applied'[d][i] = 1 /\ row'[d][i] = "finished"
    BY <1>t, <2>1, <2>3, <2>4
  <2>6. \A f \in Db, j \in Ids : f # d \/ j # i =>
          applied'[f][j] = applied[f][j] /\ row'[f][j] = row[f][j]
    BY <1>t, <2>1, <2>3
  <2> QED BY <1>i, <2>5, <2>6 DEF AppliedFinished
<1>5. ASSUME NEW w \in Pullers, NEW s \in Slots, NEW i \in Ids, Pull(w, s, i)
      PROVE  AppliedFinished'
  <2>1. \A d \in Db, j \in Ids : \/ row'[d][j] = row[d][j]
                                 \/ row'[d][j] = "dequeued" /\ row[d][j] = "queued"
    BY <1>t, <1>5 DEF Pull, Ready
  <2> QED BY <1>1, <1>5, <2>1 DEF Pull, history
<1>6. CASE UNCHANGED <<row, applied>>
  BY <1>1, <1>6
<1>7. ASSUME NEW e \in Executors, RunTask(e) PROVE AppliedFinished'
  <2>1. Search(e) \/ GiveUp(e) => UNCHANGED <<row, applied>>
    BY DEF Search, GiveUp, store, history
  <2> QED BY <1>3, <1>4, <1>6, <1>7, <2>1 DEF RunTask
<1>8. ASSUME NEW w \in Pullers, Work(w) PROVE AppliedFinished'
  <2>1. Miss(w) \/ Listen(w) \/ Wake(w) \/ Timeout(w) => UNCHANGED <<row, applied>>
    BY DEF Miss, Listen, Wake, Timeout, store, history
  <2> QED BY <1>5, <1>6, <1>8, <2>1 DEF Work
<1>9. ASSUME NEW t \in Threads, Request(t) PROVE AppliedFinished'
  <2>1. ASSUME NEW d \in Db, Begin(t, d) PROVE UNCHANGED <<row, applied>>
    BY <2>1 DEF Begin, store, history
  <2>2. ASSUME NEW later \in BOOLEAN, Push(t, later) PROVE UNCHANGED <<row, applied>>
    BY <2>2 DEF Push, history
  <2>3. Abort(t) \/ Pop(t) \/ End(t) => UNCHANGED <<row, applied>>
    BY DEF Abort, Pop, End, store, history
  <2> QED BY <1>2, <1>6, <1>9, <2>1, <2>2, <2>3 DEF Request
<1>10. ASSUME NEW s \in Slots, Crash(s) PROVE AppliedFinished'
  BY <1>6, <1>10 DEF Crash, store, history
<1>11. ASSUME NEW d \in Db, NEW i \in Ids, Tick(d, i) PROVE AppliedFinished'
  BY <1>6, <1>11 DEF Tick, history
<1>12. CASE UNCHANGED queueVars
  BY <1>6, <1>12 DEF queueVars, store, history
<1> QED
  BY <1>7, <1>8, <1>9, <1>10, <1>11, <1>12 DEF QueueNext, Executors

\* What is run stays what it was, or ends.
LEMMA RunOnceKept ==
  ASSUME RunOnce, worker' = worker,
         \A e \in Executors : run'[e] # NoRun =>
           run[e] # NoRun /\ run'[e].db = run[e].db /\ run'[e].id = run[e].id,
         \A e \in Executors : run'[e] # NoRun =>
           LET d == run[e].db
               i == run[e].id
           IN  IF worker THEN row[d][i] = "dequeued" => row'[d][i] = "dequeued"
               ELSE /\ row[d][i] # "finished" => row'[d][i] # "finished"
                    /\ i < nextid[d] => i < nextid'[d]
  PROVE  RunOnce'
<1> SUFFICES ASSUME NEW e \in Executors, run'[e] # NoRun
             PROVE  LET d == run[e].db
                        i == run[e].id
                    IN  /\ IF worker THEN row'[d][i] = "dequeued"
                                     ELSE row'[d][i] # "finished" /\ i < nextid'[d]
                        /\ \A f \in Executors \ {e} : ~(run'[f] # NoRun /\ run'[f].db = d /\ run'[f].id = i)
    BY DEF RunOnce, Runs
<1> DEFINE d == run[e].db
           i == run[e].id
<1>1. /\ IF worker THEN row[d][i] = "dequeued" ELSE row[d][i] # "finished" /\ i < nextid[d]
      /\ \A f \in Executors \ {e} : ~Runs(f, d, i)
  BY DEF RunOnce
<1>2. \A f \in Executors \ {e} : ~(run'[f] # NoRun /\ run'[f].db = d /\ run'[f].id = i)
  BY <1>1 DEF Runs
<1>3. IF worker THEN row'[d][i] = "dequeued" ELSE row'[d][i] # "finished" /\ i < nextid'[d]
  BY <1>1
<1> QED BY <1>2, <1>3

LEMMA NextRunOnce ==
  ASSUME OnceInv, [QueueNext]_queueVars
  PROVE  RunOnce'
<1>t. /\ worker \in BOOLEAN
      /\ row \in [Db -> [Ids -> Status]]
      /\ nextid \in [Db -> 1 .. MaxId + 1]
      /\ \A t \in Threads : req[t].db \in Db /\ req[t].pushed \in SUBSET Ids
      /\ tasks \in [Threads -> Seq(Entry)]
      /\ run \in [Executors -> Call \cup {NoRun}]
  BY Typed DEF OnceInv, QueueInv
<1>i. /\ QueueTypeOK /\ PushedApart /\ IdsFresh /\ RunsInTurn
      /\ RunOnce /\ HeldOnce /\ OneQueue /\ (worker \/ ~Reuse)
  BY DEF OnceInv, QueueInv
<1>m. MaxId \in Nat /\ Ids \subseteq Nat
  BY QueueAssumption DEF Ids
<1>e. Threads \subseteq Executors /\ Slots \subseteq Executors
  BY DEF Executors
<1>r. \A e \in Executors : run[e] # NoRun => run[e].db \in Db /\ run[e].id \in Ids
  BY <1>i, RunTyped
<1>1. ASSUME NEW t \in Threads, NEW later \in BOOLEAN, Push(t, later) PROVE RunOnce'
  <2>1. UNCHANGED <<worker, row, run>>
    BY <1>1 DEF Push
  <2>2. \A d \in Db : nextid'[d] >= nextid[d]
    BY <1>t, <1>m, <1>1 DEF Push
  <2>3. \A d \in Db, i \in Ids : i < nextid[d] => i < nextid'[d]
    BY <1>t, <1>m, <1>1, <2>2 DEF Push
  <2> QED BY <1>i, <1>r, <2>1, <2>3, RunOnceKept
<1>2. ASSUME NEW t \in Threads, Commit(t) PROVE RunOnce'
  <2>1. UNCHANGED <<worker, nextid, run>>
    BY <1>2 DEF Commit
  <2>2. \A d \in Db, i \in Ids : \/ row'[d][i] = row[d][i]
                                 \/ row'[d][i] = "queued" /\ row[d][i] = "absent"
    BY <1>t, <1>i, <1>2 DEF Commit, PushedApart
  <2>3. \A d \in Db, i \in Ids : /\ row[d][i] = "dequeued" => row'[d][i] = "dequeued"
                                 /\ row[d][i] # "finished" => row'[d][i] # "finished"
    BY <2>2
  <2> QED BY <1>i, <1>r, <2>1, <2>3, RunOnceKept
<1>3. ASSUME NEW t \in Threads, Abort(t) PROVE RunOnce'
  <2>1. UNCHANGED <<worker, row, run>> /\ (worker \/ nextid' = nextid)
    BY <1>i, <1>3 DEF Abort
  <2> QED BY <1>i, <2>1, RunOnceKept
<1>4. ASSUME NEW t \in Threads, Pop(t) PROVE RunOnce'
  <2> DEFINE d == req[t].db
  <2> DEFINE i == Last(tasks[t]).id
  <2>1. /\ ~worker /\ d \in Db
        /\ UNCHANGED <<worker, row, nextid>>
    BY <1>t, <1>i, <1>4 DEF Pop, RunsInTurn, store
  <2>2. /\ Len(tasks[t]) \in DOMAIN tasks[t] /\ i = tasks[t][Len(tasks[t])].id
    <3>1. tasks[t] \in Seq(Entry) /\ tasks[t] # <<>>
      BY <1>t, <1>4 DEF Pop
    <3>2. Len(tasks[t]) \in Nat \ {0} /\ Last(tasks[t]) = tasks[t][Len(tasks[t])]
      BY <3>1, LastAndFront
    <3> QED BY <3>1, <3>2
  <2>3. /\ i < nextid[d] /\ row[d][i] # "finished"
        /\ \A e \in Executors : ~Runs(e, d, i)
    <3>1. Last(tasks[t]) \in Entry
      BY <1>t, <1>4, LastAndFront DEF Pop
    <3>2. i \in Ids /\ Listed(i)
      BY <2>2, <3>1 DEF Listed, Entry
    <3> QED BY <1>i, <2>1, <3>2 DEF HeldOnce, Waits
  <2>4. /\ run'[t].db = d /\ run'[t].id = i
        /\ \A e \in Executors \ {t} : run'[e] = run[e]
    BY <1>t, <1>e, <1>4 DEF Pop
  <2> HIDE DEF d, i
  <2>5. ASSUME NEW e \in Executors, run'[e] # NoRun
        PROVE  LET f == run'[e].db
                   j == run'[e].id
               IN  /\ row[f][j] # "finished" /\ j < nextid[f]
                   /\ \A g \in Executors \ {e} : ~(run'[g] # NoRun /\ run'[g].db = f /\ run'[g].id = j)
    <3>1. CASE e = t
      BY <2>3, <2>4, <3>1 DEF Runs
    <3>2. CASE e # t
      <4>1. run'[e] = run[e] /\ ~(run[e].db = d /\ run[e].id = i)
        BY <2>3, <2>4, <2>5, <3>2 DEF Runs
      <4> QED BY <1>i, <2>1, <2>4, <2>5, <4>1 DEF RunOnce, Runs
    <3> QED BY <3>1, <3>2
  <2> QED BY <2>1, <2>5 DEF RunOnce, Runs
<1>5. ASSUME NEW e \in Executors, Search(e) PROVE RunOnce'
  <2>1. run[e] # NoRun /\ \A f \in Executors \ {e} : run'[f] = run[f]
    BY <1>t, <1>5 DEF Search, Running
  <2>2. run[e] \in Call
    BY <1>i, <2>1, RunTyped
  <2>3. run'[e] # NoRun => run'[e].db = run[e].db /\ run'[e].id = run[e].id
    BY <1>t, <1>5, <2>2 DEF Search, Call
  <2>4. UNCHANGED <<worker, row, nextid>>
    BY <1>5 DEF Search, store
  <2> QED BY <1>i, <2>1, <2>3, <2>4, RunOnceKept
<1>6. ASSUME NEW e \in Executors, Complete(e) PROVE RunOnce'
  <2>1. /\ run[e] # NoRun /\ run'[e] = NoRun /\ \A f \in Executors \ {e} : run'[f] = run[f]
        /\ UNCHANGED <<worker, nextid>>
    BY <1>t, <1>6 DEF Complete, Running
  <2>2. \A d \in Db, i \in Ids : ~Runs(e, d, i) => row'[d][i] = row[d][i]
    BY <1>t, <1>6, <2>1 DEF Complete, Runs
  <2>3. \A f \in Executors \ {e} : run[f] # NoRun => ~Runs(e, run[f].db, run[f].id)
    BY <1>i, <2>1 DEF RunOnce
  <2> QED BY <1>i, <1>r, <2>1, <2>2, <2>3, RunOnceKept
<1>7. ASSUME NEW e \in Executors, GiveUp(e) PROVE RunOnce'
  <2>1. /\ run'[e] = NoRun /\ \A f \in Executors \ {e} : run'[f] = run[f]
        /\ UNCHANGED <<worker, row, nextid>>
    BY <1>t, <1>7 DEF GiveUp, store
  <2> QED BY <1>i, <2>1, RunOnceKept
<1>8. ASSUME NEW e \in Executors, Reschedule(e) PROVE RunOnce'
  <2> DEFINE d == run[e].db
  <2> DEFINE i == nextid[d]
  <2>1. /\ run'[e] = NoRun /\ \A f \in Executors \ {e} : run'[f] = run[f]
        /\ worker' = worker
    BY <1>t, <1>8 DEF Reschedule
  <2>2. d \in Db /\ i \in Ids
    BY <1>t, <1>m, <1>r, <1>8 DEF Reschedule, Ids
  <2>3. row[d][i] = "absent"
    <3>1. i \in Nat /\ i = nextid[d]
      BY <1>m, <2>2
    <3> HIDE DEF d, i
    <3>2. i >= nextid[d]
      BY <3>1
    <3> QED BY <1>i, <2>2, <3>2 DEF IdsFresh
  <2>4. row' = [row EXCEPT ![d][i] = "queued"] /\ nextid' = [nextid EXCEPT ![d] = i + 1]
    BY <1>8 DEF Reschedule
  <2>5. nextid'[d] = nextid[d] + 1 /\ \A f \in Db \ {d} : nextid'[f] = nextid[f]
    BY <1>t, <2>2, <2>4
  <2> HIDE DEF i
  <2>6. \A f \in Db, j \in Ids : \/ row'[f][j] = row[f][j]
                                 \/ row'[f][j] = "queued" /\ row[f][j] = "absent"
    BY <1>t, <2>2, <2>3, <2>4
  <2> HIDE DEF d
  <2>7. \A f \in Db, j \in Ids : j < nextid[f] => j < nextid'[f]
    BY <1>t, <1>m, <2>2, <2>5
  <2> QED BY <1>i, <1>r, <2>1, <2>6, <2>7, RunOnceKept
<1>9. ASSUME NEW w \in Pullers, NEW s \in Slots, NEW i \in Ids, Pull(w, s, i)
      PROVE  RunOnce'
  <2> DEFINE d == Dbs[pos[w]]
  <2>1. /\ worker /\ UNCHANGED <<worker, nextid>>
        /\ row[d][i] = "queued" /\ row' = [row EXCEPT ![d][i] = "dequeued"]
        /\ run' = [run EXCEPT ![s] = [db |-> d, id |-> i, rolled |-> FALSE,
                                      stage |-> "search"]]
    BY <1>9 DEF Pull, Polling, Ready
  <2>2. d \in Db
    BY <1>i, DbsIn DEF QueueTypeOK
  <2> HIDE DEF d
  <2>3. /\ run'[s].db = d /\ run'[s].id = i /\ row'[d][i] = "dequeued"
        /\ \A e \in Executors \ {s} : run'[e] = run[e]
        /\ \A f \in Db, j \in Ids : row[f][j] = "dequeued" => row'[f][j] = "dequeued"
    BY <1>t, <1>e, <2>1, <2>2
  <2>4. \A e \in Executors : ~Runs(e, d, i)
    BY <1>i, <2>1 DEF RunOnce, Runs
  <2>5. ASSUME NEW e \in Executors, run'[e] # NoRun
        PROVE  LET f == run'[e].db
                   j == run'[e].id
               IN  /\ row'[f][j] = "dequeued"
                   /\ \A g \in Executors \ {e} : ~(run'[g] # NoRun /\ run'[g].db = f /\ run'[g].id = j)
    <3>1. CASE e = s
      BY <2>3, <2>4, <3>1 DEF Runs
    <3>2. CASE e # s
      <4>1. run'[e] = run[e] /\ ~(run[e].db = d /\ run[e].id = i)
        BY <2>3, <2>4, <2>5, <3>2 DEF Runs
      <4>2. /\ row[run[e].db][run[e].id] = "dequeued"
            /\ \A g \in Executors \ {e} : ~Runs(g, run[e].db, run[e].id)
        BY <1>i, <2>1, <2>5, <4>1 DEF RunOnce
      <4> QED BY <1>r, <2>3, <2>5, <4>1, <4>2 DEF Runs
    <3> QED BY <3>1, <3>2
  <2> QED BY <2>1, <2>5 DEF RunOnce, Runs
<1>10. CASE UNCHANGED <<worker, row, nextid, run>>
  BY <1>i, <1>10, RunOnceKept
<1>11. ASSUME NEW w \in Pullers, Work(w) PROVE RunOnce'
  <2>1. Miss(w) \/ Listen(w) \/ Wake(w) \/ Timeout(w)
          => UNCHANGED <<worker, row, nextid, run>>
    BY DEF Miss, Listen, Wake, Timeout, store
  <2> QED BY <1>9, <1>10, <1>11, <2>1 DEF Work
<1>12. ASSUME NEW t \in Threads, Request(t) PROVE RunOnce'
  <2>1. ASSUME NEW d \in Db, Begin(t, d) PROVE UNCHANGED <<worker, row, nextid, run>>
    BY <2>1 DEF Begin, store
  <2>2. End(t) => UNCHANGED <<worker, row, nextid, run>>
    BY DEF End, store
  <2> QED BY <1>1, <1>2, <1>3, <1>4, <1>10, <1>12, <2>1, <2>2 DEF Request
<1>13. ASSUME NEW s \in Slots, Crash(s) PROVE RunOnce'
  BY <1>10, <1>13 DEF Crash, store
<1>14. ASSUME NEW d \in Db, NEW i \in Ids, Tick(d, i) PROVE RunOnce'
  BY <1>10, <1>14 DEF Tick
<1>15. CASE UNCHANGED queueVars
  BY <1>10, <1>15 DEF queueVars, store
<1> QED
  BY <1>5, <1>6, <1>7, <1>8, <1>11, <1>12, <1>13, <1>14, <1>15 DEF QueueNext, RunTask, Executors

\* The lists, when none gets longer.
LEMMA HeldShorter ==
  ASSUME HeldOnce,
         \A u \in Threads : \A k \in DOMAIN tasks'[u] :
           k \in DOMAIN tasks[u] /\ tasks'[u][k].id = tasks[u][k].id,
         \A d \in Db, i \in Ids : Listed(i)' /\ Waits(d, i) => Waits(d, i)'
  PROVE  HeldOnce'
<1>1. \A i \in Ids : Listed(i)' => Listed(i)
  BY DEF Listed
<1>2. \A d \in Db, i \in Ids : Listed(i)' => Waits(d, i)'
  BY <1>1 DEF HeldOnce
<1>3. \A t, u \in Threads : \A k \in DOMAIN tasks'[t], l \in DOMAIN tasks'[u] :
        tasks'[t][k].id = tasks'[u][l].id => t = u /\ k = l
  BY DEF HeldOnce
<1> QED BY <1>2, <1>3 DEF HeldOnce

\* The lists, when one gets a new task.
LEMMA HeldLonger ==
  ASSUME HeldOnce, tasks \in [Threads -> Seq(Entry)],
         NEW t \in Threads, NEW x \in Entry,
         tasks' = [tasks EXCEPT ![t] = Append(tasks[t], x)],
         ~Listed(x.id),
         \A d \in Db : Waits(d, x.id)',
         \A d \in Db, i \in Ids : Waits(d, i) => Waits(d, i)'
  PROVE  HeldOnce'
<1> DEFINE n == Len(tasks[t])
<1>1. /\ n \in Nat /\ DOMAIN tasks[t] = 1 .. n /\ DOMAIN tasks'[t] = 1 .. n + 1
      /\ \A k \in 1 .. n : tasks'[t][k] = tasks[t][k]
      /\ tasks'[t][n + 1] = x
      /\ \A u \in Threads \ {t} : tasks'[u] = tasks[u]
  BY Appended
<1>2. \A u \in Threads : \A k \in DOMAIN tasks'[u] :
        \/ k \in DOMAIN tasks[u] /\ tasks'[u][k] = tasks[u][k]
        \/ u = t /\ k = n + 1 /\ tasks'[u][k] = x
  BY <1>1
<1> HIDE DEF n
<1>3. \A i \in Ids : Listed(i)' => Listed(i) \/ i = x.id
  BY <1>2 DEF Listed
<1>4. \A d \in Db, i \in Ids : Listed(i)' => Waits(d, i)'
  BY <1>3 DEF HeldOnce
<1>5. \A u, v \in Threads : \A k \in DOMAIN tasks'[u], l \in DOMAIN tasks'[v] :
        tasks'[u][k].id = tasks'[v][l].id => u = v /\ k = l
  <2>1. \A u \in Threads : \A k \in DOMAIN tasks[u] : tasks[u][k].id # x.id
    BY DEF Listed
  <2> SUFFICES ASSUME NEW u \in Threads, NEW v \in Threads,
                      NEW k \in DOMAIN tasks'[u], NEW l \in DOMAIN tasks'[v],
                      tasks'[u][k].id = tasks'[v][l].id
               PROVE  u = v /\ k = l
    OBVIOUS
  <2>2. CASE /\ k \in DOMAIN tasks[u] /\ tasks'[u][k] = tasks[u][k]
             /\ l \in DOMAIN tasks[v] /\ tasks'[v][l] = tasks[v][l]
    BY <2>2 DEF HeldOnce
  <2>3. CASE u = t /\ k = n + 1 /\ v = t /\ l = n + 1
    BY <2>3
  <2>4. CASE k \in DOMAIN tasks[u] /\ tasks'[u][k] = tasks[u][k] /\ tasks'[v][l] = x
    <3>1. tasks[u][k].id # x.id
      BY <2>1, <2>4, Zenon
    <3> QED BY <2>4, <3>1
  <2>5. CASE l \in DOMAIN tasks[v] /\ tasks'[v][l] = tasks[v][l] /\ tasks'[u][k] = x
    <3>1. tasks[v][l].id # x.id
      BY <2>1, <2>5, Zenon
    <3> QED BY <2>5, <3>1
  <2> QED BY <1>2, <2>2, <2>3, <2>4, <2>5, Zenon
<1> QED BY <1>4, <1>5, Zenon DEF HeldOnce

\* [queue] worker is read from the configuration.
LEMMA WorkerSame == [QueueNext]_queueVars => worker' = worker
BY Zenon DEF QueueNext, queueVars, Request, Begin, Push, Commit, Abort, Pop, End, RunTask, Search, Complete,
       GiveUp, Reschedule, Crash, Work, Miss, Listen, Wake, Timeout, Pull, Tick

LEMMA NextHeldOnce ==
  ASSUME OnceInv, [QueueNext]_queueVars
  PROVE  HeldOnce'
<1>t. /\ worker \in BOOLEAN
      /\ row \in [Db -> [Ids -> Status]]
      /\ nextid \in [Db -> 1 .. MaxId + 1]
      /\ \A t \in Threads : req[t].db \in Db /\ req[t].pushed \in SUBSET Ids
      /\ tasks \in [Threads -> Seq(Entry)]
      /\ run \in [Executors -> Call \cup {NoRun}]
  BY Typed DEF OnceInv, QueueInv
<1>i. /\ QueueTypeOK /\ PushedApart /\ IdsFresh /\ RunsInTurn
      /\ RunOnce /\ HeldOnce /\ OneQueue /\ (worker \/ ~Reuse)
  BY DEF OnceInv, QueueInv
<1>m. MaxId \in Nat /\ Ids \subseteq Nat
  BY QueueAssumption DEF Ids
<1>e. Threads \subseteq Executors /\ Slots \subseteq Executors
  BY DEF Executors
<1>r. \A e \in Executors : run[e] # NoRun => run[e].db \in Db /\ run[e].id \in Ids
  BY <1>i, RunTyped
<1>p. RunsInTurn'
  BY NextInTurn DEF OnceInv
<1>0. CASE worker'
  <2>1. \A t \in Threads : DOMAIN tasks'[t] = {}
    BY <1>p, <1>0 DEF RunsInTurn
  <2> QED BY <2>1 DEF HeldOnce, Listed
<1> SUFFICES ASSUME ~worker' PROVE HeldOnce'
    BY <1>0
<1>w. ~worker /\ ~Reuse /\ \A d, e \in Db : d = e
  BY <1>i, WorkerSame DEF OneQueue
<1>1. ASSUME UNCHANGED tasks, \A d \in Db, i \in Ids : Waits(d, i) => Waits(d, i)'
      PROVE  HeldOnce'
  BY <1>i, <1>1, HeldShorter
<1>2. CASE UNCHANGED <<row, nextid, run, tasks>>
  BY <1>1, <1>2 DEF Waits, Runs
<1>3. ASSUME NEW t \in Threads, NEW later \in BOOLEAN, Push(t, later) PROVE HeldOnce'
  <2>1. PICK d \in Db, i \in Ids : d = req[t].db /\ i = nextid[d] /\ i \in Nat
    BY <1>t, <1>m, <1>3 DEF Push, Ids
  <2> DEFINE x == [id |-> i, rolled |-> FALSE]
  <2>2. /\ tasks' = [tasks EXCEPT ![t] = Append(tasks[t], x)]
        /\ nextid' = [nextid EXCEPT ![d] = i + 1]
        /\ UNCHANGED <<row, run>>
    BY <1>3, <1>w, <2>1 DEF Push
  <2>3. x \in Entry /\ x.id = i
    BY <2>1 DEF Entry
  <2>4. nextid'[d] = i + 1 /\ \A e \in Db \ {d} : nextid'[e] = nextid[e]
    BY <1>t, <2>1, <2>2
  <2>5. \A e \in Db, j \in Ids : j < nextid[e] => j < nextid'[e]
    <3> TAKE e \in Db, j \in Ids
    <3>1. CASE e = d
      BY <1>m, <2>1, <2>4, <3>1
    <3>2. CASE e # d
      BY <2>4, <3>2
    <3> QED BY <3>1, <3>2
  <2>6. ~Waits(d, i)
    BY <2>1 DEF Waits
  <2>7. i < nextid'[d]
    BY <2>1, <2>4
  <2>8. row[d][i] = "absent"
    <3>1. i >= nextid[d]
      BY <2>1
    <3> QED BY <1>i, <2>1, <3>1 DEF IdsFresh
  <2>9. \A e \in Executors : ~Runs(e, d, i)
    <3>1. ~(i < nextid[d])
      BY <2>1
    <3> QED BY <1>i, <1>w, <3>1 DEF RunOnce, Runs
  <2> HIDE DEF x
  <2>10. \A f \in Db : Waits(f, i)'
    BY <1>w, <2>1, <2>2, <2>7, <2>8, <2>9 DEF Waits, Runs
  <2>11. \A f \in Db, j \in Ids : Waits(f, j) => Waits(f, j)'
    BY <2>2, <2>5 DEF Waits, Runs
  <2>12. ~Listed(i)
    BY <1>i, <2>1, <2>6 DEF HeldOnce
  <2> QED BY <1>i, <1>t, <2>2, <2>3, <2>10, <2>11, <2>12, HeldLonger
<1>4. ASSUME NEW t \in Threads, Commit(t) PROVE HeldOnce'
  <2>1. UNCHANGED <<nextid, run, tasks>>
    BY <1>4 DEF Commit
  <2>2. \A d \in Db, i \in Ids : row'[d][i] = row[d][i] \/ row'[d][i] = "queued"
    BY <1>t, <1>4 DEF Commit
  <2>3. \A d \in Db, i \in Ids : Waits(d, i) => Waits(d, i)'
    BY <2>1, <2>2 DEF Waits, Runs
  <2> QED BY <1>1, <2>1, <2>3
<1>5. ASSUME NEW t \in Threads, Abort(t) PROVE HeldOnce'
  <2> DEFINE r == [k \in DOMAIN tasks[t] |->
                     IF k > Len(tasks[t]) - Cardinality(req[t].pushed)
                     THEN [tasks[t][k] EXCEPT !.rolled = TRUE] ELSE tasks[t][k]]
  <2>1. tasks' = [tasks EXCEPT ![t] = r]
    BY <1>5 DEF Abort
  <2>2. \A k \in DOMAIN tasks[t] : r[k].id = tasks[t][k].id
    <3>1. \A k \in DOMAIN tasks[t] : tasks[t][k] \in Entry
      BY <1>t
    <3>2. \A c \in Entry : [c EXCEPT !.rolled = TRUE].id = c.id
      BY DEF Entry
    <3> QED BY <3>1, <3>2
  <2>3. DOMAIN r = DOMAIN tasks[t]
    OBVIOUS
  <2> HIDE DEF r
  <2>4. \A u \in Threads : \A k \in DOMAIN tasks'[u] :
          k \in DOMAIN tasks[u] /\ tasks'[u][k].id = tasks[u][k].id
    BY <1>t, <2>1, <2>2, <2>3
  <2>5. UNCHANGED <<row, nextid, run>>
    BY <1>5, <1>w DEF Abort
  <2>6. \A d \in Db, i \in Ids : Waits(d, i) => Waits(d, i)'
    BY <2>5 DEF Waits, Runs
  <2> QED BY <1>i, <2>4, <2>6, HeldShorter
<1>6. ASSUME NEW t \in Threads, Pop(t) PROVE HeldOnce'
  <2>0. PICK n, i : n = Len(tasks[t]) /\ i = Last(tasks[t]).id
    OBVIOUS
  <2>1. /\ n \in Nat \ {0} /\ DOMAIN tasks[t] = 1 .. n /\ i = tasks[t][n].id
        /\ Front(tasks[t]) \in Seq(Entry) /\ Len(Front(tasks[t])) = n - 1
        /\ \A k \in 1 .. n - 1 : Front(tasks[t])[k] = tasks[t][k]
    <3>1. tasks[t] \in Seq(Entry) /\ tasks[t] # <<>>
      BY <1>t, <1>6 DEF Pop
    <3>2. Len(tasks[t]) \in Nat /\ DOMAIN tasks[t] = 1 .. Len(tasks[t])
      BY <3>1
    <3> QED BY <2>0, <3>1, <3>2, LastAndFront
  <2>2. tasks' = [tasks EXCEPT ![t] = Front(tasks[t])]
    BY <1>6 DEF Pop
  <2>3. UNCHANGED <<row, nextid>> /\ \A e \in Executors \ {t} : run'[e] = run[e]
    BY <1>t, <1>e, <1>6 DEF Pop, store
  <2>4. run'[t].id = i
    BY <1>t, <1>e, <1>6, <2>0 DEF Pop
  <2>5. \A u \in Threads \ {t} : tasks'[u] = tasks[u]
    BY <1>t, <2>2
  <2>6. /\ tasks'[t] = Front(tasks[t]) /\ DOMAIN Front(tasks[t]) = 1 .. n - 1
    BY <1>t, <2>1, <2>2
  <2>7. \A k \in DOMAIN tasks'[t] : k \in DOMAIN tasks[t] /\ k # n /\ tasks'[t][k] = tasks[t][k]
    BY <2>1, <2>6
  <2>8. \A u \in Threads : \A k \in DOMAIN tasks'[u] :
          k \in DOMAIN tasks[u] /\ tasks'[u][k].id = tasks[u][k].id
    BY <2>5, <2>7
  <2>9. ~Listed(i)'
    <3> SUFFICES ASSUME NEW u \in Threads, NEW k \in DOMAIN tasks'[u], tasks'[u][k].id = i
                 PROVE  FALSE
        BY DEF Listed
    <3>1. k \in DOMAIN tasks[u] /\ tasks[u][k].id = tasks[t][n].id /\ n \in DOMAIN tasks[t]
      BY <2>1, <2>8
    <3>2. u = t /\ k = n
      BY <1>i, <3>1 DEF HeldOnce
    <3> QED BY <2>7, <3>2
  <2>10. \A d \in Db, j \in Ids : Listed(j)' /\ Waits(d, j) => Waits(d, j)'
    <3> SUFFICES ASSUME NEW d \in Db, NEW j \in Ids, Listed(j)', Waits(d, j)
                 PROVE  Waits(d, j)'
        OBVIOUS
    <3>1. j # i
      BY <2>9
    <3> QED BY <2>3, <2>4, <3>1 DEF Waits, Runs
  <2> QED BY <1>i, <2>8, <2>10, HeldShorter
<1>7. ASSUME NEW e \in Executors, Search(e) \/ GiveUp(e) PROVE HeldOnce'
  <2>1. run[e] # NoRun /\ \A f \in Executors \ {e} : run'[f] = run[f]
    BY <1>t, <1>7 DEF Search, GiveUp, Running
  <2>2. run[e] \in Call
    BY <1>i, <2>1, RunTyped
  <2>3. run'[e] # NoRun => run'[e].db = run[e].db /\ run'[e].id = run[e].id
    BY <1>t, <1>7, <2>2 DEF Search, GiveUp, Call
  <2>4. UNCHANGED <<row, nextid, tasks>>
    BY <1>7 DEF Search, GiveUp, store, serverVars
  <2>5. \A d \in Db, i \in Ids : Waits(d, i) => Waits(d, i)'
    BY <2>1, <2>3, <2>4 DEF Waits, Runs
  <2> QED BY <1>1, <2>4, <2>5
<1>8. ASSUME NEW e \in Executors, Complete(e) PROVE HeldOnce'
  <2>1. /\ run[e] # NoRun /\ run'[e] = NoRun /\ \A f \in Executors \ {e} : run'[f] = run[f]
        /\ UNCHANGED <<nextid, tasks>>
    BY <1>t, <1>8 DEF Complete, Running, serverVars
  <2>2. \A d \in Db, i \in Ids : ~Runs(e, d, i) => row'[d][i] = row[d][i]
    BY <1>t, <1>8, <2>1 DEF Complete, Runs
  <2>3. \A d \in Db, i \in Ids : Waits(d, i) => Waits(d, i)'
    BY <2>1, <2>2 DEF Waits, Runs
  <2> QED BY <1>1, <2>1, <2>3
<1>9. ASSUME NEW e \in Executors, Reschedule(e) PROVE HeldOnce'
  <2>0. run[e] # NoRun /\ e \in Threads
    BY <1>i, <1>w, <1>9 DEF Reschedule, RunsInTurn, Executors
  <2>1. PICK d \in Db, i \in Ids : d = run[e].db /\ i = nextid[d] /\ i \in Nat
    BY <1>t, <1>m, <1>r, <1>9, <2>0 DEF Reschedule, Ids
  <2> DEFINE x == [id |-> i, rolled |-> FALSE]
  <2>2. /\ tasks' = [tasks EXCEPT ![e] = Append(tasks[e], x)]
        /\ nextid' = [nextid EXCEPT ![d] = i + 1]
        /\ row' = [row EXCEPT ![d][i] = "queued"]
    BY <1>9, <1>w, <2>1 DEF Reschedule
  <2>3. x \in Entry /\ x.id = i
    BY <2>1 DEF Entry
  <2>4. nextid'[d] = i + 1 /\ \A f \in Db \ {d} : nextid'[f] = nextid[f]
    BY <1>t, <2>1, <2>2
  <2>5. \A f \in Db, j \in Ids : j < nextid[f] => j < nextid'[f]
    <3> TAKE f \in Db, j \in Ids
    <3>1. CASE f = d
      BY <1>m, <2>1, <2>4, <3>1
    <3>2. CASE f # d
      BY <2>4, <3>2
    <3> QED BY <3>1, <3>2
  <2>6. ~Waits(d, i)
    BY <2>1 DEF Waits
  <2>7. i < nextid'[d]
    BY <2>1, <2>4
  <2>8. \A f \in Executors : ~Runs(f, d, i)
    <3>1. ~(i < nextid[d])
      BY <2>1
    <3> QED BY <1>i, <1>w, <3>1 DEF RunOnce, Runs
  <2>9. \A f \in Executors : run'[f] = run[f] \/ run'[f] = NoRun
    BY <1>t, <1>9 DEF Reschedule
  <2> HIDE DEF x
  <2>10. row'[d][i] = "queued"
    BY <1>t, <2>1, <2>2
  <2>11. \A f \in Db, j \in Ids : row'[f][j] = row[f][j] \/ row'[f][j] = "queued"
    BY <1>t, <2>1, <2>2
  <2>12. \A f \in Db : Waits(f, i)'
    BY <1>w, <2>1, <2>7, <2>8, <2>9, <2>10 DEF Waits, Runs
  <2>13. \A f \in Db, j \in Ids : Waits(f, j) => Waits(f, j)'
    BY <2>5, <2>9, <2>11 DEF Waits, Runs
  <2>14. ~Listed(i)
    BY <1>i, <2>1, <2>6 DEF HeldOnce
  <2> QED BY <1>i, <1>t, <2>0, <2>2, <2>3, <2>12, <2>13, <2>14, HeldLonger
<1>10. ASSUME NEW w \in Pullers, Work(w) PROVE HeldOnce'
  <2>1. Miss(w) \/ Listen(w) \/ Wake(w) \/ Timeout(w) => UNCHANGED <<row, nextid, run, tasks>>
    BY DEF Miss, Listen, Wake, Timeout, store, serverVars
  <2>2. ASSUME NEW s \in Slots, NEW i \in Ids, Pull(w, s, i) PROVE FALSE
    BY <1>w, <2>2 DEF Pull, Polling
  <2> QED BY <1>2, <1>10, <2>1, <2>2 DEF Work
<1>11. ASSUME NEW t \in Threads, Request(t) PROVE HeldOnce'
  <2>1. ASSUME NEW d \in Db, Begin(t, d) PROVE UNCHANGED <<row, nextid, run, tasks>>
    BY <2>1 DEF Begin, store
  <2>2. End(t) => UNCHANGED <<row, nextid, run, tasks>>
    BY DEF End, store
  <2> QED BY <1>2, <1>3, <1>4, <1>5, <1>6, <1>11, <2>1, <2>2 DEF Request
<1>12. ASSUME NEW s \in Slots, Crash(s) PROVE HeldOnce'
  BY <1>2, <1>12 DEF Crash, store, serverVars
<1>13. ASSUME NEW d \in Db, NEW i \in Ids, Tick(d, i) PROVE HeldOnce'
  BY <1>2, <1>13 DEF Tick, serverVars
<1>14. CASE UNCHANGED queueVars
  BY <1>2, <1>14 DEF queueVars, store, serverVars
<1> QED
  BY <1>7, <1>8, <1>9, <1>10, <1>11, <1>12, <1>13, <1>14 DEF QueueNext, RunTask, Executors

LEMMA NextOnceInv == OnceInv /\ [QueueNext]_queueVars => OnceInv'
BY NextQueueInv, NextApplied, NextRunOnce, NextHeldOnce, WorkerSame DEF OnceInv, OneQueue

\* A task takes effect at most once (run_task, pull): with [queue] worker, whatever
\* the databases; without it, for threads that serve one database whose ids are not
\* given back by a rollback, since transaction.tasks keeps ids only.
THEOREM TasksAtMostOnce ==
  QueueSpec /\ OneQueue /\ (worker \/ ~Reuse) => []AtMostOnce
<1>1. OnceInv => AtMostOnce
  BY DEF OnceInv, AppliedFinished, AtMostOnce
<1> QED BY <1>1, InitOnce, NextOnceInv, PTL DEF QueueSpec

-----------------------------------------------------------------------------
(* A committed task is not forgotten *)

\* Nothing is after the end of a list.
LEMMA NoneAfter ==
  ASSUME NEW S, NEW s \in Seq(S), NEW P, P = {}
  PROVE  \A k \in DOMAIN s : ~(k > Len(s) - Cardinality(P))
<1>1. Cardinality(P) = 0
  BY FS_EmptySet
<1>2. Len(s) \in Nat /\ DOMAIN s = 1 .. Len(s)
  OBVIOUS
<1> QED BY <1>1, <1>2

LEMMA OneMore ==
  ASSUME NEW P \in SUBSET Ids, NEW i \in Ids, i \notin P
  PROVE  Cardinality(P) \in Nat /\ Cardinality(P \cup {i}) = Cardinality(P) + 1
<1>1. IsFiniteSet(Ids)
  BY QueueAssumption, FS_Interval DEF Ids
<1>2. IsFiniteSet(P)
  BY <1>1, FS_Subset
<1> QED BY <1>2, FS_AddElement, FS_CardinalityType

LEMMA InitKept == QueueInit /\ OneQueue => KeptInv
<1> SUFFICES ASSUME QueueInit, OneQueue PROVE KeptInv
    OBVIOUS
<1>1. NotForgotten
  BY DEF QueueInit, NotForgotten
<1>2. \A t \in Threads : req[t].pushed = {} /\ DOMAIN tasks[t] = {}
  BY DEF QueueInit, NoRequest
<1> QED BY <1>1, <1>2, InitQueueInv DEF KeptInv, PushedHeld, HeldLast

LEMMA NextPushedHeld ==
  ASSUME KeptInv, [QueueNext]_queueVars
  PROVE  PushedHeld'
<1>t. /\ worker \in BOOLEAN
      /\ nextid \in [Db -> 1 .. MaxId + 1]
      /\ \A t \in Threads : req[t].db \in Db /\ req[t].pushed \in SUBSET Ids
      /\ req \in [Threads -> RequestOf]
      /\ tasks \in [Threads -> Seq(Entry)]
      /\ run \in [Executors -> Call \cup {NoRun}]
  BY Typed DEF KeptInv, QueueInv, QueueTypeOK
<1>i. QueueTypeOK /\ PushedApart /\ IdsFresh /\ RunsInTurn /\ PushedHeld
  BY DEF KeptInv, QueueInv
<1>m. MaxId \in Nat /\ Ids \subseteq Nat
  BY QueueAssumption DEF Ids
<1>p. tasks' \in [Threads -> Seq(Entry)]
  BY <1>i, NextTypeOK DEF QueueTypeOK
<1> SUFFICES ASSUME ~worker' PROVE PushedHeld'
    BY DEF PushedHeld
<1>w. ~worker /\ \A t \in Threads : HeldLast(t)
  BY <1>i, WorkerSame DEF PushedHeld
<1>1. ASSUME NEW t \in Threads, req'[t].pushed = {} PROVE HeldLast(t)'
  BY <1>1, <1>p, NoneAfter DEF HeldLast
<1>2. ASSUME NEW t \in Threads, req'[t].pushed = req[t].pushed, tasks'[t] = tasks[t]
      PROVE  HeldLast(t)'
  BY <1>2, <1>w DEF HeldLast, Holds
<1>3. ASSUME NEW t \in Threads, req'[t].pushed = {},
             \A u \in Threads \ {t} : req'[u] = req[u] /\ tasks'[u] = tasks[u]
      PROVE  PushedHeld'
  <2> SUFFICES ASSUME NEW u \in Threads PROVE HeldLast(u)'
      BY DEF PushedHeld
  <2> QED BY <1>1, <1>2, <1>3
<1>4. CASE UNCHANGED <<req, tasks>>
  BY <1>2, <1>4 DEF PushedHeld
<1>5. ASSUME NEW t \in Threads, NEW later \in BOOLEAN, Push(t, later) PROVE PushedHeld'
  <2>1. PICK d \in Db, i \in Ids : d = req[t].db /\ i = nextid[d] /\ i \in Nat
    BY <1>t, <1>m, <1>5 DEF Push, Ids
  <2>2. PICK P \in SUBSET Ids : P = req[t].pushed
    BY <1>t
  <2>3. PICK s \in Seq(Entry) : s = tasks[t]
    BY <1>t
  <2> DEFINE x == [id |-> i, rolled |-> FALSE]
  <2>4. x \in Entry /\ x.id = i
    BY DEF Entry
  <2>5. /\ tasks'[t] = Append(s, x) /\ req'[t].pushed = P \cup {i}
        /\ \A u \in Threads \ {t} : req'[u] = req[u] /\ tasks'[u] = tasks[u]
    BY <1>t, <1>5, <1>w, <2>1, <2>2, <2>3 DEF Push, RequestOf
  <2> DEFINE s1 == Append(s, x)
  <2>6. /\ Len(s) \in Nat /\ DOMAIN s = 1 .. Len(s)
        /\ Len(s1) = Len(s) + 1 /\ DOMAIN s1 = 1 .. Len(s) + 1
        /\ \A k \in 1 .. Len(s) : s1[k] = s[k]
        /\ s1[Len(s) + 1] = x
    BY <2>4, Appended
  <2>7. i \notin P
    <3>1. i >= nextid[d]
      BY <2>1
    <3> QED BY <1>i, <2>1, <2>2, <3>1 DEF IdsFresh
  <2>8. Cardinality(P) \in Nat /\ Cardinality(P \cup {i}) = Cardinality(P) + 1
    BY <2>7, OneMore
  <2>9. /\ \A j \in P : \E k \in DOMAIN s : s[k] = [id |-> j, rolled |-> FALSE]
        /\ \A k \in DOMAIN s : k > Len(s) - Cardinality(P) => s[k].id \in P
    BY <1>w, <2>2, <2>3 DEF HeldLast, Holds
  <2> HIDE DEF s1
  <2>10. \A j \in P \cup {i} : \E k \in DOMAIN s1 : s1[k] = [id |-> j, rolled |-> FALSE]
    <3>1. DOMAIN s \subseteq DOMAIN s1 /\ Len(s) + 1 \in DOMAIN s1
      BY <2>6
    <3>2. \A k \in DOMAIN s : s1[k] = s[k]
      BY <2>6
    <3> QED BY <2>6, <2>9, <3>1, <3>2
  <2>11. ASSUME NEW k \in DOMAIN s1, k > Len(s1) - Cardinality(P \cup {i})
         PROVE  s1[k].id \in P \cup {i}
    <3>1. CASE k = Len(s) + 1
      BY <2>4, <2>6, <3>1
    <3>2. CASE k # Len(s) + 1
      <4>1. k \in DOMAIN s /\ s1[k] = s[k]
        BY <2>6, <3>2
      <4>2. k > Len(s) - Cardinality(P)
        BY <2>6, <2>8, <2>11
      <4> QED BY <2>9, <4>1, <4>2
    <3> QED BY <3>1, <3>2
  <2>12. tasks'[t] = s1
    BY <2>5 DEF s1
  <2>13. HeldLast(t)'
    BY <2>5, <2>10, <2>11, <2>12 DEF HeldLast, Holds
  <2> SUFFICES ASSUME NEW u \in Threads PROVE HeldLast(u)'
      BY DEF PushedHeld
  <2> QED BY <1>2, <2>5, <2>13
<1>6. ASSUME NEW t \in Threads, NEW d \in Db, Begin(t, d) PROVE PushedHeld'
  BY <1>3, <1>6, <1>t DEF Begin
<1>7. ASSUME NEW t \in Threads, Commit(t) PROVE PushedHeld'
  <2>1. PICK stage \in Stage : req' = [req EXCEPT ![t].stage = stage, ![t].pushed = {}]
    BY <1>7 DEF Commit, Stage
  <2> QED BY <1>3, <1>7, <1>t, <2>1 DEF Commit, RequestOf
<1>8. ASSUME NEW t \in Threads, Abort(t) PROVE PushedHeld'
  <2>1. PICK stage \in Stage : req' = [req EXCEPT ![t].stage = stage, ![t].pushed = {}]
    BY <1>8 DEF Abort, Stage
  <2>2. req'[t].pushed = {} /\ \A u \in Threads \ {t} : req'[u] = req[u]
    BY <1>t, <2>1 DEF RequestOf
  <2>3. \A u \in Threads \ {t} : tasks'[u] = tasks[u]
    BY <1>8, <1>t DEF Abort
  <2> QED BY <1>3, <2>2, <2>3
<1>9. ASSUME NEW t \in Threads, Pop(t) PROVE PushedHeld'
  <2>1. req[t].pushed = {} /\ req' = req
    BY <1>9, <1>i DEF Pop, PushedApart
  <2> QED BY <1>3, <1>9, <1>t, <2>1 DEF Pop
<1>10. ASSUME NEW t \in Threads, End(t) PROVE PushedHeld'
  BY <1>3, <1>10, <1>t DEF End, NoRequest
<1>11. ASSUME NEW e \in Executors, Reschedule(e) PROVE PushedHeld'
  <2>1. e \in Threads /\ req[e].pushed = {} /\ req' = req
    BY <1>11, <1>i, <1>w DEF Reschedule, RunsInTurn, Executors, PushedApart
  <2> QED BY <1>3, <1>11, <1>t, <2>1 DEF Reschedule
<1>12. ASSUME NEW e \in Executors, RunTask(e) PROVE PushedHeld'
  <2>1. Search(e) \/ Complete(e) \/ GiveUp(e) => UNCHANGED <<req, tasks>>
    BY DEF Search, Complete, GiveUp, serverVars
  <2> QED BY <1>4, <1>11, <1>12, <2>1 DEF RunTask
<1>13. ASSUME NEW w \in Pullers, Work(w) PROVE PushedHeld'
  <2>1. Miss(w) \/ Listen(w) \/ Wake(w) \/ Timeout(w) => UNCHANGED <<req, tasks>>
    BY DEF Miss, Listen, Wake, Timeout, serverVars
  <2>2. ASSUME NEW s \in Slots, NEW i \in Ids, Pull(w, s, i) PROVE FALSE
    BY <1>w, <2>2 DEF Pull, Polling
  <2> QED BY <1>4, <1>13, <2>1, <2>2 DEF Work
<1>14. ASSUME NEW t \in Threads, Request(t) PROVE PushedHeld'
  BY <1>5, <1>6, <1>7, <1>8, <1>9, <1>10, <1>14 DEF Request
<1>15. ASSUME NEW s \in Slots, Crash(s) PROVE PushedHeld'
  BY <1>4, <1>15 DEF Crash, serverVars
<1>16. ASSUME NEW d \in Db, NEW i \in Ids, Tick(d, i) PROVE PushedHeld'
  BY <1>4, <1>16 DEF Tick, serverVars
<1>17. CASE UNCHANGED queueVars
  BY <1>4, <1>17 DEF queueVars, serverVars
<1> QED
  BY <1>12, <1>13, <1>14, <1>15, <1>16, <1>17 DEF QueueNext, Executors

LEMMA NextNotForgotten ==
  ASSUME KeptInv, [QueueNext]_queueVars
  PROVE  NotForgotten'
<1>t. /\ worker \in BOOLEAN
      /\ row \in [Db -> [Ids -> Status]]
      /\ nextid \in [Db -> 1 .. MaxId + 1]
      /\ \A t \in Threads : req[t].db \in Db /\ req[t].pushed \in SUBSET Ids
      /\ tasks \in [Threads -> Seq(Entry)]
      /\ run \in [Executors -> Call \cup {NoRun}]
  BY Typed DEF KeptInv, QueueInv
<1>i. /\ QueueTypeOK /\ PushedApart /\ IdsFresh /\ RunsInTurn
      /\ PushedHeld /\ OneQueue /\ NotForgotten
  BY DEF KeptInv, QueueInv
<1>m. MaxId \in Nat /\ Ids \subseteq Nat
  BY QueueAssumption DEF Ids
<1>e. Threads \subseteq Executors /\ Slots \subseteq Executors
  BY DEF Executors
<1>r. \A e \in Executors : run[e] # NoRun => run[e].db \in Db /\ run[e].id \in Ids
  BY <1>i, RunTyped
<1>w. worker' = worker /\ (worker \/ \A d, f \in Db : d = f)
  BY <1>i, WorkerSame DEF OneQueue
<1>1. ASSUME \A d \in Db, i \in Ids :
               row'[d][i] \in {"queued", "dequeued"} =>
                 \/ Remembered(d, i)'
                 \/ row[d][i] = row'[d][i] /\ (Remembered(d, i) => Remembered(d, i)')
      PROVE  NotForgotten'
  BY <1>i, <1>1 DEF NotForgotten
<1>2. CASE UNCHANGED <<row, failed, run, tasks>>
  BY <1>1, <1>2, <1>w DEF Remembered, Runs, Holds
\* A list that gets longer holds what it held.
<1>3. ASSUME NEW t \in Threads, NEW x \in Entry,
             tasks' = [tasks EXCEPT ![t] = Append(tasks[t], x)]
      PROVE  /\ \A u \in Threads, i \in Ids : Holds(u, i) => Holds(u, i)'
             /\ x.rolled = FALSE => Holds(t, x.id)'
  <2> DEFINE s == tasks[t]
             s1 == Append(tasks[t], x)
  <2>1. /\ Len(s) \in Nat /\ DOMAIN s = 1 .. Len(s)
        /\ DOMAIN s1 = 1 .. Len(s) + 1
        /\ \A k \in 1 .. Len(s) : s1[k] = s[k]
        /\ s1[Len(s) + 1] = x
    BY <1>t, Appended
  <2>2. tasks'[t] = s1 /\ \A u \in Threads \ {t} : tasks'[u] = tasks[u]
    BY <1>t, <1>3
  <2>3. /\ \A k \in DOMAIN s : k \in DOMAIN s1 /\ s1[k] = s[k]
        /\ Len(s) + 1 \in DOMAIN s1
    BY <2>1
  <2>4. x.rolled = FALSE => x = [id |-> x.id, rolled |-> FALSE]
    BY DEF Entry
  <2> HIDE DEF s1
  <2>5. x.rolled = FALSE => Holds(t, x.id)'
    BY <2>1, <2>2, <2>3, <2>4 DEF Holds
  <2>6. ASSUME NEW u \in Threads, NEW i \in Ids, Holds(u, i) PROVE Holds(u, i)'
    <3>1. CASE u = t
      BY <2>2, <2>3, <2>6, <3>1 DEF Holds
    <3>2. CASE u # t
      BY <2>2, <2>6, <3>2 DEF Holds
    <3> QED BY <3>1, <3>2
  <2> QED BY <2>5, <2>6
<1>4. ASSUME NEW t \in Threads, NEW later \in BOOLEAN, Push(t, later) PROVE NotForgotten'
  <2>1. PICK d \in Db, i \in Ids : d = req[t].db /\ i = nextid[d]
    BY <1>t, <1>m, <1>4 DEF Push, Ids
  <2> DEFINE x == [id |-> i, rolled |-> FALSE]
  <2>2. x \in Entry
    BY DEF Entry
  <2>3. /\ UNCHANGED <<row, run, failed>>
        /\ tasks' = IF worker THEN tasks ELSE [tasks EXCEPT ![t] = Append(tasks[t], x)]
    BY <1>4, <2>1 DEF Push, history
  <2> HIDE DEF x
  <2>4. \A u \in Threads, j \in Ids : Holds(u, j) => Holds(u, j)'
    <3>1. CASE worker
      BY <2>3, <3>1 DEF Holds
    <3>2. CASE ~worker
      BY <1>3, <2>2, <2>3, <3>2
    <3> QED BY <3>1, <3>2
  <2> QED BY <1>1, <1>w, <2>3, <2>4 DEF Remembered, Runs
<1>5. ASSUME NEW t \in Threads, Commit(t) PROVE NotForgotten'
  <2>1. UNCHANGED <<tasks, run, failed>>
    BY <1>5 DEF Commit, history
  <2>2. \A d \in Db, i \in Ids :
          \/ row'[d][i] = row[d][i]
          \/ row'[d][i] = "queued" /\ i \in req[t].pushed
    BY <1>t, <1>5 DEF Commit
  <2>3. ~worker => \A i \in req[t].pushed : Holds(t, i)
    BY <1>i DEF PushedHeld, HeldLast
  <2>4. ASSUME NEW d \in Db, NEW i \in Ids, row'[d][i] = row[d][i], Remembered(d, i)
        PROVE  Remembered(d, i)'
    BY <1>w, <2>1, <2>4 DEF Remembered, Runs, Holds
  <2>5. ASSUME NEW d \in Db, NEW i \in Ids, row'[d][i] = "queued", i \in req[t].pushed
        PROVE  Remembered(d, i)'
    BY <1>w, <2>1, <2>3, <2>5 DEF Remembered, Holds
  <2> QED BY <1>1, <2>2, <2>4, <2>5
<1>6. ASSUME NEW t \in Threads, Abort(t) PROVE NotForgotten'
  <2> DEFINE s == tasks[t]
             r == [k \in DOMAIN s |-> IF k > Len(s) - Cardinality(req[t].pushed)
                                      THEN [s[k] EXCEPT !.rolled = TRUE] ELSE s[k]]
  <2>1. UNCHANGED <<row, run, failed>> /\ tasks' = [tasks EXCEPT ![t] = r]
    BY <1>6 DEF Abort, history
  <2>2. DOMAIN r = DOMAIN s
        /\ \A k \in DOMAIN s : k > Len(s) - Cardinality(req[t].pushed) \/ r[k] = s[k]
    OBVIOUS
  <2> HIDE DEF r
  <2>3. tasks'[t] = r /\ \A u \in Threads \ {t} : tasks'[u] = tasks[u]
    BY <1>t, <2>1
  <2>4. ASSUME NEW d \in Db, NEW i \in Ids, row[d][i] # "absent",
               ~worker, NEW u \in Threads, Holds(u, i)
        PROVE  Holds(u, i)'
    <3>1. CASE u # t
      BY <2>3, <2>4, <3>1 DEF Holds
    <3>2. CASE u = t
      <4>1. PICK k \in DOMAIN s : s[k] = [id |-> i, rolled |-> FALSE]
        BY <2>4, <3>2 DEF Holds
      <4>2. i \notin req[t].pushed
        <5>1. req[t].db = d
          BY <1>t, <1>w, <2>4
        <5> QED BY <1>i, <2>4, <5>1 DEF PushedApart
      <4>3. ~(k > Len(s) - Cardinality(req[t].pushed))
        BY <1>i, <2>4, <4>1, <4>2 DEF PushedHeld, HeldLast
      <4>4. r[k] = s[k]
        BY <2>2, <4>3
      <4> QED BY <2>2, <2>3, <3>2, <4>1, <4>4 DEF Holds
    <3> QED BY <3>1, <3>2
  <2>5. ASSUME NEW d \in Db, NEW i \in Ids, row'[d][i] \in {"queued", "dequeued"},
               Remembered(d, i)
        PROVE  Remembered(d, i)'
    BY <1>w, <2>1, <2>4, <2>5 DEF Remembered, Runs
  <2> QED BY <1>1, <2>1, <2>5
<1>7. ASSUME NEW t \in Threads, Pop(t) PROVE NotForgotten'
  <2>0. /\ tasks[t] \in Seq(Entry) /\ tasks[t] # <<>> /\ run[t] = NoRun
        /\ UNCHANGED <<row, failed>>
    BY <1>t, <1>7 DEF Pop, store, history
  <2>1. PICK s \in Seq(Entry), n \in Nat, f \in Seq(Entry) :
          /\ s = tasks[t] /\ n = Len(s) /\ DOMAIN s = 1 .. n
          /\ f = Front(s) /\ Last(s) = s[n] /\ DOMAIN f = 1 .. n - 1
          /\ \A k \in 1 .. n - 1 : f[k] = s[k]
    <3>1. Len(Front(tasks[t])) = Len(tasks[t]) - 1 /\ Front(tasks[t]) \in Seq(Entry)
      BY <2>0, LastAndFront
    <3>2. DOMAIN Front(tasks[t]) = 1 .. Len(tasks[t]) - 1
      BY <3>1
    <3>3. Len(tasks[t]) \in Nat /\ DOMAIN tasks[t] = 1 .. Len(tasks[t])
      BY <2>0
    <3> QED BY <2>0, <3>1, <3>2, <3>3, LastAndFront
  <2>2. PICK d \in Db : d = req[t].db
    BY <1>t
  <2>x. PICK x : x = s[n]
    OBVIOUS
  <2>3. /\ tasks'[t] = f /\ \A u \in Threads \ {t} : tasks'[u] = tasks[u]
        /\ \A e \in Executors \ {t} : run'[e] = run[e]
        /\ run'[t] = [db |-> d, id |-> x.id, rolled |-> x.rolled, stage |-> "search"]
    BY <1>t, <1>e, <1>7, <2>1, <2>2, <2>x DEF Pop
  <2>4. ~worker
    BY <1>i, <2>0 DEF RunsInTurn
  <2>5. x \in Entry
    <3>1. n \in 1 .. n
      BY <2>0, <2>1
    <3> QED BY <2>1, <2>x, <3>1
  <2>6. run'[t].db = d /\ run'[t].id = x.id /\ run'[t] # NoRun
    <3>1. run'[t] \in Call
      BY <2>3, <2>5 DEF Call, Entry
    <3> QED BY <2>3, <3>1, CallIsSomething
  <2>7. \A e \in Executors, c \in Db, i \in Ids : Runs(e, c, i) => Runs(e, c, i)'
    BY <2>0, <2>3 DEF Runs
  <2>8. ASSUME NEW u \in Threads, NEW i \in Ids, Holds(u, i)
        PROVE  Holds(u, i)' \/ Runs(t, d, i)'
    <3>1. CASE u # t
      BY <2>3, <2>8, <3>1 DEF Holds
    <3>2. CASE u = t
      <4>1. PICK k \in 1 .. n : s[k] = [id |-> i, rolled |-> FALSE]
        BY <2>1, <2>8, <3>2 DEF Holds
      <4>2. CASE k = n
        BY <2>x, <2>6, <4>1, <4>2 DEF Runs
      <4>3. CASE k # n
        <5>1. k \in 1 .. n - 1
          BY <4>3
        <5>2. k \in DOMAIN tasks'[t] /\ tasks'[t][k] = s[k]
          BY <2>1, <2>3, <5>1
        <5> QED BY <3>2, <4>1, <5>2 DEF Holds
      <4> QED BY <4>2, <4>3
    <3> QED BY <3>1, <3>2
  <2>9. ASSUME NEW c \in Db, NEW i \in Ids, Remembered(c, i) PROVE Remembered(c, i)'
    <3>1. c = d
      BY <1>w, <2>4
    <3> QED BY <1>e, <1>w, <2>0, <2>4, <2>7, <2>8, <2>9, <3>1 DEF Remembered
  <2> QED BY <1>1, <2>0, <2>9
<1>8. ASSUME NEW e \in Executors, Search(e) PROVE NotForgotten'
  <2>1. run[e] # NoRun /\ \A f \in Executors \ {e} : run'[f] = run[f]
    BY <1>t, <1>8 DEF Search, Running
  <2>2. run[e] \in Call
    BY <1>i, <2>1, RunTyped
  <2>3. IF row[run[e].db][run[e].id] = "absent" THEN TRUE
        ELSE run'[e] \in Call /\ run'[e].db = run[e].db /\ run'[e].id = run[e].id
    BY <1>t, <1>8, <2>2 DEF Search, Call
  <2>4. UNCHANGED <<row, failed, tasks>>
    BY <1>8 DEF Search, store, history, serverVars
  <2>5. ASSUME NEW d \in Db, NEW i \in Ids, row[d][i] # "absent", NEW f \in Executors,
               Runs(f, d, i)
        PROVE  Runs(f, d, i)'
    BY <2>1, <2>3, <2>5, CallIsSomething DEF Runs
  <2>6. ASSUME NEW d \in Db, NEW i \in Ids, row[d][i] # "absent", Remembered(d, i)
        PROVE  Remembered(d, i)'
    BY <1>w, <2>4, <2>5, <2>6 DEF Remembered, Holds
  <2> QED BY <1>1, <2>4, <2>6
<1>9. ASSUME NEW e \in Executors, Complete(e) PROVE NotForgotten'
  <2>1. /\ run[e] # NoRun /\ \A f \in Executors \ {e} : run'[f] = run[f]
        /\ UNCHANGED <<failed, tasks>>
    BY <1>t, <1>9 DEF Complete, Running, serverVars
  <2>2. \A d \in Db, i \in Ids : IF Runs(e, d, i) THEN row'[d][i] = "finished"
                                                 ELSE row'[d][i] = row[d][i]
    BY <1>t, <1>9, <2>1 DEF Complete, Runs
  <2>3. ASSUME NEW d \in Db, NEW i \in Ids, ~Runs(e, d, i), Remembered(d, i)
        PROVE  Remembered(d, i)'
    BY <1>w, <2>1, <2>2, <2>3 DEF Remembered, Runs, Holds
  <2> QED BY <1>1, <2>2, <2>3
<1>10. ASSUME NEW e \in Executors, GiveUp(e) PROVE NotForgotten'
  <2>1. /\ \A f \in Executors \ {e} : run'[f] = run[f]
        /\ failed' = failed \cup {<<run[e].db, run[e].id>>}
        /\ UNCHANGED <<row, tasks>>
    BY <1>t, <1>10 DEF GiveUp, store, serverVars
  <2>2. \A d \in Db, i \in Ids : Remembered(d, i) => Remembered(d, i)'
    BY <1>w, <2>1 DEF Remembered, Runs, Holds
  <2> QED BY <1>1, <2>1, <2>2
<1>11. ASSUME NEW e \in Executors, Reschedule(e) PROVE NotForgotten'
  <2>1. PICK d \in Db, i \in Ids : d = run[e].db /\ i = nextid[d]
    BY <1>t, <1>m, <1>r, <1>11 DEF Reschedule, Ids
  <2> DEFINE x == [id |-> i, rolled |-> FALSE]
  <2>2. x \in Entry /\ x.rolled = FALSE /\ x.id = i
    BY DEF Entry
  <2>3. /\ tasks' = IF worker THEN tasks ELSE [tasks EXCEPT ![e] = Append(tasks[e], x)]
        /\ row' = [row EXCEPT ![d][i] = "queued"]
        /\ failed' = failed \cup {<<d, run[e].id>>}
        /\ run[e] # NoRun /\ \A f \in Executors \ {e} : run'[f] = run[f]
    BY <1>t, <1>11, <2>1 DEF Reschedule
  <2> HIDE DEF x
  <2>4. ~worker => e \in Threads
    BY <1>i, <2>3 DEF RunsInTurn, Executors
  <2>5. /\ \A u \in Threads, j \in Ids : ~worker /\ Holds(u, j) => Holds(u, j)'
        /\ ~worker => Holds(e, i)'
    BY <1>3, <2>2, <2>3, <2>4
  <2>6. row'[d][i] = "queued" /\ \A c \in Db, j \in Ids : c # d \/ j # i => row'[c][j] = row[c][j]
    BY <1>t, <2>3
  <2>7. Remembered(d, i)'
    BY <1>w, <2>4, <2>5, <2>6 DEF Remembered
  <2>8. ASSUME NEW c \in Db, NEW j \in Ids, c # d \/ j # i, Remembered(c, j)
        PROVE  Remembered(c, j)'
    <3>1. row'[c][j] = row[c][j]
      BY <2>6, <2>8
    <3>2. \A f \in Executors : Runs(f, c, j) => Runs(f, c, j)' \/ <<c, j>> \in failed'
      BY <2>1, <2>3 DEF Runs
    <3> QED BY <1>w, <2>3, <2>5, <2>8, <3>1, <3>2 DEF Remembered
  <2> QED BY <1>1, <2>6, <2>7, <2>8
<1>12. ASSUME NEW w \in Pullers, NEW s \in Slots, NEW i \in Ids, Pull(w, s, i)
       PROVE  NotForgotten'
  <2>1. PICK d \in Db : d = Dbs[pos[w]]
    BY <1>i, DbsIn DEF QueueTypeOK
  <2>2. /\ worker /\ UNCHANGED failed
        /\ row' = [row EXCEPT ![d][i] = "dequeued"] /\ run[s] = NoRun
        /\ run' = [run EXCEPT ![s] = [db |-> d, id |-> i, rolled |-> FALSE,
                                      stage |-> "search"]]
    BY <1>12, <2>1 DEF Pull, Polling, history
  <2>3. [db |-> d, id |-> i, rolled |-> FALSE, stage |-> "search"] \in Call
    BY DEF Call
  <2>4. /\ run'[s] \in Call /\ run'[s].db = d /\ run'[s].id = i
        /\ \A e \in Executors \ {s} : run'[e] = run[e]
        /\ \A c \in Db, j \in Ids : c # d \/ j # i => row'[c][j] = row[c][j]
    BY <1>t, <1>e, <2>2, <2>3
  <2>5. Remembered(d, i)'
    BY <1>e, <2>4, CallIsSomething DEF Remembered, Runs
  <2>6. \A e \in Executors, c \in Db, j \in Ids : Runs(e, c, j) => Runs(e, c, j)'
    BY <2>2, <2>4 DEF Runs
  <2>7. ASSUME NEW c \in Db, NEW j \in Ids, c # d \/ j # i, Remembered(c, j)
        PROVE  Remembered(c, j)'
    BY <1>w, <2>2, <2>4, <2>6, <2>7 DEF Remembered
  <2> QED BY <1>1, <2>4, <2>5, <2>7
<1>13. ASSUME NEW w \in Pullers, Work(w) PROVE NotForgotten'
  <2>1. Miss(w) \/ Listen(w) \/ Wake(w) \/ Timeout(w) => UNCHANGED <<row, failed, run, tasks>>
    BY DEF Miss, Listen, Wake, Timeout, store, serverVars, history
  <2> QED BY <1>2, <1>12, <1>13, <2>1 DEF Work
<1>14. ASSUME NEW t \in Threads, Request(t) PROVE NotForgotten'
  <2>1. ASSUME NEW d \in Db, Begin(t, d) PROVE UNCHANGED <<row, failed, run, tasks>>
    BY <2>1 DEF Begin, store, history
  <2>2. End(t) => UNCHANGED <<row, failed, run, tasks>>
    BY DEF End, store, history
  <2> QED BY <1>2, <1>4, <1>5, <1>6, <1>7, <1>14, <2>1, <2>2 DEF Request
<1>15. ASSUME NEW s \in Slots, Crash(s) PROVE NotForgotten'
  BY <1>2, <1>15 DEF Crash, store, serverVars, history
<1>16. ASSUME NEW d \in Db, NEW i \in Ids, Tick(d, i) PROVE NotForgotten'
  BY <1>2, <1>16 DEF Tick, serverVars, history
<1>17. CASE UNCHANGED queueVars
  BY <1>2, <1>17 DEF queueVars, store, serverVars, history
<1> QED
  BY <1>8, <1>9, <1>10, <1>11, <1>13, <1>14, <1>15, <1>16, <1>17 DEF QueueNext, RunTask, Executors

LEMMA NextKeptInv == KeptInv /\ [QueueNext]_queueVars => KeptInv'
BY NextQueueInv, NextPushedHeld, NextNotForgotten, WorkerSame DEF KeptInv, OneQueue

\* A committed task is not forgotten (push, run_task, pull): with [queue] worker,
\* whatever the databases; without it, for threads that serve one database, whether
\* or not its ids are given back.
THEOREM TasksNotForgotten == QueueSpec /\ OneQueue => []NotForgotten
<1>1. KeptInv => NotForgotten
  BY DEF KeptInv
<1> QED BY <1>1, InitKept, NextKeptInv, PTL DEF QueueSpec
============================================================================
