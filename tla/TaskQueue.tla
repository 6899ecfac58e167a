----------------------------- MODULE TaskQueue -----------------------------
(***************************************************************************)
(* The task queue: trytond.ir.queue_ (push, pull), trytond.worker (work,   *)
(* run_task) and the loop over transaction.tasks that ends a request       *)
(* (protocols/dispatcher.py, protocols/wrappers.py).                       *)
(*                                                                         *)
(* Without [queue] worker, a thread runs the tasks it has pushed after its *)
(* request; transaction.tasks is thread-local.  With it, work() pulls them *)
(* from the databases and hands them to the processes of its pool.         *)
(*                                                                         *)
(* The back-end of a worker is PostgreSQL: pull is one UPDATE RETURNING.   *)
(* The order of scheduled_at and expected_at is left out: pull takes any   *)
(* task that is due.  A task that fails on the database and is tried again *)
(* by run_task is still running.                                           *)
(***************************************************************************)
EXTENDS Naturals, Sequences, SequencesExt

CONSTANTS
  Dbs,        \* databases, in the order of the command line
  MaxId,      \* bound on the ids of ir.queue in each database
  Threads,    \* threads of the server
  Pullers,    \* trytond-worker processes
  Slots,      \* the processes of their pools
  PullerOf,   \* the pool of each one
  Crashes,    \* how many of them may be killed
  Reuse,      \* TRUE: SQLite, where a rollback gives the ids back
  NoRun       \* nothing to run

ASSUME QueueAssumption ==
  /\ MaxId \in Nat /\ Crashes \in Nat
  /\ PullerOf \in [Slots -> Pullers]
  /\ Reuse \in BOOLEAN
  /\ Dbs \in Seq(STRING) /\ Dbs # <<>>
  /\ Threads \cap Slots = {}
  /\ NoRun \notin [db : ToSet(Dbs), id : 1 .. MaxId, rolled : BOOLEAN,
                   stage : {"search", "running"}]

VARIABLES
  worker,     \* [queue] worker: has_worker
  row,        \* ir.queue of each database, as committed
  runnable,   \* the tasks without scheduled_at, or past it
  nextid,     \* next id of each database
  req,        \* the request of each thread
  tasks,      \* _Local.tasks: ids, and whether their push was rolled back
  run,        \* what run_task does, in a thread or in a process
  lost,       \* processes that were killed
  failed,     \* history: tasks given up by run_task
  applied,    \* history: how often each task has taken effect
  at,         \* the loop of work: position, or "listen", or "waiting"
  pos,        \* position in the loop over the databases
  heard,      \* databases whose channel is listened to
  notified    \* databases whose connection has something to read

store == <<row, runnable, nextid>>
serverVars == <<req, tasks>>
history == <<failed, applied>>
loop == <<at, pos, heard, notified>>
queueVars == <<worker, store, serverVars, run, lost, history, loop>>

Db == ToSet(Dbs)
Ids == 1 .. MaxId
Executors == Threads \cup Slots
NoRequest == [stage |-> "idle", db |-> Dbs[1], pushed |-> {}]

QueueInit ==
  /\ worker \in BOOLEAN
  /\ row = [d \in Db |-> [i \in Ids |-> "absent"]]
  /\ runnable = {}
  /\ nextid = [d \in Db |-> 1]
  /\ req = [t \in Threads |-> NoRequest]
  /\ tasks = [t \in Threads |-> <<>>]
  /\ run = [e \in Executors |-> NoRun]
  /\ lost = {}
  /\ failed = {} /\ applied = [d \in Db |-> [i \in Ids |-> 0]]
  /\ at = [w \in Pullers |-> "polling"]
  /\ pos = [w \in Pullers |-> 1]
  /\ heard = [w \in Pullers |-> {}]
  /\ notified = [w \in Pullers |-> {}]

\* NOTIFY "ir.queue", delivered at commit to the connections that listen.
NotifyWorker(d) ==
  notified' = [w \in Pullers |-> IF d \in heard[w] THEN notified[w] \cup {d}
                                                  ELSE notified[w]]

-----------------------------------------------------------------------------
(* A request and the tasks it pushes *)

\* Mutant of Begin: the tasks left by an earlier request are forgotten.
BeginAfresh(t, d) ==
  /\ req[t].stage = "idle"
  /\ req' = [req EXCEPT ![t] = [stage |-> "open", db |-> d, pushed |-> {}]]
  /\ tasks' = [tasks EXCEPT ![t] = <<>>]
  /\ UNCHANGED <<worker, store, run, lost, history, loop>>

Begin(t, d) ==
  /\ req[t].stage = "idle"
  /\ req' = [req EXCEPT ![t] = [stage |-> "open", db |-> d, pushed |-> {}]]
  /\ UNCHANGED <<worker, store, tasks, run, lost, history, loop>>

\* SQLite has one writer at a time.
MayWrite(t, d) ==
  Reuse => \A u \in Threads \ {t} : req[u].db = d => req[u].pushed = {}

\* Queue.push: the row is created and, without worker, the thread keeps its id.
Push(t, later) ==
  LET d == req[t].db
      i == nextid[d]
  IN
  /\ req[t].stage = "open" /\ i <= MaxId /\ MayWrite(t, d)
  /\ req' = [req EXCEPT ![t].pushed = @ \cup {i}]
  /\ nextid' = [nextid EXCEPT ![d] = i + 1]
  /\ runnable' = IF later THEN runnable ELSE runnable \cup {<<d, i>>}
  /\ tasks' = IF worker THEN tasks
              ELSE [tasks EXCEPT ![t] = Append(@, [id |-> i, rolled |-> FALSE])]
  /\ UNCHANGED <<worker, row, run, lost, history, loop>>

\* transaction.commit: the tasks are in the queue.  The request goes on with
\* its loop, unless the second commit, by stop, raises.
Commit(t) ==
  LET d == req[t].db IN
  /\ req[t].stage = "open"
  /\ row' = [row EXCEPT ![d] = [i \in Ids |-> IF i \in req[t].pushed THEN "queued"
                                                                    ELSE row[d][i]]]
  /\ \E stage \in {"tasks", "idle"} :
       req' = [req EXCEPT ![t].stage = stage, ![t].pushed = {}]
  /\ IF req[t].pushed = {} THEN UNCHANGED notified ELSE NotifyWorker(d)
  /\ UNCHANGED <<worker, runnable, nextid, tasks, run, lost, history, at, pos, heard>>

\* The request is rolled back: the rows disappear, the ids in transaction.tasks
\* do not.  It fails, or is tried again in the same thread and database.
Abort(t) ==
  LET d == req[t].db
      pushed == req[t].pushed
  IN
  /\ req[t].stage = "open"
  /\ \E stage \in {"open", "idle"} :
       req' = [req EXCEPT ![t].stage = stage, ![t].pushed = {}]
  /\ tasks' = [tasks EXCEPT ![t] = [k \in DOMAIN tasks[t] |->
       IF k > Len(tasks[t]) - Cardinality(pushed)
         THEN [tasks[t][k] EXCEPT !.rolled = TRUE] ELSE tasks[t][k]]]
  /\ runnable' = runnable \ ({d} \X pushed)
  /\ nextid' = IF Reuse /\ pushed # {} THEN [nextid EXCEPT ![d] = Min(pushed)] ELSE nextid
  /\ UNCHANGED <<worker, row, run, lost, history, loop>>

\* while transaction.tasks: run_task(pool, transaction.tasks.pop())
Pop(t) ==
  /\ req[t].stage = "tasks" /\ tasks[t] # <<>> /\ run[t] = NoRun
  /\ run' = [run EXCEPT ![t] = [db |-> req[t].db, id |-> Last(tasks[t]).id,
                                rolled |-> Last(tasks[t]).rolled, stage |-> "search"]]
  /\ tasks' = [tasks EXCEPT ![t] = Front(@)]
  /\ UNCHANGED <<worker, store, req, lost, history, loop>>

\* Mutant of End: the response is sent while a task runs.
End(t) ==
  /\ req[t].stage = "tasks" /\ tasks[t] = <<>> /\ run[t] = NoRun
  /\ req' = [req EXCEPT ![t] = NoRequest]
  /\ UNCHANGED <<worker, store, tasks, run, lost, history, loop>>

\* scheduled_at comes.
Tick(d, i) ==
  /\ row[d][i] # "absent" /\ <<d, i>> \notin runnable
  /\ runnable' = runnable \cup {<<d, i>>}
  /\ UNCHANGED <<worker, row, nextid, serverVars, run, lost, history, loop>>

-----------------------------------------------------------------------------
(* run_task *)

Running(e, stage) == run[e] # NoRun /\ run[e].stage = stage

\* Queue.search: "the task was rollbacked, nothing to do" when it is not found.
Search(e) ==
  /\ Running(e, "search")
  /\ run' = [run EXCEPT ![e] = IF row[run[e].db][run[e].id] = "absent" THEN NoRun
                               ELSE [run[e] EXCEPT !.stage = "running"]]
  /\ UNCHANGED <<worker, store, serverVars, lost, history, loop>>

\* task.run, and the commit of its effects together with finished_at.
Complete(e) ==
  LET d == run[e].db
      i == run[e].id
  IN
  /\ Running(e, "running")
  /\ row' = [row EXCEPT ![d][i] = "finished"]
  /\ applied' = [applied EXCEPT ![d][i] = @ + 1]
  /\ run' = [run EXCEPT ![e] = NoRun]
  /\ UNCHANGED <<worker, runnable, nextid, serverVars, lost, failed, loop>>

\* An error other than DatabaseOperationalError, or a task that could not be
\* rescheduled: it is logged.
GiveUp(e) ==
  /\ run[e] # NoRun
  /\ failed' = failed \cup {<<run[e].db, run[e].id>>}
  /\ run' = [run EXCEPT ![e] = NoRun]
  /\ UNCHANGED <<worker, store, serverVars, lost, applied, loop>>

\* DatabaseOperationalError to the end, in search or in run: a copy is pushed,
\* with a scheduled_at, by a transaction of its own.
Reschedule(e) ==
  LET d == run[e].db
      i == nextid[d]
  IN
  /\ run[e] # NoRun /\ row[d][run[e].id] # "absent"
  /\ ~Reuse /\ i <= MaxId
  /\ row' = [row EXCEPT ![d][i] = "queued"]
  /\ nextid' = [nextid EXCEPT ![d] = i + 1]
  /\ tasks' = IF worker THEN tasks
              ELSE [tasks EXCEPT ![e] = Append(@, [id |-> i, rolled |-> FALSE])]
  /\ failed' = failed \cup {<<d, run[e].id>>}
  /\ run' = [run EXCEPT ![e] = NoRun]
  /\ NotifyWorker(d)
  /\ UNCHANGED <<worker, runnable, req, lost, applied, at, pos, heard>>

\* A process of the pool is killed: its result never becomes ready, so that it
\* counts as busy for ever (TaskList.filter), with the task it was running.
Crash(s) ==
  /\ run[s] # NoRun /\ s \notin lost /\ Cardinality(lost) < Crashes
  /\ lost' = lost \cup {s}
  /\ UNCHANGED <<worker, store, serverVars, run, history, loop>>

-----------------------------------------------------------------------------
(* work *)

Ready(d) == {i \in Ids : row[d][i] = "queued" /\ <<d, i>> \in runnable}

Polling(w) == worker /\ at[w] = "polling"

\* Mutant of Pull: dequeued_at is not set.
PullUnmarked(w, s, i) ==
  LET d == Dbs[pos[w]] IN
  /\ Polling(w) /\ PullerOf[s] = w /\ run[s] = NoRun /\ i \in Ready(d)
  /\ run' = [run EXCEPT ![s] = [db |-> d, id |-> i, rolled |-> FALSE,
                                stage |-> "search"]]
  /\ pos' = [pos EXCEPT ![w] = 1]
  /\ UNCHANGED <<worker, store, serverVars, lost, history, at, heard, notified>>

\* pull finds a task: it is marked, handed to a free process, and the loop
\* starts again with the first database.
Pull(w, s, i) ==
  LET d == Dbs[pos[w]] IN
  /\ Polling(w) /\ PullerOf[s] = w /\ run[s] = NoRun /\ i \in Ready(d)
  /\ row' = [row EXCEPT ![d][i] = "dequeued"]
  /\ run' = [run EXCEPT ![s] = [db |-> d, id |-> i, rolled |-> FALSE,
                                stage |-> "search"]]
  /\ pos' = [pos EXCEPT ![w] = 1]
  /\ UNCHANGED <<worker, runnable, nextid, serverVars, lost, history, at, heard, notified>>

\* The update of pull finds nothing; it may read the notifications that have
\* arrived on the connection.
Miss(w) ==
  LET d == Dbs[pos[w]] IN
  /\ Polling(w) /\ Ready(d) = {}
  /\ \E s \in Slots : PullerOf[s] = w /\ run[s] = NoRun
  /\ at' = [at EXCEPT ![w] = "listen"]
  /\ \E read \in SUBSET {d} : notified' = [notified EXCEPT ![w] = @ \ read]
  /\ UNCHANGED <<worker, store, serverVars, run, lost, history, pos, heard>>

\* pull ends with LISTEN, a statement of its own; then comes the next database
\* or, after the last one, select.
Listen(w) ==
  /\ at[w] = "listen"
  /\ heard' = [heard EXCEPT ![w] = @ \cup {Dbs[pos[w]]}]
  /\ IF pos[w] < Len(Dbs)
       THEN /\ pos' = [pos EXCEPT ![w] = @ + 1]
            /\ at' = [at EXCEPT ![w] = "polling"]
       ELSE /\ pos' = [pos EXCEPT ![w] = 1]
            /\ at' = [at EXCEPT ![w] = "waiting"]
  /\ UNCHANGED <<worker, store, serverVars, run, lost, history, notified>>

\* select returns because a connection can be read; its notifications are
\* dropped.
Wake(w) ==
  /\ at[w] = "waiting" /\ notified[w] # {}
  /\ at' = [at EXCEPT ![w] = "polling"]
  /\ notified' = [notified EXCEPT ![w] = {}]
  /\ UNCHANGED <<worker, store, serverVars, run, lost, history, pos, heard>>

\* Mutant of Timeout: select waits for ever.
NoTimeout(w) == Wake(w)

\* select returns after options.timeout.
Timeout(w) ==
  /\ at[w] = "waiting"
  /\ at' = [at EXCEPT ![w] = "polling"]
  /\ UNCHANGED <<worker, store, serverVars, run, lost, history, pos, heard, notified>>

-----------------------------------------------------------------------------
Work(w) ==
  \/ Miss(w) \/ Listen(w) \/ Wake(w) \/ Timeout(w)
  \/ \E s \in Slots, i \in Ids : Pull(w, s, i)

RunTask(e) == Search(e) \/ Complete(e) \/ GiveUp(e) \/ Reschedule(e)

Request(t) ==
  \/ \E d \in Db : Begin(t, d)
  \/ \E later \in BOOLEAN : Push(t, later)
  \/ Commit(t) \/ Abort(t) \/ Pop(t) \/ End(t)

QueueNext ==
  \/ \E t \in Threads : Request(t) \/ RunTask(t)
  \/ \E s \in Slots : (s \notin lost /\ RunTask(s)) \/ Crash(s)
  \/ \E w \in Pullers : Work(w)
  \/ \E d \in Db, i \in Ids : Tick(d, i)

\* A worker process goes on (its waits have a timeout), a process of the pool
\* ends its task or is killed.  Requests may stop at any time.
QueueFairness ==
  /\ \A w \in Pullers : WF_queueVars(Work(w))
  /\ \A s \in Slots : WF_queueVars(s \notin lost /\ RunTask(s))

QueueSpec == QueueInit /\ [][QueueNext]_queueVars
QueueFairSpec == QueueSpec /\ QueueFairness

-----------------------------------------------------------------------------
(* Properties *)

\* A task takes effect at most once: two processes never run the same one, and
\* a thread never runs again what it or another thread has run (pull, Pop).
AtMostOnce == \A d \in Db, i \in Ids : applied[d][i] <= 1

Holds(t, i) == \E k \in DOMAIN tasks[t] : tasks[t][k] = [id |-> i, rolled |-> FALSE]
Runs(e, d, i) == run[e] # NoRun /\ run[e].db = d /\ run[e].id = i

Remembered(d, i) ==
  \/ <<d, i>> \in failed
  \/ \E e \in Executors : Runs(e, d, i)
  \/ IF worker THEN row[d][i] = "queued" ELSE \E t \in Threads : Holds(t, i)

\* A committed task that is not finished is not forgotten: it waits in the
\* database for a worker or in the list of its thread, or it is being run (or the
\* process that ran it was killed), or the log has a word on it.
NotForgotten ==
  \A d \in Db, i \in Ids : row[d][i] \in {"queued", "dequeued"} => Remembered(d, i)

\* A task that is due ends up pulled, although a NOTIFY sent between the update
\* and the LISTEN of pull is lost: select has a timeout.
EventuallyPulled ==
  \A d \in Db, i \in Ids :
    (worker /\ row[d][i] = "queued" /\ <<d, i>> \in runnable) ~> row[d][i] # "queued"

\* "The task was rollbacked, nothing to do" (worker.py): an id left in
\* transaction.tasks by a rollback names no task.
RolledBackIsNothing == \A e \in Executors : Running(e, "running") => ~run[e].rolled

-----------------------------------------------------------------------------
(* Why AtMostOnce and NotForgotten hold: their inductive strengthenings *)

Stage == {"idle", "open", "tasks"}
Status == {"absent", "queued", "dequeued", "finished"}
Entry == [id : Ids, rolled : BOOLEAN]
RequestOf == [stage : Stage, db : Db, pushed : SUBSET Ids]
Call == [db : Db, id : Ids, rolled : BOOLEAN, stage : {"search", "running"}]

\* The variables have their types.
QueueTypeOK ==
  /\ worker \in BOOLEAN
  /\ row \in [Db -> [Ids -> Status]]
  /\ runnable \subseteq Db \X Ids
  /\ nextid \in [Db -> 1 .. MaxId + 1]
  /\ req \in [Threads -> RequestOf]
  /\ tasks \in [Threads -> Seq(Entry)]
  /\ run \in [Executors -> Call \cup {NoRun}]
  /\ lost \subseteq Slots
  /\ failed \subseteq Db \X Ids
  /\ applied \in [Db -> [Ids -> Nat]]
  /\ at \in [Pullers -> {"polling", "listen", "waiting"}]
  /\ pos \in [Pullers -> 1 .. Len(Dbs)]
  /\ heard \in [Pullers -> SUBSET Db]
  /\ notified \in [Pullers -> SUBSET Db]

\* Only an open request has pushed; what it has pushed is not committed, and no
\* other request has pushed it.
PushedApart ==
  \A t \in Threads :
    /\ req[t].pushed # {} => req[t].stage = "open"
    /\ \A i \in req[t].pushed :
         /\ row[req[t].db][i] = "absent"
         /\ \A u \in Threads \ {t} : req[u].db = req[t].db => i \notin req[u].pushed

\* An id that is to come is not in use.
IdsFresh ==
  \A d \in Db, i \in Ids : i >= nextid[d] =>
    /\ row[d][i] = "absent"
    /\ \A t \in Threads : req[t].db = d => i \notin req[t].pushed

\* Where a rollback gives ids back, those are the last ones, and of one writer.
ReusedLast ==
  Reuse => \A t \in Threads : req[t].pushed # {} =>
    /\ \E i \in Ids : req[t].pushed = i .. nextid[req[t].db] - 1
    /\ \A u \in Threads \ {t} : req[u].db = req[t].db => req[u].pushed = {}

\* A thread runs tasks at the end of its request, and what is run was found; with
\* worker the processes of the pools run tasks, without it the threads.
RunsInTurn ==
  /\ \A t \in Threads : run[t] # NoRun => req[t].stage = "tasks"
  /\ \A e \in Executors : Running(e, "running") => row[run[e].db][run[e].id] # "absent"
  /\ worker => \A t \in Threads : tasks[t] = <<>> /\ run[t] = NoRun
  /\ ~worker => /\ \A s \in Slots : run[s] = NoRun
                /\ \A d \in Db, i \in Ids : row[d][i] # "dequeued"

QueueInv == QueueTypeOK /\ PushedApart /\ IdsFresh /\ ReusedLast /\ RunsInTurn

\* transaction.tasks has no database: without worker, there is to be one.
OneQueue == worker \/ \A d, e \in Db : d = e

\* What has run is finished; nothing is run twice at a time, nor run again.
RunOnce ==
  \A e \in Executors : run[e] # NoRun =>
    LET d == run[e].db
        i == run[e].id
    IN  /\ IF worker THEN row[d][i] = "dequeued"
                     ELSE row[d][i] # "finished" /\ i < nextid[d]
        /\ \A f \in Executors \ {e} : ~Runs(f, d, i)
\* A task is in the list of one thread, once, and neither run nor finished.
Listed(i) == \E t \in Threads : \E k \in DOMAIN tasks[t] : tasks[t][k].id = i
Waits(d, i) ==
  i < nextid[d] /\ row[d][i] # "finished" /\ \A e \in Executors : ~Runs(e, d, i)
HeldOnce ==
  /\ \A d \in Db, i \in Ids : Listed(i) => Waits(d, i)
  /\ \A t, u \in Threads : \A k \in DOMAIN tasks[t], l \in DOMAIN tasks[u] :
       tasks[t][k].id = tasks[u][l].id => t = u /\ k = l
AppliedFinished ==
  \A d \in Db, i \in Ids : applied[d][i] = IF row[d][i] = "finished" THEN 1 ELSE 0
OnceInv ==
  QueueInv /\ OneQueue /\ (worker \/ ~Reuse) /\ RunOnce /\ HeldOnce /\ AppliedFinished

\* Without worker, what an open request has pushed is the end of the list of its
\* thread, and is not rolled back.
HeldLast(t) ==
  /\ \A i \in req[t].pushed : Holds(t, i)
  /\ \A k \in DOMAIN tasks[t] :
       k > Len(tasks[t]) - Cardinality(req[t].pushed) => tasks[t][k].id \in req[t].pushed
PushedHeld == ~worker => \A t \in Threads : HeldLast(t)
KeptInv == QueueInv /\ OneQueue /\ PushedHeld /\ NotForgotten
============================================================================
