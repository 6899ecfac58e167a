------------------------------- MODULE Trigger -------------------------------
(* A trigger of ir.trigger on the writes of a model, or on time: transactions  *)
(* that write the records queue its action, and workers run it as long as the  *)
(* limit and the delay of the trigger allow (ir/trigger.py, with the calls of  *)
(* model/modelstorage.py and model/modelsql.py).                               *)
EXTENDS Cron, FiniteSets
CONSTANTS
  Rec,
  Worker,       \* what runs at most one task at a time: threads of workers, and
                \* crons that somebody runs by hand
  Settings,     \* the triggers to look at: on_time (instead of on_write),
                \* limit_number and minimum_time_delay, where 0 is none
  MaxTime,      \* bound of the clock
  MaxEdits      \* bound: transactions that write
ASSUME TriggerAssumption ==
  /\ IsFiniteSet(Worker) /\ Worker # {}
  /\ Settings \subseteq [on_time : BOOLEAN, limit : Nat, delay : Nat]
VARIABLES
  trigger,      \* the trigger: one of Settings
  cond,         \* record -> the condition of the trigger is true
  edit,         \* the transaction that writes: [on, cond, done, queued]
  edits,        \* transactions that have written
  tasks,        \* ids of the tasks in the queue
  job,          \* worker -> the task it runs, with the snapshot it has
  log,          \* record -> create_date of its ir.trigger.log, in the order of
                \* the commits
  calls,        \* record -> times of the calls of the action function
  time
triggerVars == <<trigger, cond, edit, edits, tasks, job, log, calls, time>>

NoEdit == [on |-> FALSE]
NoJob == [on |-> FALSE]
TriggerInit ==
  /\ trigger \in Settings
  /\ cond \in [Rec -> BOOLEAN]
  /\ edit = NoEdit /\ edits = 0 /\ tasks = {}
  /\ job = [w \in Worker |-> NoJob]
  /\ log = [r \in Rec |-> <<>>] /\ calls = log /\ time = 0

BeginEdit ==
  /\ ~trigger.on_time /\ ~edit.on /\ edits < MaxEdits /\ edits' = edits + 1
  /\ edit' = [on |-> TRUE, cond |-> cond, done |-> {}, queued |-> {}]
  /\ UNCHANGED <<cond, tasks, job, log, calls, time>>
\* ModelSQL.write: trigger_write_get_eligibles, the update, trigger_write, which
\* queues a record once in a transaction.
Eligible(S) == {r \in S : ~edit.cond[r]}
Queued(S, after) == {r \in S : after[r]} \ edit.done
WriteRecords(S, to) ==
  LET after == [r \in Rec |-> IF r \in S THEN to ELSE edit.cond[r]]
      ids == Queued(Eligible(S), after)
  IN /\ edit.on /\ S # {}
     /\ edit' = [edit EXCEPT !.cond = after, !.done = @ \cup ids,
                             !.queued = @ \cup ({ids} \ {{}})]
     /\ UNCHANGED <<cond, edits, tasks, job, log, calls, time>>
CommitEdit ==
  /\ edit.on /\ edit' = NoEdit
  /\ cond' = edit.cond
  /\ tasks' = tasks \cup {[ids |-> ids, edit |-> edits] : ids \in edit.queued}
  /\ UNCHANGED <<edits, job, log, calls, time>>
RollbackEdit ==
  /\ edit.on /\ edit' = NoEdit
  /\ UNCHANGED <<cond, edits, tasks, job, log, calls, time>>

Started(w, task) == job' = [job EXCEPT ![w] =
  [on |-> TRUE, task |-> task, cond |-> cond, log |-> log, now |-> time]]
StartJob(w, task) ==
  /\ ~job[w].on /\ Started(w, task)
  /\ tasks' = tasks \ {task}
  /\ UNCHANGED <<cond, edit, edits, log, calls, time>>
\* trigger_time, called by a cron, with all the records.
StartTime(w) ==
  /\ trigger.on_time /\ ~job[w].on /\ Started(w, [ids |-> Rec, edit |-> 0])
  /\ UNCHANGED <<cond, edit, edits, tasks, log, calls, time>>
\* The filters of trigger_action, by the log that its transaction sees: the number
\* of its rows, and the last of their dates.
UpToLimit(j) == {r \in Rec : trigger.limit > 0 => Len(j.log[r]) <= trigger.limit}
UnderLimit(j) == {r \in Rec : trigger.limit > 0 => Len(j.log[r]) < trigger.limit}
Delayed(j) == {r \in Rec : trigger.delay > 0 =>
                 \A i \in 1..Len(j.log[r]) : j.now - j.log[r][i] >= trigger.delay}
Selected(j) == {r \in j.task.ids : j.cond[r]} \cap UnderLimit(j) \cap Delayed(j)
Logged(f, ids, now) == [r \in Rec |-> IF r \in ids THEN Append(f[r], now) ELSE f[r]]
\* trigger_action and the commit of the task.
Finish(w) ==
  LET j == job[w]
  IN /\ j.on
     /\ calls' = Logged(calls, Selected(j), j.now)
     /\ log' = IF trigger.limit > 0 \/ trigger.delay > 0 THEN Logged(log, Selected(j), j.now) ELSE log
     /\ job' = [job EXCEPT ![w] = NoJob]
     /\ UNCHANGED <<cond, edit, edits, tasks, time>>
\* The task fails and is tried again, by run_task or by a later worker.
RetryJob(w) ==
  /\ job[w].on /\ Started(w, job[w].task)
  /\ UNCHANGED <<cond, edit, edits, tasks, log, calls, time>>
\* The values that the condition depends on also change with the time.
TriggerTick ==
  /\ time < MaxTime /\ time' = time + 1
  /\ IF trigger.on_time THEN cond' \in [Rec -> BOOLEAN] ELSE UNCHANGED cond
  /\ UNCHANGED <<edit, edits, tasks, job, log, calls>>

TriggerNext == UNCHANGED trigger /\
  \/ BeginEdit \/ CommitEdit \/ RollbackEdit \/ TriggerTick
  \/ \E S \in SUBSET Rec, to \in BOOLEAN : WriteRecords(S, to)
  \/ \E w \in Worker :
       \/ \E task \in tasks : StartJob(w, task)
       \/ StartTime(w) \/ Finish(w) \/ RetryJob(w)
TriggerSpec == TriggerInit /\ [][TriggerNext]_triggerVars

(* -------------------------------- properties ------------------------------- *)
\* What the log is compared with may be older than what the other workers do
\* meanwhile: each of them may pass the filters once more.
Others == Cardinality(Worker) - 1
\* The action function is called for a record no more often than limit_number, but
\* for the tasks that had begun before the limit was reached.
LimitRespected == \A r \in Rec : trigger.limit > 0 => Len(calls[r]) <= trigger.limit + Others
\* After a call that is committed, others that come before minimum_time_delay has
\* passed are of tasks that had begun before that commit.
TooSoon(r, i) ==
  {k \in (i + 1)..Len(calls[r]) : calls[r][k] - calls[r][i] < trigger.delay}
DelayRespected == \A r \in Rec : trigger.delay > 0 =>
  \A i \in 1..Len(calls[r]) : Cardinality(TooSoon(r, i)) <= Others
TriggerLimits == LimitRespected /\ DelayRespected
\* What the help of limit_number says, for any number of workers: "Limit the number
\* of call to "Action Function" by records" (ir/trigger.py).
CallsLimited == \A r \in Rec : trigger.limit > 0 => Len(calls[r]) <= trigger.limit
\* Actions and crons are called when they should.
CallsOnTime == TriggerLimits /\ CronOnce
==============================================================================
