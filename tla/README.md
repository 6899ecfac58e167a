# A formal model of trytond

TLA+ specifications of the server of Tryton (`src/trytond`), model-checked with
TLC and, in part, proved with TLAPS. Paths below are relative to
`src/trytond/` unless they start with `src/`.

The project follows one principle: an action is a whole handler of the code, or
the part of it that runs without another thread, process or machine being able
to interfere. Data are reduced to what the properties tell apart.

Contents: [the system](#1-the-system), [the modules](#2-the-modules),
[the runs](#3-the-runs), [fairness](#4-fairness),
[the proofs](#5-the-proofs), [assumptions](#6-assumptions),
[findings](#7-findings), [what is not modelled](#8-what-is-not-modelled),
[plan](#9-plan).

## 1. The system

trytond is an application server. A request of a client (or a line of `cron`,
or a task taken by a worker) runs a method of a model inside a *transaction*: one
connection to the database and, around it, what the server itself has to keep
consistent with the database - caches, mails to send, tasks to run. Several
threads serve requests in one process, and several processes (servers, workers,
cron) share a database. PostgreSQL is the main back-end; SQLite serves tests and
single-user use.

### Components

| Component | State it keeps | Operations | What makes it correct |
|---|---|---|---|
| **Transaction** (`transaction.py`) | per thread: the stack of transactions, the connection, `started_at`, the joined data managers, the list of tasks | `start`, `stop`, `commit`, `rollback`, `join`, `new_transaction`, `set_context` | what is committed is complete; nothing of a failed attempt survives; the stack is balanced |
| **Cache** (`cache.py`) | per process and database: a dictionary for each cache, `_transaction_lower`, the listener; per transaction: `_reset`, a private dictionary; in the database: `ir_cache` | `get`, `set`, `clear`, `sync`, `commit`, `rollback`, `_listen` | no uncommitted value is shared; a stale one is shared only while its invalidation is on its way |
| **Mail data manager** (`sendmail.py`) | a queue of mails, a connection to the server | `put`, `tpc_begin`, `tpc_vote`, `tpc_finish`, `tpc_abort` | a mail leaves once, and only for writes that are committed |
| **Request dispatcher** (`protocols/dispatcher.py`, `protocols/wrappers.py`) | the retry count | run the method, commit, retry after `DatabaseOperationalError`, run the tasks | a request is applied at most once; an answer says what happened |
| **Task queue and worker** (`ir/queue_.py`, `worker.py`) | `ir_queue`; the pool of processes | `push`, `pull`, `run_task`, `work` | a task runs at most once, not too early, and is not forgotten |
| **Bus** (`bus.py`) | per database: the recent messages, an event, a listener thread | `subscribe`, `publish`, `get_next`, `_listen` | a subscriber gets every message, in order, while it is kept |
| **Pool** (`pool.py`) | per database: the classes, `_locks`, `test`; a lock | `start`, `init`, `get`, `refresh`, `stop` | no thread sees a pool that is half initialised |
| **Modules** (`modules/__init__.py`, `ir/module.py`) | `ir_module` and its dependencies, the graph of modules | `activate`, `upgrade`, `deactivate` and their cancellations, `load_modules` | a module is active only with what it depends on |
| **Cron** (`ir/cron.py`, `cron.py`) | `next_call` of each job | `run` | each job runs once when due; one that fails is reported and does not stop the others |
| **Triggers** (`ir/trigger.py`) | `ir_trigger_log` | `queue_trigger_action`, `trigger_action` | limits on number and delay are respected |
| **Sequences** (`ir/sequence.py`) | the number, or a database sequence | `get_id`, `update_sql_sequence` | no number twice; strict ones without a gap |
| **Sessions, users** (`ir/session.py`, `security.py`, `res/user.py`) | sessions, their time stamps, login attempts | `new`, `check`, `check_timeout`, `reset`, `add`, `remove` | a session ends by its age or its idle time; a reset is not lost |
| **ModelSQL** (`model/modelsql.py`) | the tables, history, MPTT bounds, paths | `create`, `write`, `delete`, `_update_mptt` | concurrent writes are detected; the tree bounds describe the tree |
| **ModelStorage** (`model/modelstorage.py`) | cached instances and records | `save`, `_validate`, `export_data`, `import_data` | instances are not older than their transaction; an import reads what an export wrote |
| **Tree, Workflow** (`model/tree.py`, `model/workflow.py`) | - | `check_recursion`, `transition` | no cycle; only declared transitions |
| **Wizard** (`wizard/wizard.py`) | a session for each execution | `create`, `execute`, `delete` | requests on one session are as if one after the other |
| **Domain inversion, PYSON** (`tools/domain_inversion.py`, `pyson.py`) | - | pure functions | the inversion keeps the meaning of a domain; a statement has a value of its type |
| **Access rules** (`ir/rule.py`, `ir/model.py`) | rules, button rules and clicks, cached | domain of a user, `get_access`, `register`, `reset` | combination of global and group rules; a button waits for its clicks |
| **Model fields** (`model/fields/`) | - | `convert_domain`, `get`, `set` of relations | a search and a read agree with the tables |
| **Meta-data and views** (`model/modelview.py`, `ir/ui/view.py`, `ir/action.py`) | views, actions and their caches | `fields_view_get`, `on_change`, `button`, `get_keyword` | what is shown is what there is, without what may not be read |
| **Data import** (`convert.py`, `ir/translation.py`) | `ir.model.data`, `ir.translation` | `import_record`, `set_view`, `set_report`, `translation_import` | changes of users and translations survive updates |
| **Back-ends** (`backend/`) | pools of connections, table handlers | `get_connection`, `put_connection`, `add_column`, `table_rename` | values survive an upgrade |
| Reports, RPC, WSGI, configuration | - | conversions | - |

### Interactions

* `Transaction.start` gets a connection from the back-end, reads `started_at` and
  calls `Cache.sync`. `commit` is `tpc_begin`, `commit` and `tpc_vote` of each
  data manager, `Cache.commit`, `connection.commit`, then `tpc_finish` of each;
  any failure before `connection.commit` returns is a rollback, one after it is
  a line in the log. `rollback` calls `tpc_abort`, `Cache.rollback` and
  `connection.rollback`. `stop` is a commit or a rollback, and the end.
* A model writes its table and calls `clear` on the caches fed by it.
  `Cache.commit` publishes the cleared names: with channels by a `NOTIFY` that
  is part of the database transaction, received by the listener thread of every
  process; without them by stamping rows of `ir_cache` on another, autocommitting,
  connection, which the other processes compare at the start of a transaction
  every `clean_timeout` seconds.
* A method calls `sendmail_transactional`, which joins an `SMTPDataManager`, and
  `Queue.push`, which creates a row and either notifies the workers or adds the
  row's id to the thread's list.
* The dispatcher commits explicitly, and the exit of the `with` statement
  commits again; then the thread runs the tasks in its list.

### Hard behaviours

* Threads and processes interleave between any two statements that touch the
  database, and threads of a process between any two bytecodes.
* A transaction works on a snapshot: what it knows is old as soon as another one
  commits, and it may write it into state shared by all threads.
* Notifications are lost while nobody listens, and listeners die.
* Every request may be run several times, and commits at least twice.
* Each step of the two-phase commit may fail, on its own machine.
* The list of tasks belongs to the thread, not to the transaction nor to the
  database.

Each of them is listed at its line in `PROJECT.json` under `hazards`, with the
properties that would catch it going wrong.

## 2. The modules

| Module | What it is |
|---|---|
| `MemoryCache` | the cache, its invalidation by channel and by table, and the transactions that drive it |
| `CoherentCache` | what the cache promises: the abstract specification `MemoryCache` implements |
| `MemoryCacheProofs` | theorems about `MemoryCache` |
| `TransactionCommit` | one request: retries, two-phase commit, mails |
| `TransactionCommitProofs` | theorems about `TransactionCommit` |
| `TaskQueue`, `TaskQueueProofs` | requests that push tasks, the loop that runs them, the worker; theorems about them |
| `TransactionStack`, `TransactionStackProofs` | the stack of transactions of a thread, its `with` blocks, and the pool of connections; the theorem about them |
| `PoolInit`, `PoolInitProofs` | the registry and the loading of the classes of a database, its refreshing; theorems about it |
| `Bus` | messages between a server and its clients |
| `Cron`, `Trigger` | scheduled jobs; actions of triggers |
| `Security` | sessions and their time-outs; login attempts |
| `ServicesProofs` | theorems about `Security`, `Cron`, `Trigger` and `Bus` |
| `Modules` | the states of modules, their buttons and loading |
| `Access` | the cached rights of a user |
| `Records`, `RecordsProofs` | a table with its history and optimistic locking; theorems about it |
| `TreeModel` | trees by parent, nested set and path |
| `Deletion` | the references to deleted records |
| `InstanceCache` | the caches of the instances of a model |
| `InstanceSave` | the saving of instances with their one2many and many2many |
| `Sequence` | the numbers of sequences |
| `StorageProofs` | theorems about `InstanceCache`, `Sequence`, `Validation` and `DataImport` |
| `Translation` | translated fields |
| `Validation` | the domain of a relation field |
| `DomainInversion` | domains as an algebra |
| `DataImport` | the records that modules define in XML |
| `Schema` | the table of a model through versions of its module, on both back-ends |
| `Pyson` | PYSON statements, their types and values |
| `OnChange` | a form, the methods `on_change` and the difference that is sent |
| `Buttons` | a button with rules, clicks, resets and a workflow transition |
| `DomainSearch` | the searches over relations, with joins, subqueries and unions |
| `Reading` | `read` with related fields, getters and the cache of the transaction |
| `Views` | inherited views without what a user may not read, and their caches |
| `Actions` | actions, their keywords, ids and the caches of toolbars |
| `DataExport` | the lines of a file, exported and imported |
| `Terms` | the terms of programs and their translations |
| `Wizards` | the session of a wizard under concurrent requests |
| `MCMemoryCache` | constants for TLC |
| `MCRequests` | `TransactionCommit` and `TaskQueue` side by side |
| `MCRecords`, `MCServices`, `MCModels` | the modules about records, about services, and about what a model defines, side by side |

The modules of `MCRecords` do not meet in the code either: each is about another part of
`ModelStorage` and `ModelSQL`. To check them in one run each component has its *area* of the
state space: the initial state chooses `area`, and only the component of that area moves, while
the others stay in an initial state. So the state space is the sum, not the product, of theirs.
`MCModels`, `MCServices` and `MCRequests` do the same. `MCRequests` extends `TransactionCommit`
and `TaskQueue`, `MCRecords` extends `Records`, `InstanceCache`, `Sequence`, `Validation` and
`DataImport`, and `MCServices` extends `PoolInit`, `TransactionStack`, `Security`, `Trigger`
(with `Cron`) and `Bus`: the theorems about these are about the very definitions that the runs
check, with the constants of the `.cfg` files. They instantiate the others, with values for
their constants.

Where a component has several properties, the run states them as one, since they are
about the same steps: `CallsOnTime` (limits of triggers, crons once), `LoginsGuarded`
(sessions, attempts), `NothingStale` (cached rights, the caches without channels),
`StackKept` (`ConnectionsKept`, `CurrentRestored`), `ModulesConsistent`,
`ExpressionsSound` (domains, PYSON), `ScreenAgrees` (views, actions), `SearchAgrees`
(searches, reads).

### MemoryCache

*Values.* What a query returns is the set of writes visible to it; a newer value
is a superset. One key stands for all the keys of a cache. `committed[n]` is the
database, `snap[t]` the snapshot a transaction got at its first query
(REPEATABLE READ), `own[t]` its uncommitted writes.

*Time.* The code compares three clock readings: `started_at` of a transaction
with `_transaction_lower` of a cache, and the timestamp of an `ir_cache` row with
`_timestamp` of a process. The model keeps the results: `behind[t]` is the set of
caches with `started_at < _transaction_lower`, `invalid[p]` (table mode) the set
of caches whose row is newer. Moving `_transaction_lower` to now puts the cache in
`behind` of every started transaction of the process; reading `started_at` again
empties it for one.

| TLA+ | code |
|---|---|
| `reset`, `private` | `_reset`, `_transaction_cache` (both keyed by the transaction) |
| `shared`, `behind` | `_database_cache`, `started_at` against `_transaction_lower` |
| `listener`, `invalid`, `clearing` | `_listener` and its readiness event; notifications not yet applied; where the thread is in `_clear` |
| `due` | `clean_timeout` seconds since `_clean_last` |
| `floor` | history, for the properties |
| `Load`, `Choose`, `Store` | `get` that misses, the query, and the two halves of `set`: the comparison in `_get_cache`, the store into the dictionary |
| `Evict` | the size limit of `LRUDict`, the `duration` |
| `Write` | a model writes and calls `clear` |
| `Start` | `Transaction.start` and `sync` |
| `CacheCommit` | `commit` up to `connection.commit`, with `Cache.commit`: `Notify` or `Stamp` |
| `DataCommit`, `Rollback`, `Stop` | the ends of `Transaction.commit`, `rollback`, `stop` |
| `ListenerReady`, `ClearDict`, `ClearLower`, `ListenerCrash` | `_listen`, with the two assignments of `_clear` |

The constant `Channel` chooses between the two modes. `Preemptive` says whether a
thread may lose the interpreter lock inside `set` and `_clear`: with `FALSE`
these two calls exclude each other in a process, though everything else
interleaves. Both are values of the same specification, so each theorem says
which it needs.

`CoherentCache` has no transactions, clocks or listeners. A process has a *view*
and a set of *owed* clearings; a commit puts every process in debt for what it
changed, a view is filled with the committed value (or, if a clearing is owed,
with any older one), and a debt is settled by an empty view. The refinement maps
`shared` to `view` and `Owed` to `owed`, where `Owed(p, n)` says that the
invalidation is in the connection, being applied, or implied by a listener that is
not running yet.

### TransactionCommit

`stage` is where the thread is: `idle`, `method`, `voting`, `finishing`,
`finished`; `purpose` is who called `commit`: the dispatcher (`request`), the exit
of `with` (`exit`), or the exit taken by `continue` after a failed attempt
(`retry`). `joined` and `next` are the data managers and the position in the loop
over them; `queue` and `server` are `SMTPDataManager.queue` and `_server`.

`StartAttempt`, `Put` and `Return` are the method; `RetryAttempt`, `MethodFails`,
`CommitAgain`, `Answer`, `Again` the control of `_dispatch`; `Vote`,
`ConnectionCommit`, `ConnectionCommitFails`, `Pass`, `Quit`, `Disconnect`, `StillDead`,
`FinishedAll` are `Transaction.commit` with the methods of `SMTPDataManager`
inlined. `Undone` is `Transaction.rollback`. A mail server may refuse the
connection, refuse the login (which raises for every manager), accept any subset
of the mails, or be lost while they are sent, whether or not it had accepted
them.

### TaskQueue

`row`, `runnable` and `nextid` are `ir_queue` (its committed rows, those whose
`scheduled_at` has passed, the next id); `req` and `tasks` are the request of each
thread and its list; `run` is what `run_task` does in a thread or in a process of
a pool; `at`, `pos`, `heard` and `notified` are the loop of `work` and the
connections it selects on.

`Begin`, `Push`, `Commit`, `Abort`, `Pop`, `End` are a request and the loop after
it; `Search`, `Complete`, `GiveUp`, `Reschedule` are `run_task`; `Pull`, `Miss`,
`Listen`, `Wake`, `Timeout` are `work` and `pull`; `Crash` kills a process of the
pool. `Reuse` is SQLite, where a rollback gives ids back and writers exclude each
other. An id in `tasks` carries a history flag telling whether its push was rolled
back; no guard reads it.

### TransactionStack

`stack` is `_Local.transactions` of one thread, `tx` the attributes of each transaction
(`user` and `context` are one value), `blocks` the `with` statements the thread is
in: of a transaction, of a context, or of `set_current_transaction`, which pushes a
transaction a second time. `at` says whether the thread runs, has an exception on
its way, or is inside `start` or `stop`. `conns` counts the connections that
the pool has given out, `others` of them to other threads.

`StartTransaction`, `NewTransaction`, `WaitConnection`, `Connect`, `ConnectFails` and `Sync` are `start`
(with the retries of `get_connection`); `Exit`, `Stamp` and `Stop` are `__exit__`,
where `Cache.commit` may need a second connection; `SetContext`, `ExitContext`,
`SetCurrent` the other blocks; `Raise` and `Catch` exceptions anywhere; `Elsewhere` the
other threads. `set_session` on a connection that the pool has given is taken not to
fail.

`ConnectionsKept`: no connection is lost or given back twice. `CurrentRestored`: in
every block `Transaction()` is the transaction of that block, with the context of the
innermost one. It has an exception: a `new_transaction` that cannot start leaves its
transaction on the stack, since `start` raises before the `with` statement has entered.
What follows in the thread then works on it; left in a block of `set_context`, it even
gets a context back, so that a later `start` fails at its assertion. `StartsClean`
states that this does not happen; TLC finds that it does, the repository says
nothing about it, and no run claims it.

### PoolInit

`instance`, `modules` and `entry` are `Pool._instances`, `_modules` and `_pool` of
one database in one process; `dbLock` and `clsLock` the two locks of `pool.py`.
A thread goes through `with_pool`: `List` (is the database in `Pool.database_list`),
`GetPool` (`Pool(database_name)`), `Acquire`, `Select`, `Filled` or `LoadFails`
(`init`, from the query of the activated modules to the classes), `Get`.
`Upgrade` and `Updated` are `init` with `update`; `UpgradeElsewhere` another process;
`Notified` and `Compare` the listener of `cache.py` with `refresh_pool` and
`refresh`; `StopInstance` and `StopEntry` the two deletions of `stop`. What `init`
fills from the modules is one value, the version.

`PoolComplete`: no thread fails to get a class, unless its pool was stopped or reset, by
an upgrade or by the listener, after it had looked (`cut`), and no loading has ended since:
`with_pool` looks once and `stop` waits for nobody, so such a thread gets a `KeyError`.
`PoolRefreshed`: when the listener has handled what it was told and no thread loads, the
classes are those of the last upgrade, here or elsewhere, if the registered instance has
once been loaded. If it has not, `refresh` has no modules to compare and stops nothing,
and the classes may stay old: `RefreshApplied`, without that condition, is violated by TLC
and no run claims it.

### Bus

`busEntry` and `busListener` are the entry of `_queues` with its listener thread;
`queue` the lists of messages, one for each listener that was started; `appended`
and `skipped` are history. `Publish`, `Listen`, `Receive` (which pops the *last*
notification first, as `bus.py:168` does), `Age` (messages pass `cache_timeout`),
`Break` (the listener dies and deletes the entry); `Subscribe`, `Walk`, `DeleteOld`,
`Wake`, `PollEnds` are `subscribe` and `get_next`, with a step for each message
looked at and one for the unlocked deletion of old messages. `raced` notes that a
prefix was deleted under another thread, where `NoMessageSkipped` has its exception:
the indexes of that thread are then off.

### Cron and Trigger

*Cron.* `run[p]` is one run of `ir.cron` in a process: the records to do, the count
of attempts, what its outer transaction will save. `Succeed`, `TryAgain`, `Fail`,
`End` follow `run`: each job has a transaction of its own, which commits before
`next_call` is committed by the outer one. `Crash` loses the latter. The clock has
`Repeated` hours, at the end of daylight saving time: `compute_next_call` works on
the clock of the server, so a date may be computed that is not later (the exception
in `CronOnce`).

*Trigger.* `BeginEdit`, `WriteRecords`, `CommitEdit`, `RollbackEdit` are a transaction that
writes: `trigger_write_get_eligibles`, the update and `queue_trigger_action`. `StartJob` and
`Finish` are `trigger_action` in a worker, which reads the log in its own snapshot
and calls the action and logs in one transaction; `RetryJob` is a run that fails;
`StartTime` is `trigger_time`. Workers run at the same time, on snapshots, and nothing locks
the log: what a worker counts may be older than what the others have done since. So
`LimitRespected` and `DelayRespected` allow one call more for each other worker, and no
more, and `CallsLimited`, which does not, fails with two workers (finding 7).

### Security

*Session.* `Check`, `CheckTimeout` and `ResetSearch`, `ResetWrite`, `Forget` are the
methods of `ir.session` as `security.py` calls them; `lastReset` is
`_session_reset_cache`, one for each process. `Session.write` sets the cache within
the transaction, without clearing it elsewhere, so another process works with an
older time stamp: `KeptFresh` bounds by how much. `broken` counts requests that failed
within `reset`, after their own commit.

*Login.* `StartLogin` and `AnswerLogin` are `get_login`, from the snapshot that counts the
attempts to the commit that adds one or clears them, for the devices with a cookie
and for everything else together. `AttemptsLimited` bounds the refused passwords by
`max_attempt + 1`, and one for each other login answered at the same time: the code
counts before it adds, and compares with `>`. `src/doc/topics/configuration.rst:498-501` says
"The maximum authentication attempt before the server answers unconditionally Too Many
Requests": read so, one attempt too many is let in even with a single handler.
`MaximumRespected` states that reading, TLC finds it violated in five states, and no run claims
it.

### Modules

`state` is `ir_module.state`; `load` is one call of `load_modules`: what it has still
to do, whether the graph is for an update, what it has read. `Activate`,
`ActivateCancel`, `Upgrade`, `UpgradeCancel`, `Deactivate`, `DeactivateCancel` are the
buttons with their dependency checks; `StartLoad`, `LoadModule`, `EndLoad` the loop
of `_load_modules`, with its commit for each module; `Crash` loses what is not
committed. `mixed` notes that removals were loaded together with activations:
`_load_modules` then deactivates modules without looking at what it has just
activated, which is an exception in both properties.

### Access

`member`, `parent`, `active`, `kind`, `perm`, `rules`, `access` and `fieldAccess` are the tables
(users' groups, `res.group`, `ir.rule.group`, `ir.rule`, `ir.model.access`,
`ir.model.field.access`); `groups`, `domains`, `granted` and `fieldGranted` the caches of
`res.user`, `ir.rule`, `ir.model.access` and `ir.model.field.access`, of which the second is
filled from the first when a rule asks for the groups of the user. Each `Write...` action is
the write of a model with the caches it clears. `Ask` is a create, write, read or
delete by the user, through the caches, in the order of the code: the access to the model, to
the field, then the rules, with the check before and after a write that
`ModelSQL` makes. `RightsEnforced` compares each answer with the tables of that
moment. As the code has it: a model without any access record is open to all; a
group that is not active counts in `ir.rule` (`Rule` does not read `active`) and not
in `ir.model.access`.

The property follows `Rule.domain_get`: a record has to pass *all* the global groups, and one of
the others. `src/doc/topics/access_rights.rst:95-104` lists a matching global group as one of
the conditions of an "or", of which each would be enough, while its section on rule groups calls them
"to always enforce". TLC finds the first reading violated (`GlobalGroupGrants`); the code
agrees with the second, so no run claims the first.

Left out: domains that name other fields of the user than the one a write clears the
caches for, `check_relation`, several fields of a model, buttons.

### Records

Clients with transactions on a table with history. `table[r]` has the value, the `write_date`
and, as history, which version it is. `Begin` takes a snapshot and, possibly, the timestamps a
client sends with its request; `Create`, `Write`, `Delete`, `Restore` (`restore_history`, and
`restore_history_before`) change it and add rows to the history; `Commit` and `Refuse` end it. A
restoration of a record that is not there to a state in which it was deleted touches no row of
the table: it only adds to the history, and the back-end refuses neither it nor what another
does at the same time. A timestamp is popped at its first check (`modelsql.py:717`).
`HistoryFaithful` compares a read at a date with the commits up to it (`timeline`), and holds
since a read takes, among the rows of the last date, the last one made (`LastRow`). It excepts
the records that two transactions versioned without seeing each other (`overlapped`), which only
such a restoration can do. For those not even the present is sure: `HistoryCurrent`, that the
history says of a record what the table holds, is violated by TLC in seven states (one client
restores a deleted record to a date at which it was there, another to one at which it was not),
and no run claims it.

### TreeModel

The table of a model with the `tree` mixin whose parent field has `left`, `right` and
`path`. `Create`, `Move`, `Unlink` are whole calls, with `UpdatesMptt` (for each record
`_update_tree`, or one rebuilding when many records are written), `UpdatePath`
(level by level) and `CheckRecursion`. `ChildOfAgrees` compares what the three
expressions of `child_of` and `parent_of` in `many2one.py` select. The walk of
`check_recursion` may go around a cycle for ever when the cycle is among the ancestors
of what is written: `RecursionAnswered` states that it does not, TLC finds the
write, and no run claims it (it needs two writes of one transaction, the first of
which is not checked); it is a hazard with its line.

### Deletion

Records of two models that refer to one another, with `CASCADE`, `SET NULL` and
`RESTRICT` in every combination. `Request` is one call of `ModelSQL.delete` with the
nested calls it makes for the references (`foreign_keys_tocheck`, ...`todel`,
...`toupdate`), the guard against cycles `transaction.delete`, the foreign keys of the
tables and the marks in the history. `DeletesExactly` compares the result with the
closure.

### InstanceCache

`cached` is `Transaction.cache` for one model; `lists[b]` the instances that one
`browse` has made: their ids, `_local_cache` and the `counter` of the transaction at
that time. `Get` is `__getattr__` (local, then shared, then a read of up to
`ReadSize` records), `WriteBy` the write that clears the caches of others, `Search`
fills the cache with what the query brings, `Drop` is the size of the cache.

### InstanceSave

Parents whose field holds lines, of a one2many or of a many2many (`many`). `pending` is
`_values` of their instances with `_removed` or `_deleted`; `db` the lines with their
links. `List`, `Drop`, `Take`, `Edit` and `Add` change instances in memory: assign the field,
`One2Many.remove`, `Many2Many.delete`, set a value on a line, add a new one. `Save` is `save`
of one or two instances: `Actions` is `_save_values`, `Set` is `set` of the two fields,
called once by the create of the new parents and once by the write of the others, which
both find what is to be removed before they delete, write and create. A save that
needs a line deleted by somebody else is refused as a whole. `Copy` is `copy`.

`SavedIsShown` compares the database after a save with what the instances had. It
excepts saves of two instances that ask contrary things of a line (`Disputed`).
`NestedSaveFails` is a target whose own save raises inside `_save_values`: the instances
visited before it lose what was pending, as the values are taken before the `try`.
`PendingKept` states that they do not; TLC finds that they do, and no run claims it.

### Sequence

`TakeNumber` is `get_id` of a sequence kept in its row, under the lock `Lock`;
`Nextval` an SQL sequence, which no rollback gives back; `TakeTimestamp` a sequence of
time stamps; `ReadNext` and `Restart` the write of a sequence, which restarts the SQL
sequence from what it read before (`stale` notes that this raced, the exception of
`NumbersOnce`).

### Translation

One field of one record: `column` in the table of the model, `rowOf` the rows of
`ir_translation`, `shown` its cache. `SetIds` and `Translated` are `set_ids`, whose source of a translation
is what the record shows in the main language (its translation, then the column) once
the column is written, and which makes the other languages fuzzy unless the context says
`fuzzy_translation=False`, as a copy does. `Create`, `Write` go through
the field; `WriteTranslation`, `DeleteTranslation` through `ir.translation`. `GetIds`
reads a language and, where it has none, its parents; `Column` is the SQL of
`convert_domain`, which must agree. `unmarked` is history: the languages whose translations
were left as they were by a change of the main one, which the code makes fuzzy only in
`set_ids` and only if the main language has a row.

### Validation

`_validate` for a required relation field with a domain that depends on the record.
`Grouped` decides as the code does between one search for each domain and one for all
of them. In the grouped one, `Finds`, a target that satisfies the domain of one
record passes for another that links it: `ValidatedExactly` is claimed for calls in
which no two records share a target, and `DomainApplied`, without that exception,
fails (finding 5).

### DomainInversion

A domain is a tree of leaves and marks (`AND`, `OR`), as nested lists are.
`EvalDomain`, `Simplify`, `Merge`, `Concat`, `Bool`, `DomainInversion` translate
`tools/domain_inversion.py` for fields without dots. `Invalid` is the use that
`_validate` makes of the inversion, to tell which part of a domain a record breaks.
`merge` and `concat` are claimed for domains without empty ones, as their callers use
them. Left out: `localize_domain`, `unique_value`, references, and the operator `in`,
whose right-hand side is evaluated in an empty environment.

### Pyson

`Around` builds a statement from another: the constructors check the types of what
they are given (`EqualTyped`, `GreaterTyped`, `InTyped`, ...), `ValueIn` is what `PYSONDecoder`
makes of it in a context. `StatementsSound`: a statement that could be made has a
value, of the types it declares. The exceptions are in the definition: what is `None`
in the context (`Len`, `Get` and the differences of dates then fail or give `None`),
parts of a `DateTime` that are statements, and decimals, whose defaults become floats.

### Schema

`db` holds the tables of the model and of its history: columns with type, size, `NOT NULL`
and the rows; `seqs` the sequences; `installed` the version that runs. `Upgrade` is
`__register__` of the next version with what the module does before and after it
(`table_rename`, `column_rename`, `drop_column`): `Register` is that of `ModelSQL`,
`AddColumn`, `AlterType`, `AlterSize`, `NotNullAction`, `ColumnRename` the methods of both
table handlers; SQLite makes a table again (`Recreate`). `ValuesKept`: rows and history
keep the values of the fields they had. A statement that the database refuses ends the
upgrade (`refused`), which is claimed to need one of the named causes (`hazard`). What
TLC showed and no text of the repository speaks of: SQLite renames the history along
with the table it makes again, PostgreSQL does not rename the sequence of the history,
and SQLite may give the id of a deleted record again after a table was made again.

### OnChange

`form` is the record that the client shows, `inst` the instance that the methods work on,
`touched` the fields the client sends. `ChangedValues` is `_changed_values` with its
comparison by field (`Same`) and the lists of lines that are added, updated, removed and
deleted. `FormShowsInstance`: after the answer is applied the form has the values and the lines of
the instance. The order of lines is not compared: an `on_change` that only moves them
is not sent.

### Buttons

`Begin`, `Passing` and `Finish` are `ModelView.button`, with `Registered` and `Test` (the clicks of
`ir.model.button.click` against the cached rules), `Reset` and `Moved`, which is
`Workflow.transition`. Handlers run at the same time on snapshots; a write of a row
that another has changed is refused and tried again. `ClicksDecide`: the action runs when, and
only when, each rule has enough clicks of different users allowed to click since the last reset.
Two clicks at the same time see each only their own: then the action waits for another
click (`overlapped`). And a reset that moves no record conflicts with nothing: a click that
began before it may run the action by clicks that have been reset meanwhile (`idleReset`).

### DomainSearch

`searched` is a domain that grows clause by clause (`Extend`, `Enclose`). `Queries` is
`__search_query`: a query with joins, subqueries for the relations (`Many2One`,
`One2Many`, `Many2Many` translate the `convert_domain` of the fields), or one for each branch of an
`OR` (`Branches`, `Related`), with the clause on active records (`WithActive`) and the rules (`RuleOf`).
`SearchAgrees` compares the ids found with the meaning of the domain, record by record.
Outside of the instance, since the code finds other records there: a domain of several
lists that asks for `active` in one of them only; a dotted clause with `in` as a branch of
a union (it is rewritten without its value); lines without their parent beside a negative
clause; `= None` on a one2many with a filter; a dotted `= None` that is joined where the
target has no field `active`.

### Reading

`relations` is the table, `localCache` the cache of the transaction. `Read` is `read`: the query
when a column is asked (`Queried`, `Missing`), `Selected` which puts columns into the cache,
`Computed` the getters, `AddRelated` the nested reads of "to.x". `ReadAgrees` compares each answer with
the table, at any depth, and every cached value with its record. As the code has it, a
read that asks for no column makes no query, so it answers for a record that is not
there or that the rules hide; a many2many lists what the rules hide, and asking for a
field of it is refused. Left out: the order of lists, history, `_timestamp`.

### Views

`content` holds the changes that the extending views make, `denied`, `locked`, `closed` and
`guarded` the rights, `screenCache` and `extended` the caches of `fields_view_get` and
`view_get`. `Inherit` applies an extension, `Stripped` and `WithoutEmptyPages` remove what may not be
read, `Needed` adds what the rest depends on. An extension whose expression matches several
elements, or that replaces the root, is left out: lxml moves the new elements from one match
to the next. `Views!ScreenAgrees`: a user is shown the view of
this moment, every field he may read and no other. Buttons are excepted, since writes of
their groups and rules clear no view; a field that is only tested by a state is
sent though it may not be read.

### Actions

Threads create actions of a kind (`AdvanceSequence`, `ReadSequence`, `SetSequence`,
`CreateAction`, `InsertRow`, `NumberRow` are the steps of `ActionMixin.create`), on PostgreSQL
with its sequences and unique indexes; `keywords`, `exports` and the groups decide what
`GetKeyword` and `ViewToolbarGet` offer, through their caches. `ActionsAgree`: a row and its
action have one id, no two actions have the same, and what is offered is what there is. Changes
of groups and of model access clear neither cache, and what a user is offered from a cache that
is older than such a change is excepted (`missed`); two creations at the same time may fail,
with a unique violation or a deadlock (`clashed`), and only then.

### DataExport

`Export` writes the lines of the records with their nested lists (`ExportRow`), `Import` reads them
(`ProcessLines`, `Dispatch`), and `Edit` changes the records in between.
`ImportedIsExported`: the import restores what was exported. Outside of the instance: a zero at the head of a
list is exported as an empty cell; a list before another one with lists of its own is
given a line too many; a record without id whose cells are all empty is read into the
one before it. Left out: columns of translations, external ids, references.

### Terms

`program` is what the modules say in English, `terms` the rows of `ir.translation` of that
program, `entries` a file. `Upgrade` registers (`register_fields` and its like, `set_view`, `set_report`
with the similarity of terms), `Clean`, `Update`, `Translate`, `Export`, `Import` are the wizards and
the translator. `TermsAgree`: what is shown is the translation of the present term, or of one that
was taken for it and is marked fuzzy. What TLC showed and no text of the repository speaks of: `Update`
empties the translation of a variant that equals a fuzzy one of its language; with two
English sources of a field each `Update` marks it fuzzy again; `set_view` deletes the
translations of a renamed term that `set_report` keeps.

### Wizards

`session` is the row of `ir.session.wizard` with its `version`; a request takes a snapshot, runs a state
and those that follow (`Run`), writes the session (`Saved`) and is repeated when
another has written it since (`Conflict`, `Retry`). `SessionSerial`: the session and the answers are those
of the requests one after the other, in the order of their commits. `_save` compares a
text with bytes, so it writes always, and requests that only read conflict as well.

### DataImport

One record of a module: `record` in its table, `data` its row of `ir.model.data` with
`values` and `fs_values`. `Update` is the update of the module: `import_record` and
`write_records`, which compare the database, the last XML and the new one;
`RemoveRecord` is `post_import` for a record that is no longer in the XML;
`UserWrite`, `UserDelete` the user's changes with `check_xml_record`; `Sync` the button
of `ir.model.data`.

## 3. The runs

Distinct states are those of TLC with the bounds given.

| Run | Instance | Expected | Shows |
|---|---|---|---|
| `cache_channel` | one process, two threads, one cache, two writes, channels | pass (263 930 states) | the safety properties of the cache, `EventuallyCoherent` and the refinement of `CoherentCache` |
| `cache_race` | as `cache_channel`, preemptive | violation | finding 1 |
| `cache_table_order` | two processes with one thread each, two writes | violation | finding 2 |
| `requests` | see `MCRequests`: a strict and a lenient manager, three mails, two retries; two threads, one worker with two processes of which one may be killed, three ids | pass (189 382 states) | the request is applied at most once, mails leave once and only for what is committed, votes count, and the client gets an answer; `AtMostOnce`, `NotForgotten`, `EventuallyPulled`, with and without worker |
| `commit_error` | the commit of `requests` | violation | finding 3 |
| `queue_leftover` | SQLite, one thread, three ids | violation | finding 4 |
| `records` | see `MCRecords` | pass (406 685 states) | trees, history, timestamps, deletions, caches and saves of instances, sequences, translations, validation and XML data keep what they promise |
| `services` | see `MCServices` | pass (1 427 082 states) | the stack of transactions, the connections, the caches without channels, triggers, crons, sessions, logins, modules, the bus, the pool and access rights keep what they promise |
| `trigger_limit` | two workers, two records, a limit of one | violation | finding 7 |
| `models` | see `MCModels` | pass (389 767 states) | domains, statements, tables through upgrades, searches and reads, views and actions, forms and buttons, files, terms and wizards keep what they promise |
| `domain_shared` | two records, two targets, two kinds | violation | finding 5 |
| `import_update` | one field, two values of the XML | violation | finding 6 |

The type invariants of `MemoryCache` and `TransactionCommit` are not in the runs: they are
proved for every value of the constants (section 5).

Why the bounds are enough to see the interesting cases:

* *Cache.* A stale value needs a reader with an old snapshot and a writer that
  commits meanwhile: two threads. With two writes the reader's value can be
  overtaken twice (a clearing that is applied and one that is not). With
  channels, processes share nothing but `committed` and the notifications, which
  every process receives alike, so one process shows what each sees. Without channels
  `services` has two threads of one process with two writes (a thread behind the
  clearing of another), and two processes with one write (one clears at its own
  commit, the other when it compares the rows). One cache is enough for all the properties, which speak of one
  cache each; what several caches add is `reset` marking all of them private,
  which the proofs cover.
* *Commit.* Two managers show the partial failures (the first finishes, the second
  does not) and the two kinds of strictness; managers are equal when their
  strictness is, so there are no more than two for the default server. Three
  mails allow one in each attempt; two retries allow a failure after a failure.
* *Records.* Four nodes are the least with a subtree that moves beside another; calls
  of two ids reach both ways of updating the nested set. Four dates and six
  changes allow a record to be written, deleted and restored by two clients that
  overlap. Three rows in two models that refer to one another and to themselves have
  every cycle of length one to three. Two ids and a cache of one show eviction; two
  users and four numbers a rollback between two commits; two edits after a value was
  cached need `MaxEdits` of four. Three records with an `IN_MAX` of one take both
  ways of validation. Two parents, three lines and three changes let one save move a line
  from one parent to the other, or remove one, edit one and add one.
* *Services.* Two workers, two records, times up to the delay, a trigger with a limit of
  one and a delay, and one on time with a delay only; two crons, one with a longer
  interval, in two processes, over a repeated hour; a session in two processes with
  the timeout, the interval in which resets are not written and the age all
  different; two handlers of logins with and without a device; three modules of
  which one depends on two; two subscribers of overlapping channels, and one alone
  that lasts longer (of what comes after a race, or a mixed loading of modules, nothing is
  claimed, and it is not explored); two groups, rule groups with and without rules, two changes
  between questions. Blocks nest three deep, so that a transaction is pushed again between
  a new one and a context, over a pool of two connections that another thread can empty.
* *Models.* Domains have up to two parts of up to two leaves over two fields, with a
  comparison that `None` does not satisfy; PYSON statements are built two deep. A table
  goes through five versions of its model with two records and four operations, on both
  back-ends. A form has two tags and two lines, with a spare one. Four users, two of whom count,
  click three times on a button with one change of its rules, and two handlers overlap.
  Searches have three clauses over records with targets, lines (one of them without
  parent) and links; three records that link one another, one hidden by the rules,
  are read three times. Two modules extend a view, whose rights change twice; two
  threads create actions. A file has a list in a list and two lists side by side.
  Two similar terms, a language and its variant see five changes. A wizard has two
  views, a transition and two actions, with two requests and a repetition.
* *Queue.* Three ids allow a task, its rescheduled copy and another task.
  Two threads and two processes compete for them.

`CHECK_DEADLOCK FALSE` in `commit_error`: an answered request stops (`MCRequests` lets it
stutter instead, so that `requests` checks for deadlock). So it is in `records`, `services`,
`trigger_limit`, `models`, `domain_shared` and `import_update`, where
what a bound counts is used up. All other runs check for deadlock.

Each property of a passing run has a mutant in `PROJECT.json`: a plausible bug (a
guard dropped, a reset forgotten, an order swapped) with which TLC finds the
property violated under the same configuration. The mutated operators are next
to the originals, named in a comment.

## 4. Fairness

* `MemoryCache`: weak fairness of `ListenerReady` and `ClearLower`, strong
  fairness of `ClearDict`, weak fairness of `Store`. The listener is a thread with
  nothing to wait for but its connection and the interpreter lock. `ClearDict` is
  disabled while another thread of the process is in the second half of `set`
  (unless `Preemptive`), and threads may enter and leave `set` for ever: the
  interpreter lock is handed over to a thread that asks for it, so the listener
  gets in, which is strong fairness. Nothing is assumed of requests: they may
  stop anywhere, and no fairness prevents the listener from dying
  (`EventuallyCoherent` has that exception in its conclusion).
* `TransactionCommit`: weak fairness of `CommitNext`. The thread of a request waits for
  nothing but answers and timeouts.
* `TaskQueue`: weak fairness of each worker's loop (`select` has a timeout) and of
  each process of a pool that is not killed. Nothing is assumed of requests, nor of
  the passage of `scheduled_at`.

The other modules state safety only: what they model waits for users, clients or
the clock, of which the code assumes nothing.

`Crashes` bounds the killed processes of a pool below its size: with all of them
killed the code never pulls again (`worker.py:47`: a result that never becomes ready), and `EventuallyPulled`
would be false.

## 5. The proofs

The theorems hold for every value of the constants that satisfies
the `...Assumption` of the module, or for every value where it has none: any number
of processes, threads, caches and writes; of managers, mails and retries; of databases,
tasks and workers; of clients, records and values. Each inductive invariant was
checked with TLC on small instances before it was proved.

### MemoryCacheProofs

| Theorem | Statement |
|---|---|
| `TypeCorrect` | `Spec => []TypeOK` |
| `NoDirtySharedHolds` | `Spec => []NoDirtyShared`, in both modes, preemptive or not |
| `CoherentHolds` | `Channel /\ ~Preemptive => (Spec => []Coherent)` |
| `ImplementsPromise` | `Channel /\ ~Preemptive => (Spec => Implements)`: the refinement of `CoherentCache` |
| `ReadYourWritesHolds` | `Spec => []ReadYourWrites`, in both modes, preemptive or not |
| `FloorRespectedHolds` | `~Preemptive => (Spec => []FloorRespected)`, in both modes |

`NoDirtyShared` is not inductive: a value is shared long after it was computed.
`CleanInv` adds that a transaction with writes has reset the caches they belong to
(`OwnIsReset`), that snapshots only hold committed writes, and that a value about to
be stored in the shared dictionary is committed (`PendingVisible`); since
`_get_cache` sends a transaction that has reset anything to its own dictionary,
what `Choose` lets through comes from the snapshot alone.

`Coherent` needs `CoherentInv`: what is about to be committed has been notified in
the same transaction (`OwnIsOutbox`); a snapshot that no clearing has overtaken is
current or its cache is owed (`SnapshotCoherent`), and so is a pending value
(`PendingCoherent`); a cache being cleared stays empty until `_transaction_lower`
has moved (`ClearingEmpty`) - this last part is what fails when threads are
preempted inside `_clear`, as `cache_race` shows. The refinement is proved from
`CoherentInv` and `CleanInv`, one step of the abstract specification, or a
stutter, for each action.

`ReadYourWrites` speaks of what `get` returns, which may have been computed long
before. `ReadInv` says that whatever a transaction keeps in its own dictionary, or is about
to store, contains its own writes (`PrivateOwn`, `PendingOwn`), as `clear` empties
that dictionary; and a transaction with writes does not look into the shared one
(`OwnIsReset`).

`FloorRespected` (no shared value is older than the last clearing of its cache) needs
the two ways in which a value gets there: a snapshot is not older than the last
clearing unless its transaction is `behind` or the clearing is half done
(`SnapshotFloor`), and nor is a pending value (`PendingFloor`). With `Preemptive` it is
false: that is `cache_race`.

### TransactionCommitProofs

| Theorem | Statement |
|---|---|
| `CommitInvHolds` | `CommitSpec => []CommitInv`, the strengthening |
| `CommitTypeCorrect` | `CommitSpec => []CommitTypeOK` |
| `MailAfterCommitHolds`, `SentOnceHolds` | mails leave only for committed attempts, and once |
| `AppliedOnceHolds`, `OkIsCommittedHolds` | one attempt at most is in the database; the one that is answered is |
| `StrictIsConnectedHolds` | the action property `StrictIsConnected` |

`CommitInv` has one part per subject. `StageInv` says what is in the database and
what is still uncommitted at each stage and purpose: it excludes that the commit
after a failed attempt, or the second one of a request, commits anything.
`MailQueueInv` says that a queued mail is in one queue, of a manager that has joined,
was put by this attempt and has not been sent - unless the manager's server is
dead, in which case nothing more can be sent through it. `VoteInv` says that
strict managers before the position of the loop have a server, and that no server
is lost while there is something to commit. `MailAfterCommit` and `SentOnce`
follow because a mail is sent only from a queue, while finishing, with `purpose`
other than `retry`.

### PoolInitProofs

| Theorem | Statement |
|---|---|
| `PoolCompleteHolds` | `Spec => []PoolComplete`, for any number of threads, instances and upgrades: only a stop or a reset after a thread has looked, with no loading ended since, takes its classes away |
| `PoolRefreshedHolds` | `Spec => []PoolRefreshed`, likewise: of states in which the listener has nothing to handle, no thread loads and the registered instance was once loaded (the failing case without the last is `RefreshApplied`) |

`PoolComplete` says of threads what is true only while the locks are held as the code
holds them. `PoolInv` adds the types, `LockInv` (who holds which lock at which place,
and that a loading is the work of its holder) and `LookedInv` (a thread that has
looked up the pool finds it filled, unless it was cut).

`PoolRefreshed` relates the classes to the activated modules through three readings made
at different times: of the instance that loads, of the thread that fills the pool, and of the
listener. `RefreshInv` follows them: the modules of an instance are unknown only while
a thread loads with it (`PartialHeld`), those of the registered instance are neither newer than the
classes nor than what a thread fills (`NotOlder`), and equal what its own thread is to
tell (`TargetTold`); unless the listener is to be told again, what it compares with is
the activated modules (`Compared`).

### TaskQueueProofs

| Theorem | Statement |
|---|---|
| `TypeCorrect` | `QueueSpec => []QueueTypeOK` |
| `TasksAtMostOnce` | `QueueSpec /\ OneQueue /\ (worker \/ ~Reuse) => []AtMostOnce` |
| `TasksNotForgotten` | `QueueSpec /\ OneQueue => []NotForgotten` |

`worker` is chosen initially, as `[queue] worker` is read from the configuration, and never
changes. The hypotheses are those of the code. `OneQueue` is `worker`, or one database:
without a worker `transaction.tasks` keeps ids without their database, so with two of
them a thread could run a task of the wrong one. `~Reuse` excludes SQLite without a worker,
where a rollback gives ids back; finding 4 shows what happens then.

`QueueInv` holds without any of them: what a request has pushed is uncommitted and its
own (`PushedApart`), ids to come are not in use (`IdsFresh`), ids given back are the last
ones (`ReusedLast`), and threads run tasks only at the end of a request (`RunsInTurn`).
`OnceInv` adds what makes `AtMostOnce` inductive: what is run is dequeued, or with no
worker not finished, and by nobody else (`RunOnce`); an id is in one list, once, and
neither run nor finished (`HeldOnce`); what was applied is exactly what is finished
(`AppliedFinished`). `KeptInv` adds to `NotForgotten` that what an open request has pushed is the
end of its thread's list (`PushedHeld`), from which a commit makes rows that a list holds.

### TransactionStackProofs

`StackIsKept`: `StackSpec => []StackKept`, for every size of the pool, number of retries,
context and depth of blocks. Its parts are not inductive alone: what `conns` counts follows from
which transactions have a connection, and that from the blocks. `StackInv` says what connects
them: a connected transaction has exactly one block that started it, around those that make it
the current one again (`Started`); each transaction on the stack is there as often as blocks
hold it, and one that is not there is as new (`Attributed`); and unless a failed start has left
a transaction on the stack, a block restores the context of the block it was entered in
(`Layered`), the stack is the blocks in their order (`Matching`), and each connected transaction
has the context of its innermost block (`InContext`). Pushing and popping a block each have a
lemma, which counts what the blocks hold before and after.

### ServicesProofs

| Theorem | Statement |
|---|---|
| `LoginsGuardedHolds` | `SecuritySpec => []LoginsGuarded` |
| `CallsOnTimeHolds` | `TriggerSpec /\ CronSpec => []CallsOnTime`, for any finite number of workers |
| `NoMessageSkippedHolds` | `BusSpec => []NoMessageSkipped` |

*Security.* `KeptFresh` depends on what each process remembers of the session: `SessionInv` adds that
none remembers a reset later than the time stamp in the row. `AttemptsLimited` counts failures that
were added after counts made in older snapshots: `LoginInv` adds that what was refused in the
period is in the table, and that once it is more than `max_attempt`, it stays within the bound together
with the logins whose snapshot still lets them try (`Trying`), each of which fails once at most.

*Cron and Trigger.* `CronInv` has one run at a time, and says that a cron not saved by the run was called
for the present date by lost runs only; so one more call, and not two, is to come.
`TriggerInv` says that the snapshot of a task that runs is a beginning of the log (`Sees`), and counts:
what was called beyond the limit (`LimitCounted`), or too soon after a call (`DelayCounted`), together with
the workers whose older snapshot may still let them pass (`Late`), is no more than the other workers.
A worker that passes by an older snapshot leaves `Late` and adds one call, so the sum stays. The workers
may be any finite set, and any number of processes start crons.

*Bus.* What a queue holds is the end of what was appended to it (`LeftOf`), and a reader's
position, plus what was deleted before, is the position of an item in the latter. `Walked` says
what the walk has made of the items up to there: it has met the last message of the subscriber
and nothing for it after that, or it keeps the first item for it. `Chosen` concludes that what
is for the subscriber before the chosen message comes before its last one. All this is said of
states where no prefix was deleted under another reader (`raced`), and a deletion keeps it, as
it removes only what is old for every queue's end.

### StorageProofs

*InstanceCache.* `FreshReadHolds`: `CacheSpec => []FreshRead`, for any records, fields, values, lists of
instances and sizes of the cache. What `FreshRead` says of an answer follows from `CachesFresh`: the cache of
the transaction is fresh, and so is a local cache made since the last write (the
`counter`) and the last rollback (the `epoch`); one that is older is emptied at its next use.

*Sequence.* `NumbersOnceHolds`: `SequenceSpec => []NumbersOnce`, for any number of transactions and of
numbers, and for each kind of sequence. `SqlTaken`: numbers of an SQL sequence are below its next
value, those of two transactions differ, and while one has restarted the sequence,
whose table it has locked, nobody else has numbers that are not committed.
It is claimed until a write restarts the sequence from an old reading (`stale`), as the property is.
`RowTaken`: what is committed comes before the row, without a gap but for time stamps;
who holds the row has numbers that follow it; a transaction whose snapshot still has the row's
version sees the row's number, and another one is refused.

*Validation.* `ValidatedExactlyHolds`: `ValidationSpec => []ValidatedExactly`, for any number of records and
every way to group them. The answer of a call is kept with the records it was about, so the theorem is
about the two searches: what the grouped one finds for a record whose targets no other domain shares
is what a search for the record alone finds.

*DataImport.* `UserValuesKeptHolds`: `ImportSpec => UserValuesKept`, for any fields and values.
A value of a user differs from every value of the XML, so it is not what the update compares it
with, neither by `values` nor by `fs_values`. For a record that is not there the strengthening
`ImportInv` says that a model data which still points to it belongs to a model whose records
users may delete.

### RecordsProofs

| Theorem | Statement |
|---|---|
| `RecordsInvHolds` | `RecordsSpec => []RecordsInv`, the strengthening |
| `NoLostUpdateHolds` | the action property `NoLostUpdate` |
| `HistoryFaithfulHolds` | `RecordsSpec => []HistoryFaithful` |

Both rest on the versions of a record being in the order of their dates. `TxInv` says so of what
a client has read, what its transaction sees and what is committed: of two, one is the other or
has a later date. It holds although a transaction with an early date may commit late, since the
back-end refuses a row changed meanwhile (`Conflict`): what a commit replaces was made before it
began. `TxInv` also says that what was checked against a timestamp was what the transaction saw,
and is changed by it - so the back-end compares it at the commit, and `NoLostUpdate` follows.
`RowsInv` says that the last row a transaction adds for a record has the version's value;
`HistoryInv`, that the rows of a record are in the order of their dates (`OrderInv`) and that at
each date the last row of the history has the value of the last commit (`SameLast`). A
transaction does not always touch what it versions: a restoration of a record that is not there
changes no row, so `Conflict`, which is about touched rows, lets another transaction version the
record at the same time. `PastInv` says where that cannot have happened: if nothing was added to
the history of a record since a transaction saw it, the table is as the transaction saw it too.
Where it did happen the record is `overlapped`, and `HistoryInv` says nothing of it. `LastRowIs`
then turns `LastRow`, which looks for a date first and for an `__id` after, into the last of the
rows.

### What is only model-checked

* Liveness under fairness, which is out of the prover's reach: `EventuallyCoherent`,
  `RequestAnswered`, `EventuallyPulled`.
* The modules that follow trees, references, statements or lists in lists with RECURSIVE
  operators, for which the provers have no induction: `Access`, `DataExport`, `Deletion`,
  `DomainInversion`, `DomainSearch`, `Modules`, `Pyson`, `Reading`, `Terms`, `Translation`, `TreeModel`,
  `Views`, `Wizards`; so `NothingStale`, `DeletesExactly`, `ChildOfAgrees`, `TranslationsAgree`,
  `ModulesConsistent`, `SearchAgrees`, `ExpressionsSound`, `ScreenAgrees`, `ImportedIsExported`,
  `TermsAgree`, `SessionSerial`.
* Of `InstanceSave`, `Schema`, `OnChange` and `Buttons`, which no theorem is about: `SavedIsShown`,
  `UpgradesKeep`, `FormShowsInstance`, `ClicksDecide`. (The part of `NothingStale` about the caches is
  `FloorRespected` of `MemoryCache`, which is proved.)

## 6. Assumptions

* Clocks advance between two readings (`_clear` and `start` in one process, two
  stamps of a cache in `ir_cache`). On a back-end with a resolution of one second
  this is not so: two commits within a second have the same timestamp (`cache.py:252`).
* A model that changes what a cache was computed from clears that cache in the same
  transaction, after the write. `Session.write` (`ir/session.py:51`) sets a cache
  without clearing it, which `Security` models.
* PostgreSQL: REPEATABLE READ, notifications delivered at commit and only to
  connections that listen, an `UPDATE ... RETURNING` that is atomic.
* A rollback of the connection, and the `tpc_abort` of a data manager, succeed.
* Each method writes before anything fails, so that a lost or doubled attempt
  shows.

## 7. Findings

1. `cache_race` - `_clear` replaces the dictionary before it moves
   `_transaction_lower`, and `_get_cache` reads `_transaction_lower` before it
   fetches the dictionary. A thread between its two statements while the listener
   is between its own stores an old value in the new dictionary, where it stays.
   Swapping one of the pairs leaves the window open: if only `_clear` is changed, for a thread that
   compares before both of its statements and fetches after them; if only `_get_cache` is, for
   one that does both between them. Both swaps together close it: who has the new dictionary
   then compares with the new bound. `test_cache.py` tests "old
   transaction does not fill cache" without this interleaving.
2. `cache_table_order` - without channels, `Cache.commit` clears and stamps before
   `connection.commit`. A transaction that starts between the two shares the value
   being replaced, and nothing clears it later.
3. `commit_error` - a request commits explicitly and again on leaving the `with`
   statement. When the second commit fails the client gets an error for a request
   that is in the database.
4. `queue_leftover` - `Transaction.rollback` leaves the ids of its tasks in the
   thread's list. "The task was rollbacked, nothing to do" (`worker.py:132`) is
   right on PostgreSQL, where ids are never given twice; on SQLite the retry gets
   the same id and its task runs twice.
5. `domain_shared` - `_validate` groups the domains of the records of one call into
   `['OR', [('id', 'in', targets), domain], ...]`. When two records share a target and
   their domains differ, the target needs to satisfy one of the two, and a record is
   accepted that is refused when it is saved alone.
6. `import_update` - `write_records` stores `values` and `fs_values` only if they differ,
   so after a fully applied update the model data keeps the previous expected value.
   The next update takes its own value for a change of the user and skips the field.
7. `trigger_limit` - `trigger_action` counts the calls for a record in the log (`trigger.py:234`),
   calls the action and logs it, in one snapshot and without a lock. Two workers that run tasks
   with the same record pass a limit of one, which the field's help (`trigger.py:49`) gives as a
   limit of the number of calls by record. `LimitRespected` states how far it can be passed.

## 8. What is not modelled

* Within the modelled components: `Cache.drop`, cache statistics and the building of
  keys; `Transaction.atexit`; the closing of unused pools of connections; `Queue.clean`;
  authentication in the dispatcher; the number of retries inside `run_task`, which is
  one state of a running task. The sections above name what each other module
  leaves out.
* Conversions of data without control: the values of fields, reports, RPC, WSGI, parsing of
  XML and po files, the formatting of numbers and dates. The SQL that the back-ends
  build, about which no small model says anything that the text of a query does not.
* What is kept but not shared or disputed: preferences, passwords and warnings of
  users, the list of modules, menus and icons, languages.

The map covers about 30 % of the implementation's lines. The rest is mostly these
conversions: what they could get wrong is the form of a value, not the order of steps.

## 9. Plan

1. Proofs about `Buttons` (`ClicksDecide`) and `InstanceSave` (`SavedIsShown`), whose
   steps are long but not recursive.
2. `Bus` as a refinement of a log with a position for each subscriber; `NoMessageSkippedHolds` has its
   invariant.
3. `TaskQueue` with two databases; `Trigger` on top of it.
