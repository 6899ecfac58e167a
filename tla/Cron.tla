--------------------------------- MODULE Cron ---------------------------------
(* ir.cron (ir/cron.py) and the loop that starts it (cron.py): one transaction *)
(* holds the lock of the table and moves next_call, each cron runs in a        *)
(* transaction of its own, which may be tried again.  Times are half hours of  *)
(* UTC; the clock of the server is put back one hour at time Back.             *)
EXTENDS Integers, Sequences
CONSTANTS
  Task,        \* the records of ir.cron, a set of numbers
  Every,       \* record -> interval
  Process,     \* processes that run cron
  CronRetry,       \* [database] retry
  Back,        \* when the server's clock is put back
  MaxHour,     \* bound of the clock
  MaxRuns,     \* bound: dates of a record
  MaxCrash     \* bound: runs that end without their commit
ASSUME CronAssumption ==
  /\ Task \subseteq Nat /\ Every \in [Task -> Nat \ {0}]
  /\ CronRetry \in Nat /\ Back \in Nat \ {0}
VARIABLES
  next_call,   \* record -> [at, version]: the committed next call
  run,         \* process -> its run: [on, now, count, todo, saved]
  called,       \* ghost: record -> version -> calls that were committed
  errors,      \* records with an error of ir.error that is not solved
  hour,
  crashes
cronVars == <<next_call, run, called, errors, hour, crashes>>

NoRun == [on |-> FALSE]
CronInit ==
  /\ next_call \in [Task -> {[at |-> a, version |-> 0] : a \in {0, Back - 1}}]
  /\ run = [p \in Process |-> NoRun]
  /\ called = [c \in Task |-> <<0>>]
  /\ errors = {} /\ hour = 0 /\ crashes = 0

(* The time of the server: the hour before Back is shown twice. *)
Local(utc) == IF utc < Back THEN utc + 2 ELSE utc
Repeated(utc) == utc \in Back..(Back + 1)
\* The addition forgets which of the two it is: astimezone takes the first.
ToUtc(local) == IF local < Back + 2 THEN local - 2 ELSE local
ComputeNextCall(c, now) == ToUtc(Local(now) + Every[c])

Due(now) == {c \in Task : next_call[c].at <= now}
StartUnlocked(p) ==
  /\ ~run[p].on /\ Due(hour) # {}
  /\ \A c \in Due(hour) : Len(called[c]) < MaxRuns
  /\ run' = [run EXCEPT ![p] = [on |-> TRUE, now |-> hour, count |-> CronRetry,
               todo |-> Due(hour), saved |-> [c \in {} |-> 0]]]
  /\ UNCHANGED <<next_call, called, errors, hour, crashes>>
\* cron.run starts a thread unless that of the last loop is alive; the run takes
\* the lock or fails at once, then searches.
StartRun(p) ==
  /\ ~run[p].on /\ Due(hour) # {}
  /\ \A c \in Due(hour) : Len(called[c]) < MaxRuns
  /\ \A q \in Process : ~run[q].on
  /\ run' = [run EXCEPT ![p] = [on |-> TRUE, now |-> hour, count |-> CronRetry,
               todo |-> Due(hour), saved |-> [c \in {} |-> 0]]]
  /\ UNCHANGED <<next_call, called, errors, hour, crashes>>
\* The end of a cron: its next call is saved in the transaction of the run.
Moved(p, c) ==
  LET r == run[p]
  IN run' = [run EXCEPT ![p] =
       [r EXCEPT !.todo = @ \ {c}, !.count = CronRetry,
                 !.saved = [d \in DOMAIN @ \cup {c} |->
                              IF d = c THEN ComputeNextCall(c, r.now) ELSE @[d]]]]
\* The crons come in the order of the search, which may be any.
Working(p, c) == run[p].on /\ c \in run[p].todo
Succeed(p, c) ==
  /\ Working(p, c) /\ Moved(p, c)
  /\ called' = [called EXCEPT ![c][Len(called[c])] = @ + 1]
  /\ UNCHANGED <<next_call, errors, hour, crashes>>
\* A DatabaseOperationalError: the cron's transaction is rolled back, tried again.
TryAgain(p, c) ==
  /\ Working(p, c) /\ run[p].count > 0
  /\ run' = [run EXCEPT ![p].count = @ - 1]
  /\ UNCHANGED <<next_call, called, errors, hour, crashes>>
\* Another exception, or the last attempt: a UserError is logged once.
Fail(p, c, user) ==
  /\ Working(p, c) /\ Moved(p, c)
  /\ errors' = IF user THEN errors \cup {c} ELSE errors
  /\ UNCHANGED <<next_call, called, hour, crashes>>
End(p) ==
  LET r == run[p]
      moved == DOMAIN r.saved
  IN /\ r.on /\ r.todo = {}
     /\ run' = [run EXCEPT ![p] = NoRun]
     /\ next_call' = [c \in Task |-> IF c \in moved
          THEN [at |-> r.saved[c], version |-> next_call[c].version + 1] ELSE next_call[c]]
     /\ called' = [c \in Task |-> IF c \in moved THEN Append(called[c], 0) ELSE called[c]]
     /\ UNCHANGED <<errors, hour, crashes>>
\* The process, or its connection, is lost before the commit.
Crash(p) ==
  /\ run[p].on /\ crashes < MaxCrash /\ crashes' = crashes + 1
  /\ run' = [run EXCEPT ![p] = NoRun]
  /\ UNCHANGED <<next_call, called, errors, hour>>
CronTick ==
  /\ hour < MaxHour /\ hour' = hour + 1
  /\ UNCHANGED <<next_call, run, called, errors, crashes>>

CronNext == \/ CronTick
        \/ \E p \in Process :
             \/ StartRun(p) \/ End(p) \/ Crash(p)
             \/ \E c \in Task : \/ Succeed(p, c) \/ TryAgain(p, c)
                               \/ \E user \in BOOLEAN : Fail(p, c, user)
CronSpec == CronInit /\ [][CronNext]_cronVars

(* -------------------------------- properties ------------------------------- *)
\* For one date of next_call a cron is called once, whatever processes run and
\* whatever is tried again, unless a run was lost before it had saved the next
\* date; and the date that is saved is later than the run, except within the
\* hour that the clock of the server shows twice.
CronOnce ==
  /\ \A c \in Task : \A v \in 1..Len(called[c]) : called[c][v] <= 1 + crashes
  /\ \A p \in Process : run[p].on =>
       \A c \in DOMAIN run[p].saved :
         run[p].saved[c] > run[p].now \/ Repeated(run[p].now)
==============================================================================
