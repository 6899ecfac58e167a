------------------------- MODULE TransactionCommit -------------------------
(***************************************************************************)
(* One request, from protocols/dispatcher._dispatch (with_transaction of   *)
(* protocols/wrappers.py has the same shape): the method is run in a       *)
(* transaction, committed explicitly, committed once more by the exit of   *)
(* the with statement, and run again after a DatabaseOperationalError.     *)
(* trytond.transaction drives the two-phase commit of the data managers;   *)
(* they are trytond.sendmail.SMTPDataManager, which connects when it votes *)
(* and sends when it finishes.                                             *)
(*                                                                         *)
(* The request is not readonly.  The work of an attempt is one write, made *)
(* before anything can fail.  What a mail server or the database answers   *)
(* is nondeterministic.                                                    *)
(***************************************************************************)
EXTENDS Naturals, Sequences, FiniteSets

CONSTANTS
  Managers,   \* the SMTPDataManagers, equal when their strictness is equal
  Strict,     \* those created with strict = True
  Mails,      \* identities of the messages: bounds their number
  Retry       \* [database] retry

ASSUME CommitAssumption ==
  /\ Strict \subseteq Managers
  /\ Retry \in Nat

VARIABLES
  stage,      \* what the thread is doing
  purpose,    \* who called the commit in progress
  attempt,    \* number of this pass of the retry loop
  dirty,      \* the database transaction holds the writes of the attempt
  saved,  \* attempts whose writes are in the database
  joined,     \* Transaction._datamanagers
  next,       \* position in the loop over the data managers
  queue,      \* SMTPDataManager.queue
  server,     \* SMTPDataManager._server: "none", "up", "dead" (disconnected)
  origin,     \* history: the attempt that put each mail, 0 if none did
  sent,       \* how many times each mail was accepted by a server
  answer      \* what the client gets

request == <<stage, purpose, attempt, next, answer>>
mail == <<joined, queue, server, origin, sent>>
data == <<dirty, saved>>
commitVars == <<request, mail, data>>

NoQueue == [m \in Managers |-> <<>>]
NoServer == [m \in Managers |-> "none"]
Joined == {joined[i] : i \in DOMAIN joined}

CommitInit ==
  /\ stage = "idle" /\ purpose = "request" /\ attempt = 1 /\ next = 1
  /\ answer = "none"
  /\ dirty = FALSE /\ saved = {}
  /\ joined = <<>> /\ queue = NoQueue /\ server = NoServer
  /\ origin = [x \in Mails |-> 0] /\ sent = [x \in Mails |-> 0]

\* Transaction.start, then the method writes.
StartAttempt ==
  /\ stage = "idle" /\ answer = "none"
  /\ stage' = "method"
  /\ dirty' = TRUE
  /\ next' = 1
  /\ joined' = <<>> /\ queue' = NoQueue /\ server' = NoServer
  /\ UNCHANGED <<purpose, attempt, answer, saved, origin, sent>>

\* sendmail_transactional: join returns the equal manager if there is one.
Put(m, x) ==
  /\ stage = "method"
  /\ origin[x] = 0
  /\ origin' = [origin EXCEPT ![x] = attempt]
  /\ joined' = IF m \in Joined THEN joined ELSE Append(joined, m)
  /\ queue' = [queue EXCEPT ![m] = Append(@, x)]
  /\ UNCHANGED <<request, server, sent, data>>

\* Mutant of Undone: tpc_abort forgets the server only.
UndoneKeepsQueue ==
  /\ dirty' = FALSE
  /\ server' = [m \in Managers |-> IF m \in Joined THEN "none" ELSE server[m]]
  /\ UNCHANGED <<joined, queue, origin, sent, saved>>

\* Transaction.rollback: tpc_abort closes the connection and forgets the queue
\* of every manager, which stays joined.
Undone ==
  /\ dirty' = FALSE
  /\ queue' = [m \in Managers |-> IF m \in Joined THEN <<>> ELSE queue[m]]
  /\ server' = [m \in Managers |-> IF m \in Joined THEN "none" ELSE server[m]]
  /\ UNCHANGED <<joined, origin, sent, saved>>

\* Transaction.commit begins.
Voting(who) == stage' = "voting" /\ next' = 1 /\ purpose' = who

Return ==
  /\ stage = "method"
  /\ Voting("request")
  /\ UNCHANGED <<attempt, answer, mail, data>>

\* DatabaseOperationalError with retries left: rollback, then continue leaves
\* the with statement without an exception, so that stop commits.
RetryAttempt ==
  /\ stage = "method" /\ attempt <= Retry
  /\ Undone
  /\ Voting("retry")
  /\ UNCHANGED <<attempt, answer>>

\* An exception leaves the with statement: stop rolls back (once more if commit
\* already did) and the client gets the error.
Fail ==
  /\ stage' = "idle" /\ answer' = "error"
  /\ Undone
  /\ UNCHANGED <<purpose, attempt, next>>

MethodFails == stage = "method" /\ Fail

-----------------------------------------------------------------------------
(* Transaction.commit *)

\* get_smtp_server fails: starttls and login raise for every manager, connect
\* only for a strict one; another one goes on without a server.
Refused(m) ==
  \/ Fail
  \/ /\ m \notin Strict
     /\ next' = next + 1
     /\ UNCHANGED <<stage, purpose, attempt, answer, mail, data>>

Connected(m) ==
  /\ next' = next + 1
  /\ server' = [server EXCEPT ![m] = "up"]
  /\ UNCHANGED <<stage, purpose, attempt, answer, joined, queue, origin, sent, data>>

\* tpc_vote of the next manager; one that has a server does not connect.
Vote ==
  LET m == joined[next] IN
  /\ stage = "voting" /\ next <= Len(joined)
  /\ \/ server[m] = "none" /\ (Connected(m) \/ Refused(m))
     \/ /\ server[m] # "none"
        /\ next' = next + 1
        /\ UNCHANGED <<stage, purpose, attempt, answer, mail, data>>

\* connection.commit, once every manager has voted.
ConnectionCommit ==
  /\ stage = "voting" /\ next > Len(joined)
  /\ stage' = "finishing" /\ next' = 1
  /\ dirty' = FALSE
  /\ saved' = IF dirty THEN saved \cup {attempt} ELSE saved
  /\ UNCHANGED <<purpose, attempt, answer, mail>>

\* Mutant of DataCommitFails: commit rolls back and does not raise again.
ConnectionCommitFailsSilently ==
  /\ stage = "voting" /\ next > Len(joined)
  /\ stage' = "finished"
  /\ Undone
  /\ UNCHANGED <<purpose, attempt, next, answer>>

\* connection.commit raises: rollback, and raise.
ConnectionCommitFails == stage = "voting" /\ next > Len(joined) /\ Fail

\* tpc_finish raised: the other managers are not finished, commit returns.
Abandon == stage' = "finished" /\ UNCHANGED <<purpose, attempt, next, answer>>

Finishing(m) == stage = "finishing" /\ next <= Len(joined) /\ m = joined[next]

\* tpc_finish of a manager without a server: its queue is kept.
Pass(m) ==
  /\ Finishing(m) /\ server[m] = "none"
  /\ next' = next + 1
  /\ UNCHANGED <<stage, purpose, attempt, answer, mail, data>>

\* Mutant of Quit: the queue is kept.
QuitKeepsQueue(m) ==
  /\ Finishing(m) /\ server[m] = "up"
  /\ next' = next + 1
  /\ sent' = [x \in Mails |-> IF \E i \in DOMAIN queue[m] : queue[m][i] = x
                                THEN sent[x] + 1 ELSE sent[x]]
  /\ server' = [server EXCEPT ![m] = "none"]
  /\ UNCHANGED <<stage, purpose, attempt, answer, joined, queue, origin, data>>

\* tpc_finish with a server: each mail of the queue is sent or, with an error
\* in the log, is not; then quit succeeds.
Quit(m) ==
  /\ Finishing(m) /\ server[m] = "up"
  /\ next' = next + 1
  /\ \E accepted \in SUBSET {queue[m][i] : i \in DOMAIN queue[m]} :
       sent' = [x \in Mails |-> IF x \in accepted THEN sent[x] + 1 ELSE sent[x]]
  /\ server' = [server EXCEPT ![m] = "none"]
  /\ queue' = [queue EXCEPT ![m] = <<>>]
  /\ UNCHANGED <<stage, purpose, attempt, answer, joined, origin, data>>

\* The connection is lost while sending or quitting: quit raises, whether or
\* not the mails were accepted, and the manager keeps its server and its queue.
Disconnect(m) ==
  /\ Finishing(m) /\ server[m] = "up"
  /\ Abandon
  /\ \E accepted \in SUBSET {queue[m][i] : i \in DOMAIN queue[m]} :
       sent' = [x \in Mails |-> IF x \in accepted THEN sent[x] + 1 ELSE sent[x]]
  /\ server' = [server EXCEPT ![m] = "dead"]
  /\ UNCHANGED <<joined, queue, origin, data>>

\* tpc_finish again with the server that was lost: nothing is accepted, and
\* quit raises.
StillDead(m) ==
  /\ Finishing(m) /\ server[m] = "dead"
  /\ Abandon
  /\ UNCHANGED <<mail, data>>

Finish == \E m \in Managers : Pass(m) \/ Quit(m) \/ Disconnect(m) \/ StillDead(m)

FinishedAll ==
  /\ stage = "finishing" /\ next > Len(joined)
  /\ stage' = "finished"
  /\ UNCHANGED <<purpose, attempt, next, answer, mail, data>>

-----------------------------------------------------------------------------
(* commit has returned *)

\* The explicit commit is followed by the one of stop.
CommitAgain ==
  /\ stage = "finished" /\ purpose = "request"
  /\ Voting("exit")
  /\ UNCHANGED <<attempt, answer, mail, data>>

\* stop is over, and the result is sent.
Answer ==
  /\ stage = "finished" /\ purpose = "exit"
  /\ stage' = "idle" /\ answer' = "ok"
  /\ UNCHANGED <<purpose, attempt, next, mail, data>>

\* Mutant of Again: the count of the retry loop does not go down.
AgainUncounted ==
  /\ stage = "finished" /\ purpose = "retry"
  /\ stage' = "idle"
  /\ UNCHANGED <<purpose, attempt, next, answer, mail, data>>

\* stop is over, and the loop goes on.
Again ==
  /\ stage = "finished" /\ purpose = "retry"
  /\ stage' = "idle" /\ attempt' = attempt + 1
  /\ UNCHANGED <<purpose, next, answer, mail, data>>

CommitNext ==
  \/ StartAttempt \/ Return \/ RetryAttempt \/ MethodFails
  \/ \E m \in Managers, x \in Mails : Put(m, x)
  \/ Vote \/ ConnectionCommit \/ ConnectionCommitFails \/ Finish \/ FinishedAll
  \/ CommitAgain \/ Answer \/ Again

\* The thread of the request runs: no step waits for anything but an answer of
\* the database or of a mail server, or a timeout.
CommitSpec == CommitInit /\ [][CommitNext]_commitVars
CommitFairSpec == CommitSpec /\ WF_commitVars(CommitNext)

-----------------------------------------------------------------------------
(* Properties *)

\* Every variable has its type, the retry loop is within its bound, and only a
\* thread that runs the method or a commit has uncommitted writes.
CommitTypeOK ==
  /\ stage \in {"idle", "method", "voting", "finishing", "finished"}
  /\ purpose \in {"request", "exit", "retry"}
  /\ attempt \in 1 .. Retry + 1
  /\ next \in 1 .. Len(joined) + 1
  /\ answer \in {"none", "ok", "error"}
  /\ dirty \in BOOLEAN /\ (dirty => stage \in {"method", "voting"})
  /\ saved \subseteq 1 .. attempt
  /\ joined \in Seq(Managers)
  /\ queue \in [Managers -> Seq(Mails)]
  /\ server \in [Managers -> {"none", "up", "dead"}]
  /\ origin \in [Mails -> 0 .. attempt]
  /\ sent \in [Mails -> Nat]

\* A mail leaves only for an attempt whose writes are in the database: not for
\* one that was rolled back and retried, nor before connection.commit.
MailAfterCommit == \A x \in Mails : sent[x] > 0 => origin[x] \in saved

\* No mail is sent twice, although every request commits twice and a manager
\* keeps its queue when its server is lost (_finish, tpc_finish).
SentOnce == \A x \in Mails : sent[x] <= 1

\* However often the method is retried, the request is applied at most once.
AppliedOnce == Cardinality(saved) <= 1

\* A client that gets the result has its request in the database.
OkIsCommitted == answer = "ok" => saved = {attempt}

\* Writes are committed only while every strict manager that has joined is
\* connected to its server: that is what its vote is for.
StrictIsConnected ==
  [][saved' # saved
       => \A m \in Joined \cap Strict : server[m] = "up"]_commitVars

\* The retry loop ends, and the client gets an answer.
Answered == <>(answer # "none")

\* "In the event of an exception the transaction is rolled back, otherwise it
\* is commited" (doc/ref/transaction.rst): an error means that nothing changed.
ErrorIsRolledBack == answer = "error" => saved = {}

-----------------------------------------------------------------------------
(* Why they hold: the inductive strengthening *)

Committing == stage \in {"voting", "finishing", "finished"}

\* What is in the database, and what is still to be committed, at each stage.
StageInv ==
  /\ stage # "idle" => answer = "none"
  /\ answer = "ok" => saved = {attempt}
  /\ stage = "idle" /\ answer = "none" => saved = {} /\ ~dirty
  /\ stage = "method" => saved = {} /\ dirty
  /\ Committing /\ purpose = "request" =>
       IF stage = "voting" THEN saved = {} /\ dirty ELSE saved = {attempt}
  /\ Committing /\ purpose = "exit" => saved = {attempt} /\ ~dirty
  /\ Committing /\ purpose = "retry" => saved = {} /\ ~dirty /\ attempt <= Retry
  /\ saved \subseteq {attempt}

Queued(m, x) == \E i \in DOMAIN queue[m] : queue[m][i] = x

\* A mail waits in the queue of one joined manager; it was put by this attempt
\* and is not sent yet, unless the manager has lost its server.
MailQueueInv ==
  stage # "idle" =>
    \A m \in Managers, x \in Mails : Queued(m, x) =>
      /\ m \in Joined
      /\ origin[x] = attempt
      /\ server[m] # "dead" => sent[x] = 0
      /\ \A o \in Managers : Queued(o, x) => o = m
      /\ ~(Committing /\ purpose = "retry")

\* A strict manager that has voted has a server, which is not lost before the
\* writes are committed.
VoteInv ==
  /\ dirty => \A m \in Managers : server[m] # "dead"
  /\ stage = "voting" =>
       \A i \in 1 .. next - 1 : joined[i] \in Strict => server[joined[i]] # "none"

CommitInv ==
  CommitTypeOK /\ StageInv /\ MailQueueInv /\ VoteInv /\ MailAfterCommit /\ SentOnce
============================================================================
