---------------------- MODULE TransactionCommitProofs ----------------------
(***************************************************************************)
(* Theorems of TransactionCommit for any number of data managers, mails    *)
(* and retries.  They rest on CommitInv, which says what each stage of a   *)
(* commit leaves in the database and in the queues of the managers.        *)
(***************************************************************************)
EXTENDS TransactionCommit, FiniteSetTheorems, TLAPS

LEMMA InitCommitInv == CommitInit => CommitInv
<1> SUFFICES ASSUME CommitInit PROVE CommitInv
    OBVIOUS
<1>1. CommitTypeOK
  <2>1. attempt \in 1 .. Retry + 1 /\ saved \subseteq 1 .. attempt
    BY CommitAssumption DEF CommitInit
  <2>2. joined \in Seq(Managers) /\ next \in 1 .. Len(joined) + 1
    BY DEF CommitInit
  <2>3. /\ queue \in [Managers -> Seq(Mails)]
        /\ server \in [Managers -> {"none", "up", "dead"}]
        /\ origin \in [Mails -> 0 .. attempt]
        /\ sent \in [Mails -> Nat]
    BY <2>1 DEF CommitInit, NoQueue, NoServer
  <2> QED
    BY <2>1, <2>2, <2>3 DEF CommitInit, CommitTypeOK
<1>2. StageInv /\ MailQueueInv
  BY DEF CommitInit, StageInv, MailQueueInv, Committing
<1>3. VoteInv /\ MailAfterCommit /\ SentOnce
  BY DEF CommitInit, VoteInv, MailAfterCommit, SentOnce
<1> QED
  BY <1>1, <1>2, <1>3 DEF CommitInv

-----------------------------------------------------------------------------
(* The type invariant and the stages *)

\* A rollback leaves well typed queues and servers, and nothing uncommitted.
LEMMA UndoneTyped ==
  ASSUME CommitTypeOK, Undone
  PROVE  /\ queue' \in [Managers -> Seq(Mails)]
         /\ server' \in [Managers -> {"none", "up", "dead"}]
         /\ dirty' = FALSE
         /\ UNCHANGED <<joined, origin, sent, saved>>
BY DEF CommitTypeOK, Undone

\* A request that fails keeps its types and forgets its uncommitted writes.
LEMMA FailTyped ==
  ASSUME CommitTypeOK, Fail
  PROVE  CommitTypeOK'
BY UndoneTyped DEF CommitTypeOK, Fail

\* A loop over the data managers starts at a position they have.
LEMMA FirstManager ==
  ASSUME CommitTypeOK
  PROVE  1 \in 1 .. Len(joined) + 1
<1>1. Len(joined) \in Nat
  BY DEF CommitTypeOK
<1> QED
  BY <1>1

LEMMA TypeStep ==
  ASSUME CommitTypeOK, StageInv, [CommitNext]_commitVars
  PROVE  CommitTypeOK'
<1> USE CommitAssumption, FirstManager
<1>1. CASE StartAttempt
  BY <1>1 DEF StartAttempt, CommitTypeOK, NoQueue, NoServer
<1>2. CASE Return
  BY <1>2 DEF Return, Voting, mail, data, CommitTypeOK
<1>3. CASE RetryAttempt
  <2>1. next' \in 1 .. Len(joined') + 1
    BY <1>3, UndoneTyped DEF RetryAttempt, Voting
  <2> QED
    BY <1>3, <2>1, UndoneTyped DEF RetryAttempt, Voting, CommitTypeOK
<1>4. CASE MethodFails
  BY <1>4, FailTyped DEF MethodFails
<1>5. ASSUME NEW m \in Managers, NEW x \in Mails, Put(m, x) PROVE CommitTypeOK'
  <2>1. joined' \in Seq(Managers) /\ Len(joined') >= Len(joined)
    BY <1>5 DEF Put, CommitTypeOK
  <2>2. queue' \in [Managers -> Seq(Mails)]
    BY <1>5 DEF Put, CommitTypeOK
  <2>3. origin' \in [Mails -> 0 .. attempt]
    BY <1>5 DEF Put, CommitTypeOK
  <2>4. next' \in 1 .. Len(joined') + 1
    BY <1>5, <2>1 DEF Put, request, CommitTypeOK
  <2> QED
    BY <1>5, <2>1, <2>2, <2>3, <2>4 DEF Put, request, data, CommitTypeOK
<1>6. CASE Vote
  <2>1. joined[next] \in Managers /\ next + 1 \in 1 .. Len(joined) + 1
    BY <1>6 DEF Vote, CommitTypeOK
  <2>2. ASSUME Connected(joined[next]) PROVE CommitTypeOK'
    BY <2>1, <2>2 DEF Connected, data, CommitTypeOK
  <2>3. ASSUME Refused(joined[next]) PROVE CommitTypeOK'
    <3>1. CASE Fail
      BY <3>1, FailTyped
    <3>2. CASE next' = next + 1
               /\ UNCHANGED <<stage, purpose, attempt, answer, mail, data>>
      BY <2>1, <3>2 DEF mail, data, CommitTypeOK
    <3> QED
      BY <2>3, <3>1, <3>2 DEF Refused
  <2> QED
    BY <1>6, <2>1, <2>2, <2>3 DEF Vote, mail, data, CommitTypeOK
<1>7. CASE ConnectionCommit
  <2>1. saved' \subseteq 1 .. attempt
    BY <1>7 DEF ConnectionCommit, CommitTypeOK
  <2>2. next' \in 1 .. Len(joined') + 1
    BY <1>7 DEF ConnectionCommit, mail
  <2> QED
    BY <1>7, <2>1, <2>2 DEF ConnectionCommit, mail, CommitTypeOK
<1>8. CASE ConnectionCommitFails
  BY <1>8, FailTyped DEF ConnectionCommitFails
<1>9. ASSUME NEW m \in Managers, Pass(m) \/ Quit(m) \/ Disconnect(m) \/ StillDead(m)
      PROVE  CommitTypeOK'
  <2>1. next + 1 \in 1 .. Len(joined) + 1
    BY <1>9 DEF Pass, Quit, Disconnect, StillDead, Finishing, CommitTypeOK
  <2>2. CASE Pass(m)
    BY <2>1, <2>2 DEF Pass, mail, data, CommitTypeOK
  <2>3. CASE Quit(m)
    <3>0. PICK accepted \in SUBSET {queue[m][i] : i \in DOMAIN queue[m]} :
             sent' = [x \in Mails |-> IF x \in accepted THEN sent[x] + 1 ELSE sent[x]]
      BY <2>3 DEF Quit
    <3>s. sent \in [Mails -> Nat]
      BY DEF CommitTypeOK
    <3>1. sent' \in [Mails -> Nat]
      BY <3>0, <3>s
    <3>2. /\ server' \in [Managers -> {"none", "up", "dead"}]
          /\ queue' \in [Managers -> Seq(Mails)]
      BY <2>3 DEF Quit, CommitTypeOK
    <3> QED
      BY <2>1, <2>3, <3>1, <3>2 DEF Quit, data, CommitTypeOK
  <2>4. CASE Disconnect(m)
    <3>0. PICK accepted \in SUBSET {queue[m][i] : i \in DOMAIN queue[m]} :
             sent' = [x \in Mails |-> IF x \in accepted THEN sent[x] + 1 ELSE sent[x]]
      BY <2>4 DEF Disconnect
    <3>s. sent \in [Mails -> Nat]
      BY DEF CommitTypeOK
    <3>1. sent' \in [Mails -> Nat]
      BY <3>0, <3>s
    <3>2. server' \in [Managers -> {"none", "up", "dead"}]
      BY <2>4 DEF Disconnect, CommitTypeOK
    <3> QED
      BY <2>4, <3>1, <3>2 DEF Disconnect, Abandon, Finishing, data, CommitTypeOK
  <2>5. CASE StillDead(m)
    BY <2>5 DEF StillDead, Abandon, Finishing, mail, data, CommitTypeOK
  <2> QED
    BY <1>9, <2>2, <2>3, <2>4, <2>5
<1>10. CASE FinishedAll
  BY <1>10 DEF FinishedAll, mail, data, CommitTypeOK
<1>11. CASE CommitAgain
  BY <1>11 DEF CommitAgain, Voting, mail, data, CommitTypeOK, StageInv, Committing
<1>12. CASE Answer
  BY <1>12 DEF Answer, mail, data, CommitTypeOK, StageInv, Committing
<1>13. CASE Again
  BY <1>13 DEF Again, mail, data, CommitTypeOK, StageInv, Committing
<1>14. CASE UNCHANGED commitVars
  BY <1>14 DEF commitVars, request, mail, data, CommitTypeOK
<1> QED
  BY <1>1, <1>2, <1>3, <1>4, <1>5, <1>6, <1>7, <1>8, <1>9, <1>10, <1>11,
     <1>12, <1>13, <1>14 DEF CommitNext, Finish

LEMMA FailStage ==
  ASSUME CommitTypeOK, StageInv, Fail
  PROVE  StageInv'
BY UndoneTyped DEF Fail, StageInv, Committing

LEMMA StageStep ==
  ASSUME CommitTypeOK, StageInv, [CommitNext]_commitVars
  PROVE  StageInv'
<1> USE CommitAssumption
<1>1. CASE StartAttempt
  BY <1>1 DEF StartAttempt, StageInv, Committing
<1>2. CASE Return
  BY <1>2 DEF Return, Voting, mail, data, StageInv, Committing
<1>3. CASE RetryAttempt
  BY <1>3, UndoneTyped DEF RetryAttempt, Voting, StageInv, Committing
<1>4. CASE MethodFails
  BY <1>4, FailStage DEF MethodFails
<1>5. ASSUME NEW m \in Managers, NEW x \in Mails, Put(m, x) PROVE StageInv'
  BY <1>5 DEF Put, request, data, StageInv, Committing
<1>6. CASE Vote
  <2>1. ASSUME Fail PROVE StageInv'
    BY <2>1, FailStage
  <2>2. ASSUME UNCHANGED <<stage, purpose, attempt, answer, dirty, saved>>
        PROVE  StageInv'
    BY <2>2 DEF StageInv, Committing
  <2> QED
    BY <1>6, <2>1, <2>2 DEF Vote, Connected, Refused, data
<1>7. CASE ConnectionCommit
  BY <1>7 DEF ConnectionCommit, mail, StageInv, Committing, CommitTypeOK
<1>8. CASE ConnectionCommitFails
  BY <1>8, FailStage DEF ConnectionCommitFails
<1>9. ASSUME NEW m \in Managers, Pass(m) \/ Quit(m) \/ Disconnect(m) \/ StillDead(m)
      PROVE  StageInv'
  <2>1. stage = "finishing" /\ stage' \in {"finishing", "finished"}
        /\ UNCHANGED <<purpose, attempt, answer, dirty, saved>>
    BY <1>9 DEF Pass, Quit, Disconnect, StillDead, Finishing, Abandon, data
  <2> QED
    BY <2>1 DEF StageInv, Committing
<1>10. CASE FinishedAll
  BY <1>10 DEF FinishedAll, data, StageInv, Committing
<1>11. CASE CommitAgain
  BY <1>11 DEF CommitAgain, Voting, data, StageInv, Committing, CommitTypeOK
<1>12. CASE Answer
  BY <1>12 DEF Answer, data, StageInv, Committing
<1>13. CASE Again
  BY <1>13 DEF Again, data, StageInv, Committing
<1>14. CASE UNCHANGED commitVars
  BY <1>14 DEF commitVars, request, data, StageInv, Committing
<1> QED
  BY <1>1, <1>2, <1>3, <1>4, <1>5, <1>6, <1>7, <1>8, <1>9, <1>10, <1>11,
     <1>12, <1>13, <1>14 DEF CommitNext, Finish

-----------------------------------------------------------------------------
(* The queues *)

\* Where nothing happens to the mails, the queues stay as they are.
LEMMA QueueKept ==
  ASSUME MailQueueInv, UNCHANGED <<mail, attempt>>, stage # "idle",
         Committing' /\ purpose' = "retry" => Committing /\ purpose = "retry"
  PROVE  MailQueueInv'
BY DEF MailQueueInv, Queued, Joined, mail

\* A rollback empties every queue.
LEMMA UndoneEmpties ==
  ASSUME CommitTypeOK, MailQueueInv, stage # "idle", Undone
  PROVE  \A m \in Managers, x \in Mails : ~Queued(m, x)'
<1> SUFFICES ASSUME NEW m \in Managers, NEW x \in Mails, Queued(m, x)'
             PROVE  FALSE
    OBVIOUS
<1>1. CASE m \in Joined
  <2>1. queue'[m] = <<>>
    BY <1>1 DEF Undone, CommitTypeOK
  <2> QED
    BY <2>1 DEF Queued
<1>2. CASE m \notin Joined
  <2>1. queue'[m] = queue[m]
    BY <1>2 DEF Undone, CommitTypeOK
  <2>2. Queued(m, x)
    BY <2>1 DEF Queued
  <2> QED
    BY <1>2, <2>2 DEF MailQueueInv
<1> QED
  BY <1>1, <1>2

\* Putting a mail adds it to one queue, and its manager has joined.
LEMMA PutQueued ==
  ASSUME CommitTypeOK, NEW m \in Managers, NEW x \in Mails, Put(m, x)
  PROVE  /\ \A o \in Managers, y \in Mails :
              Queued(o, y)' => Queued(o, y) \/ (o = m /\ y = x)
         /\ Joined \cup {m} \subseteq Joined'
<1>1. ASSUME NEW o \in Managers, NEW y \in Mails, Queued(o, y)'
      PROVE  Queued(o, y) \/ (o = m /\ y = x)
  <2>1. CASE o # m
    BY <1>1, <2>1 DEF Put, Queued, CommitTypeOK
  <2>2. CASE o = m
    <3>1. queue'[m] = Append(queue[m], x) /\ queue[m] \in Seq(Mails)
      BY DEF Put, CommitTypeOK
    <3>2. PICK i \in DOMAIN queue'[m] : queue'[m][i] = y
      BY <1>1, <2>2 DEF Queued
    <3>3. i \in DOMAIN queue[m] \/ y = x
      BY <3>1, <3>2
    <3>4. i \in DOMAIN queue[m] => queue[m][i] = y
      BY <3>1, <3>2
    <3> QED
      BY <2>2, <3>3, <3>4 DEF Queued
  <2> QED
    BY <2>1, <2>2
<1>2. joined \in Seq(Managers)
  BY DEF CommitTypeOK
<1>3. CASE m \in Joined
  BY <1>1, <1>3 DEF Put, Joined
<1>4. CASE m \notin Joined
  <2>1. joined' = Append(joined, m)
    BY <1>4 DEF Put
  <2>2. /\ Len(joined) + 1 \in DOMAIN joined'
        /\ joined'[Len(joined) + 1] = m
        /\ \A i \in DOMAIN joined : i \in DOMAIN joined' /\ joined'[i] = joined[i]
    BY <1>2, <2>1
  <2> QED
    BY <1>1, <2>2 DEF Joined
<1> QED
  BY <1>1, <1>3, <1>4

\* Finishing a manager sends no mail of another one.
LEMMA OthersKept ==
  ASSUME CommitTypeOK, MailQueueInv, NEW m \in Managers, Quit(m) \/ Disconnect(m),
         NEW o \in Managers, NEW x \in Mails, o # m, Queued(o, x)'
  PROVE  /\ Queued(o, x)
         /\ server'[o] = server[o]
         /\ sent'[x] = sent[x]
<1>1. queue'[o] = queue[o] /\ server'[o] = server[o]
  BY DEF Quit, Disconnect, CommitTypeOK
<1>2. Queued(o, x)
  BY <1>1 DEF Queued
<1>3. ~Queued(m, x)
  <2>1. stage # "idle"
    BY DEF Quit, Disconnect, Finishing
  <2> QED
    BY <1>2, <2>1 DEF MailQueueInv
<1>4. x \notin {queue[m][i] : i \in DOMAIN queue[m]}
  BY <1>3 DEF Queued
<1>5. sent'[x] = sent[x]
  BY <1>4 DEF Quit, Disconnect
<1> QED
  BY <1>1, <1>2, <1>5

LEMMA QueueStep ==
  ASSUME CommitTypeOK, StageInv, MailQueueInv, MailAfterCommit, [CommitNext]_commitVars
  PROVE  MailQueueInv'
<1>1. CASE StartAttempt
  BY <1>1 DEF StartAttempt, MailQueueInv, Queued, NoQueue
<1>2. CASE Return
  BY <1>2, QueueKept DEF Return, Voting
<1>3. CASE RetryAttempt
  <2>1. \A m \in Managers, x \in Mails : ~Queued(m, x)'
    BY <1>3, UndoneEmpties DEF RetryAttempt
  <2> QED
    BY <2>1 DEF MailQueueInv
<1>4. ASSUME Fail PROVE MailQueueInv'
  BY <1>4 DEF Fail, MailQueueInv
<1>5. ASSUME NEW m \in Managers, NEW x \in Mails, Put(m, x) PROVE MailQueueInv'
  <2>1. \A o \in Managers, y \in Mails :
          Queued(o, y)' => Queued(o, y) \/ (o = m /\ y = x)
    BY <1>5, PutQueued
  <2>2. m \in Joined' /\ Joined \subseteq Joined'
    BY <1>5, PutQueued
  <2>3. \A o \in Managers : ~Queued(o, x)
    BY <1>5 DEF Put, MailQueueInv, CommitTypeOK
  <2>4. /\ stage' = "method" /\ origin'[x] = attempt' /\ attempt' = attempt
        /\ server' = server /\ sent' = sent
        /\ \A y \in Mails : y # x => origin'[y] = origin[y]
    BY <1>5 DEF Put, request, CommitTypeOK
  <2>5. sent[x] = 0
    <3>1. saved = {}
      BY <1>5 DEF Put, StageInv
    <3> QED
      BY <3>1 DEF MailAfterCommit, CommitTypeOK
  <2>6. stage = "method"
    BY <1>5 DEF Put
  <2>7. ASSUME NEW o \in Managers, NEW y \in Mails, Queued(o, y)'
        PROVE  /\ o \in Joined'
               /\ origin'[y] = attempt'
               /\ server'[o] # "dead" => sent'[y] = 0
               /\ \A n \in Managers : Queued(n, y)' => n = o
    <3>1. CASE y = x
      BY <2>1, <2>2, <2>3, <2>4, <2>5, <2>7, <3>1
    <3>2. CASE y # x
      BY <2>1, <2>2, <2>4, <2>6, <2>7, <3>2 DEF MailQueueInv
    <3> QED
      BY <3>1, <3>2
  <2> QED
    BY <2>4, <2>7 DEF MailQueueInv, Committing
<1>6. CASE Vote
  <2>1. CASE Connected(joined[next])
    <3>1. /\ stage' = stage /\ purpose' = purpose /\ attempt' = attempt
          /\ UNCHANGED <<joined, queue, origin, sent>> /\ stage = "voting"
      BY <1>6, <2>1 DEF Vote, Connected
    <3>2. CASE server[joined[next]] = "none"
      <4>1. \A o \in Managers : server'[o] # "dead" => server[o] # "dead"
        BY <2>1, <3>2 DEF Connected, CommitTypeOK
      <4> QED
        BY <3>1, <4>1 DEF MailQueueInv, Queued, Joined, Committing
    <3>3. CASE server[joined[next]] # "none"
      <4>1. UNCHANGED mail \/ Fail
        BY <1>6, <3>3 DEF Vote
      <4> QED
        BY <1>4, <3>1, <4>1, QueueKept DEF mail, Committing
    <3> QED
      BY <3>2, <3>3
  <2>2. CASE Fail
    BY <1>4, <2>2
  <2>3. CASE UNCHANGED <<stage, purpose, attempt, answer, mail, data>>
    BY <1>6, <2>3, QueueKept DEF Vote, Committing
  <2> QED
    BY <1>6, <2>1, <2>2, <2>3 DEF Vote, Refused
<1>7. CASE ConnectionCommit
  BY <1>7, QueueKept DEF ConnectionCommit, Committing
<1>8. ASSUME NEW m \in Managers, Quit(m) \/ Disconnect(m) PROVE MailQueueInv'
  <2>1. /\ stage = "finishing" /\ stage' # "idle"
        /\ UNCHANGED <<joined, origin, purpose, attempt>>
    BY <1>8 DEF Quit, Disconnect, Finishing, Abandon
  <2>2. \A y \in Mails : Queued(m, y)' => Queued(m, y) /\ server'[m] = "dead"
    BY <1>8 DEF Quit, Disconnect, Queued, CommitTypeOK
  <2>3. ASSUME NEW o \in Managers, NEW y \in Mails, Queued(o, y)'
        PROVE  Queued(o, y) /\ (server'[o] # "dead" => sent'[y] = 0)
    <3>1. CASE o = m
      BY <2>2, <2>3, <3>1
    <3>2. CASE o # m
      BY <1>8, <2>1, <2>3, <3>2, OthersKept DEF MailQueueInv
    <3> QED
      BY <3>1, <3>2
  <2> QED
    BY <2>1, <2>3 DEF MailQueueInv, Joined, Committing
<1>9. ASSUME NEW m \in Managers, Pass(m) \/ StillDead(m) PROVE MailQueueInv'
  BY <1>9, QueueKept DEF Pass, StillDead, Finishing, Abandon, Committing
<1>10. CASE FinishedAll
  BY <1>10, QueueKept DEF FinishedAll, Committing
<1>11. CASE CommitAgain
  BY <1>11, QueueKept DEF CommitAgain, Voting
<1>12. CASE Answer \/ Again
  BY <1>12 DEF Answer, Again, MailQueueInv
<1>13. CASE UNCHANGED commitVars
  BY <1>13 DEF commitVars, request, mail, MailQueueInv, Queued, Joined, Committing
<1> QED
  BY <1>1, <1>2, <1>3, <1>4, <1>5, <1>6, <1>7, <1>8, <1>9, <1>10, <1>11,
     <1>12, <1>13 DEF CommitNext, Finish, MethodFails, ConnectionCommitFails

-----------------------------------------------------------------------------
(* What is sent *)

\* A mail is sent by the manager that has it in its queue, while its server is
\* up: for the attempt that is in the database, and for the first time.
LEMMA SentStep ==
  ASSUME CommitTypeOK, StageInv, MailQueueInv, NEW m \in Managers, Quit(m) \/ Disconnect(m),
         NEW x \in Mails, sent'[x] # sent[x]
  PROVE  sent'[x] = 1 /\ origin[x] \in saved
<1>1. Queued(m, x) /\ sent'[x] = sent[x] + 1
  BY DEF Quit, Disconnect, Queued, CommitTypeOK
<1>2. stage = "finishing" /\ server[m] = "up"
  BY DEF Quit, Disconnect, Finishing
<1>3. origin[x] = attempt /\ sent[x] = 0 /\ purpose # "retry"
  BY <1>1, <1>2 DEF MailQueueInv, Committing
<1>4. saved = {attempt}
  BY <1>2, <1>3 DEF StageInv, Committing, CommitTypeOK
<1> QED
  BY <1>1, <1>3, <1>4

\* Every other step leaves the count of each mail, and no step takes anything
\* out of the database.
LEMMA OnlyFinishSends ==
  ASSUME CommitTypeOK, StageInv, [CommitNext]_commitVars,
         ~ \E m \in Managers : Quit(m) \/ Disconnect(m)
  PROVE  sent' = sent
BY DEF CommitNext, StartAttempt, Return, RetryAttempt, MethodFails, Fail, Undone, Put, Vote,
   Connected, Refused, ConnectionCommit, ConnectionCommitFails, Finish, Pass, StillDead,
   FinishedAll, CommitAgain, Answer, Again, commitVars, mail

LEMMA CommittedGrows ==
  ASSUME CommitTypeOK, [CommitNext]_commitVars
  PROVE  saved \subseteq saved'
<1>1. ASSUME Fail PROVE saved' = saved
  BY <1>1 DEF Fail, Undone
<1>2. CASE Vote
  BY <1>1, <1>2 DEF Vote, Connected, Refused, data
<1>3. CASE Finish
  BY <1>3 DEF Finish, Pass, Quit, Disconnect, StillDead, data
<1>4. CASE ConnectionCommit
  BY <1>4 DEF ConnectionCommit
<1>5. CASE StartAttempt \/ Return \/ RetryAttempt
  BY <1>5 DEF StartAttempt, Return, RetryAttempt, Undone, data
<1>6. CASE \E m \in Managers, x \in Mails : Put(m, x)
  BY <1>6 DEF Put, data
<1>7. CASE FinishedAll \/ CommitAgain \/ Answer \/ Again \/ UNCHANGED commitVars
  BY <1>7 DEF FinishedAll, CommitAgain, Answer, Again, commitVars, data
<1> QED
  BY <1>1, <1>2, <1>3, <1>4, <1>5, <1>6, <1>7 DEF CommitNext, MethodFails, ConnectionCommitFails

\* The attempt that put a mail is not forgotten once the mail is sent.
LEMMA OriginKept ==
  ASSUME CommitTypeOK, StageInv, MailAfterCommit, [CommitNext]_commitVars,
         NEW x \in Mails, sent[x] > 0
  PROVE  origin'[x] = origin[x]
<1>1. ASSUME NEW m \in Managers, NEW y \in Mails, Put(m, y)
      PROVE  origin'[x] = origin[x]
  <2>1. saved = {}
    BY <1>1 DEF Put, StageInv
  <2> QED
    BY <2>1 DEF MailAfterCommit
<1>2. CASE ~ \E m \in Managers, y \in Mails : Put(m, y)
  BY <1>2 DEF CommitNext, StartAttempt, Return, RetryAttempt, MethodFails, Fail, Undone, Vote,
     Connected, Refused, ConnectionCommit, ConnectionCommitFails, Finish, Pass, Quit,
     Disconnect, StillDead, FinishedAll, CommitAgain, Answer, Again, commitVars, mail
<1> QED
  BY <1>1, <1>2

LEMMA SentInvStep ==
  ASSUME CommitTypeOK, StageInv, MailQueueInv, MailAfterCommit, SentOnce, [CommitNext]_commitVars
  PROVE  MailAfterCommit' /\ SentOnce'
<1> SUFFICES ASSUME NEW x \in Mails
             PROVE  (sent'[x] > 0 => origin'[x] \in saved') /\ sent'[x] <= 1
    BY DEF MailAfterCommit, SentOnce
<1>1. CASE sent'[x] = sent[x]
  BY <1>1, OriginKept, CommittedGrows DEF MailAfterCommit, SentOnce
<1>2. CASE sent'[x] # sent[x]
  <2>1. PICK m \in Managers : Quit(m) \/ Disconnect(m)
    BY <1>2, OnlyFinishSends
  <2>2. sent'[x] = 1 /\ origin[x] \in saved
    BY <1>2, <2>1, SentStep
  <2>3. origin' = origin
    BY <2>1 DEF Quit, Disconnect
  <2> QED
    BY <2>2, <2>3, CommittedGrows
<1> QED
  BY <1>1, <1>2

-----------------------------------------------------------------------------
(* The votes *)

\* A vote adds one manager to those that have voted: a strict one has a server.
LEMMA VoteStep ==
  ASSUME CommitTypeOK, VoteInv, Vote, ~Fail
  PROVE  VoteInv'
<1> DEFINE m == joined[next]
<1>1. /\ stage = "voting" /\ next <= Len(joined) /\ m \in Managers
      /\ next' = next + 1 /\ joined' = joined /\ dirty' = dirty
    BY DEF Vote, Connected, Refused, mail, data, CommitTypeOK
<1>2. /\ m \in Strict => server'[m] # "none"
      /\ \A o \in Managers : server'[o] = server[o] \/ server'[o] = "up"
  BY <1>1 DEF Vote, Connected, Refused, mail, CommitTypeOK
<1>3. dirty' => \A o \in Managers : server'[o] # "dead"
  BY <1>1, <1>2 DEF VoteInv
<1>4. ASSUME NEW i \in 1 .. next' - 1, joined'[i] \in Strict
      PROVE  server'[joined'[i]] # "none"
  <2>1. i \in 1 .. next - 1 \/ i = next
    BY <1>1 DEF CommitTypeOK
  <2>2. CASE i = next
    BY <1>1, <1>2, <1>4, <2>2
  <2>3. CASE i \in 1 .. next - 1
    <3>1. joined[i] \in Managers
      BY <1>1, <2>3 DEF CommitTypeOK
    <3>2. server[joined[i]] # "none"
      BY <1>1, <1>4, <2>3 DEF VoteInv
    <3> QED
      BY <1>1, <1>2, <3>1, <3>2
  <2> QED
    BY <2>1, <2>2, <2>3
<1> QED
  BY <1>3, <1>4 DEF VoteInv

LEMMA VoteInvStep ==
  ASSUME CommitTypeOK, StageInv, VoteInv, [CommitNext]_commitVars
  PROVE  VoteInv'
<1>1. ASSUME Fail PROVE VoteInv'
  BY <1>1, UndoneTyped DEF Fail, VoteInv
<1>2. CASE StartAttempt
  BY <1>2 DEF StartAttempt, NoServer, VoteInv
<1>3. CASE Return \/ CommitAgain
  <2>1. next' = 1 /\ server' = server /\ dirty' = dirty
    BY <1>3 DEF Return, CommitAgain, Voting, mail, data
  <2> QED
    BY <2>1 DEF VoteInv
<1>4. CASE RetryAttempt
  <2>1. next' = 1 /\ dirty' = FALSE
    BY <1>4, UndoneTyped DEF RetryAttempt, Voting
  <2> QED
    BY <2>1 DEF VoteInv
<1>5. CASE \E m \in Managers, x \in Mails : Put(m, x)
  BY <1>5 DEF Put, request, data, VoteInv
<1>6. CASE Vote
  BY <1>1, <1>6, VoteStep
<1>7. CASE ConnectionCommit
  BY <1>7 DEF ConnectionCommit, VoteInv
<1>8. CASE Finish
  <2>1. stage' \in {"finishing", "finished"} /\ dirty' = dirty /\ stage = "finishing"
    BY <1>8 DEF Finish, Pass, Quit, Disconnect, StillDead, Finishing, Abandon, data
  <2> QED
    BY <2>1 DEF VoteInv, CommitTypeOK
<1>9. CASE FinishedAll \/ Answer \/ Again
  <2>1. stage' \in {"idle", "finished"} /\ server' = server /\ dirty' = dirty
    BY <1>9 DEF FinishedAll, Answer, Again, mail, data
  <2> QED
    BY <2>1 DEF VoteInv
<1>10. CASE UNCHANGED commitVars
  BY <1>10 DEF commitVars, request, mail, data, VoteInv
<1> QED
  BY <1>1, <1>2, <1>3, <1>4, <1>5, <1>6, <1>7, <1>8, <1>9, <1>10
     DEF CommitNext, MethodFails, ConnectionCommitFails

-----------------------------------------------------------------------------
(* The theorems *)

\* The strengthening is an invariant of every request.
THEOREM CommitInvHolds == CommitSpec => []CommitInv
<1>1. CommitInit => CommitInv
  BY InitCommitInv
<1>2. CommitInv /\ [CommitNext]_commitVars => CommitInv'
  BY TypeStep, StageStep, QueueStep, SentInvStep, VoteInvStep DEF CommitInv
<1> QED
  BY <1>1, <1>2, PTL DEF CommitSpec

\* Every variable keeps its type, the retry loop stays within its bound, and
\* uncommitted writes exist only while the method runs or is being committed.
THEOREM CommitTypeCorrect == CommitSpec => []CommitTypeOK
<1>1. CommitInv => CommitTypeOK
  BY DEF CommitInv
<1> QED
  BY <1>1, CommitInvHolds, PTL

\* A mail that has left was put by an attempt whose writes are committed
\* (Transaction.commit finishes the managers after connection.commit).
THEOREM MailAfterCommitHolds == CommitSpec => []MailAfterCommit
<1>1. CommitInv => MailAfterCommit
  BY DEF CommitInv
<1> QED
  BY <1>1, CommitInvHolds, PTL

\* No mail leaves twice, although each request commits twice and a manager
\* whose server is lost keeps its queue (SMTPDataManager.tpc_finish).
THEOREM SentOnceHolds == CommitSpec => []SentOnce
<1>1. CommitInv => SentOnce
  BY DEF CommitInv
<1> QED
  BY <1>1, CommitInvHolds, PTL

\* A request is applied at most once, however often _dispatch retries it.
THEOREM AppliedOnceHolds == CommitSpec => []AppliedOnce
<1>1. CommitInv => AppliedOnce
  <2> SUFFICES ASSUME CommitInv PROVE Cardinality(saved) <= 1
    BY DEF AppliedOnce
  <2>1. saved = {} \/ saved = {attempt}
    BY DEF CommitInv, StageInv
  <2>2. saved = {} => Cardinality(saved) = 0
    BY FS_EmptySet
  <2>3. saved = {attempt} => Cardinality(saved) = 1
    BY FS_Singleton
  <2> QED
    BY <2>1, <2>2, <2>3
<1> QED
  BY <1>1, CommitInvHolds, PTL

\* A client that is told "ok" has the writes of the last attempt committed.
THEOREM OkIsCommittedHolds == CommitSpec => []OkIsCommitted
<1>1. CommitInv => OkIsCommitted
  BY DEF CommitInv, StageInv, OkIsCommitted
<1> QED
  BY <1>1, CommitInvHolds, PTL

\* The vote of a strict manager counts: writes are committed only while every
\* strict manager that has joined is connected.
THEOREM StrictIsConnectedHolds == CommitSpec => StrictIsConnected
<1> DEFINE Connecting == saved' # saved
                           => \A m \in Joined \cap Strict : server[m] = "up"
<1>1. CommitInv /\ [CommitNext]_commitVars => [Connecting]_commitVars
  <2> SUFFICES ASSUME CommitInv, [CommitNext]_commitVars, saved' # saved,
                      NEW m \in Joined \cap Strict
               PROVE  server[m] = "up"
    OBVIOUS
  <2>1. ConnectionCommit /\ dirty
    <3>1. ASSUME Fail PROVE FALSE
      BY <3>1 DEF Fail, Undone
    <3>2. ASSUME Vote PROVE FALSE
      BY <3>1, <3>2 DEF Vote, Connected, Refused, data
    <3>3. ASSUME Finish PROVE FALSE
      BY <3>3 DEF Finish, Pass, Quit, Disconnect, StillDead, data
    <3>4. ASSUME \E o \in Managers, x \in Mails : Put(o, x) PROVE FALSE
      BY <3>4 DEF Put, data
    <3>5. ASSUME StartAttempt \/ Return \/ RetryAttempt \/ FinishedAll \/ CommitAgain
                   \/ Answer \/ Again \/ UNCHANGED commitVars
          PROVE  FALSE
      BY <3>5 DEF StartAttempt, Return, RetryAttempt, Undone, FinishedAll, CommitAgain,
         Answer, Again, commitVars, data
    <3> QED
      BY <3>1, <3>2, <3>3, <3>4, <3>5
         DEF CommitNext, MethodFails, ConnectionCommitFails, ConnectionCommit
  <2>2. stage = "voting" /\ next > Len(joined)
    BY <2>1 DEF ConnectionCommit
  <2>3. PICK i \in DOMAIN joined : joined[i] = m
    BY DEF Joined
  <2>4. i \in 1 .. next - 1 /\ m \in Managers
    BY <2>2, <2>3, CommitAssumption DEF CommitInv, CommitTypeOK
  <2>5. server[m] # "none" /\ server[m] # "dead"
    BY <2>1, <2>2, <2>3, <2>4 DEF CommitInv, VoteInv
  <2> QED
    BY <2>4, <2>5 DEF CommitInv, CommitTypeOK
<1> QED
  BY <1>1, CommitInvHolds, PTL DEF CommitSpec, StrictIsConnected
============================================================================
