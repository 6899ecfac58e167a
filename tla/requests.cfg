SPECIFICATION FairRequestsSpec
CONSTANTS
  Areas = {"commit", "queue"}
  t1 = t1
  t2 = t2
  puller = puller
  s1 = s1
  s2 = s2
  Managers = {strict, lenient}
  Strict = {strict}
  Mails = {x1, x2, x3}
  Retry = 2
  Dbs <- OneDb
  MaxId = 3
  Threads = {t1, t2}
  Pullers = {puller}
  Slots = {s1, s2}
  PullerOf <- OnePool
  Crashes = 1
  Reuse = FALSE
  NoRun = NoRun
INVARIANTS
  MailAfterCommit
  SentOnce
  OkIsCommitted
  AtMostOnce
  NotForgotten
PROPERTIES
  RequestAnswered
  EventuallyPulled
