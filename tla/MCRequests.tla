------------------------------ MODULE MCRequests ------------------------------
(* The commit of a request and the tasks that requests queue, on small instances. *)
(* The components do not meet here: each has its area of the state space, chosen  *)
(* in the initial state.                                                          *)
EXTENDS TaskQueue, TransactionCommit, TLC
CONSTANTS
  t1, t2, puller, s1, s2,
  Areas      \* what a run looks at
VARIABLE area

OneDb == <<"A">>
OnePool == (s1 :> puller) @@ (s2 :> puller)

\* The components that are not in the area stay in one of their initial states.
RequestsInit ==
  /\ area \in Areas
  /\ CommitInit /\ QueueInit /\ (area = "queue" \/ ~worker)
Still(a) ==
  /\ area = a /\ UNCHANGED area
  /\ a # "commit" => UNCHANGED commitVars
  /\ a # "queue" => UNCHANGED queueVars
RequestsNext ==
  \/ Still("commit") /\ CommitNext
  \/ Still("queue") /\ QueueNext
  \* A request that has its answer is over.
  \/ Still("commit") /\ answer # "none" /\ UNCHANGED commitVars
RequestsSpec == RequestsInit /\ [][RequestsNext]_<<area, commitVars, queueVars>>
\* The fairness of the components: in the other area nothing of it is enabled.
FairRequestsSpec ==
  RequestsSpec /\ QueueFairness /\ WF_commitVars(area = "commit" /\ CommitNext)

\* A request gets its answer, however often it is tried.
RequestAnswered == area = "commit" => Answered
==============================================================================
