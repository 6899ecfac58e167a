-------------------------------- MODULE Wizards --------------------------------
(* The session of a wizard (wizard/wizard.py, ir/session.py): requests that give   *)
(* the values of a view and run a state, each a transaction on a snapshot that is  *)
(* repeated when another one has written the session before it.  What the methods  *)
(* of a wizard do is a parameter: they read a view, write another and choose the   *)
(* next state.  The value of a view stands for the values of its fields.           *)
EXTENDS Naturals, Sequences, FiniteSets
CONSTANTS
  States,       \* name -> [kind, reads, sets, next, buttons]
  Value,        \* the values of a view, with 0 when nothing was entered
  Request,
  MaxRetry,     \* the retries of the dispatcher
  MaxRequests,  \* bound: requests that are sent
  MaxAccess     \* bound: changes of the access
VARIABLES
  session,      \* view -> its value in ir.session.wizard.data, or Gone
  version,      \* of the row of the session
  requests,     \* Request -> the request in progress, or Idle
  shown,        \* the views that the client has been shown
  may,          \* what check_access finds
  sent, accesses,
  entered,      \* ghost: view -> the value last given or set
  serial        \* ghost: each answer was that of the requests one after the other
wizardVars == <<session, version, requests, shown, may, sent, accesses, entered, serial>>

End == "end"
Start == "start"
Gone == [gone |-> TRUE]
Idle == [idle |-> TRUE]
View == {name \in DOMAIN States : States[name].kind = "view"}
Init ==
  /\ session = [v \in View |-> 0] /\ version = 1 /\ entered = session
  /\ requests = [r \in Request |-> Idle]
  /\ shown = {} /\ may = TRUE /\ sent = 0 /\ accesses = 0 /\ serial = TRUE

(* ---------------------------------- _execute -------------------------------- *)
\* Mutant of Saved: the session is written only when a view is shown.
SavedInView(name) == name # End /\ States[name].kind = "view"
\* The session is written after each state but the end.
Saved(name) == name # End
Answer(data, saved, view, default, actions) ==
  [data |-> data, saved |-> saved, view |-> view, default |-> default, actions |-> actions]
\* A view is shown with its defaults; an action is made first, then the transition is
\* taken, and the action comes after those of the states that follow.
RECURSIVE Run(_, _)
Run(name, data) ==
  IF name = End THEN Answer(data, Saved(name), "", 0, <<>>)
  ELSE LET s == States[name]
           read == data[s.reads]
           set == [data EXCEPT ![s.sets] = IF s.sets = s.reads THEN @ ELSE read]
           rest == IF s.next = <<>> THEN Answer(set, FALSE, "", 0, <<>>) ELSE Run(s.next[read], set)
       IN  IF s.kind = "view" THEN Answer(data, Saved(name), name, read, <<>>)
           ELSE [rest EXCEPT !.saved = @ \/ Saved(name),
                             !.actions = IF s.kind = "action" THEN Append(@, <<name, read>>) ELSE @]
\* execute: the values that the client gives are put into the views before.
Executed(q, data) == Run(q.state, [v \in View |-> IF v = q.view THEN q.value ELSE data[v]])
\* delete: the method of the end state, if the wizard has one, sees the session.
Ended(data) == Answer(data, TRUE, "", 0, <<<<End, data[Start]>>>>)
Result(q, data) == IF q.op = "delete" THEN Ended(data) ELSE Executed(q, data)

(* ---------------------------------- requests -------------------------------- *)
Begun(r, op, view, value, state) ==
  [op |-> op, view |-> view, value |-> value, state |-> state, snapshot |-> session,
   version |-> version, tries |-> 0, denied |-> op = "execute" /\ ~may]
Send(r, op, view, value, state) ==
  /\ sent < MaxRequests /\ sent' = sent + 1 /\ requests[r] = Idle
  /\ requests' = [requests EXCEPT ![r] = Begun(r, op, view, value, state)]
  /\ UNCHANGED <<session, version, shown, may, accesses, entered, serial>>
\* The first request runs the start state; then a button of a view that is shown.
Open(r) == shown = {} /\ Send(r, "execute", "", 0, Start)
Click(r, view, value, button) ==
  view \in shown /\ button \in States[view].buttons /\ Send(r, "execute", view, value, button)
Delete(r) == Send(r, "delete", "", 0, "")

Answered(r, answer) == requests' = [requests EXCEPT ![r] = Idle] /\ shown' = shown \cup answer
\* The wizard or the session is not there for the user: an error, without a change.
Refused(r) ==
  /\ requests[r] # Idle /\ (requests[r].denied \/ requests[r].snapshot = Gone)
  /\ Answered(r, {}) /\ UNCHANGED <<session, version, may, sent, accesses, entered, serial>>
\* Another request has written the session since: a serialization error.
Conflict(r) == requests[r].version # version
Commit(r) ==
  LET q == requests[r]
      result == Result(q, q.snapshot)
      asIf == Result(q, entered)
  IN  /\ q # Idle /\ ~q.denied /\ q.snapshot # Gone /\ (result.saved => ~Conflict(r))
      /\ session' = CASE q.op = "delete" -> Gone [] result.saved -> result.data [] OTHER -> session
      /\ version' = IF result.saved THEN version + 1 ELSE version
      /\ entered' = IF q.op = "execute" /\ q.state # End THEN asIf.data ELSE entered
      /\ serial' = ([result EXCEPT !.saved = TRUE] = [asIf EXCEPT !.saved = TRUE] \/ q.state = End)
      /\ Answered(r, {result.view} \ {""})
      /\ UNCHANGED <<may, sent, accesses>>
Retry(r) ==
  LET q == requests[r]
  IN  /\ q # Idle /\ ~q.denied /\ q.snapshot # Gone /\ Result(q, q.snapshot).saved /\ Conflict(r)
      /\ IF q.tries < MaxRetry
         THEN /\ requests' = [requests EXCEPT ![r] = [Begun(r, q.op, q.view, q.value, q.state)
                                                       EXCEPT !.tries = q.tries + 1]]
              /\ UNCHANGED shown
         ELSE Answered(r, {})
      /\ UNCHANGED <<session, version, may, sent, accesses, entered, serial>>
\* The rights on the model, or the groups of the action, are changed.
ChangeAccess ==
  /\ accesses < MaxAccess /\ accesses' = accesses + 1 /\ may' = ~may
  /\ UNCHANGED <<session, version, requests, shown, sent, entered, serial>>

Next ==
  \/ \E r \in Request :
       \/ Open(r) \/ Delete(r) \/ Refused(r) \/ Commit(r) \/ Retry(r)
       \/ \E view \in shown, value \in Value, button \in DOMAIN States \cup {End} :
            Click(r, view, value, button)
  \/ ChangeAccess
Spec == Init /\ [][Next]_wizardVars

(* -------------------------------- properties -------------------------------- *)
TypeOK ==
  /\ session \in [View -> Value] \cup {Gone} /\ entered \in [View -> Value]
  /\ \A r \in Request : requests[r] = Idle \/ requests[r].snapshot \in [View -> Value] \cup {Gone}
  /\ shown \subseteq View /\ may \in BOOLEAN /\ serial \in BOOLEAN
\* The session holds, for each view, what was entered or set last, and every answer is
\* the one that the requests give one after the other in the order they are committed
\* - also after a transition that ends the wizard, for the method of its end state, and
\* when two requests were under way at once (_execute, _save, delete).
SessionSerial == serial /\ (session # Gone => session = entered)
===============================================================================
