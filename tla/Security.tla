------------------------------- MODULE Security -------------------------------
(* The sessions and the logins of a user.                                      *)
(* A session of ir.session: requests check it before they run and reset its    *)
(* timestamp after, methods that ask for a fresh session check the timeout     *)
(* (ir/session.py, security.py, protocols/dispatcher.py).  Every process has   *)
(* a cache of the last reset, which spares most writes.                        *)
(* Logins: attempts are counted for each device and for each network in a      *)
(* period (res/user.py: get_login, LoginAttempt, UserDevice; security.login).  *)
EXTENDS Integers, FiniteSets
CONSTANTS
  Proc,
  MaxAge,       \* [session] max_age
  Timeout,      \* [session] timeout
  Interval,     \* _reset_interval
  MaxNow,       \* bound of the clock
  Handler,      \* threads that answer login requests
  Cookie, NoCookie,
  MaxAttempt, MaxAttemptIp, \* [session] max_attempt, max_attempt_ip_network
  Period,       \* [session] timeout, in the count of the attempts
  MaxDate,      \* bound of the clock
  MaxLogins     \* bound: logins
ASSUME SecurityAssumption ==
  /\ Interval \in Nat /\ MaxNow \in Nat
  /\ IsFiniteSet(Handler) /\ MaxAttempt \in Nat /\ Period \in Nat
VARIABLES
  session,      \* [alive, created, stamp]: stamp is write_date or create_date
  lastReset,    \* process -> _session_reset_cache, or NoReset
  request,      \* process -> where its request is
  instant,      \* now
  used,         \* ghost: when the last request that came in time ended
  broken,       \* ghost: requests that failed in reset after their commit
  attempt,      \* rows of res.user.login.attempt: [id, cookie, date]
  device,       \* cookies of res.user.device
  login,        \* handler -> the login it answers, with its snapshot
  date,
  logins,       \* so far, they number the attempts
  failed        \* ghost: cookie -> the attempts whose password was refused in the
                \* period, since a success
sessionVars == <<session, lastReset, request, instant, used, broken>>
loginVars == <<attempt, device, login, date, logins, failed>>

(* --------------------------------- the session ------------------------------ *)
NoReset == MaxNow + 1
SessionInit ==
  /\ session = [alive |-> TRUE, created |-> 0, stamp |-> 0]
  /\ lastReset = [p \in Proc |-> NoReset]
  /\ request = [p \in Proc |-> "no"]
  /\ instant = 0 /\ used = 0 /\ broken = 0

InTime(t) == instant - t < Timeout
RequestAt(p, step) == request' = [request EXCEPT ![p] = step]
Remembered(p, t) == lastReset' = [lastReset EXCEPT ![p] = t]
\* Session.check deletes the sessions that are too old, and remembers the reset.
Check(p) ==
  /\ request[p] = "no" /\ session.alive
  /\ IF instant - session.created < MaxAge
     THEN RequestAt(p, "checked") /\ Remembered(p, session.stamp) /\ UNCHANGED session
     ELSE session' = [session EXCEPT !.alive = FALSE] /\ UNCHANGED <<request, lastReset>>
  /\ UNCHANGED <<instant, used, broken>>
\* check_timeout; the method runs and is committed, or fails.
CheckTimeout(p) ==
  /\ request[p] = "checked"
  /\ IF session.alive /\ InTime(session.stamp)
     THEN RequestAt(p, "fresh") /\ UNCHANGED session
     ELSE RequestAt(p, "no") /\ session' = [session EXCEPT !.alive = FALSE]
  /\ UNCHANGED <<lastReset, instant, used, broken>>
FailMethod(p) ==
  /\ request[p] \in {"checked", "fresh"} /\ RequestAt(p, "no")
  /\ UNCHANGED <<session, lastReset, instant, used, broken>>
\* reset, in autocommit: the search ...
Served == used' = IF session.alive /\ InTime(session.stamp) THEN instant ELSE used
ResetSearch(p) ==
  /\ request[p] \in {"checked", "fresh"}
  /\ IF lastReset[p] # NoReset /\ instant - Interval <= lastReset[p]
     THEN RequestAt(p, "no") /\ Served
     ELSE IF session.alive /\ instant - session.stamp <= Timeout
     THEN RequestAt(p, "found") /\ UNCHANGED used
     ELSE RequestAt(p, "no") /\ UNCHANGED used
  /\ UNCHANGED <<session, lastReset, instant, broken>>
\* ... and the write, which fails when the session was deleted meanwhile.
ResetWrite(p) ==
  /\ request[p] = "found" /\ RequestAt(p, "no")
  /\ IF session.alive
     THEN /\ session' = [session EXCEPT !.stamp = instant]
          /\ Remembered(p, instant) /\ used' = instant /\ UNCHANGED broken
     ELSE broken' = 1 /\ UNCHANGED <<session, lastReset, used>>
  /\ UNCHANGED instant
\* remove (logout), clear (User.write of the password or of active), and the
\* cache's eviction or restart.
RemoveSession ==
  /\ session.alive /\ session' = [session EXCEPT !.alive = FALSE]
  /\ UNCHANGED <<lastReset, request, instant, used, broken>>
Forget(p) ==
  /\ Remembered(p, NoReset) /\ UNCHANGED <<session, request, instant, used, broken>>
SessionTick ==
  /\ instant < MaxNow /\ instant' = instant + 1
  /\ UNCHANGED <<session, lastReset, request, used, broken>>
SessionNext ==
  \/ RemoveSession \/ SessionTick
  \/ \E p \in Proc : \/ Check(p) \/ CheckTimeout(p) \/ FailMethod(p)
                     \/ ResetSearch(p) \/ ResetWrite(p) \/ Forget(p)

(* --------------------------------- the logins ------------------------------- *)
NoLogin == [on |-> FALSE]
LoginInit ==
  /\ attempt = {} /\ device = Cookie /\ date = 0 /\ logins = 0
  /\ login = [h \in Handler |-> NoLogin]
  /\ failed = [c \in Cookie \cup {NoCookie} |-> {}]

Counted(rows, at, c) == {row \in rows : row.cookie = c /\ at - row.date <= Period}
CountedIp(rows, at) == {row \in rows : at - row.date <= Period}
\* The transaction of a login; get_valid_cookie: an unknown cookie is none.
StartLogin(h, cookie) ==
  /\ ~login[h].on /\ logins < MaxLogins /\ logins' = logins + 1
  /\ login' = [login EXCEPT ![h] = [on |-> TRUE, id |-> logins, rows |-> attempt, at |-> date,
                 cookie |-> IF cookie \in device THEN cookie ELSE NoCookie]]
  /\ UNCHANGED <<attempt, device, date, failed>>
\* LoginAttempt.add also deletes what is out of the period.
RowOf(l) == [id |-> l.id, cookie |-> l.cookie, date |-> l.at]
Added(l) == CountedIp(attempt, l.at) \cup {RowOf(l)}
LimitedIp(l) == Cardinality(CountedIp(l.rows, l.at)) > MaxAttemptIp
Limited(l) == Cardinality(Counted(l.rows, l.at, l.cookie)) > MaxAttempt
ClearedForAll(l) == attempt \ l.rows
\* LoginAttempt.remove
Cleared(l) == {row \in attempt : row.cookie # l.cookie \/ row \notin l.rows}
Recent(c) == {row \in failed[c] : date - row.date <= Period}
\* get_login and its commit, also when it raises RateLimitException.
AnswerLogin(h, correct) ==
  LET l == login[h]
  IN /\ l.on /\ login' = [login EXCEPT ![h] = NoLogin]
     /\ IF LimitedIp(l) THEN UNCHANGED <<attempt, failed>>
        ELSE IF Limited(l) THEN attempt' = Added(l) /\ UNCHANGED failed
        ELSE IF correct
        THEN /\ attempt' = Cleared(l)
             /\ failed' = [failed EXCEPT ![l.cookie] = {}]
        ELSE /\ attempt' = Added(l)
             /\ failed' = [failed EXCEPT ![l.cookie] = Recent(l.cookie) \cup {RowOf(l)}]
     /\ UNCHANGED <<device, date, logins>>
\* User.write of the password: UserDevice.clear.
ClearDevices ==
  /\ device # {} /\ device' = {} /\ UNCHANGED <<attempt, login, date, logins, failed>>
\* UserDevice.renew gives the device of a user a cookie.
Renew(c) ==
  /\ device = {} /\ device' = {c} /\ UNCHANGED <<attempt, login, date, logins, failed>>
LoginTick ==
  /\ date < MaxDate /\ date' = date + 1
  /\ UNCHANGED <<attempt, device, login, logins, failed>>
LoginNext ==
  \/ ClearDevices \/ LoginTick
  \/ \E c \in Cookie : Renew(c)
  \/ \E h \in Handler : \/ \E c \in Cookie \cup {NoCookie} : StartLogin(h, c)
                        \/ \E correct \in BOOLEAN : AnswerLogin(h, correct)

SecurityInit == SessionInit /\ LoginInit
SecurityNext == \/ SessionNext /\ UNCHANGED loginVars
                \/ LoginNext /\ UNCHANGED sessionVars
SecuritySpec == SecurityInit /\ [][SecurityNext]_<<sessionVars, loginVars>>

(* -------------------------------- properties ------------------------------- *)
\* A session in use does not time out: its timestamp is never further behind the
\* last request served in time, by any process, than the interval in which
\* resets are not written; so a user who comes back within the timeout less the
\* interval is still fresh.
KeptFresh == session.alive => used <= session.stamp + Interval
\* A password refused for a device in the period, since the last success, is counted;
\* and the logins are answered by Too Many Requests as soon as more than max_attempt
\* are, but for those that had begun before.
AttemptsLimited ==
  \A c \in Cookie \cup {NoCookie} :
    /\ Recent(c) \subseteq {row \in attempt : row.cookie = c}
    /\ Cardinality(Recent(c)) <= MaxAttempt + 1 + (Cardinality(Handler) - 1)
\* What the documentation of max_attempt says: it is "The maximum authentication attempt
\* before the server answers unconditionally Too Many Requests" (configuration.rst).  It does
\* not hold: count_login is compared with >, so one more is accepted.
MaximumRespected == \A c \in Cookie \cup {NoCookie} : Cardinality(Recent(c)) <= MaxAttempt
LoginsGuarded == KeptFresh /\ AttemptsLimited
==============================================================================
