---------------------------- MODULE ServicesProofs ----------------------------
(* Theorems about the services of a server, for any number of processes, of     *)
(* records and of requests: sessions and logins, triggers and crons, the bus.   *)
EXTENDS Security, Trigger, Bus, TLAPS, FiniteSetTheorems, SequenceTheorems

(* ------------- Security: a session in use stays fresh ----------------------- *)
\* No process remembers a reset that is later than the timestamp of the session.
SessionInv ==
  /\ instant \in Nat /\ used \in Nat
  /\ session \in [alive : BOOLEAN, created : Nat, stamp : Nat] /\ session.stamp <= instant
  /\ lastReset \in [Proc -> Nat]
  /\ \A p \in Proc : lastReset[p] # NoReset => lastReset[p] <= session.stamp
  /\ KeptFresh

LEMMA SessionStep == SessionInv /\ [SessionNext]_sessionVars => SessionInv'
<1> SUFFICES ASSUME SessionInv, [SessionNext]_sessionVars PROVE SessionInv'
  OBVIOUS
<1> USE SecurityAssumption DEF SessionInv
<1>1. NoReset \in Nat
  BY DEF NoReset
<1>2. ASSUME NEW p \in Proc, Check(p) PROVE SessionInv'
  <2>1. UNCHANGED <<instant, used>>
    BY <1>2 DEF Check
  <2>2. CASE Remembered(p, session.stamp) /\ UNCHANGED session
    BY <2>1, <2>2 DEF Remembered, KeptFresh
  <2>3. CASE session' = [session EXCEPT !.alive = FALSE] /\ UNCHANGED lastReset
    BY <2>1, <2>3 DEF KeptFresh
  <2> QED
    BY <1>2, <2>2, <2>3 DEF Check
<1>3. ASSUME NEW p \in Proc, CheckTimeout(p) PROVE SessionInv'
  <2>1. UNCHANGED <<instant, used, lastReset>>
    BY <1>3 DEF CheckTimeout
  <2>2. CASE UNCHANGED session
    BY <2>1, <2>2 DEF KeptFresh
  <2>3. CASE session' = [session EXCEPT !.alive = FALSE]
    BY <2>1, <2>3 DEF KeptFresh
  <2> QED
    BY <1>3, <2>2, <2>3 DEF CheckTimeout
<1>4. ASSUME NEW p \in Proc, FailMethod(p) PROVE SessionInv'
  BY <1>4 DEF FailMethod, KeptFresh
<1>5. ASSUME NEW p \in Proc, ResetSearch(p) PROVE SessionInv'
  <2>1. UNCHANGED <<session, lastReset, instant>>
    BY <1>5 DEF ResetSearch
  <2>2. CASE used' = used
    BY <2>1, <2>2 DEF KeptFresh
  <2>3. CASE lastReset[p] # NoReset /\ instant - Interval <= lastReset[p] /\ used' = instant
    <3>1. lastReset[p] \in Nat /\ lastReset[p] <= session.stamp
      BY <2>3
    <3>2. instant <= session.stamp + Interval
      BY <2>3, <3>1
    <3> QED
      BY <2>1, <2>3, <3>2 DEF KeptFresh
  <2> QED
    BY <1>5, <2>2, <2>3 DEF ResetSearch, Served
<1>6. ASSUME NEW p \in Proc, ResetWrite(p) PROVE SessionInv'
  <2>1. CASE UNCHANGED <<session, lastReset, used, instant>>
    BY <2>1 DEF KeptFresh
  <2>2. CASE /\ session' = [session EXCEPT !.stamp = instant] /\ Remembered(p, instant)
             /\ used' = instant /\ instant' = instant
    <3>1. \A q \in Proc : lastReset'[q] # NoReset => lastReset'[q] <= instant
      BY <2>2 DEF Remembered
    <3> QED
      BY <2>2, <3>1 DEF Remembered, KeptFresh
  <2> QED
    BY <1>6, <2>1, <2>2 DEF ResetWrite
<1>7. CASE RemoveSession
  BY <1>7 DEF RemoveSession, KeptFresh
<1>8. ASSUME NEW p \in Proc, Forget(p) PROVE SessionInv'
  BY <1>1, <1>8 DEF Forget, Remembered, KeptFresh
<1>9. CASE SessionTick
  BY <1>9 DEF SessionTick, KeptFresh
<1>10. CASE UNCHANGED sessionVars
  BY <1>10 DEF sessionVars, KeptFresh
<1> QED
  BY <1>2, <1>3, <1>4, <1>5, <1>6, <1>7, <1>8, <1>9, <1>10 DEF SessionNext

(* ------------- Security: the passwords that may be tried -------------------- *)
Cookies == Cookie \cup {NoCookie}
Row == [id : Nat, cookie : Cookies, date : Nat]
LoginTyped ==
  /\ attempt \subseteq Row /\ IsFiniteSet(attempt) /\ date \in Nat /\ logins \in Nat
  /\ failed \in [Cookies -> SUBSET Row] /\ \A c \in Cookies : IsFiniteSet(failed[c])
  /\ login = [h \in Handler |-> login[h]]
  /\ \A h \in Handler :
       \/ login[h] = NoLogin
       \/ /\ login[h].on /\ login[h].id \in Nat /\ login[h].cookie \in Cookies
          /\ login[h].rows \subseteq Row /\ IsFiniteSet(login[h].rows)
          /\ login[h].at \in Nat /\ login[h].at <= date
\* The logins whose snapshot still lets them try a password.
Trying(c) == {h \in Handler : login[h].on /\ login[h].cookie = c /\ ~Limited(login[h])}
\* What was refused in the period can be counted; and once it is too much, each
\* failure is one of a login that had begun before.
LoginInv ==
  /\ LoginTyped
  /\ \A c \in Cookies : Recent(c) \subseteq {r \in attempt : r.cookie = c}
  /\ \A c \in Cookies : Cardinality(Recent(c)) > MaxAttempt =>
       Cardinality(Recent(c)) + Cardinality(Trying(c)) <= MaxAttempt + Cardinality(Handler)

LEMMA LoginFinite ==
  ASSUME LoginTyped
  PROVE  /\ \A c \in Cookies : IsFiniteSet(Recent(c)) /\ Cardinality(Recent(c)) \in Nat
         /\ \A c : /\ IsFiniteSet(Trying(c)) /\ Cardinality(Trying(c)) \in Nat
                   /\ Cardinality(Trying(c)) <= Cardinality(Handler)
         /\ Cardinality(Handler) \in Nat
<1>1. ASSUME NEW c \in Cookies PROVE IsFiniteSet(Recent(c)) /\ Cardinality(Recent(c)) \in Nat
  <2>1. Recent(c) \subseteq failed[c] /\ IsFiniteSet(failed[c])
    BY DEF Recent, LoginTyped
  <2> QED
    BY <2>1, FS_Subset, FS_CardinalityType
<1>2. ASSUME NEW c
      PROVE  /\ IsFiniteSet(Trying(c)) /\ Cardinality(Trying(c)) \in Nat
             /\ Cardinality(Trying(c)) <= Cardinality(Handler)
  <2>1. Trying(c) \subseteq Handler /\ IsFiniteSet(Handler)
    BY SecurityAssumption DEF Trying
  <2> QED
    BY <2>1, FS_Subset, FS_CardinalityType
<1>3. Cardinality(Handler) \in Nat
  BY SecurityAssumption, FS_CardinalityType
<1> QED
  BY <1>1, <1>2, <1>3

\* A step that adds nothing to what was refused, nor lets another login try, when the
\* attempts that count are kept.
LEMMA LoginCalm ==
  ASSUME LoginInv, LoginTyped',
         \A c \in Cookies : Recent(c)' \subseteq Recent(c),
         \A c \in Cookies : Recent(c)' \subseteq {r \in attempt' : r.cookie = c},
         \A c \in Cookies : Cardinality(Recent(c)) > MaxAttempt => Trying(c)' \subseteq Trying(c)
  PROVE  LoginInv'
<1> SUFFICES ASSUME NEW c \in Cookies, Cardinality(Recent(c)') > MaxAttempt
    PROVE  Cardinality(Recent(c)') + Cardinality(Trying(c)') <= MaxAttempt + Cardinality(Handler)
  BY DEF LoginInv
<1>1. /\ IsFiniteSet(Recent(c)) /\ Cardinality(Recent(c)) \in Nat
      /\ IsFiniteSet(Trying(c)) /\ Cardinality(Trying(c)) \in Nat /\ Cardinality(Handler) \in Nat
  BY LoginFinite DEF LoginInv
<1>2. Cardinality(Recent(c)') <= Cardinality(Recent(c)) /\ Cardinality(Recent(c)') \in Nat
  <2>1. Recent(c)' \subseteq Recent(c)
    OBVIOUS
  <2> QED
    BY <1>1, <2>1, FS_Subset, FS_CardinalityType
<1>3. Cardinality(Recent(c)) > MaxAttempt
  BY <1>1, <1>2, SecurityAssumption
<1>4. Cardinality(Trying(c)') <= Cardinality(Trying(c)) /\ Cardinality(Trying(c)') \in Nat
  <2>1. Trying(c)' \subseteq Trying(c)
    BY <1>3
  <2> QED
    BY <1>1, <2>1, FS_Subset, FS_CardinalityType
<1>5. Cardinality(Recent(c)) + Cardinality(Trying(c)) <= MaxAttempt + Cardinality(Handler)
  BY <1>3 DEF LoginInv
<1> QED
  BY <1>1, <1>2, <1>4, <1>5, SecurityAssumption

\* A login that begins when too much was refused is not one of those that may try.
LEMMA StartLoginKeeps ==
  ASSUME LoginInv, NEW h \in Handler, NEW cookie \in Cookies, StartLogin(h, cookie)
  PROVE  LoginInv'
<1> DEFINE c == IF cookie \in device THEN cookie ELSE NoCookie
           l == [on |-> TRUE, id |-> logins, rows |-> attempt, at |-> date, cookie |-> c]
<1>1. /\ login' = [login EXCEPT ![h] = l] /\ logins' = logins + 1 /\ c \in Cookies
      /\ attempt' = attempt /\ date' = date /\ failed' = failed
  BY DEF StartLogin, Cookies
<1>2. l.on /\ l.id = logins /\ l.rows = attempt /\ l.at = date /\ l.cookie = c
  OBVIOUS
<1> HIDE DEF c, l
<1>3. /\ login'[h] = l /\ \A k \in Handler : k # h => login'[k] = login[k]
      /\ login' = [k \in Handler |-> login'[k]]
  BY <1>1 DEF LoginInv, LoginTyped
<1>4. LoginTyped'
  BY <1>1, <1>2, <1>3 DEF LoginInv, LoginTyped
<1>5. \A d \in Cookies : Recent(d)' = Recent(d)
  BY <1>1 DEF Recent
<1>6. ASSUME NEW d \in Cookies, Cardinality(Recent(d)) > MaxAttempt PROVE Trying(d)' \subseteq Trying(d)
  <2>1. CASE c # d
    BY <2>1, <1>2, <1>3 DEF Trying
  <2>2. CASE c = d
    <3>1. Recent(c) \subseteq Counted(attempt, date, c)
      BY <1>1 DEF LoginInv, Recent, Counted
    <3>2. IsFiniteSet(Counted(attempt, date, c))
      <4>1. Counted(attempt, date, c) \subseteq attempt /\ IsFiniteSet(attempt)
        BY DEF Counted, LoginInv, LoginTyped
      <4> QED
        BY <4>1, FS_Subset
    <3>3. Cardinality(Recent(c)) <= Cardinality(Counted(attempt, date, c))
      BY <3>1, <3>2, FS_Subset
    <3>4. Cardinality(Recent(c)) \in Nat /\ Cardinality(Counted(attempt, date, c)) \in Nat
      BY <3>2, <2>2, LoginFinite, FS_CardinalityType DEF LoginInv
    <3>5. Cardinality(Counted(attempt, date, c)) > MaxAttempt
      BY <1>6, <2>2, <3>3, <3>4, SecurityAssumption
    <3>6. Limited(l)
      BY <1>2, <3>5 DEF Limited
    <3> QED
      BY <1>3, <3>6 DEF Trying, Limited
  <2> QED
    BY <2>1, <2>2
<1> QED
  BY <1>1, <1>4, <1>5, <1>6, LoginCalm DEF LoginInv

\* What is added to the attempts removes none that counts.
LEMMA AddedKeeps ==
  ASSUME LoginInv, NEW h \in Handler, login[h].on
  PROVE  /\ RowOf(login[h]) \in Added(login[h]) /\ Added(login[h]) \subseteq Row
         /\ IsFiniteSet(Added(login[h])) /\ RowOf(login[h]) \in Row
         /\ \A c \in Cookies : Recent(c) \subseteq {r \in Added(login[h]) : r.cookie = c}
<1> DEFINE l == login[h]
<1>1. /\ l.id \in Nat /\ l.cookie \in Cookies /\ l.at \in Nat /\ l.at <= date
      /\ date \in Nat /\ attempt \subseteq Row /\ IsFiniteSet(attempt)
  BY DEF LoginInv, LoginTyped, NoLogin
<1> HIDE DEF l
<1>2. RowOf(l) \in Row
  BY <1>1 DEF RowOf, Row
<1>3. CountedIp(attempt, l.at) \subseteq attempt
  BY DEF CountedIp
<1>4. RowOf(l) \in Added(l) /\ Added(l) \subseteq Row
  BY <1>1, <1>2, <1>3 DEF Added
<1>5. IsFiniteSet(Added(l))
  <2>1. IsFiniteSet(CountedIp(attempt, l.at))
    BY <1>1, <1>3, FS_Subset
  <2> QED
    BY <2>1, FS_AddElement DEF Added
<1>6. ASSUME NEW c \in Cookies, NEW r \in Recent(c) PROVE r \in Added(l) /\ r.cookie = c
  <2>1. r \in attempt /\ r.cookie = c /\ date - r.date <= Period /\ r.date \in Nat
    BY <1>1 DEF LoginInv, Recent, Row
  <2>2. l.at - r.date <= Period
    BY <1>1, <2>1, SecurityAssumption
  <2> QED
    BY <2>1, <2>2 DEF Added, CountedIp
<1> QED
  BY <1>2, <1>4, <1>5, <1>6 DEF l

LEMMA AnswerKeeps ==
  ASSUME LoginInv, NEW h \in Handler, NEW correct \in BOOLEAN, AnswerLogin(h, correct)
  PROVE  LoginInv'
<1>0. PICK l : l = login[h]
  OBVIOUS
<1>1. /\ l.on /\ login' = [login EXCEPT ![h] = NoLogin] /\ UNCHANGED <<date, logins>>
      /\ \/ UNCHANGED <<attempt, failed>>
         \/ attempt' = Added(l) /\ UNCHANGED failed
         \/ /\ ~Limited(l) /\ attempt' = Cleared(l)
            /\ failed' = [failed EXCEPT ![l.cookie] = {}]
         \/ /\ ~Limited(l) /\ attempt' = Added(l)
            /\ failed' = [failed EXCEPT ![l.cookie] = Recent(l.cookie) \cup {RowOf(l)}]
  BY <1>0 DEF AnswerLogin
<1>2. /\ RowOf(l) \in Added(l) /\ Added(l) \subseteq Row /\ IsFiniteSet(Added(l)) /\ RowOf(l) \in Row
      /\ \A c \in Cookies : Recent(c) \subseteq {r \in Added(l) : r.cookie = c}
  BY <1>0, <1>1, AddedKeeps
<1>3. l.cookie \in Cookies
  BY <1>0, <1>1 DEF LoginInv, LoginTyped, NoLogin
<1>4. /\ login'[h] = NoLogin /\ \A k \in Handler : k # h => login'[k] = login[k]
      /\ login' = [k \in Handler |-> login'[k]]
  BY <1>1 DEF LoginInv, LoginTyped
<1>5. \A c : Trying(c)' \subseteq Trying(c)
  BY <1>4 DEF Trying, NoLogin, Limited
<1>6. ASSUME attempt' \subseteq Row, IsFiniteSet(attempt'), failed' \in [Cookies -> SUBSET Row],
             \A c \in Cookies : IsFiniteSet(failed'[c])
      PROVE  LoginTyped'
  BY <1>1, <1>4, <1>6 DEF LoginInv, LoginTyped
<1>7. CASE UNCHANGED <<attempt, failed>>
  <2>1. LoginTyped'
    BY <1>6, <1>7 DEF LoginInv, LoginTyped
  <2>2. \A c \in Cookies : Recent(c)' = Recent(c)
    BY <1>1, <1>7 DEF Recent
  <2> QED
    BY <1>5, <1>7, <2>1, <2>2, LoginCalm DEF LoginInv
<1>8. CASE attempt' = Added(l) /\ UNCHANGED failed
  <2>1. LoginTyped'
    BY <1>2, <1>6, <1>8 DEF LoginInv, LoginTyped
  <2>2. \A c \in Cookies : Recent(c)' = Recent(c)
    BY <1>1, <1>8 DEF Recent
  <2> QED
    BY <1>2, <1>5, <1>8, <2>1, <2>2, LoginCalm
<1>9. CASE attempt' = Cleared(l) /\ failed' = [failed EXCEPT ![l.cookie] = {}]
  <2>1. attempt' \subseteq attempt /\ IsFiniteSet(attempt')
    <3>1. Cleared(l) \subseteq attempt
      BY DEF Cleared
    <3> QED
      BY <1>9, <3>1, FS_Subset DEF LoginInv, LoginTyped
  <2>2. /\ failed' \in [Cookies -> SUBSET Row] /\ failed'[l.cookie] = {}
        /\ \A c \in Cookies : c # l.cookie => failed'[c] = failed[c]
    BY <1>3, <1>9 DEF LoginInv, LoginTyped
  <2>3. \A c \in Cookies : IsFiniteSet(failed'[c])
    BY <2>2, FS_EmptySet DEF LoginInv, LoginTyped
  <2>4. LoginTyped'
    BY <1>6, <2>1, <2>2, <2>3 DEF LoginInv, LoginTyped
  <2>5. Recent(l.cookie)' = {} /\ \A c \in Cookies : c # l.cookie => Recent(c)' = Recent(c)
    BY <1>1, <2>2 DEF Recent
  <2>6. \A c \in Cookies : Recent(c)' \subseteq {r \in attempt' : r.cookie = c}
    <3> SUFFICES ASSUME NEW c \in Cookies, c # l.cookie
                 PROVE  Recent(c) \subseteq {r \in attempt' : r.cookie = c}
      BY <2>5
    <3>1. Recent(c) \subseteq {r \in attempt : r.cookie = c}
      BY DEF LoginInv
    <3> QED
      BY <1>9, <3>1 DEF Cleared
  <2>7. \A c \in Cookies : Recent(c)' \subseteq Recent(c)
    BY <2>5
  <2> QED
    BY <1>5, <2>4, <2>6, <2>7, LoginCalm
<1>10. CASE /\ ~Limited(l) /\ attempt' = Added(l)
            /\ failed' = [failed EXCEPT ![l.cookie] = Recent(l.cookie) \cup {RowOf(l)}]
  <2>0. PICK c : c = l.cookie
    OBVIOUS
  <2>1. IsFiniteSet(Recent(c)) /\ Cardinality(Recent(c)) \in Nat
    BY <1>3, <2>0, LoginFinite DEF LoginInv
  <2> DEFINE more == Recent(c) \cup {RowOf(l)}
  <2>2. more \subseteq Row /\ IsFiniteSet(more)
    <3>1. Recent(c) \subseteq Row
      BY <1>3, <2>0 DEF LoginInv, LoginTyped, Recent
    <3> QED
      BY <1>2, <2>1, <3>1, FS_AddElement
  <2>3. Cardinality(more) <= Cardinality(Recent(c)) + 1 /\ Cardinality(more) \in Nat
    BY <2>1, <2>2, FS_AddElement, FS_CardinalityType
  <2>4. failed' = [failed EXCEPT ![c] = more]
    BY <1>10, <2>0
  <2> HIDE DEF more
  <2>5. /\ failed' \in [Cookies -> SUBSET Row] /\ failed'[c] = more
        /\ \A d \in Cookies : d # c => failed'[d] = failed[d]
    BY <1>3, <2>0, <2>2, <2>4 DEF LoginInv, LoginTyped
  <2>6. LoginTyped'
    <3>1. \A d \in Cookies : IsFiniteSet(failed'[d])
      BY <2>2, <2>5 DEF LoginInv, LoginTyped
    <3> QED
      BY <1>2, <1>6, <1>10, <2>5, <3>1
  <2>7. Recent(c)' \subseteq more /\ \A d \in Cookies : d # c => Recent(d)' = Recent(d)
    BY <1>1, <2>5 DEF Recent
  <2>8. more \subseteq {r \in attempt' : r.cookie = c}
    BY <1>2, <1>3, <1>10, <2>0 DEF more, RowOf
  <2>9. \A d \in Cookies : Recent(d)' \subseteq {r \in attempt' : r.cookie = d}
    BY <1>2, <1>10, <2>7, <2>8
  <2>10. ASSUME NEW d \in Cookies, Cardinality(Recent(d)') > MaxAttempt
         PROVE  Cardinality(Recent(d)') + Cardinality(Trying(d)') <= MaxAttempt + Cardinality(Handler)
    <3>1. /\ IsFiniteSet(Trying(d)) /\ Cardinality(Trying(d)) \in Nat
          /\ Cardinality(Trying(d)) <= Cardinality(Handler) /\ Cardinality(Handler) \in Nat
      BY LoginFinite DEF LoginInv
    <3>2. CASE d # c
      <4>1. Cardinality(Recent(d)) + Cardinality(Trying(d)) <= MaxAttempt + Cardinality(Handler)
        BY <2>7, <2>10, <3>2 DEF LoginInv
      <4>2. Cardinality(Trying(d)') <= Cardinality(Trying(d)) /\ Cardinality(Trying(d)') \in Nat
        BY <1>5, <3>1, FS_Subset, FS_CardinalityType
      <4>3. Cardinality(Recent(d)') = Cardinality(Recent(d)) /\ Cardinality(Recent(d)) \in Nat
        BY <2>7, <3>2, LoginFinite DEF LoginInv
      <4> QED
        BY <3>1, <4>1, <4>2, <4>3, SecurityAssumption
    <3>3. CASE d = c
      <4>1. h \in Trying(d) /\ h \notin Trying(d)'
        BY <1>0, <1>1, <1>4, <1>10, <2>0, <3>3 DEF Trying, NoLogin
      <4>2. Trying(d)' \subseteq Trying(d) \ {h}
        BY <1>5, <4>1
      <4>3. /\ IsFiniteSet(Trying(d) \ {h})
            /\ Cardinality(Trying(d) \ {h}) = Cardinality(Trying(d)) - 1
        BY <3>1, <4>1, FS_RemoveElement
      <4>4. Cardinality(Trying(d)') <= Cardinality(Trying(d)) - 1 /\ Cardinality(Trying(d)') \in Nat
        BY <4>2, <4>3, FS_Subset, FS_CardinalityType
      <4>5. Cardinality(Recent(d)') <= Cardinality(Recent(d)) + 1 /\ Cardinality(Recent(d)') \in Nat
            /\ Cardinality(Recent(d)) \in Nat
        <5>1. Cardinality(Recent(d)') <= Cardinality(more) /\ IsFiniteSet(Recent(d)')
          BY <2>2, <2>7, <3>3, FS_Subset
        <5>2. Cardinality(Recent(d)') \in Nat
          BY <5>1, FS_CardinalityType
        <5> QED
          BY <2>1, <2>3, <3>3, <5>1, <5>2
      <4>6. CASE Cardinality(Recent(d)) > MaxAttempt
        <5>1. Cardinality(Recent(d)) + Cardinality(Trying(d)) <= MaxAttempt + Cardinality(Handler)
          BY <4>6 DEF LoginInv
        <5> QED
          BY <3>1, <4>4, <4>5, <5>1, SecurityAssumption
      <4>7. CASE Cardinality(Recent(d)) <= MaxAttempt
        BY <3>1, <4>4, <4>5, <4>7, SecurityAssumption
      <4> QED
        BY <4>5, <4>6, <4>7, SecurityAssumption
    <3> QED
      BY <3>2, <3>3
  <2> QED
    BY <2>6, <2>9, <2>10 DEF LoginInv
<1> QED
  BY <1>1, <1>7, <1>8, <1>9, <1>10

LEMMA LoginStep == LoginInv /\ [LoginNext]_loginVars => LoginInv'
<1> SUFFICES ASSUME LoginInv, [LoginNext]_loginVars PROVE LoginInv'
  OBVIOUS
<1>1. ASSUME UNCHANGED <<attempt, login, date, logins, failed>> PROVE LoginInv'
  <2>1. LoginTyped' /\ \A c \in Cookies : Recent(c)' = Recent(c)
    BY <1>1 DEF LoginInv, LoginTyped, Recent
  <2>2. \A c \in Cookies : Trying(c)' = Trying(c)
    BY <1>1 DEF Trying, Limited
  <2> QED
    BY <1>1, <2>1, <2>2, LoginCalm DEF LoginInv
<1>2. CASE LoginTick
  <2>1. date \in Nat /\ date' = date + 1 /\ UNCHANGED <<attempt, login, logins, failed>>
    BY <1>2 DEF LoginTick, LoginInv, LoginTyped
  <2>2. LoginTyped'
    BY <2>1 DEF LoginInv, LoginTyped
  <2>3. \A c \in Cookies : Recent(c)' \subseteq Recent(c)
    <3> SUFFICES ASSUME NEW c \in Cookies, NEW r \in Recent(c)' PROVE r \in Recent(c)
      OBVIOUS
    <3>1. r \in failed[c] /\ date + 1 - r.date <= Period /\ r.date \in Nat
      BY <2>1 DEF Recent, LoginInv, LoginTyped, Row
    <3> QED
      BY <2>1, <3>1, SecurityAssumption DEF Recent
  <2>4. \A c \in Cookies : Trying(c)' = Trying(c)
    BY <2>1 DEF Trying, Limited
  <2>5. \A c \in Cookies : Recent(c)' \subseteq {r \in attempt' : r.cookie = c}
    BY <2>1, <2>3 DEF LoginInv
  <2> QED
    BY <2>2, <2>3, <2>4, <2>5, LoginCalm
<1>3. ASSUME NEW h \in Handler, NEW c \in Cookies, StartLogin(h, c) PROVE LoginInv'
  BY <1>3, StartLoginKeeps
<1>4. ASSUME NEW h \in Handler, NEW correct \in BOOLEAN, AnswerLogin(h, correct) PROVE LoginInv'
  BY <1>4, AnswerKeeps
<1> QED
  BY <1>1, <1>2, <1>3, <1>4 DEF LoginNext, ClearDevices, Renew, loginVars, Cookies

\* A session in use does not time out, however processes remember its resets; and
\* however many logins are answered at once, and from whatever snapshots, a password
\* refused in the period is counted, and no more of them are refused for a device than
\* one more than max_attempt, and one for each login that had begun before.
THEOREM LoginsGuardedHolds == SecuritySpec => []LoginsGuarded
<1>1. SecurityInit => SessionInv /\ LoginInv
  <2> SUFFICES ASSUME SecurityInit PROVE SessionInv /\ LoginInv
    OBVIOUS
  <2>1. SessionInv
    BY SecurityAssumption DEF SecurityInit, SessionInit, SessionInv, NoReset, KeptFresh
  <2>2. LoginTyped
    BY FS_EmptySet DEF SecurityInit, LoginInit, LoginTyped, Cookies
  <2>3. \A c \in Cookies : Recent(c) = {} /\ Cardinality(Recent(c)) = 0
    BY FS_EmptySet DEF SecurityInit, LoginInit, Recent, Cookies
  <2> QED
    BY <2>1, <2>2, <2>3, SecurityAssumption DEF LoginInv
<1>2. SessionInv /\ LoginInv /\ [SecurityNext]_<<sessionVars, loginVars>> => SessionInv' /\ LoginInv'
  BY SessionStep, LoginStep DEF SecurityNext
<1>3. SessionInv /\ LoginInv => LoginsGuarded
  <2> SUFFICES ASSUME SessionInv, LoginInv, NEW c \in Cookies
               PROVE  Cardinality(Recent(c)) <= MaxAttempt + 1 + (Cardinality(Handler) - 1)
    BY DEF SessionInv, LoginInv, LoginsGuarded, AttemptsLimited, Cookies
  <2>1. /\ Cardinality(Recent(c)) \in Nat /\ Cardinality(Trying(c)) \in Nat
        /\ Cardinality(Handler) \in Nat
    BY LoginFinite DEF LoginInv
  <2> QED
    BY <2>1, SecurityAssumption DEF LoginInv
<1> QED
  BY <1>1, <1>2, <1>3, PTL DEF SecuritySpec

(* ------------- Trigger: how often an action is called ------------------------ *)
\* The workers whose task does not see the n-th call for a record.
Late(j, r, n) == {w \in Worker : j[w].on /\ Len(j[w].log[r]) < n}
\* What a task sees of the log is the beginning of it.
Sees(j, all) ==
  /\ j.on /\ j.now \in Nat /\ j.log \in [Rec -> Seq(Nat)]
  /\ \A r \in Rec : Len(j.log[r]) <= Len(all[r])
                    /\ \A i \in 1..Len(j.log[r]) : j.log[r][i] = all[r][i]
\* Of the workers that may still pass the filter, each does it once: with what was
\* called too often, or too soon after a call, they are no more than the others.
LimitCounted == \A r \in Rec : trigger.limit > 0 /\ Len(calls[r]) >= trigger.limit =>
  Len(calls[r]) + Cardinality(Late(job, r, trigger.limit)) <= trigger.limit + Others
DelayCounted == \A r \in Rec : trigger.delay > 0 => \A i \in 1..Len(calls[r]) :
  Cardinality(TooSoon(r, i)) + Cardinality(Late(job, r, i)) <= Others
TriggerInv ==
  /\ trigger \in [on_time : BOOLEAN, limit : Nat, delay : Nat] /\ time \in Nat
  /\ log \in [Rec -> Seq(Nat)] /\ calls \in [Rec -> Seq(Nat)]
  /\ trigger.limit > 0 \/ trigger.delay > 0 => calls = log
  /\ job = [w \in Worker |-> job[w]]
  /\ \A w \in Worker : job[w] = NoJob \/ Sees(job[w], log)
  /\ LimitCounted /\ DelayCounted

LEMMA OthersIs ==
  /\ Cardinality(Worker) \in Nat /\ Others \in Nat
  /\ \A w \in Worker : IsFiniteSet(Worker \ {w}) /\ Cardinality(Worker \ {w}) = Others
<1>1. PICK w : w \in Worker
  BY TriggerAssumption
<1>2. Cardinality(Worker) \in Nat /\ Cardinality(Worker) # 0
  BY <1>1, TriggerAssumption, FS_CardinalityType, FS_EmptySet
<1>3. \A v \in Worker : IsFiniteSet(Worker \ {v}) /\ Cardinality(Worker \ {v}) = Cardinality(Worker) - 1
  BY TriggerAssumption, FS_RemoveElement
<1> QED
  BY <1>2, <1>3 DEF Others

LEMMA LateIs ==
  ASSUME NEW j, NEW r, NEW n
  PROVE  IsFiniteSet(Late(j, r, n)) /\ Cardinality(Late(j, r, n)) \in Nat
<1>1. Late(j, r, n) \subseteq Worker
  BY DEF Late
<1> QED
  BY <1>1, TriggerAssumption, FS_Subset, FS_CardinalityType

\* A worker that has finished its task is not late.
LEMMA LateDone ==
  ASSUME NEW j, NEW k, NEW w \in Worker, NEW r, NEW n,
         ~k[w].on, \A v \in Worker : v # w => k[v] = j[v]
  PROVE  /\ Cardinality(Late(k, r, n)) <= Others
         /\ Cardinality(Late(k, r, n)) <= Cardinality(Late(j, r, n))
         /\ w \in Late(j, r, n) => Cardinality(Late(k, r, n)) + 1 <= Cardinality(Late(j, r, n))
<1>1. Late(k, r, n) = Late(j, r, n) \ {w}
  BY DEF Late
<1>2. Late(k, r, n) \subseteq Worker \ {w}
  BY DEF Late
<1>3. Cardinality(Late(k, r, n)) <= Others
  <2>1. IsFiniteSet(Worker \ {w}) /\ Cardinality(Worker \ {w}) = Others
    BY OthersIs
  <2>2. Cardinality(Late(k, r, n)) <= Cardinality(Worker \ {w})
    BY <1>2, <2>1, FS_Subset
  <2> QED
    BY <2>1, <2>2
<1>4. IsFiniteSet(Late(j, r, n)) /\ Cardinality(Late(j, r, n)) \in Nat
  BY LateIs
<1>5. Cardinality(Late(k, r, n)) = IF w \in Late(j, r, n) THEN Cardinality(Late(j, r, n)) - 1
                                                         ELSE Cardinality(Late(j, r, n))
  BY <1>1, <1>4, FS_RemoveElement
<1> QED
  BY <1>3, <1>4, <1>5

\* One that begins a task sees what is called so far.
LEMMA LateBegun ==
  ASSUME NEW j, NEW k, NEW w \in Worker, NEW r, NEW n,
         ~(Len(k[w].log[r]) < n), \A v \in Worker : v # w => k[v] = j[v]
  PROVE  Cardinality(Late(k, r, n)) <= Cardinality(Late(j, r, n))
<1>1. Late(k, r, n) \subseteq Late(j, r, n)
  BY DEF Late
<1> QED
  BY <1>1, LateIs, FS_Subset

LEMMA TooSoonIs ==
  ASSUME NEW r \in Rec, calls \in [Rec -> Seq(Nat)], NEW i \in Nat
  PROVE  IsFiniteSet(TooSoon(r, i)) /\ Cardinality(TooSoon(r, i)) \in Nat
<1>1. Len(calls[r]) \in Nat
  BY LenProperties
<1>2. IsFiniteSet((i + 1)..Len(calls[r])) /\ TooSoon(r, i) \subseteq (i + 1)..Len(calls[r])
  BY <1>1, FS_Interval DEF TooSoon
<1> QED
  BY <1>2, FS_Subset, FS_CardinalityType

LEMMA LoggedIs ==
  ASSUME NEW f \in [Rec -> Seq(Nat)], NEW ids, NEW n \in Nat
  PROVE  /\ Logged(f, ids, n) \in [Rec -> Seq(Nat)]
         /\ \A r \in Rec :
              IF r \in ids
              THEN /\ Len(Logged(f, ids, n)[r]) = Len(f[r]) + 1 /\ Len(f[r]) \in Nat
                   /\ Logged(f, ids, n)[r][Len(f[r]) + 1] = n
                   /\ \A i \in 1..Len(f[r]) : Logged(f, ids, n)[r][i] = f[r][i] /\ f[r][i] \in Nat
              ELSE Logged(f, ids, n)[r] = f[r]
<1>1. ASSUME NEW r \in Rec
      PROVE  /\ Append(f[r], n) \in Seq(Nat)
             /\ Len(Append(f[r], n)) = Len(f[r]) + 1 /\ Len(f[r]) \in Nat
             /\ Append(f[r], n)[Len(f[r]) + 1] = n
             /\ \A i \in 1..Len(f[r]) : Append(f[r], n)[i] = f[r][i] /\ f[r][i] \in Nat
  <2>1. f[r] \in Seq(Nat)
    OBVIOUS
  <2> QED
    BY <2>1, AppendProperties, LenProperties, ElementOfSeq
<1>2. Logged(f, ids, n) \in [Rec -> Seq(Nat)]
  BY <1>1 DEF Logged
<1>3. \A r \in Rec : Logged(f, ids, n)[r] = IF r \in ids THEN Append(f[r], n) ELSE f[r]
  BY DEF Logged
<1> QED
  BY <1>1, <1>2, <1>3

LEMMA FinishKeeps ==
  ASSUME TriggerInv, NEW w \in Worker, Finish(w), trigger' = trigger
  PROVE  TriggerInv'
<1>0. PICK j : j = job[w]
  OBVIOUS
<1> DEFINE ids == Selected(j)
<1>1. /\ j.on /\ calls' = Logged(calls, ids, j.now) /\ time' = time
      /\ log' = IF trigger.limit > 0 \/ trigger.delay > 0 THEN Logged(log, ids, j.now) ELSE log
      /\ job' = [job EXCEPT ![w] = NoJob]
  BY <1>0 DEF Finish
<1>2. /\ trigger.limit \in Nat /\ trigger.delay \in Nat /\ Sees(j, log)
      /\ log \in [Rec -> Seq(Nat)] /\ calls \in [Rec -> Seq(Nat)]
  BY <1>0, <1>1 DEF TriggerInv, NoJob
<1>3. /\ job' = [v \in Worker |-> job'[v]] /\ job'[w] = NoJob /\ ~job'[w].on
      /\ \A v \in Worker : v # w => job'[v] = job[v]
  BY <1>1 DEF TriggerInv, NoJob
<1>4. \A r \in ids : /\ trigger.limit > 0 => Len(j.log[r]) < trigger.limit
                     /\ trigger.delay > 0 => \A i \in 1..Len(j.log[r]) : j.now - j.log[r][i] >= trigger.delay
  BY DEF Selected, UnderLimit, Delayed
<1> HIDE DEF ids
<1>5. \A f \in [Rec -> Seq(Nat)] :
        /\ Logged(f, ids, j.now) \in [Rec -> Seq(Nat)]
        /\ \A r \in Rec :
             IF r \in ids
             THEN /\ Len(Logged(f, ids, j.now)[r]) = Len(f[r]) + 1 /\ Len(f[r]) \in Nat
                  /\ Logged(f, ids, j.now)[r][Len(f[r]) + 1] = j.now
                  /\ \A i \in 1..Len(f[r]) : Logged(f, ids, j.now)[r][i] = f[r][i] /\ f[r][i] \in Nat
             ELSE Logged(f, ids, j.now)[r] = f[r]
  <2>1. PICK n : n = j.now
    OBVIOUS
  <2>2. n \in Nat
    BY <1>2, <2>1 DEF Sees
  <2>3. \A f \in [Rec -> Seq(Nat)] :
        /\ Logged(f, ids, n) \in [Rec -> Seq(Nat)]
        /\ \A r \in Rec :
             IF r \in ids
             THEN /\ Len(Logged(f, ids, n)[r]) = Len(f[r]) + 1 /\ Len(f[r]) \in Nat
                  /\ Logged(f, ids, n)[r][Len(f[r]) + 1] = n
                  /\ \A i \in 1..Len(f[r]) : Logged(f, ids, n)[r][i] = f[r][i] /\ f[r][i] \in Nat
             ELSE Logged(f, ids, n)[r] = f[r]
    BY <2>2, LoggedIs
  <2> QED
    BY <2>1, <2>3
<1>6. /\ calls' \in [Rec -> Seq(Nat)]
      /\ \A r \in Rec :
           IF r \in ids
           THEN /\ Len(calls'[r]) = Len(calls[r]) + 1 /\ Len(calls[r]) \in Nat
                /\ calls'[r][Len(calls[r]) + 1] = j.now
                /\ \A i \in 1..Len(calls[r]) : calls'[r][i] = calls[r][i] /\ calls[r][i] \in Nat
           ELSE calls'[r] = calls[r]
  BY <1>1, <1>2, <1>5
<1>7. /\ log' \in [Rec -> Seq(Nat)]
      /\ \A r \in Rec : /\ Len(log[r]) \in Nat /\ Len(log'[r]) >= Len(log[r])
                        /\ \A i \in 1..Len(log[r]) : log'[r][i] = log[r][i]
  <2>1. \A r \in Rec : Len(log[r]) \in Nat
    BY <1>2, LenProperties
  <2>2. CASE log' = log
    BY <1>2, <2>1, <2>2
  <2>3. CASE log' = Logged(log, ids, j.now)
    <3>1. ASSUME NEW r \in Rec
          PROVE  Len(log'[r]) >= Len(log[r]) /\ \A i \in 1..Len(log[r]) : log'[r][i] = log[r][i]
      <4>1. CASE r \in ids
        <5>1. Len(log'[r]) = Len(log[r]) + 1 /\ \A i \in 1..Len(log[r]) : log'[r][i] = log[r][i]
          BY <1>2, <1>5, <2>3, <4>1
        <5> QED
          BY <2>1, <5>1
      <4>2. CASE r \notin ids
        <5>1. log'[r] = log[r]
          BY <1>2, <1>5, <2>3, <4>2
        <5> QED
          BY <2>1, <5>1
      <4> QED
        BY <4>1, <4>2
    <3> QED
      BY <1>2, <1>5, <2>1, <2>3, <3>1
  <2> QED
    BY <1>1, <2>2, <2>3
<1>8. trigger.limit > 0 \/ trigger.delay > 0 => calls' = log' /\ calls = log
  BY <1>1 DEF TriggerInv
<1>9. \A v \in Worker : job'[v] = NoJob \/ Sees(job'[v], log')
  <2> SUFFICES ASSUME NEW v \in Worker, v # w, Sees(job[v], log) PROVE Sees(job'[v], log')
    BY <1>3 DEF TriggerInv
  <2>1. PICK k : k = job[v]
    OBVIOUS
  <2>2. /\ k.on /\ k.now \in Nat /\ k.log \in [Rec -> Seq(Nat)]
        /\ \A r \in Rec : Len(k.log[r]) <= Len(log[r])
                          /\ \A i \in 1..Len(k.log[r]) : k.log[r][i] = log[r][i]
    BY <2>1 DEF Sees
  <2>3. ASSUME NEW r \in Rec
        PROVE  /\ Len(k.log[r]) <= Len(log'[r])
               /\ \A i \in 1..Len(k.log[r]) : k.log[r][i] = log'[r][i]
    <3>1. Len(k.log[r]) \in Nat /\ Len(log'[r]) \in Nat
      BY <1>7, <2>2, LenProperties
    <3>2. Len(log[r]) \in Nat /\ Len(log'[r]) >= Len(log[r]) /\ Len(k.log[r]) <= Len(log[r])
      BY <1>7, <2>2
    <3>3. \A i \in 1..Len(k.log[r]) : i \in 1..Len(log[r])
      BY <3>1, <3>2
    <3> QED
      BY <1>7, <2>2, <3>1, <3>2, <3>3
  <2> QED
    BY <1>3, <2>1, <2>2, <2>3 DEF Sees
<1>10. ASSUME NEW r, NEW n
       PROVE  /\ Cardinality(Late(job', r, n)) \in Nat /\ Cardinality(Late(job, r, n)) \in Nat
              /\ Cardinality(Late(job', r, n)) <= Others
              /\ Cardinality(Late(job', r, n)) <= Cardinality(Late(job, r, n))
              /\ Len(j.log[r]) < n =>
                   Cardinality(Late(job', r, n)) + 1 <= Cardinality(Late(job, r, n))
  <2>1. Len(j.log[r]) < n => w \in Late(job, r, n)
    BY <1>0, <1>1 DEF Late
  <2> QED
    BY <1>3, <2>1, LateIs, LateDone
<1>11. LimitCounted'
  <2> SUFFICES ASSUME NEW r \in Rec, trigger.limit > 0, Len(calls'[r]) >= trigger.limit
               PROVE  Len(calls'[r]) + Cardinality(Late(job', r, trigger.limit))
                        <= trigger.limit + Others
    BY DEF LimitCounted, Others, Late
  <2>0. Len(calls[r]) \in Nat /\ Others \in Nat
    BY <1>2, LenProperties, OthersIs
  <2>1. Len(calls[r]) >= trigger.limit =>
          Len(calls[r]) + Cardinality(Late(job, r, trigger.limit)) <= trigger.limit + Others
    BY DEF TriggerInv, LimitCounted
  <2>4. /\ Cardinality(Late(job', r, trigger.limit)) \in Nat
        /\ Cardinality(Late(job, r, trigger.limit)) \in Nat
        /\ Cardinality(Late(job', r, trigger.limit)) <= Others
        /\ Cardinality(Late(job', r, trigger.limit)) <= Cardinality(Late(job, r, trigger.limit))
        /\ Len(j.log[r]) < trigger.limit =>
             Cardinality(Late(job', r, trigger.limit)) + 1 <= Cardinality(Late(job, r, trigger.limit))
    BY <1>10
  <2>2. CASE r \in ids
    <3>1. Len(j.log[r]) < trigger.limit /\ Len(calls'[r]) = Len(calls[r]) + 1
      BY <1>4, <1>6, <2>2
    <3> QED
      BY <1>2, <2>0, <2>1, <2>4, <3>1
  <2>3. CASE r \notin ids
    <3>1. calls'[r] = calls[r]
      BY <1>6, <2>3
    <3> QED
      BY <1>2, <2>0, <2>1, <2>4, <3>1
  <2> QED
    BY <2>2, <2>3
<1>12. DelayCounted'
  <2> SUFFICES ASSUME NEW r \in Rec, trigger.delay > 0, NEW i \in 1..Len(calls'[r])
               PROVE  Cardinality(TooSoon(r, i)') + Cardinality(Late(job', r, i)) <= Others
    BY DEF DelayCounted, Others, Late, TooSoon
  <2>0. Len(calls[r]) \in Nat /\ calls[r] \in Seq(Nat) /\ Others \in Nat
    BY <1>2, LenProperties, OthersIs
  <2>1. i \in 1..Len(calls[r]) =>
          Cardinality(TooSoon(r, i)) + Cardinality(Late(job, r, i)) <= Others
    BY DEF TriggerInv, DelayCounted
  <2>2. i \in 1..Len(calls[r]) => IsFiniteSet(TooSoon(r, i)) /\ Cardinality(TooSoon(r, i)) \in Nat
    <3>1. i \in Nat => IsFiniteSet(TooSoon(r, i)) /\ Cardinality(TooSoon(r, i)) \in Nat
      BY <1>2, TooSoonIs
    <3> QED
      BY <2>0, <3>1
  <2>3. TooSoon(r, i)' = {k \in (i + 1)..Len(calls'[r]) : calls'[r][k] - calls'[r][i] < trigger.delay}
    BY DEF TooSoon
  <2>6. /\ Cardinality(Late(job', r, i)) \in Nat /\ Cardinality(Late(job, r, i)) \in Nat
        /\ Cardinality(Late(job', r, i)) <= Others
        /\ Cardinality(Late(job', r, i)) <= Cardinality(Late(job, r, i))
        /\ Len(j.log[r]) < i =>
             Cardinality(Late(job', r, i)) + 1 <= Cardinality(Late(job, r, i))
    BY <1>10
  <2>4. CASE r \in ids
    <3>0. /\ Len(calls'[r]) = Len(calls[r]) + 1 /\ calls'[r][Len(calls[r]) + 1] = j.now
          /\ \A k \in 1..Len(calls[r]) : calls'[r][k] = calls[r][k] /\ calls[r][k] \in Nat
      BY <1>6, <2>4
    <3>1. CASE i = Len(calls[r]) + 1
      <4>1. TooSoon(r, i)' = {}
        BY <2>0, <2>3, <3>0, <3>1
      <4> QED
        BY <2>6, <2>0, <4>1, FS_EmptySet
    <3>2. CASE i # Len(calls[r]) + 1
      <4>1. i \in 1..Len(calls[r])
        BY <2>0, <3>0, <3>2
      <4>2. \A k \in (i + 1)..Len(calls[r]) : k \in 1..Len(calls[r])
        BY <2>0, <4>1
      <4>3. TooSoon(r, i)' \subseteq TooSoon(r, i) \cup {Len(calls[r]) + 1}
        <5> SUFFICES ASSUME NEW k \in (i + 1)..(Len(calls[r]) + 1), k # Len(calls[r]) + 1,
                            calls'[r][k] - calls'[r][i] < trigger.delay
                     PROVE  k \in TooSoon(r, i)
          BY <2>3, <3>0
        <5>1. k \in (i + 1)..Len(calls[r])
          <6>1. \A n, h \in Nat : \A m \in (h + 1)..(n + 1) : m # n + 1 => m \in (h + 1)..n
            OBVIOUS
          <6>2. i \in Nat
            OBVIOUS
          <6> QED
            BY <2>0, <6>1, <6>2
        <5>2. calls'[r][k] = calls[r][k] /\ calls'[r][i] = calls[r][i]
          BY <3>0, <4>1, <4>2, <5>1
        <5> QED
          BY <5>1, <5>2 DEF TooSoon
      <4>4. CASE Len(j.log[r]) < i
        <5>1. /\ IsFiniteSet(TooSoon(r, i) \cup {Len(calls[r]) + 1})
              /\ Cardinality(TooSoon(r, i) \cup {Len(calls[r]) + 1}) <= Cardinality(TooSoon(r, i)) + 1
          <6>1. PICK e : e = Len(calls[r]) + 1
            OBVIOUS
          <6>2. /\ IsFiniteSet(TooSoon(r, i)) /\ Cardinality(TooSoon(r, i)) \in Nat
                /\ IsFiniteSet(TooSoon(r, i) \cup {e})
                /\ Cardinality(TooSoon(r, i) \cup {e}) =
                     IF e \in TooSoon(r, i) THEN Cardinality(TooSoon(r, i))
                                           ELSE Cardinality(TooSoon(r, i)) + 1
            BY <2>2, <4>1, FS_AddElement
          <6>3. Cardinality(TooSoon(r, i) \cup {e}) <= Cardinality(TooSoon(r, i)) + 1
            BY <6>2
          <6> QED
            BY <6>1, <6>2, <6>3
        <5>2. IsFiniteSet(TooSoon(r, i)') /\ Cardinality(TooSoon(r, i)') <= Cardinality(TooSoon(r, i) \cup {Len(calls[r]) + 1})
          BY <4>3, <5>1, FS_Subset
        <5>3. Cardinality(TooSoon(r, i)') \in Nat /\ Cardinality(TooSoon(r, i) \cup {Len(calls[r]) + 1}) \in Nat
          BY <5>1, <5>2, FS_CardinalityType
        <5> QED
          BY <2>6, <2>0, <2>1, <2>2, <4>1, <4>4, <5>1, <5>2, <5>3
      <4>5. CASE ~(Len(j.log[r]) < i)
        <5>1. i \in 1..Len(j.log[r])
          <6>1. Len(j.log[r]) \in Nat
            BY <1>2, LenProperties DEF Sees
          <6> QED
            BY <2>0, <4>1, <4>5, <6>1
        <5>2. j.log[r][i] = calls[r][i]
          BY <1>2, <1>8, <5>1 DEF Sees
        <5>3. j.now - calls[r][i] >= trigger.delay
          BY <1>4, <2>4, <5>1, <5>2
        <5>4. ~(calls'[r][Len(calls[r]) + 1] - calls'[r][i] < trigger.delay)
          <6>1. j.now \in Nat /\ calls[r][i] \in Nat /\ calls'[r][i] = calls[r][i]
            BY <1>2, <3>0, <4>1 DEF Sees
          <6> QED
            BY <1>2, <3>0, <5>3, <6>1
        <5>5. TooSoon(r, i)' \subseteq TooSoon(r, i)
          BY <2>3, <4>3, <5>4
        <5>6. Cardinality(TooSoon(r, i)') <= Cardinality(TooSoon(r, i)) /\ Cardinality(TooSoon(r, i)') \in Nat
          BY <2>2, <4>1, <5>5, FS_Subset, FS_CardinalityType
        <5> QED
          BY <2>6, <2>0, <2>1, <2>2, <4>1, <5>6
      <4> QED
        BY <4>4, <4>5
    <3> QED
      BY <3>1, <3>2
  <2>5. CASE r \notin ids
    <3>1. calls'[r] = calls[r]
      BY <1>6, <2>5
    <3>2. TooSoon(r, i)' = TooSoon(r, i)
      BY <2>3, <3>1 DEF TooSoon
    <3> QED
      BY <2>6, <2>0, <2>1, <2>2, <3>1, <3>2
  <2> QED
    BY <2>4, <2>5
<1> QED
  BY <1>1, <1>3, <1>6, <1>7, <1>8, <1>9, <1>11, <1>12 DEF TriggerInv

LEMMA StartedKeeps ==
  ASSUME TriggerInv, NEW w \in Worker, NEW task, Started(w, task),
         UNCHANGED <<trigger, log, calls, time>>
  PROVE  TriggerInv'
<1>0. PICK j : j = [on |-> TRUE, task |-> task, cond |-> cond, log |-> log, now |-> time]
  OBVIOUS
<1>1. j.on /\ j.log = log /\ j.now \in Nat /\ log \in [Rec -> Seq(Nat)]
  BY <1>0 DEF TriggerInv
<1>2. job' = [job EXCEPT ![w] = j]
  BY <1>0 DEF Started
<1>3. /\ job'[w] = j /\ \A v \in Worker : v # w => job'[v] = job[v]
      /\ job' = [v \in Worker |-> job'[v]]
  BY <1>2 DEF TriggerInv
<1>4. \A r \in Rec : Len(log[r]) \in Nat /\ Len(calls[r]) \in Nat
  BY LenProperties DEF TriggerInv
<1>5. log' = log
  OBVIOUS
<1>6. Sees(j, log)
  BY <1>1, <1>4 DEF Sees
<1>7. \A v \in Worker : job'[v] = NoJob \/ Sees(job'[v], log')
  BY <1>3, <1>5, <1>6 DEF TriggerInv
<1>8. ASSUME NEW r \in Rec, NEW n \in Nat, n <= Len(log[r])
      PROVE  /\ Cardinality(Late(job', r, n)) <= Cardinality(Late(job, r, n))
             /\ Cardinality(Late(job', r, n)) \in Nat /\ Cardinality(Late(job, r, n)) \in Nat
  <2>1. ~(Len(job'[w].log[r]) < n)
    BY <1>1, <1>3, <1>4, <1>8
  <2> QED
    BY <1>3, <2>1, LateBegun, LateIs
<1>9. LimitCounted'
  <2> SUFFICES ASSUME NEW r \in Rec, trigger.limit > 0, Len(calls[r]) >= trigger.limit
               PROVE  Len(calls[r]) + Cardinality(Late(job', r, trigger.limit))
                        <= trigger.limit + Others
    BY DEF LimitCounted, Others, Late
  <2>1. trigger.limit \in Nat /\ calls = log
    BY DEF TriggerInv
  <2>2. Len(calls[r]) + Cardinality(Late(job, r, trigger.limit)) <= trigger.limit + Others
    BY DEF TriggerInv, LimitCounted
  <2> QED
    BY <1>4, <1>8, <2>1, <2>2, OthersIs
<1>10. DelayCounted'
  <2> SUFFICES ASSUME NEW r \in Rec, trigger.delay > 0, NEW i \in 1..Len(calls[r])
               PROVE  Cardinality(TooSoon(r, i)) + Cardinality(Late(job', r, i)) <= Others
    BY DEF DelayCounted, Others, Late, TooSoon
  <2>1. calls = log /\ i \in Nat /\ i <= Len(log[r])
    BY <1>4 DEF TriggerInv
  <2>2. Cardinality(TooSoon(r, i)) + Cardinality(Late(job, r, i)) <= Others
    BY DEF TriggerInv, DelayCounted
  <2>3. Cardinality(TooSoon(r, i)) \in Nat
    BY <2>1, TooSoonIs DEF TriggerInv
  <2> QED
    BY <1>8, <2>1, <2>2, <2>3, OthersIs
<1> QED
  BY <1>3, <1>7, <1>9, <1>10 DEF TriggerInv

LEMMA TriggerStep ==
  ASSUME TriggerInv, [TriggerNext]_triggerVars
  PROVE  TriggerInv'
<1>1. ASSUME UNCHANGED <<trigger, log, calls, job>>, time' \in Nat PROVE TriggerInv'
  <2>1. LimitCounted' /\ DelayCounted'
    BY <1>1 DEF TriggerInv, LimitCounted, DelayCounted, Others, Late, TooSoon
  <2>2. \A w \in Worker : job'[w] = NoJob \/ Sees(job'[w], log')
    BY <1>1 DEF TriggerInv, Sees
  <2> QED
    BY <1>1, <2>1, <2>2 DEF TriggerInv
<1>2. ASSUME NEW w \in Worker, Finish(w), trigger' = trigger PROVE TriggerInv'
  BY <1>2, FinishKeeps
<1>3. CASE UNCHANGED triggerVars
  BY <1>1, <1>3 DEF triggerVars, TriggerInv
<1>4. CASE TriggerNext
  <2>1. trigger' = trigger /\ time \in Nat
    BY <1>4 DEF TriggerNext, TriggerInv
  <2>2. CASE BeginEdit \/ CommitEdit \/ RollbackEdit \/ TriggerTick
    BY <1>1, <2>1, <2>2 DEF BeginEdit, CommitEdit, RollbackEdit, TriggerTick
  <2>3. CASE \E S \in SUBSET Rec, to \in BOOLEAN : WriteRecords(S, to)
    BY <1>1, <2>1, <2>3 DEF WriteRecords
  <2>4. ASSUME NEW w \in Worker, NEW task \in tasks, StartJob(w, task) PROVE TriggerInv'
    BY <2>1, <2>4, StartedKeeps DEF StartJob
  <2>5. ASSUME NEW w \in Worker, StartTime(w) PROVE TriggerInv'
    BY <2>1, <2>5, StartedKeeps DEF StartTime
  <2>6. ASSUME NEW w \in Worker, RetryJob(w) PROVE TriggerInv'
    BY <2>1, <2>6, StartedKeeps DEF RetryJob
  <2> QED
    BY <1>2, <1>4, <2>1, <2>2, <2>3, <2>4, <2>5, <2>6 DEF TriggerNext
<1> QED
  BY <1>3, <1>4

(* ------------- Cron: once for each date -------------------------------------- *)
Typed(r) ==
  /\ r.on /\ r.now \in Nat /\ r.todo \subseteq Task /\ DOMAIN r.saved \subseteq Task
  /\ r.todo \cap DOMAIN r.saved = {}
  /\ \A c \in DOMAIN r.saved : r.saved[c] > r.now \/ Repeated(r.now)
Saved(c) == \E p \in Process : run[p].on /\ c \in DOMAIN run[p].saved
\* One run at a time: what it has not saved was called for the present date only by
\* runs that were lost.
CronInv ==
  /\ hour \in Nat /\ crashes \in Nat
  /\ run = [p \in Process |-> run[p]] /\ \A p \in Process : run[p] = NoRun \/ Typed(run[p])
  /\ \A p, q \in Process : run[p].on /\ run[q].on => p = q
  /\ called \in [Task -> Seq(Nat)]
  /\ \A c \in Task :
       /\ Len(called[c]) \in Nat \ {0}
       /\ \A v \in 1..Len(called[c]) : called[c][v] <= 1 + crashes
       /\ ~Saved(c) => called[c][Len(called[c])] <= crashes

LEMMA NextCallIsLater ==
  ASSUME NEW c \in Task, NEW now \in Nat
  PROVE  ComputeNextCall(c, now) > now \/ Repeated(now)
<1>1. Back \in Nat \ {0} /\ Every[c] \in Nat \ {0}
  BY CronAssumption
<1> QED
  BY <1>1 DEF ComputeNextCall, ToUtc, Local, Repeated
\* A run goes on or ends: the others are the same.
LEMMA RunChanges ==
  ASSUME CronInv, NEW p \in Process, NEW r, run' = [run EXCEPT ![p] = r]
  PROVE  /\ run'[p] = r /\ \A q \in Process : q # p => run'[q] = run[q]
         /\ run' = [q \in Process |-> run'[q]]
BY DEF CronInv

\* A date is saved for c: after it, c is not to be called again by this run.
LEMMA MovedIs ==
  ASSUME CronInv, NEW p \in Process, NEW c \in Task, Working(p, c), Moved(p, c)
  PROVE  /\ Typed(run'[p]) /\ DOMAIN run'[p].saved = DOMAIN run[p].saved \cup {c}
         /\ \A q \in Process : q # p => run'[q] = run[q]
         /\ run' = [q \in Process |-> run'[q]]
<1>0. PICK r : r = run[p]
  OBVIOUS
<1>1. r.on /\ c \in r.todo /\ Typed(r)
  BY <1>0 DEF Working, CronInv, NoRun
<1>2. PICK saved : saved = [d \in DOMAIN r.saved \cup {c} |->
                              IF d = c THEN ComputeNextCall(c, r.now) ELSE r.saved[d]]
  OBVIOUS
<1>3. PICK z : z = [r EXCEPT !.todo = @ \ {c}, !.count = CronRetry, !.saved = saved]
  OBVIOUS
<1>4. run' = [run EXCEPT ![p] = z]
  BY <1>0, <1>2, <1>3 DEF Moved
<1>5. /\ z.on = r.on /\ z.now = r.now /\ z.todo = r.todo \ {c} /\ z.saved = saved
  BY <1>3
<1>6. run'[p] = z /\ (\A q \in Process : q # p => run'[q] = run[q])
      /\ run' = [q \in Process |-> run'[q]]
  BY <1>4, RunChanges
<1>7. DOMAIN saved = DOMAIN r.saved \cup {c}
  BY <1>2
<1>8. ComputeNextCall(c, r.now) > r.now \/ Repeated(r.now)
  BY <1>1, NextCallIsLater DEF Typed
<1>9. \A d \in DOMAIN saved : saved[d] > r.now \/ Repeated(r.now)
  BY <1>1, <1>2, <1>8 DEF Typed
<1> QED
  BY <1>0, <1>1, <1>5, <1>6, <1>7, <1>9 DEF Typed

\* What CronInv says of the calls, when only the runs change.
LEMMA CallsKept ==
  ASSUME CronInv, called' = called, hour' \in Nat, crashes' \in Nat, crashes' >= crashes,
         run' = [p \in Process |-> run'[p]],
         \A p \in Process : run'[p] = NoRun \/ Typed(run'[p]),
         \A p, q \in Process : run'[p].on /\ run'[q].on => p = q,
         \A c \in Task : Saved(c) /\ crashes' = crashes => Saved(c)'
  PROVE  CronInv'
<1>1. ASSUME NEW c \in Task
      PROVE  /\ \A v \in 1..Len(called'[c]) : called'[c][v] <= 1 + crashes'
             /\ ~Saved(c)' => called'[c][Len(called'[c])] <= crashes'
  <2>1. /\ called[c] \in Seq(Nat) /\ Len(called[c]) \in Nat \ {0} /\ crashes \in Nat
        /\ \A v \in 1..Len(called[c]) : called[c][v] <= 1 + crashes
        /\ ~Saved(c) => called[c][Len(called[c])] <= crashes
    BY DEF CronInv
  <2>2. \A v \in 1..Len(called[c]) : called[c][v] \in Nat
    BY <2>1, ElementOfSeq
  <2>3. Len(called[c]) \in 1..Len(called[c])
    BY <2>1
  <2>4. crashes' = crashes \/ crashes' >= 1 + crashes
    BY <2>1
  <2>5. \A k, m, n \in Nat : n >= m => (k <= m => k <= n) /\ (k <= 1 + m => k <= 1 + n)
    OBVIOUS
  <2>6. \A k, m, n \in Nat : n >= 1 + m /\ k <= 1 + m => k <= n
    OBVIOUS
  <2>7. \A v \in 1..Len(called[c]) : called[c][v] <= 1 + crashes'
    BY <2>1, <2>2, <2>5
  <2>8. ASSUME ~Saved(c)' PROVE called[c][Len(called[c])] <= crashes'
    <3>1. CASE crashes' = crashes
      BY <2>1, <2>8, <3>1
    <3>2. CASE crashes' >= 1 + crashes
      BY <2>1, <2>2, <2>3, <2>6, <3>2
    <3> QED
      BY <2>4, <3>1, <3>2
  <2> QED
    BY <2>7, <2>8
<1> QED
  BY <1>1 DEF CronInv

LEMMA SucceedKeeps ==
  ASSUME CronInv, NEW p \in Process, NEW c \in Task, Succeed(p, c)
  PROVE  CronInv'
<1>1. /\ Typed(run'[p]) /\ DOMAIN run'[p].saved = DOMAIN run[p].saved \cup {c}
      /\ \A q \in Process : q # p => run'[q] = run[q]
      /\ run' = [q \in Process |-> run'[q]]
  BY MovedIs DEF Succeed
<1>2. run[p].on /\ Typed(run[p]) /\ c \in run[p].todo /\ crashes' = crashes /\ hour' = hour
  BY DEF Succeed, Working, CronInv, NoRun
<1>3. \A q \in Process : q # p => ~run[q].on
  BY <1>2 DEF CronInv, NoRun
<1>4. ~Saved(c)
  BY <1>2, <1>3 DEF Saved, Typed
<1>5. \A d \in Task : Saved(d)' <=> Saved(d) \/ d = c
  BY <1>1, <1>2, <1>3 DEF Saved, Typed
<1>6. /\ \A q \in Process : run'[q] = NoRun \/ Typed(run'[q])
      /\ \A q, s \in Process : run'[q].on /\ run'[s].on => q = s
  BY <1>1, <1>3 DEF CronInv
<1>7. PICK f : f = called[c]
  OBVIOUS
<1>8. /\ f \in Seq(Nat) /\ Len(f) \in Nat \ {0} /\ f[Len(f)] <= crashes /\ crashes \in Nat
      /\ \A v \in 1..Len(f) : f[v] <= 1 + crashes
  BY <1>4, <1>7 DEF CronInv
<1>9. PICK g : g = [f EXCEPT ![Len(f)] = @ + 1]
  OBVIOUS
<1>10. called' = [called EXCEPT ![c] = g]
  BY <1>7, <1>8, <1>9 DEF Succeed
<1>11. called'[c] = g /\ \A d \in Task : d # c => called'[d] = called[d]
  BY <1>10 DEF CronInv
<1>12. g \in Seq(Nat) /\ Len(g) = Len(f) /\ \A v \in 1..Len(g) : g[v] <= 1 + crashes
  <2>1. Len(f) \in 1..Len(f) /\ f[Len(f)] \in Nat
    BY <1>8, ElementOfSeq
  <2>2. f[Len(f)] + 1 \in Nat /\ f[Len(f)] + 1 <= 1 + crashes
    BY <1>8, <2>1
  <2>3. g \in Seq(Nat) /\ Len(g) = Len(f)
        /\ \A v \in 1..Len(f) : g[v] = IF v = Len(f) THEN f[Len(f)] + 1 ELSE f[v]
    BY <1>8, <1>9, <2>1, <2>2, ExceptSeq
  <2> QED
    BY <1>8, <2>2, <2>3
<1>13. called' \in [Task -> Seq(Nat)]
  BY <1>10, <1>12 DEF CronInv
<1>14. ASSUME NEW d \in Task
       PROVE  /\ Len(called'[d]) \in Nat \ {0}
              /\ \A v \in 1..Len(called'[d]) : called'[d][v] <= 1 + crashes
              /\ ~Saved(d)' => called'[d][Len(called'[d])] <= crashes
  <2>1. CASE d = c
    BY <1>5, <1>8, <1>11, <1>12, <2>1
  <2>2. CASE d # c
    BY <1>5, <1>11, <2>2 DEF CronInv
  <2> QED
    BY <2>1, <2>2
<1>15. hour' \in Nat /\ crashes' \in Nat
  BY <1>2 DEF CronInv
<1> QED
  BY <1>1, <1>2, <1>6, <1>13, <1>14, <1>15 DEF CronInv

\* The commit of a run opens the next date, without a call, of what it has saved.
LEMMA EndKeeps ==
  ASSUME CronInv, NEW p \in Process, End(p)
  PROVE  CronInv'
<1>1. run[p].on /\ Typed(run[p]) /\ crashes' = crashes /\ hour' = hour
  BY DEF End, CronInv, NoRun
<1>2. /\ run'[p] = NoRun /\ \A q \in Process : q # p => run'[q] = run[q]
      /\ run' = [q \in Process |-> run'[q]]
  BY RunChanges DEF End
<1>3. \A q \in Process : q # p => ~run[q].on
  BY <1>1 DEF CronInv, NoRun
<1>4. /\ \A q \in Process : run'[q] = NoRun \/ Typed(run'[q])
      /\ \A q, s \in Process : run'[q].on /\ run'[s].on => q = s
  BY <1>2, <1>3 DEF CronInv
<1>5. \A d \in Task : Saved(d) <=> d \in DOMAIN run[p].saved
  BY <1>1, <1>3 DEF Saved
<1>6. PICK moved : moved = DOMAIN run[p].saved
  OBVIOUS
<1>7. called' = [d \in Task |-> IF d \in moved THEN Append(called[d], 0) ELSE called[d]]
  BY <1>6 DEF End
<1>8. ASSUME NEW d \in Task
      PROVE  /\ called'[d] \in Seq(Nat) /\ Len(called'[d]) \in Nat \ {0}
             /\ \A v \in 1..Len(called'[d]) : called'[d][v] <= 1 + crashes
             /\ called'[d][Len(called'[d])] <= crashes
  <2>0. PICK f : f = called[d]
    OBVIOUS
  <2>1. /\ f \in Seq(Nat) /\ Len(f) \in Nat \ {0} /\ crashes \in Nat
        /\ \A v \in 1..Len(f) : f[v] <= 1 + crashes
        /\ d \notin moved => f[Len(f)] <= crashes
    BY <1>5, <1>6, <2>0 DEF CronInv
  <2>2. CASE d \in moved
    <3>1. called'[d] = Append(f, 0)
      BY <1>7, <2>0, <2>2
    <3>2. /\ Append(f, 0) \in Seq(Nat) /\ Len(Append(f, 0)) = Len(f) + 1
          /\ Append(f, 0)[Len(f) + 1] = 0 /\ \A v \in 1..Len(f) : Append(f, 0)[v] = f[v]
      BY <2>1, AppendProperties
    <3> QED
      BY <2>1, <3>1, <3>2
  <2>3. CASE d \notin moved
    BY <1>7, <2>0, <2>1, <2>3
  <2> QED
    BY <2>2, <2>3
<1>9. called' \in [Task -> Seq(Nat)]
  BY <1>7, <1>8
<1>10. hour' \in Nat /\ crashes' \in Nat
  BY <1>1 DEF CronInv
<1> QED
  BY <1>1, <1>2, <1>4, <1>8, <1>9, <1>10 DEF CronInv

LEMMA CronStep ==
  ASSUME CronInv, [CronNext]_cronVars
  PROVE  CronInv'
<1>0. hour \in Nat /\ crashes \in Nat /\ \A p \in Process : run[p].on => Typed(run[p])
  BY DEF CronInv, NoRun
<1>1. ASSUME UNCHANGED <<run, called, crashes>>, hour' \in Nat PROVE CronInv'
  BY <1>1 DEF CronInv, Saved
<1>2. ASSUME NEW p \in Process, StartRun(p) PROVE CronInv'
  <2>0. PICK r : r = [on |-> TRUE, now |-> hour, count |-> CronRetry,
                      todo |-> Due(hour), saved |-> [c \in {} |-> 0]]
    OBVIOUS
  <2>1. Typed(r)
    BY <1>0, <2>0 DEF Typed, Due
  <2>2. /\ run'[p] = r /\ \A q \in Process : q # p => run'[q] = run[q]
        /\ run' = [q \in Process |-> run'[q]]
    BY <1>2, <2>0, RunChanges DEF StartRun
  <2>3. \A q \in Process : ~run[q].on
    BY <1>2 DEF StartRun
  <2>4. /\ \A q \in Process : run'[q] = NoRun \/ Typed(run'[q])
        /\ \A q, s \in Process : run'[q].on /\ run'[s].on => q = s
    BY <2>1, <2>2, <2>3 DEF CronInv
  <2>5. \A c \in Task : ~Saved(c)
    BY <2>3 DEF Saved
  <2>6. called' = called /\ hour' = hour /\ crashes' = crashes
    BY <1>2 DEF StartRun
  <2> QED
    BY <1>0, <2>2, <2>4, <2>5, <2>6, CallsKept
<1>3. ASSUME NEW p \in Process, NEW c \in Task, TryAgain(p, c) PROVE CronInv'
  <2>0. PICK z : z = [run[p] EXCEPT !.count = @ - 1]
    OBVIOUS
  <2>1. run[p].on /\ Typed(run[p])
    BY <1>0, <1>3 DEF TryAgain, Working
  <2>2. z.on = run[p].on /\ z.now = run[p].now /\ z.todo = run[p].todo /\ z.saved = run[p].saved
    BY <2>0
  <2>3. Typed(z)
    BY <2>1, <2>2 DEF Typed
  <2>4. /\ run'[p] = z /\ \A q \in Process : q # p => run'[q] = run[q]
        /\ run' = [q \in Process |-> run'[q]]
    BY <1>3, <2>0, RunChanges DEF TryAgain
  <2>5. /\ \A q \in Process : run'[q] = NoRun \/ Typed(run'[q])
        /\ \A q, s \in Process : run'[q].on /\ run'[s].on => q = s
    BY <2>1, <2>2, <2>3, <2>4 DEF CronInv
  <2>6. \A d \in Task : Saved(d) => Saved(d)'
    BY <2>2, <2>4 DEF Saved
  <2>7. called' = called /\ hour' = hour /\ crashes' = crashes
    BY <1>3 DEF TryAgain
  <2> QED
    BY <1>0, <2>4, <2>5, <2>6, <2>7, CallsKept
<1>4. ASSUME NEW p \in Process, NEW c \in Task, NEW user \in BOOLEAN, Fail(p, c, user) PROVE CronInv'
  <2>1. /\ Typed(run'[p]) /\ DOMAIN run'[p].saved = DOMAIN run[p].saved \cup {c}
        /\ \A q \in Process : q # p => run'[q] = run[q]
        /\ run' = [q \in Process |-> run'[q]]
    BY <1>4, MovedIs DEF Fail
  <2>2. run[p].on
    BY <1>4 DEF Fail, Working
  <2>3. /\ \A q \in Process : run'[q] = NoRun \/ Typed(run'[q])
        /\ \A q, s \in Process : run'[q].on /\ run'[s].on => q = s
    BY <2>1, <2>2 DEF CronInv
  <2>4. \A d \in Task : Saved(d) => Saved(d)'
    BY <2>1 DEF Saved, Typed
  <2>5. called' = called /\ hour' = hour /\ crashes' = crashes
    BY <1>4 DEF Fail
  <2> QED
    BY <1>0, <2>1, <2>3, <2>4, <2>5, CallsKept
<1>5. ASSUME NEW p \in Process, Crash(p) PROVE CronInv'
  <2>1. /\ run'[p] = NoRun /\ \A q \in Process : q # p => run'[q] = run[q]
        /\ run' = [q \in Process |-> run'[q]]
    BY <1>5, RunChanges DEF Crash
  <2>2. /\ \A q \in Process : run'[q] = NoRun \/ Typed(run'[q])
        /\ \A q, s \in Process : run'[q].on /\ run'[s].on => q = s
    BY <2>1 DEF CronInv, NoRun
  <2>3. called' = called /\ hour' = hour /\ crashes' = crashes + 1
    BY <1>5 DEF Crash
  <2>4. crashes' \in Nat /\ crashes' >= crashes /\ crashes' # crashes
    BY <1>0, <2>3
  <2> QED
    BY <1>0, <2>1, <2>2, <2>3, <2>4, CallsKept
<1>6. CASE UNCHANGED cronVars
  BY <1>0, <1>1, <1>6 DEF cronVars
<1>7. CASE CronNext
  <2>1. CASE CronTick
    BY <1>0, <1>1, <2>1 DEF CronTick
  <2> QED
    BY <1>2, <1>3, <1>4, <1>5, <1>7, <2>1, SucceedKeeps, EndKeeps DEF CronNext
<1> QED
  BY <1>6, <1>7

\* Whatever number of workers run the tasks, an action is called no more often than
\* the limit and the delay of its trigger allow, but for one call of each of the
\* other workers, whose task had begun before; and a cron is called once for a date,
\* whatever number of processes start crons.
THEOREM CallsOnTimeHolds == TriggerSpec /\ CronSpec => []CallsOnTime
<1>1. TriggerInit => TriggerInv
  <2> SUFFICES ASSUME TriggerInit PROVE TriggerInv
    OBVIOUS
  <2>1. /\ trigger \in [on_time : BOOLEAN, limit : Nat, delay : Nat] /\ time = 0
        /\ log = [r \in Rec |-> <<>>] /\ calls = log /\ job = [w \in Worker |-> NoJob]
    BY TriggerAssumption DEF TriggerInit
  <2>2. <<>> \in Seq(Nat) /\ Len(<<>>) = 0
    OBVIOUS
  <2>3. log \in [Rec -> Seq(Nat)] /\ \A r \in Rec : Len(calls[r]) = 0
    BY <2>1, <2>2
  <2>4. LimitCounted /\ DelayCounted
    BY <2>1, <2>3 DEF LimitCounted, DelayCounted
  <2> QED
    BY <2>1, <2>3, <2>4 DEF TriggerInv
<1>2. TriggerInv /\ [TriggerNext]_triggerVars => TriggerInv'
  BY TriggerStep
<1>3. CronInit => CronInv
  <2> SUFFICES ASSUME CronInit PROVE CronInv
    OBVIOUS
  <2>1. /\ hour = 0 /\ crashes = 0 /\ run = [p \in Process |-> NoRun]
        /\ called = [c \in Task |-> <<0>>]
    BY DEF CronInit
  <2>2. <<0>> \in Seq(Nat) /\ Len(<<0>>) = 1 /\ <<0>>[1] = 0
    OBVIOUS
  <2>3. called \in [Task -> Seq(Nat)] /\ \A c \in Task : called[c] = <<0>>
    BY <2>1, <2>2
  <2>4. \A c \in Task : /\ Len(called[c]) \in Nat \ {0} /\ called[c][Len(called[c])] <= crashes
                        /\ \A v \in 1..Len(called[c]) : called[c][v] <= 1 + crashes
    BY <2>1, <2>2, <2>3
  <2> QED
    BY <2>1, <2>3, <2>4 DEF CronInv, NoRun
<1>4. CronInv /\ [CronNext]_cronVars => CronInv'
  BY CronStep
<1>5. TriggerInv /\ CronInv => CallsOnTime
  <2> SUFFICES ASSUME TriggerInv, CronInv PROVE CallsOnTime
    OBVIOUS
  <2>1. \A p \in Process : run[p].on => Typed(run[p])
    BY DEF CronInv, NoRun
  <2>2. \A p \in Process : run[p].on =>
          \A c \in DOMAIN run[p].saved :
            run[p].saved[c] > run[p].now \/ Repeated(run[p].now)
    BY <2>1 DEF Typed
  <2>3. \A c \in Task : \A v \in 1..Len(called[c]) : called[c][v] <= 1 + crashes
    BY DEF CronInv
  <2>4. LimitRespected
    <3> SUFFICES ASSUME NEW r \in Rec, trigger.limit > 0
                 PROVE  Len(calls[r]) <= trigger.limit + Others
      BY DEF LimitRespected
    <3>1. trigger.limit \in Nat /\ Len(calls[r]) \in Nat /\ Others \in Nat
      BY LenProperties, OthersIs DEF TriggerInv
    <3>2. Len(calls[r]) >= trigger.limit =>
            Len(calls[r]) + Cardinality(Late(job, r, trigger.limit)) <= trigger.limit + Others
      BY DEF TriggerInv, LimitCounted
    <3> QED
      BY <3>1, <3>2, LateIs
  <2>5. DelayRespected
    <3> SUFFICES ASSUME NEW r \in Rec, trigger.delay > 0, NEW i \in 1..Len(calls[r])
                 PROVE  Cardinality(TooSoon(r, i)) <= Others
      BY DEF DelayRespected
    <3>1. Cardinality(TooSoon(r, i)) + Cardinality(Late(job, r, i)) <= Others
      BY DEF TriggerInv, DelayCounted
    <3>2. Cardinality(TooSoon(r, i)) \in Nat /\ Cardinality(Late(job, r, i)) \in Nat /\ Others \in Nat
      BY LateIs, OthersIs, TooSoonIs DEF TriggerInv
    <3> QED
      BY <3>1, <3>2
  <2> QED
    BY <2>2, <2>3, <2>4, <2>5 DEF CallsOnTime, TriggerLimits, CronOnce
<1> QED
  BY <1>1, <1>2, <1>3, <1>4, <1>5, PTL DEF TriggerSpec, CronSpec

(* ------------- Bus: no message is skipped ------------------------------------ *)
Item == [id : Nat, ch : Channel, n : Nat]
\* A queue q is what is left of the a that was appended to it.
LeftOf(q, a) ==
  /\ q \in Seq(Item) /\ a \in Seq(Item) /\ Len(q) <= Len(a)
  /\ \A k \in 1..Len(q) : q[k] = a[k + (Len(a) - Len(q))]
  /\ \A n \in 1..Len(a) : a[n].n = n
\* The items from low to high have nothing for the walk x of s.
Nothing(s, x, a, low, high) ==
  \A n \in low..high : ~(a[n].ch \in ChannelsOf[s] /\ n > x.oldest)
\* What a walk has made of the first p items.
Walked(s, x, a, p) ==
  IF x.found
  THEN x.last # 0 /\ \E f \in 1..p : a[f].id = x.last /\ Nothing(s, x, a, f + 1, p)
  ELSE \/ x.first = NoMessage /\ Nothing(s, x, a, 1, p)
       \/ x.last # 0 /\ \E f \in 1..p : a[f] = x.first /\ Nothing(s, x, a, 1, f - 1)
\* What is for s before the message that it will get comes before its last message.
Chosen(s, x, a) == x.message # NoMessage =>
  /\ x.message.n \in Nat /\ x.message.n - 1 <= Len(a)
  /\ \A n \in 1..(x.message.n - 1) :
       a[n].ch \in ChannelsOf[s] /\ n > x.oldest =>
         \E later \in n..Len(a) : a[later].id = x.last
Reads(s, x, q, a) ==
  /\ x.oldest \in Nat /\ x.i \in Nat /\ x.delete \in Nat /\ x.found \in BOOLEAN
  /\ x.delete < x.i /\ x.i <= Len(q) + 1
  /\ x.delete + (Len(a) - Len(q)) <= x.oldest
  /\ x.at = "walk" => Walked(s, x, a, (x.i - 1) + (Len(a) - Len(q)))
  /\ x.at = "delete" => Chosen(s, x, a)
QueueInv ==
  /\ pending \in Seq([id : Nat, ch : Channel]) /\ published \in Nat /\ aged \in Nat
  /\ queue \in Seq(Seq(Item)) /\ appended \in Seq(Seq(Item)) /\ Len(queue) = Len(appended)
  /\ \A g \in 1..Len(queue) : LeftOf(queue[g], appended[g])
  /\ busListener = "listening" => queue # <<>>
  /\ queue # <<>> => Len(appended[Len(queue)]) - Len(queue[Len(queue)]) <= aged
\* What a reader at x relies on.
Reader(s, x) ==
  /\ x.at = "woken" => queue # <<>>
  /\ x.at \in {"walk", "delete"} =>
       /\ x.g \in 1..Len(queue) /\ (x.g = Len(queue) => x.oldest <= aged)
       /\ Reads(s, x, queue[x.g], appended[x.g])
ReadersInv ==
  /\ sub = [s \in Subscriber |-> sub[s]]
  /\ \A s \in Subscriber : Reader(s, sub[s])
\* As long as no prefix was deleted under another reader.
BusInv == raced \/ (~skipped /\ QueueInv /\ ReadersInv)

LEMMA EmptyLeft == LeftOf(<<>>, <<>>)
BY DEF LeftOf

\* One more item, at the end of both.
LEMMA AppendLeft ==
  ASSUME NEW q, NEW a, LeftOf(q, a), NEW e \in Item, e.n = Len(a) + 1
  PROVE  /\ LeftOf(Append(q, e), Append(a, e))
         /\ Len(Append(q, e)) = Len(q) + 1 /\ Len(Append(a, e)) = Len(a) + 1
         /\ \A n \in 1..Len(a) : Append(a, e)[n] = a[n]
<1>1. /\ q \in Seq(Item) /\ a \in Seq(Item) /\ Len(q) \in Nat /\ Len(a) \in Nat /\ Len(q) <= Len(a)
      /\ \A k \in 1..Len(q) : q[k] = a[k + (Len(a) - Len(q))]
      /\ \A n \in 1..Len(a) : a[n].n = n
  BY LenProperties DEF LeftOf
<1>2. PICK b : b = Append(a, e)
  OBVIOUS
<1>3. PICK r : r = Append(q, e)
  OBVIOUS
<1>4. /\ b \in Seq(Item) /\ Len(b) = Len(a) + 1 /\ b[Len(a) + 1] = e
      /\ \A n \in 1..Len(a) : b[n] = a[n]
  BY <1>1, <1>2, AppendProperties
<1>5. /\ r \in Seq(Item) /\ Len(r) = Len(q) + 1 /\ r[Len(q) + 1] = e
      /\ \A k \in 1..Len(q) : r[k] = q[k]
  BY <1>1, <1>3, AppendProperties
<1>6. ASSUME NEW k \in 1..Len(r) PROVE r[k] = b[k + (Len(b) - Len(r))]
  <2>1. CASE k \in 1..Len(q)
    <3>1. k + (Len(b) - Len(r)) = k + (Len(a) - Len(q)) /\ k + (Len(a) - Len(q)) \in 1..Len(a)
      BY <1>1, <1>4, <1>5, <2>1
    <3> QED
      BY <1>1, <1>4, <1>5, <2>1, <3>1
  <2>2. CASE k \notin 1..Len(q)
    <3>1. k = Len(q) + 1 /\ k + (Len(b) - Len(r)) = Len(a) + 1
      BY <1>1, <1>4, <1>5, <2>2
    <3> QED
      BY <1>4, <1>5, <3>1
  <2> QED
    BY <2>1, <2>2
<1>7. ASSUME NEW n \in 1..Len(b) PROVE b[n].n = n
  <2>1. CASE n \in 1..Len(a)
    BY <1>1, <1>4, <2>1
  <2>2. CASE n \notin 1..Len(a)
    <3>1. n = Len(a) + 1
      BY <1>1, <1>4, <2>2
    <3> QED
      BY <1>4, <3>1
  <2> QED
    BY <2>1, <2>2
<1>8. Len(r) <= Len(b)
  BY <1>1, <1>4, <1>5
<1> QED
  BY <1>2, <1>3, <1>4, <1>5, <1>6, <1>7, <1>8 DEF LeftOf

\* A prefix of the queue is deleted.
LEMMA DropLeft ==
  ASSUME NEW q, NEW a, LeftOf(q, a), NEW d \in Nat, d <= Len(q)
  PROVE  /\ LeftOf(SubSeq(q, d + 1, Len(q)), a)
         /\ Len(SubSeq(q, d + 1, Len(q))) = Len(q) - d
<1>1. /\ q \in Seq(Item) /\ a \in Seq(Item) /\ Len(q) \in Nat /\ Len(a) \in Nat /\ Len(q) <= Len(a)
      /\ \A k \in 1..Len(q) : q[k] = a[k + (Len(a) - Len(q))]
      /\ \A n \in 1..Len(a) : a[n].n = n
  BY LenProperties DEF LeftOf
<1>2. \A k \in (d + 1)..Len(q) : q[k] \in Item
  BY <1>1, ElementOfSeq
<1>3. PICK r : r = SubSeq(q, d + 1, Len(q))
  OBVIOUS
<1>4. /\ r \in Seq(Item) /\ Len(r) = (IF d + 1 <= Len(q) THEN Len(q) - (d + 1) + 1 ELSE 0)
      /\ \A k \in 1..(Len(q) - (d + 1) + 1) : r[k] = q[(d + 1) + k - 1]
  <2>1. d + 1 \in Int /\ Len(q) \in Int
    BY <1>1
  <2> QED
    BY <1>2, <1>3, <2>1, SubSeqProperties
<1>5. Len(r) = Len(q) - d
  BY <1>1, <1>4
<1>6. ASSUME NEW k \in 1..Len(r) PROVE r[k] = a[k + (Len(a) - Len(r))]
  <2>1. /\ k \in 1..(Len(q) - (d + 1) + 1) /\ (d + 1) + k - 1 \in 1..Len(q)
        /\ (d + 1) + k - 1 + (Len(a) - Len(q)) = k + (Len(a) - Len(r))
    BY <1>1, <1>5
  <2> QED
    BY <1>1, <1>4, <2>1
<1>7. Len(r) <= Len(a)
  BY <1>1, <1>5
<1> QED
  BY <1>1, <1>3, <1>4, <1>5, <1>6, <1>7 DEF LeftOf

\* What was deleted, and the part of the list that has been read, stay the same
\* while more is appended.
LEMMA ReadsOn ==
  ASSUME NEW s, NEW x, NEW q, NEW a, NEW r, NEW b,
         LeftOf(q, a), LeftOf(r, b), Reads(s, x, q, a), x.at \in {"walk", "delete"},
         Len(b) - Len(r) = Len(a) - Len(q), Len(q) <= Len(r),
         \A n \in 1..Len(a) : b[n] = a[n]
  PROVE  Reads(s, x, r, b)
<1>1. /\ Len(q) \in Nat /\ Len(a) \in Nat /\ Len(r) \in Nat /\ Len(b) \in Nat
      /\ Len(q) <= Len(a) /\ Len(a) <= Len(b)
  BY LenProperties DEF LeftOf
<1>2. /\ x.oldest \in Nat /\ x.i \in Nat /\ x.delete \in Nat /\ x.found \in BOOLEAN
      /\ x.delete < x.i /\ x.i <= Len(q) + 1 /\ x.delete + (Len(a) - Len(q)) <= x.oldest
  BY DEF Reads
<1>3. PICK p : p = (x.i - 1) + (Len(a) - Len(q))
  OBVIOUS
<1>4. p \in Nat /\ p <= Len(a)
  <2>1. \A i, d, m, n \in Nat : d < i /\ i <= m + 1 /\ m <= n
          => (i - 1) + (n - m) \in Nat /\ (i - 1) + (n - m) <= n
    OBVIOUS
  <2> QED
    BY <1>1, <1>2, <1>3, <2>1
<1>5. \A low, high \in Nat : 1 <= low /\ high <= Len(a) /\ Nothing(s, x, a, low, high)
        => Nothing(s, x, b, low, high)
  BY <1>1 DEF Nothing
<1>6. ASSUME x.at = "walk" PROVE Walked(s, x, b, (x.i - 1) + (Len(b) - Len(r)))
  <2>1. Walked(s, x, a, p)
    BY <1>3, <1>6 DEF Reads
  <2>2. \A f \in 1..p : f \in 1..Len(a) /\ f \in Nat /\ f + 1 \in Nat /\ f - 1 \in Nat /\ f - 1 <= Len(a) /\ 1 <= f + 1
    BY <1>1, <1>4
  <2>3. Walked(s, x, b, p)
    BY <1>4, <1>5, <2>1, <2>2 DEF Walked
  <2> QED
    BY <1>3, <2>3
<1>7. ASSUME x.at = "delete" PROVE Chosen(s, x, b)
  <2> SUFFICES ASSUME x.message # NoMessage PROVE Chosen(s, x, b)
    BY DEF Chosen
  <2>1. /\ x.message.n \in Nat /\ x.message.n - 1 <= Len(a)
        /\ \A n \in 1..(x.message.n - 1) :
             a[n].ch \in ChannelsOf[s] /\ n > x.oldest =>
               \E later \in n..Len(a) : a[later].id = x.last
    BY <1>7 DEF Reads, Chosen
  <2>2. ASSUME NEW n \in 1..(x.message.n - 1), b[n].ch \in ChannelsOf[s], n > x.oldest
        PROVE  \E later \in n..Len(b) : b[later].id = x.last
    <3>1. n \in 1..Len(a) /\ n \in Nat
      BY <1>1, <2>1
    <3>2. PICK later \in n..Len(a) : a[later].id = x.last
      BY <2>1, <2>2, <3>1
    <3>3. later \in 1..Len(a) /\ later \in n..Len(b)
      BY <1>1, <3>1
    <3> QED
      BY <3>2, <3>3
  <2>3. x.message.n \in Nat /\ x.message.n - 1 <= Len(b)
    <3>1. \A k, m, n \in Nat : k - 1 <= m /\ m <= n => k - 1 <= n
      OBVIOUS
    <3> QED
      BY <1>1, <2>1, <3>1
  <2> QED
    BY <2>2, <2>3 DEF Chosen
<1>8. x.i <= Len(r) + 1 /\ x.delete + (Len(b) - Len(r)) <= x.oldest
  BY <1>1, <1>2
<1> QED
  BY <1>2, <1>6, <1>7, <1>8 DEF Reads

\* The next item has nothing for the walk.
LEMMA WalkedMore ==
  ASSUME NEW s, NEW x, NEW y, NEW a, NEW p \in Nat, Walked(s, x, a, p),
         Nothing(s, x, a, p + 1, p + 1), x.found \in BOOLEAN,
         y.last = x.last, y.oldest = x.oldest, y.found = x.found, y.first = x.first
  PROVE  Walked(s, y, a, p + 1)
<1>1. ASSUME NEW low \in Nat, Nothing(s, x, a, low, p) PROVE Nothing(s, y, a, low, p + 1)
  BY <1>1 DEF Nothing
<1>2. \A low, high \in Nat : Nothing(s, x, a, low, high) => Nothing(s, y, a, low, high)
  BY DEF Nothing
<1>3. \A f \in 1..p : f \in 1..(p + 1) /\ f + 1 \in Nat /\ f - 1 \in Nat
  OBVIOUS
<1>4. CASE x.found
  BY <1>1, <1>3, <1>4 DEF Walked
<1>5. CASE ~x.found
  BY <1>1, <1>2, <1>3, <1>5 DEF Walked
<1> QED
  BY <1>4, <1>5

\* A step of the walk.
LEMMA WalkReads ==
  ASSUME NEW s, NEW x, x.at = "walk",
         LeftOf(queue[x.g], appended[x.g]), Reads(s, x, queue[x.g], appended[x.g])
  PROVE  \E y : /\ y = WalkStep(x, s)
                /\ y.at \in {"walk", "delete"} /\ y.g = x.g /\ y.oldest = x.oldest
                /\ Reads(s, y, queue[x.g], appended[x.g])
<1>0. PICK q, a, y : q = queue[x.g] /\ a = appended[x.g] /\ y = WalkStep(x, s)
  OBVIOUS
<1>1. /\ Len(q) \in Nat /\ Len(a) \in Nat /\ Len(q) <= Len(a)
      /\ \A k \in 1..Len(q) : q[k] = a[k + (Len(a) - Len(q))]
      /\ \A n \in 1..Len(a) : a[n].n = n
  BY <1>0, LenProperties DEF LeftOf
<1>2. /\ x.oldest \in Nat /\ x.i \in Nat /\ x.delete \in Nat /\ x.found \in BOOLEAN
      /\ x.delete < x.i /\ x.i <= Len(q) + 1 /\ x.delete + (Len(a) - Len(q)) <= x.oldest
  BY <1>0 DEF Reads
<1>3. PICK p : p = (x.i - 1) + (Len(a) - Len(q))
  OBVIOUS
<1>4. p \in Nat /\ p <= Len(a) /\ (x.i <= Len(q) => p + 1 <= Len(a))
  <2>1. \A i, d, m, n \in Nat : d < i /\ i <= m + 1 /\ m <= n
          => /\ (i - 1) + (n - m) \in Nat /\ (i - 1) + (n - m) <= n
             /\ i <= m => (i - 1) + (n - m) + 1 <= n
    OBVIOUS
  <2> QED
    BY <1>1, <1>2, <1>3, <2>1
<1>5. Walked(s, x, a, p)
  BY <1>0, <1>3 DEF Reads
<1>6. ASSUME NEW f \in 1..p PROVE f \in 1..Len(a) /\ a[f] # NoMessage /\ a[f].n = f
  BY <1>1, <1>4 DEF NoMessage
<1> SUFFICES /\ y.at \in {"walk", "delete"} /\ y.g = x.g /\ y.oldest = x.oldest
             /\ Reads(s, y, q, a)
  BY <1>0
<1>7. CASE x.i > Len(q)
  <2>1. y = [x EXCEPT !.at = "delete", !.message = IF x.found THEN NoMessage ELSE x.first]
    BY <1>0, <1>7 DEF WalkStep
  <2>2. /\ y.at = "delete" /\ y.g = x.g /\ y.oldest = x.oldest /\ y.last = x.last
        /\ y.i = x.i /\ y.delete = x.delete /\ y.found = x.found
        /\ y.message = IF x.found THEN NoMessage ELSE x.first
    BY <2>1
  <2>3. ASSUME y.message # NoMessage
        PROVE  \E f \in 1..p : a[f] = y.message /\ Nothing(s, x, a, 1, f - 1)
    BY <1>5, <2>2, <2>3 DEF Walked
  <2>4. Chosen(s, y, a)
    <3> SUFFICES ASSUME y.message # NoMessage PROVE Chosen(s, y, a)
      BY DEF Chosen
    <3>1. PICK f \in 1..p : a[f] = y.message /\ Nothing(s, x, a, 1, f - 1)
      BY <2>3
    <3>2. y.message.n = f /\ f \in Nat /\ f - 1 <= Len(a)
      BY <1>1, <1>4, <1>6, <3>1
    <3>3. \A n \in 1..(y.message.n - 1) : ~(a[n].ch \in ChannelsOf[s] /\ n > y.oldest)
      BY <2>2, <3>1, <3>2 DEF Nothing
    <3> QED
      BY <3>2, <3>3 DEF Chosen
  <2> QED
    BY <1>2, <2>2, <2>4 DEF Reads
<1>8. CASE x.i <= Len(q)
  <2>0. PICK item : item = q[x.i]
    OBVIOUS
  <2>1. p + 1 \in 1..Len(a) /\ item = a[p + 1] /\ item.n = p + 1
    <3>0. \A d, i, k, n \in Nat : d < i /\ i <= k /\ k <= n =>
            i \in 1..k /\ i + (n - k) = ((i - 1) + (n - k)) + 1
      OBVIOUS
    <3>1. x.i \in 1..Len(q) /\ x.i + (Len(a) - Len(q)) = p + 1
      <4>1. x.i \in Nat /\ x.delete \in Nat /\ Len(q) \in Nat /\ Len(a) \in Nat
        BY <1>1, <1>2
      <4>2. x.delete < x.i /\ x.i <= Len(q) /\ Len(q) <= Len(a)
        BY <1>1, <1>2, <1>8
      <4>3. x.i \in 1..Len(q) /\ x.i + (Len(a) - Len(q)) = ((x.i - 1) + (Len(a) - Len(q))) + 1
        BY <3>0, <4>1, <4>2
      <4> QED
        BY <1>3, <4>3
    <3>2. p + 1 \in 1..Len(a)
      BY <1>1, <1>4, <1>8
    <3> QED
      BY <1>1, <2>0, <3>1, <3>2
  <2>2. p + 1 = ((x.i + 1) - 1) + (Len(a) - Len(q)) /\ x.i + 1 <= Len(q) + 1
        /\ x.i + 1 \in Nat /\ x.delete < x.i + 1
    <3>1. \A i, d, m, n \in Nat : d < i /\ i <= m /\ m <= n
            => /\ ((i - 1) + (n - m)) + 1 = ((i + 1) - 1) + (n - m) /\ i + 1 <= m + 1
               /\ i + 1 \in Nat /\ d < i + 1
      OBVIOUS
    <3>2. x.i \in Nat /\ x.delete \in Nat /\ Len(q) \in Nat /\ Len(a) \in Nat
      BY <1>1, <1>2
    <3>3. x.delete < x.i /\ x.i <= Len(q) /\ Len(q) <= Len(a)
      BY <1>1, <1>2, <1>8
    <3>4. p + 1 = ((x.i + 1) - 1) + (Len(a) - Len(q))
      BY <1>3, <3>1, <3>2, <3>3
    <3>5. x.i + 1 <= Len(q) + 1 /\ x.i + 1 \in Nat /\ x.delete < x.i + 1
      BY <3>1, <3>2, <3>3
    <3> QED
      BY <3>4, <3>5
  <2>3. CASE item.n <= x.oldest
    <3>1. y = [x EXCEPT !.i = x.i + 1, !.delete = x.i - 1]
      BY <1>0, <1>2, <1>8, <2>0, <2>3 DEF WalkStep
    <3>2. /\ y.at = "walk" /\ y.g = x.g /\ y.oldest = x.oldest /\ y.last = x.last
          /\ y.i = x.i + 1 /\ y.delete = x.i - 1 /\ y.found = x.found /\ y.first = x.first
      BY <3>1
    <3>3. Nothing(s, x, a, p + 1, p + 1)
      BY <1>2, <1>4, <2>1, <2>3 DEF Nothing
    <3>4. Walked(s, y, a, p + 1)
      BY <1>2, <1>4, <1>5, <3>2, <3>3, WalkedMore
    <3>5. x.i - 1 \in Nat /\ x.i - 1 < x.i + 1 /\ (x.i - 1) + (Len(a) - Len(q)) <= x.oldest
      BY <1>2, <1>3, <1>4, <2>1, <2>3
    <3> QED
      BY <1>2, <2>2, <3>2, <3>4, <3>5 DEF Reads
  <2>4. CASE item.n > x.oldest /\ item.ch \notin ChannelsOf[s]
    <3>1. y = [x EXCEPT !.i = x.i + 1]
      BY <1>0, <1>2, <1>8, <2>0, <2>1, <2>4 DEF WalkStep
    <3>2. /\ y.at = "walk" /\ y.g = x.g /\ y.oldest = x.oldest /\ y.last = x.last
          /\ y.i = x.i + 1 /\ y.delete = x.delete /\ y.found = x.found /\ y.first = x.first
      BY <3>1
    <3>3. Nothing(s, x, a, p + 1, p + 1)
      BY <1>4, <2>1, <2>4 DEF Nothing
    <3>4. Walked(s, y, a, p + 1)
      BY <1>2, <1>4, <1>5, <3>2, <3>3, WalkedMore
    <3> QED
      BY <1>2, <2>2, <3>2, <3>4 DEF Reads
  <2>5. CASE item.n > x.oldest /\ item.ch \in ChannelsOf[s] /\ (x.last = 0 \/ x.found)
    <3>1. y = [x EXCEPT !.at = "delete", !.message = item]
      BY <1>0, <1>2, <1>8, <2>0, <2>1, <2>5 DEF WalkStep
    <3>2. /\ y.at = "delete" /\ y.g = x.g /\ y.oldest = x.oldest /\ y.last = x.last
          /\ y.i = x.i /\ y.delete = x.delete /\ y.found = x.found /\ y.message = item
      BY <3>1
    <3>3. ASSUME NEW n \in 1..p, a[n].ch \in ChannelsOf[s], n > x.oldest
          PROVE  \E later \in n..Len(a) : a[later].id = x.last
      <4>1. ~Nothing(s, x, a, 1, p)
        BY <3>3 DEF Nothing
      <4>2. x.found
        BY <1>2, <1>5, <2>5, <4>1 DEF Walked
      <4>3. PICK f \in 1..p : a[f].id = x.last /\ Nothing(s, x, a, f + 1, p)
        BY <1>5, <4>2 DEF Walked
      <4>4. ~(n \in (f + 1)..p)
        BY <3>3, <4>3 DEF Nothing
      <4>5. f \in n..Len(a)
        BY <1>1, <1>4, <4>4
      <4> QED
        BY <4>3, <4>5
    <3>4. item.n \in Nat /\ item.n - 1 = p
      BY <1>4, <2>1
    <3>5. Chosen(s, y, a)
      BY <1>4, <3>2, <3>3, <3>4 DEF Chosen
    <3> QED
      BY <1>2, <3>2, <3>5 DEF Reads
  <2>6. CASE item.n > x.oldest /\ item.ch \in ChannelsOf[s] /\ ~(x.last = 0 \/ x.found)
    <3>1. y = [x EXCEPT !.i = x.i + 1, !.found = (item.id = x.last), !.first = FirstOf(x, item)]
      BY <1>0, <1>2, <1>8, <2>0, <2>1, <2>6 DEF WalkStep
    <3>2. /\ y.at = "walk" /\ y.g = x.g /\ y.oldest = x.oldest /\ y.last = x.last
          /\ y.i = x.i + 1 /\ y.delete = x.delete /\ y.found = (item.id = x.last)
          /\ y.first = FirstOf(x, item)
      BY <3>1
    <3>3. p + 1 \in 1..(p + 1) /\ (\A n : n \notin ((p + 1) + 1)..(p + 1)) /\ (p + 1) - 1 = p
      BY <1>4
    <3>4. CASE item.id = x.last
      <4>1. Nothing(s, y, a, (p + 1) + 1, p + 1)
        BY <3>3 DEF Nothing
      <4> QED
        BY <1>2, <2>1, <2>2, <2>6, <3>2, <3>3, <3>4, <4>1 DEF Reads, Walked
    <3>5. CASE item.id # x.last /\ x.first = NoMessage
      <4>1. Nothing(s, x, a, 1, p)
        BY <1>5, <1>6, <2>6, <3>5 DEF Walked
      <4>2. Nothing(s, y, a, 1, (p + 1) - 1) /\ y.first = item
        BY <3>2, <3>3, <3>5, <4>1 DEF Nothing, FirstOf
      <4>3. Walked(s, y, a, p + 1)
        BY <2>1, <2>6, <3>2, <3>3, <3>5, <4>2 DEF Walked
      <4> QED
        BY <1>2, <2>2, <3>2, <4>3 DEF Reads
    <3>6. CASE item.id # x.last /\ x.first # NoMessage
      <4>1. PICK f \in 1..p : a[f] = x.first /\ Nothing(s, x, a, 1, f - 1)
        BY <1>5, <2>6, <3>6 DEF Walked
      <4>2. Nothing(s, y, a, 1, f - 1) /\ y.first = a[f] /\ f \in 1..(p + 1)
        BY <1>4, <3>2, <3>6, <4>1 DEF Nothing, FirstOf
      <4>3. Walked(s, y, a, p + 1)
        BY <2>6, <3>2, <3>6, <4>2 DEF Walked
      <4> QED
        BY <1>2, <2>2, <3>2, <4>3 DEF Reads
    <3> QED
      BY <3>4, <3>5, <3>6, <3>2
  <2> QED
    BY <1>2, <2>1, <2>3, <2>4, <2>5, <2>6
<1> QED
  BY <1>1, <1>2, <1>7, <1>8

\* A reader relies on the queues, which other steps leave or extend.
LEMMA ReaderOn ==
  ASSUME QueueInv, QueueInv', NEW s, NEW x, Reader(s, x),
         Len(queue') >= Len(queue),
         x.at \in {"walk", "delete"} =>
           /\ Len(appended'[x.g]) - Len(queue'[x.g]) = Len(appended[x.g]) - Len(queue[x.g])
           /\ Len(queue[x.g]) <= Len(queue'[x.g])
           /\ \A n \in 1..Len(appended[x.g]) : appended'[x.g][n] = appended[x.g][n]
           /\ x.g = Len(queue') => x.oldest <= aged'
  PROVE  Reader(s, x)'
<1>0. queue # <<>> => queue' # <<>>
  <2>1. queue \in Seq(Seq(Item)) /\ queue' \in Seq(Seq(Item))
    BY DEF QueueInv
  <2>2. queue # <<>> => Len(queue) \in Nat \ {0}
    BY <2>1, EmptySeq
  <2>3. Len(queue') \in Nat /\ (queue' = <<>> => Len(queue') = 0)
    BY <2>1, EmptySeq, LenProperties
  <2> QED
    BY <2>2, <2>3
<1> SUFFICES ASSUME x.at \in {"walk", "delete"}
             PROVE  /\ x.g \in 1..Len(queue') /\ (x.g = Len(queue') => x.oldest <= aged')
                    /\ Reads(s, x, queue'[x.g], appended'[x.g])
  BY <1>0 DEF Reader
<1>1. x.g \in 1..Len(queue) /\ Reads(s, x, queue[x.g], appended[x.g])
  BY DEF Reader
<1>2. Len(queue) \in Nat /\ Len(queue') \in Nat
  BY LenProperties DEF QueueInv
<1>3. x.g \in 1..Len(queue')
  BY <1>1, <1>2
<1>4. LeftOf(queue[x.g], appended[x.g])
  BY <1>1 DEF QueueInv
<1>5. LeftOf(queue'[x.g], appended'[x.g])
  BY <1>3 DEF QueueInv
<1>6. Reads(s, x, queue'[x.g], appended'[x.g])
  BY <1>1, <1>4, <1>5, ReadsOn
<1> QED
  BY <1>3, <1>6

\* Steps that leave the queues.
LEMMA QueuesSame ==
  ASSUME QueueInv, NEW s, NEW x, Reader(s, x), QueueInv', queue' = queue,
         appended' = appended, aged' >= aged
  PROVE  Reader(s, x)'
<1>1. x.at \in {"walk", "delete"} => /\ x.g \in 1..Len(queue) /\ (x.g = Len(queue) => x.oldest <= aged)
                                     /\ Reads(s, x, queue[x.g], appended[x.g])
  BY DEF Reader
<1>2. aged \in Nat /\ aged' \in Nat
  BY DEF QueueInv
<1>3. x.at \in {"walk", "delete"} => x.oldest \in Nat
  BY <1>1 DEF Reads
<1> QED
  BY <1>1, <1>2, <1>3 DEF Reader

\* A call that is not reading a queue.
LEMMA NotReading ==
  ASSUME NEW s, NEW x, x.at \in {"idle", "wait"}
  PROVE  Reader(s, x) /\ Reader(s, x)'
BY DEF Reader

\* A walk starts at the first item that is left; what was deleted was old.
LEMMA WalkStarts ==
  ASSUME QueueInv, queue # <<>>, NEW s, NEW last, NEW second
  PROVE  Reader(s, Walking(last, second))
<1>0. PICK g, x : g = Len(queue) /\ x = Walking(last, second)
  OBVIOUS
<1>1. /\ x.at = "walk" /\ x.last = last /\ x.g = g /\ x.oldest = aged /\ x.i = 1
      /\ x.delete = 0 /\ x.found = FALSE /\ x.first = NoMessage
  BY <1>0 DEF Walking
<1>2. g \in 1..Len(queue) /\ aged \in Nat
  BY <1>0, EmptySeq, LenProperties DEF QueueInv
<1>3. PICK q, a : q = queue[g] /\ a = appended[g]
  OBVIOUS
<1>4. /\ LeftOf(q, a) /\ Len(a) - Len(q) <= aged
  BY <1>0, <1>2, <1>3, EmptySeq, LenProperties DEF QueueInv
<1>5. Len(q) \in Nat /\ Len(a) \in Nat /\ Len(q) <= Len(a)
  BY <1>4, LenProperties DEF LeftOf
<1>6. Nothing(s, x, a, 1, (1 - 1) + (Len(a) - Len(q)))
  BY <1>1, <1>2, <1>4, <1>5 DEF Nothing
<1>7. Walked(s, x, a, (x.i - 1) + (Len(a) - Len(q)))
  BY <1>1, <1>6 DEF Walked
<1>8. 0 < 1 /\ 1 <= Len(q) + 1 /\ 0 + (Len(a) - Len(q)) <= aged
  BY <1>2, <1>4, <1>5
<1>9. Reads(s, x, q, a)
  <2>0. x.found \in BOOLEAN
    BY <1>0 DEF Walking
  <2>1. /\ x.oldest \in Nat /\ x.i \in Nat /\ x.delete \in Nat /\ x.found \in BOOLEAN
    BY <1>1, <1>2, <2>0
  <2>2. /\ x.delete < x.i /\ x.i <= Len(q) + 1 /\ x.delete + (Len(a) - Len(q)) <= x.oldest
    BY <1>1, <1>8
  <2>3. x.at # "delete"
    BY <1>1
  <2> QED
    BY <1>7, <2>1, <2>2, <2>3 DEF Reads
<1> QED
  BY <1>0, <1>1, <1>2, <1>3, <1>9 DEF Reader

\* One subscriber goes on, the queues stay.
LEMMA SubscriberStep ==
  ASSUME QueueInv, ReadersInv, QueueInv', NEW s \in Subscriber, NEW x, Reader(s, x),
         queue' = queue, appended' = appended, aged' = aged, sub' = [sub EXCEPT ![s] = x]
  PROVE  ReadersInv'
<1>1. /\ sub'[s] = x /\ \A t \in Subscriber : t # s => sub'[t] = sub[t]
      /\ sub' = [t \in Subscriber |-> sub'[t]]
  BY DEF ReadersInv
<1>2. aged' >= aged
  BY DEF QueueInv
<1>3. ASSUME NEW t \in Subscriber PROVE Reader(t, sub[t]) /\ Reader(s, x)
  BY DEF ReadersInv
<1>4. ASSUME NEW t \in Subscriber PROVE \E y : y = sub'[t] /\ Reader(t, y)'
  <2>1. CASE t = s
    <3>1. Reader(s, x)'
      BY <1>2, QueuesSame
    <3> QED
      BY <1>1, <2>1, <3>1
  <2>2. CASE t # s
    <3>0. PICK y : y = sub[t]
      OBVIOUS
    <3>1. Reader(t, y)
      BY <1>3, <3>0
    <3>2. Reader(t, y)'
      BY <1>2, <3>1, QueuesSame
    <3> QED
      BY <1>1, <2>2, <3>0, <3>2
  <2> QED
    BY <2>1, <2>2
<1> QED
  BY <1>1, <1>4 DEF ReadersInv

LEMMA QueuesKept ==
  ASSUME QueueInv, queue' = queue, appended' = appended, aged' \in Nat, aged' >= aged,
         pending' \in Seq([id : Nat, ch : Channel]), published' \in Nat,
         busListener' = "listening" => busListener = "listening"
  PROVE  QueueInv'
<1>1. ASSUME queue # <<>> PROVE Len(appended[Len(queue)]) - Len(queue[Len(queue)]) <= aged'
  <2>1. Len(queue) \in 1..Len(queue)
    BY <1>1, EmptySeq, LenProperties DEF QueueInv
  <2>2. Len(appended[Len(queue)]) \in Nat /\ Len(queue[Len(queue)]) \in Nat
    BY <2>1, LenProperties DEF QueueInv, LeftOf
  <2>3. aged \in Nat /\ Len(appended[Len(queue)]) - Len(queue[Len(queue)]) <= aged
    BY <1>1 DEF QueueInv
  <2>4. \A k, l, m, n \in Nat : k - l <= m /\ n >= m => k - l <= n
    OBVIOUS
  <2> QED
    BY <2>2, <2>3, <2>4
<1> QED
  BY <1>1 DEF QueueInv

\* The listener makes a new queue: the readers of the others go on with theirs.
LEMMA ListenKeeps ==
  ASSUME QueueInv, ReadersInv, Listen
  PROVE  QueueInv' /\ ReadersInv'
<1>1. /\ queue \in Seq(Seq(Item)) /\ appended \in Seq(Seq(Item)) /\ Len(queue) = Len(appended)
      /\ Len(queue) \in Nat /\ \A g \in 1..Len(queue) : LeftOf(queue[g], appended[g])
  BY LenProperties DEF QueueInv
<1>2. <<>> \in Seq(Item) /\ Len(<<>>) = 0
  BY EmptySeq
<1>3. PICK q, a : q = Append(queue, <<>>) /\ a = Append(appended, <<>>)
  OBVIOUS
<1>4. /\ q \in Seq(Seq(Item)) /\ q # <<>> /\ Len(q) = Len(queue) + 1 /\ q[Len(queue) + 1] = <<>>
      /\ \A g \in 1..Len(queue) : q[g] = queue[g]
  BY <1>1, <1>2, <1>3, AppendProperties
<1>5. /\ a \in Seq(Seq(Item)) /\ Len(a) = Len(queue) + 1 /\ a[Len(queue) + 1] = <<>>
      /\ \A g \in 1..Len(queue) : a[g] = appended[g]
  BY <1>1, <1>2, <1>3, AppendProperties
<1>6. queue' = q /\ appended' = a /\ aged' = 0 /\ pending' = pending /\ published' = published /\ sub' = sub
  BY <1>3 DEF Listen
<1>7. ASSUME NEW g \in 1..Len(q) PROVE LeftOf(q[g], a[g])
  <2>1. CASE g \in 1..Len(queue)
    BY <1>1, <1>4, <1>5, <2>1
  <2>2. CASE g \notin 1..Len(queue)
    <3>1. g = Len(queue) + 1
      BY <1>1, <1>4, <2>2
    <3> QED
      BY <1>4, <1>5, <3>1, EmptyLeft
  <2> QED
    BY <2>1, <2>2
<1>8. Len(a[Len(q)]) - Len(q[Len(q)]) <= 0
  BY <1>2, <1>4, <1>5
<1>9. QueueInv'
  BY <1>4, <1>5, <1>6, <1>7, <1>8 DEF QueueInv
<1>10. ASSUME NEW s \in Subscriber PROVE \E y : y = sub'[s] /\ Reader(s, y)'
  <2>0. PICK y : y = sub[s]
    OBVIOUS
  <2>1. Reader(s, y)
    BY <2>0 DEF ReadersInv
  <2>2. Len(queue') >= Len(queue)
    BY <1>1, <1>4, <1>6
  <2>3. y.at \in {"walk", "delete"} => /\ y.g \in 1..Len(queue) /\ y.g # Len(queue')
    BY <1>1, <1>4, <1>6, <2>1 DEF Reader
  <2>4. ASSUME y.at \in {"walk", "delete"}
        PROVE  /\ Len(appended'[y.g]) - Len(queue'[y.g]) = Len(appended[y.g]) - Len(queue[y.g])
               /\ Len(queue[y.g]) <= Len(queue'[y.g])
               /\ \A n \in 1..Len(appended[y.g]) : appended'[y.g][n] = appended[y.g][n]
               /\ y.g = Len(queue') => y.oldest <= aged'
    <3>1. queue'[y.g] = queue[y.g] /\ appended'[y.g] = appended[y.g]
      BY <1>4, <1>5, <1>6, <2>3, <2>4
    <3>2. Len(queue[y.g]) \in Nat
      BY <1>1, <2>3, <2>4, LenProperties
    <3> QED
      BY <2>3, <2>4, <3>1, <3>2
  <2>5. Reader(s, y)'
    BY <1>9, <2>1, <2>2, <2>4, ReaderOn
  <2> QED
    BY <1>6, <2>0, <2>5
<1> QED
  BY <1>6, <1>9, <1>10 DEF ReadersInv

\* A message is added at the end of the queue.
LEMMA ReceiveKeeps ==
  ASSUME QueueInv, ReadersInv, Receive
  PROVE  QueueInv' /\ ReadersInv'
<1>0. PICK g, m : g = Len(queue) /\ m = Last(pending)
  OBVIOUS
<1>1. /\ busListener = "listening" /\ pending # <<>> /\ queue # <<>> /\ aged' = aged
      /\ published' = published /\ busListener' = busListener /\ pending' = Front(pending)
  BY DEF Receive, QueueInv
<1>2. /\ queue \in Seq(Seq(Item)) /\ appended \in Seq(Seq(Item)) /\ Len(queue) = Len(appended)
      /\ Len(queue) \in Nat /\ \A h \in 1..Len(queue) : LeftOf(queue[h], appended[h])
      /\ g \in 1..Len(queue) /\ g \in 1..Len(appended) /\ Len(appended[g]) - Len(queue[g]) <= aged
  BY <1>0, <1>1, EmptySeq, LenProperties DEF QueueInv
<1>3. Len(pending) \in Nat \ {0} /\ \A i \in 1..Len(pending) : pending[i] \in [id : Nat, ch : Channel]
  BY <1>1, EmptySeq, ElementOfSeq DEF QueueInv
<1>4. m \in [id : Nat, ch : Channel]
  BY <1>0, <1>3 DEF Last
<1>5. pending' \in Seq([id : Nat, ch : Channel])
  <2>1. \A i \in 1..(Len(pending) - 1) : pending[i] \in [id : Nat, ch : Channel]
    BY <1>3
  <2>2. 1 \in Int /\ Len(pending) - 1 \in Int
    BY <1>3
  <2>3. SubSeq(pending, 1, Len(pending) - 1) \in Seq([id : Nat, ch : Channel])
    BY <2>1, <2>2, SubSeqProperties
  <2> QED
    BY <1>1, <2>3 DEF Front
<1>6. Len(appended[g]) \in Nat /\ Len(queue[g]) \in Nat /\ LeftOf(queue[g], appended[g])
  BY <1>2, LenProperties
<1>7. PICK e : e = [id |-> m.id, ch |-> m.ch, n |-> Len(appended[g]) + 1]
  OBVIOUS
<1>8. e \in Item /\ e.n = Len(appended[g]) + 1
  BY <1>4, <1>6, <1>7 DEF Item
<1>9. PICK r, b : r = Append(queue[g], e) /\ b = Append(appended[g], e)
  OBVIOUS
<1>10. /\ LeftOf(r, b) /\ Len(r) = Len(queue[g]) + 1 /\ Len(b) = Len(appended[g]) + 1
       /\ \A n \in 1..Len(appended[g]) : b[n] = appended[g][n]
  BY <1>6, <1>8, <1>9, AppendLeft
<1>11. /\ queue' = [queue EXCEPT ![g] = r] /\ appended' = [appended EXCEPT ![g] = b]
       /\ sub' = [s \in Subscriber |-> IF sub[s].at = "wait" /\ m.ch \in ChannelsOf[s]
                                       THEN [sub[s] EXCEPT !.at = "woken"] ELSE sub[s]]
  BY <1>0, <1>7, <1>9 DEF Receive
<1>12. r \in Seq(Item) /\ b \in Seq(Item)
  BY <1>10 DEF LeftOf
<1>13. /\ queue' \in Seq(Seq(Item)) /\ Len(queue') = Len(queue)
       /\ \A h \in 1..Len(queue) : queue'[h] = IF h = g THEN r ELSE queue[h]
  BY <1>2, <1>11, <1>12, ExceptSeq
<1>14. /\ appended' \in Seq(Seq(Item)) /\ Len(appended') = Len(appended)
       /\ \A h \in 1..Len(appended) : appended'[h] = IF h = g THEN b ELSE appended[h]
  BY <1>2, <1>11, <1>12, ExceptSeq
<1>15. QueueInv'
  <2>1. \A h \in 1..Len(queue') : LeftOf(queue'[h], appended'[h])
    BY <1>2, <1>10, <1>13, <1>14
  <2>2. Len(appended'[Len(queue')]) - Len(queue'[Len(queue')]) <= aged'
    <3>1. Len(queue') = g /\ queue'[g] = r /\ appended'[g] = b
      BY <1>0, <1>2, <1>13, <1>14
    <3>2. aged \in Nat
      BY DEF QueueInv
    <3>3. Len(b) - Len(r) <= aged
      <4>1. \A k, l, n \in Nat : k - l <= n => (k + 1) - (l + 1) <= n
        OBVIOUS
      <4>2. Len(b) = Len(appended[g]) + 1 /\ Len(r) = Len(queue[g]) + 1
        BY <1>10
      <4> QED
        BY <1>2, <1>6, <3>2, <4>1, <4>2
    <3> QED
      BY <1>1, <3>1, <3>3
  <2>3. queue' # <<>>
    BY <1>2, <1>13, EmptySeq
  <2> QED
    BY <1>1, <1>2, <1>5, <1>13, <1>14, <2>1, <2>2, <2>3 DEF QueueInv
<1>16. ASSUME NEW s \in Subscriber PROVE \E y : y = sub'[s] /\ Reader(s, y)'
  <2>0. PICK y : y = sub'[s]
    OBVIOUS
  <2>1. CASE sub[s].at = "wait" /\ m.ch \in ChannelsOf[s]
    <3>1. y = [sub[s] EXCEPT !.at = "woken"]
      BY <1>11, <2>0, <2>1
    <3>2. y.at = "woken"
      BY <3>1
    <3>3. Reader(s, y)'
      <4>1. queue' # <<>>
        BY <1>2, <1>13, EmptySeq
      <4> QED
        BY <3>2, <4>1 DEF Reader
    <3> QED
      BY <2>0, <3>3
  <2>2. CASE ~(sub[s].at = "wait" /\ m.ch \in ChannelsOf[s])
    <3>1. y = sub[s]
      BY <1>11, <2>0, <2>2
    <3>2. Reader(s, y)
      BY <3>1 DEF ReadersInv
    <3>3. ASSUME y.at \in {"walk", "delete"}
          PROVE  /\ Len(appended'[y.g]) - Len(queue'[y.g]) = Len(appended[y.g]) - Len(queue[y.g])
                 /\ Len(queue[y.g]) <= Len(queue'[y.g])
                 /\ \A n \in 1..Len(appended[y.g]) : appended'[y.g][n] = appended[y.g][n]
                 /\ y.g = Len(queue') => y.oldest <= aged'
      <4>1. y.g \in 1..Len(queue) /\ (y.g = Len(queue') => y.oldest <= aged')
        BY <1>1, <1>13, <3>2, <3>3 DEF Reader
      <4>2. Len(queue[y.g]) \in Nat
        BY <1>2, <4>1, LenProperties
      <4>3. CASE y.g = g
        <5>1. queue'[y.g] = r /\ appended'[y.g] = b
          BY <1>2, <1>13, <1>14, <4>3
        <5>2. Len(b) - Len(r) = Len(appended[g]) - Len(queue[g]) /\ Len(queue[g]) <= Len(r)
          BY <1>6, <1>10
        <5> QED
          BY <1>10, <4>1, <4>3, <5>1, <5>2
      <4>4. CASE y.g # g
        <5>1. queue'[y.g] = queue[y.g] /\ appended'[y.g] = appended[y.g]
          BY <1>2, <1>13, <1>14, <4>1, <4>4
        <5> QED
          BY <4>1, <4>2, <5>1
      <4> QED
        BY <4>3, <4>4
    <3>4. Len(queue') >= Len(queue)
      BY <1>2, <1>13
    <3>5. Reader(s, y)'
      BY <1>15, <3>2, <3>3, <3>4, ReaderOn
    <3> QED
      BY <2>0, <3>5
  <2> QED
    BY <2>1, <2>2
<1>17. sub' = [s \in Subscriber |-> sub'[s]]
  BY <1>11
<1> QED
  BY <1>15, <1>16, <1>17 DEF ReadersInv

\* The message that a reader gets is the next one for it.
LEMMA NoneSkipped ==
  ASSUME NEW s \in Subscriber, sub[s].at = "delete", Reader(s, sub[s]), QueueInv,
         sub[s].message # NoMessage
  PROVE  Skipped(s, sub[s].message) = {}
<1>0. PICK x, a : x = sub[s] /\ a = appended[sub[s].g]
  OBVIOUS
<1>1. /\ x.at = "delete" /\ x.message # NoMessage /\ x.g \in 1..Len(queue)
      /\ Reads(s, x, queue[x.g], a)
  BY <1>0 DEF Reader
<1>2. LeftOf(queue[x.g], a)
  BY <1>0, <1>1 DEF QueueInv
<1>3. Len(a) \in Nat /\ DOMAIN a = 1..Len(a) /\ \A n \in 1..Len(a) : a[n].n = n
  BY <1>2, LenProperties DEF LeftOf
<1>4. /\ x.message.n \in Nat
      /\ \A n \in 1..(x.message.n - 1) :
           a[n].ch \in ChannelsOf[s] /\ n > x.oldest => \E later \in n..Len(a) : a[later].id = x.last
  BY <1>1 DEF Reads, Chosen
<1>5. PICK all : all = {a[i] : i \in DOMAIN a}
  OBVIOUS
<1>6. Skipped(s, x.message) =
        {k \in all : /\ k.ch \in ChannelsOf[s] /\ x.oldest < k.n /\ k.n < x.message.n
                     /\ \A l \in all : l.id = x.last => l.n < k.n}
  BY <1>0, <1>5 DEF Skipped
<1>7. ASSUME NEW k \in all, k.ch \in ChannelsOf[s], x.oldest < k.n, k.n < x.message.n,
             \A l \in all : l.id = x.last => l.n < k.n
      PROVE  FALSE
  <2>1. PICK n \in 1..Len(a) : k = a[n] /\ k.n = n
    BY <1>3, <1>5, <1>7
  <2>2. x.oldest \in Nat
    BY <1>1 DEF Reads
  <2>3. n \in 1..(x.message.n - 1) /\ n > x.oldest /\ a[n].ch \in ChannelsOf[s]
    BY <1>4, <1>7, <2>1, <2>2
  <2>4. PICK later \in n..Len(a) : a[later].id = x.last
    BY <1>4, <2>3
  <2>5. later \in 1..Len(a) /\ a[later] \in all /\ a[later].n = later
    BY <1>3, <1>5, <2>4
  <2>6. later < n
    BY <1>7, <2>1, <2>4, <2>5
  <2> QED
    BY <2>4, <2>6
<1>8. Skipped(s, x.message) = {}
  BY <1>6, <1>7
<1> QED
  BY <1>0, <1>8

\* A reader deletes what is old for it, which no other reads.
LEMMA DeleteKeeps ==
  ASSUME QueueInv, ReadersInv, NEW s \in Subscriber, DeleteOld(s), ~raced'
  PROVE  QueueInv' /\ ReadersInv'
<1>0. PICK x, g, d : x = sub[s] /\ g = sub[s].g /\ d = sub[s].delete
  OBVIOUS
<1>1. /\ x.at = "delete" /\ Reader(s, x) /\ g = x.g /\ d = x.delete
      /\ appended' = appended /\ aged' = aged /\ pending' = pending /\ published' = published
      /\ busListener' = busListener
  BY <1>0 DEF DeleteOld, ReadersInv
<1>2. /\ queue \in Seq(Seq(Item)) /\ appended \in Seq(Seq(Item)) /\ Len(queue) = Len(appended)
      /\ Len(queue) \in Nat /\ \A h \in 1..Len(queue) : LeftOf(queue[h], appended[h])
      /\ aged \in Nat
  BY LenProperties DEF QueueInv
<1>3. /\ g \in 1..Len(queue) /\ (g = Len(queue) => x.oldest <= aged)
      /\ Reads(s, x, queue[g], appended[g])
  BY <1>1 DEF Reader
<1>4. LeftOf(queue[g], appended[g]) /\ Len(queue[g]) \in Nat /\ Len(appended[g]) \in Nat
  BY <1>2, <1>3, LenProperties DEF LeftOf
<1>5. /\ d \in Nat /\ d <= Len(queue[g]) /\ x.oldest \in Nat
      /\ d + (Len(appended[g]) - Len(queue[g])) <= x.oldest
  <2>1. \A i, k, m \in Nat : k < i /\ i <= m + 1 => k <= m
    OBVIOUS
  <2> QED
    BY <1>1, <1>3, <1>4, <2>1 DEF Reads
<1>6. PICK r : r = SubSeq(queue[g], d + 1, Len(queue[g]))
  OBVIOUS
<1>7. LeftOf(r, appended[g]) /\ Len(r) = Len(queue[g]) - d
  BY <1>4, <1>5, <1>6, DropLeft
<1>8. queue' = [queue EXCEPT ![g] = r]
  BY <1>0, <1>6 DEF DeleteOld
<1>9. r \in Seq(Item)
  BY <1>7 DEF LeftOf
<1>10. /\ queue' \in Seq(Seq(Item)) /\ Len(queue') = Len(queue)
       /\ \A h \in 1..Len(queue) : queue'[h] = IF h = g THEN r ELSE queue[h]
  BY <1>2, <1>3, <1>8, <1>9, ExceptSeq
<1>11. QueueInv'
  <2>1. \A h \in 1..Len(queue') : LeftOf(queue'[h], appended'[h])
    BY <1>1, <1>2, <1>7, <1>10
  <2>2. ASSUME queue' # <<>>
        PROVE  Len(appended'[Len(queue')]) - Len(queue'[Len(queue')]) <= aged'
    <3>1. CASE g = Len(queue)
      <4>1. queue'[Len(queue')] = r /\ appended'[Len(queue')] = appended[g]
        BY <1>1, <1>3, <1>10, <3>1
      <4>2. \A k, l, e, m, n \in Nat : e + (k - l) <= m /\ m <= n => k - (l - e) <= n
        OBVIOUS
      <4>3. Len(appended[g]) - (Len(queue[g]) - d) <= aged
        BY <1>2, <1>3, <1>4, <1>5, <3>1, <4>2
      <4> QED
        BY <1>1, <1>7, <4>1, <4>3
    <3>2. CASE g # Len(queue)
      <4>1. Len(queue) \in 1..Len(queue) /\ queue # <<>>
        BY <1>2, <1>3, EmptySeq
      <4>2. queue'[Len(queue')] = queue[Len(queue)]
        BY <1>10, <3>2, <4>1
      <4> QED
        BY <1>1, <1>10, <4>1, <4>2 DEF QueueInv
    <3> QED
      BY <3>1, <3>2
  <2>3. queue' # <<>>
    BY <1>2, <1>3, <1>10, EmptySeq
  <2> QED
    BY <1>1, <1>2, <1>10, <2>1, <2>2, <2>3 DEF QueueInv
<1>12. d = 0 => r = queue[g]
  <2> SUFFICES ASSUME d = 0 PROVE r = queue[g]
    OBVIOUS
  <2>1. Len(r) = Len(queue[g])
    BY <1>4, <1>7
  <2>2. \A k \in 1..Len(r) : r[k] = queue[g][k]
    <3>1. /\ \A k \in 1..Len(r) : r[k] = appended[g][k + (Len(appended[g]) - Len(r))]
          /\ \A k \in 1..Len(queue[g]) : queue[g][k] = appended[g][k + (Len(appended[g]) - Len(queue[g]))]
      BY <1>4, <1>7 DEF LeftOf
    <3> QED
      BY <2>1, <3>1
  <2>3. queue[g] \in Seq(Item)
    BY <1>4 DEF LeftOf
  <2> QED
    BY <1>9, <2>1, <2>2, <2>3, SeqEqual
<1>13. PICK z : /\ z.at \in {"idle", "wait"} /\ sub' = [sub EXCEPT ![s] = z]
  <2>1. /\ Resting(x.message.id).at = "idle" /\ Resting(x.last).at = "idle"
        /\ [at |-> "wait", last |-> x.last].at = "wait"
    BY DEF Resting
  <2> QED
    BY <1>0, <2>1 DEF DeleteOld
<1>14. /\ sub'[s] = z /\ \A t \in Subscriber : t # s => sub'[t] = sub[t]
       /\ sub' = [t \in Subscriber |-> sub'[t]]
  BY <1>13 DEF ReadersInv
<1>15. ASSUME NEW t \in Subscriber PROVE \E y : y = sub'[t] /\ Reader(t, y)'
  <2>1. CASE t = s
    <3>1. Reader(t, z)'
      BY <1>13, NotReading
    <3> QED
      BY <1>14, <2>1, <3>1
  <2>2. CASE t # s
    <3>0. PICK y : y = sub[t]
      OBVIOUS
    <3>1. Reader(t, y)
      BY <3>0 DEF ReadersInv
    <3>2. ASSUME y.at \in {"walk", "delete"}
          PROVE  /\ y.g \in 1..Len(queue) /\ queue'[y.g] = queue[y.g]
                 /\ (y.g = Len(queue) => y.oldest <= aged)
                 /\ Reads(t, y, queue[y.g], appended[y.g])
      <4>1. /\ y.g \in 1..Len(queue) /\ (y.g = Len(queue) => y.oldest <= aged)
            /\ Reads(t, y, queue[y.g], appended[y.g])
        BY <3>1, <3>2 DEF Reader
      <4>2. y.g = g => d = 0
        <5>1. ~(d > 0 /\ \E u \in Subscriber \ {s} : sub[u].at \in {"walk", "delete"} /\ sub[u].g = g)
          BY <1>0 DEF DeleteOld
        <5>2. y.g = g => ~(d > 0)
          BY <2>2, <3>0, <3>2, <5>1
        <5> QED
          BY <1>5, <5>2
      <4>3. queue'[y.g] = queue[y.g]
        BY <1>10, <1>12, <4>1, <4>2
      <4> QED
        BY <4>1, <4>3
    <3>3. Reader(t, y)'
      BY <1>1, <1>10, <3>2 DEF Reader
    <3> QED
      BY <1>14, <2>2, <3>0, <3>3
  <2> QED
    BY <2>1, <2>2
<1> QED
  BY <1>11, <1>14, <1>15 DEF ReadersInv

LEMMA BusStep ==
  ASSUME BusInv, [BusNext]_busVars
  PROVE  BusInv'
<1>1. CASE raced
  <2>1. raced'
    BY <1>1 DEF busVars, BusNext, Publish, Listen, Receive, Age, Break, Subscribe, Walk, DeleteOld,
                Wake, PollEnds
  <2> QED
    BY <2>1 DEF BusInv
<1>2. CASE ~raced
  <2>0. ~skipped /\ QueueInv /\ ReadersInv
    BY <1>2 DEF BusInv
  <2>1. /\ pending \in Seq([id : Nat, ch : Channel]) /\ published \in Nat /\ aged \in Nat
    BY <2>0 DEF QueueInv
  <2>2. ASSUME queue' = queue, appended' = appended, sub' = sub, aged' \in Nat, aged' >= aged,
               pending' \in Seq([id : Nat, ch : Channel]), published' \in Nat,
               busListener' = "listening" => busListener = "listening", skipped' = skipped
        PROVE  BusInv'
    <3>1. QueueInv'
      BY <2>0, <2>2, QueuesKept
    <3>2. ASSUME NEW s \in Subscriber PROVE \E y : y = sub'[s] /\ Reader(s, y)'
      <4>0. PICK y : y = sub[s]
        OBVIOUS
      <4>1. Reader(s, y)
        BY <2>0, <4>0 DEF ReadersInv
      <4>2. Reader(s, y)'
        BY <2>0, <2>2, <3>1, <4>1, QueuesSame
      <4> QED
        BY <2>2, <4>0, <4>2
    <3> QED
      BY <2>0, <2>2, <3>1, <3>2 DEF BusInv, ReadersInv
  <2>3. ASSUME NEW s \in Subscriber, NEW x, Reader(s, x), sub' = [sub EXCEPT ![s] = x],
               UNCHANGED <<pending, published, queue, appended, aged, skipped>>,
               busListener' = "listening" => busListener = "listening"
        PROVE  BusInv'
    <3>1. QueueInv'
      BY <2>0, <2>1, <2>3, QueuesKept
    <3>2. ReadersInv'
      BY <2>0, <2>3, <3>1, SubscriberStep
    <3> QED
      BY <2>0, <2>3, <3>1, <3>2 DEF BusInv
  <2>4. CASE UNCHANGED busVars
    BY <2>1, <2>2, <2>4 DEF busVars
  <2>5. CASE Listen
    <3>1. QueueInv' /\ ReadersInv'
      BY <2>0, <2>5, ListenKeeps
    <3> QED
      BY <2>0, <2>5, <3>1 DEF Listen, BusInv
  <2>6. CASE Receive
    <3>1. QueueInv' /\ ReadersInv'
      BY <2>0, <2>6, ReceiveKeeps
    <3> QED
      BY <2>0, <2>6, <3>1 DEF Receive, BusInv
  <2>7. CASE Age
    <3>1. aged' \in Nat /\ aged' >= aged
      BY <2>1, <2>7 DEF Age
    <3> QED
      BY <2>1, <2>2, <2>7, <3>1 DEF Age
  <2>8. CASE Break
    <3>1. <<>> \in Seq([id : Nat, ch : Channel])
      BY EmptySeq
    <3> QED
      BY <2>1, <2>2, <2>8, <3>1 DEF Break
  <2>9. ASSUME NEW ch \in Channel, Publish(ch) PROVE BusInv'
    <3>1. published' \in Nat
      BY <2>1, <2>9 DEF Publish
    <3>2. PICK m : m = [id |-> published', ch |-> ch]
      OBVIOUS
    <3>3. m \in [id : Nat, ch : Channel]
      BY <3>1, <3>2
    <3>4. Append(pending, m) \in Seq([id : Nat, ch : Channel])
      BY <2>1, <3>3, AppendProperties
    <3>5. pending' \in Seq([id : Nat, ch : Channel])
      BY <2>1, <2>9, <3>2, <3>4 DEF Publish
    <3> QED
      BY <2>1, <2>2, <2>9, <3>1, <3>5 DEF Publish
  <2>10. ASSUME NEW s \in Subscriber, Subscribe(s) PROVE BusInv'
    <3>1. PICK x : x = IF queue = <<>> THEN [at |-> "wait", last |-> sub[s].last]
                                       ELSE Walking(sub[s].last, FALSE)
      OBVIOUS
    <3>2. Reader(s, x)
      <4>1. CASE queue = <<>>
        BY <3>1, <4>1, NotReading
      <4>2. CASE queue # <<>>
        <5>1. Reader(s, Walking(sub[s].last, FALSE))
          BY <2>0, <4>2, WalkStarts
        <5> QED
          BY <3>1, <4>2, <5>1
      <4> QED
        BY <4>1, <4>2
    <3> QED
      BY <2>3, <2>10, <3>1, <3>2 DEF Subscribe
  <2>11. ASSUME NEW s \in Subscriber, Walk(s) PROVE BusInv'
    <3>0. PICK x : x = sub[s]
      OBVIOUS
    <3>1. /\ x.at = "walk" /\ x.g \in 1..Len(queue) /\ (x.g = Len(queue) => x.oldest <= aged)
          /\ Reads(s, x, queue[x.g], appended[x.g])
      BY <2>0, <2>11, <3>0 DEF Walk, ReadersInv, Reader
    <3>2. LeftOf(queue[x.g], appended[x.g])
      BY <2>0, <3>1 DEF QueueInv
    <3>3. PICK y : /\ y = WalkStep(x, s)
                   /\ y.at \in {"walk", "delete"} /\ y.g = x.g /\ y.oldest = x.oldest
                   /\ Reads(s, y, queue[x.g], appended[x.g])
      BY <3>1, <3>2, WalkReads
    <3>4. Reader(s, y)
      BY <3>1, <3>3 DEF Reader
    <3> QED
      BY <2>3, <2>11, <3>0, <3>3, <3>4 DEF Walk
  <2>12. ASSUME NEW s \in Subscriber, DeleteOld(s) PROVE BusInv'
    <3>1. CASE raced'
      BY <3>1 DEF BusInv
    <3>2. CASE ~raced'
      <4>1. QueueInv' /\ ReadersInv'
        BY <2>0, <2>12, <3>2, DeleteKeeps
      <4>2. Reader(s, sub[s]) /\ sub[s].at = "delete"
        BY <2>0, <2>12 DEF DeleteOld, ReadersInv
      <4>3. sub[s].message # NoMessage => Skipped(s, sub[s].message) = {}
        BY <2>0, <4>2, NoneSkipped
      <4>4. ~skipped'
        BY <2>0, <2>12, <4>3 DEF DeleteOld
      <4> QED
        BY <4>1, <4>4 DEF BusInv
    <3> QED
      BY <3>1, <3>2
  <2>13. ASSUME NEW s \in Subscriber, Wake(s) PROVE BusInv'
    <3>1. PICK x : x = Walking(sub[s].last, TRUE)
      OBVIOUS
    <3>2. queue # <<>>
      BY <2>0, <2>13 DEF Wake, ReadersInv, Reader
    <3>3. Reader(s, x)
      BY <2>0, <3>1, <3>2, WalkStarts
    <3> QED
      BY <2>3, <2>13, <3>1, <3>3 DEF Wake
  <2>14. ASSUME NEW s \in Subscriber, PollEnds(s) PROVE BusInv'
    <3>1. PICK x : x = Resting(sub[s].last)
      OBVIOUS
    <3>2. Reader(s, x)
      BY <3>1, NotReading DEF Resting
    <3> QED
      BY <2>3, <2>14, <3>1, <3>2 DEF PollEnds
  <2> QED
    BY <2>4, <2>5, <2>6, <2>7, <2>8, <2>9, <2>10, <2>11, <2>12, <2>13, <2>14 DEF BusNext
<1> QED
  BY <1>1, <1>2

\* A subscriber is given the messages of its channels in order and none is left out,
\* for every number of subscribers, of queues and of messages.
THEOREM NoMessageSkippedHolds == BusSpec => []NoMessageSkipped
<1>1. BusInit => BusInv
  BY EmptySeq DEF BusInit, BusInv, QueueInv, ReadersInv, Reader, Resting
<1>2. BusInv /\ [BusNext]_busVars => BusInv'
  BY BusStep
<1>3. BusInv => NoMessageSkipped
  BY DEF BusInv, NoMessageSkipped
<1> QED
  BY <1>1, <1>2, <1>3, PTL DEF BusSpec
===============================================================================
