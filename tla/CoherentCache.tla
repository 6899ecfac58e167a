--------------------------- MODULE CoherentCache ---------------------------
(***************************************************************************)
(* What trytond.cache promises to the code that reads a cache, without      *)
(* transactions, listeners or clocks: every process keeps a view of values  *)
(* computed from the database, and owes a clearing for each view that may   *)
(* be stale.                                                                *)
(***************************************************************************)
EXTENDS Naturals

CONSTANTS
  Procs,     \* server processes
  Names,     \* caches
  Writes,    \* database writes
  NoValue    \* "not in the cache"

VARIABLES
  committed,   \* writes committed under each cache
  view,        \* what each process shares between its threads
  owed         \* the caches each process still has to clear

vars == <<committed, view, owed>>

Init ==
  /\ committed = [n \in Names |-> {}]
  /\ view = [p \in Procs |-> [n \in Names |-> NoValue]]
  /\ owed \in [Procs -> SUBSET Names]

\* A transaction commits: whatever it changes is owed by every process.
Publish ==
  \E new \in [Names -> SUBSET Writes], more \in [Procs -> SUBSET Names] :
    /\ committed' = [n \in Names |-> committed[n] \cup new[n]]
    /\ owed' = [p \in Procs |-> owed[p] \cup more[p]]
    /\ \A p \in Procs, n \in Names : committed'[n] # committed[n] => n \in owed'[p]
    /\ UNCHANGED view

\* A value computed from the database is shared; an older one only when the
\* cache is about to be cleared.
Fill(p, n) ==
  \E value \in SUBSET committed[n] :
    /\ n \notin owed[p] => value = committed[n]
    /\ view' = [view EXCEPT ![p][n] = value]
    /\ UNCHANGED <<committed, owed>>

Discard(p, n) ==
  /\ view' = [view EXCEPT ![p][n] = NoValue]
  /\ UNCHANGED <<committed, owed>>

\* The debt is settled by a view that is empty.
Settle(p, n) ==
  /\ view[p][n] = NoValue
  /\ owed' = [owed EXCEPT ![p] = @ \ {n}]
  /\ UNCHANGED <<committed, view>>

\* Invalidations were missed: every cache is to be cleared.
Lose(p) ==
  /\ owed' = [owed EXCEPT ![p] = Names]
  /\ UNCHANGED <<committed, view>>

Next ==
  \/ Publish
  \/ \E p \in Procs : Lose(p) \/ \E n \in Names : Fill(p, n) \/ Discard(p, n) \/ Settle(p, n)

Spec == Init /\ [][Next]_vars

\* The promise in a word: a process shares a stale value only while it owes
\* the clearing of it, and never one that was not committed.
Coherence ==
  \A p \in Procs, n \in Names :
    view[p][n] # NoValue =>
      /\ view[p][n] \subseteq committed[n]
      /\ view[p][n] # committed[n] => n \in owed[p]
=============================================================================
