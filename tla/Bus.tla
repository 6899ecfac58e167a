---------------------------------- MODULE Bus ----------------------------------
(* The long polling bus of one process and one database (bus.py): a listener   *)
(* thread puts the notifications of the database into a queue, from which the  *)
(* threads of the subscribers read after the last message that they have.      *)
EXTENDS Naturals, Sequences, FiniteSets, SequencesExt
CONSTANTS
  Subscriber, Channel,
  ChannelsOf,   \* subscriber -> its channels
  MaxMessage,   \* bound: messages published
  MaxBreak      \* bound: crashes of the listener
VARIABLES
  pending,      \* notifications that have arrived, [id, ch]
  published,    \* ids given
  busEntry,     \* the process has an entry of _queues for the database
  busListener,  \* its listener: "none", "starting" or "listening"
  queue,        \* the queues that listeners have made: the last is _messages;
                \* each is <<[id, ch, n], ...>>, n in the order of append
  appended,     \* ghost: all that was appended to each queue
  aged,         \* number of those of the last queue that are past cache_timeout
  sub,          \* subscriber -> where its call is
  breaks,
  raced,        \* ghost: a prefix was deleted under another thread
  skipped       \* ghost: a subscriber has not been given a message
busVars == <<pending, published, busEntry, busListener, queue, appended, aged, sub, breaks, raced, skipped>>

NoMessage == [id |-> 0, ch |-> "none", n |-> 0]
Resting(last) == [at |-> "idle", last |-> last]
BusInit ==
  /\ pending = <<>> /\ published = 0 /\ busEntry = FALSE /\ busListener = "none"
  /\ queue = <<>> /\ appended = <<>> /\ aged = 0 /\ breaks = 0
  /\ sub = [s \in Subscriber |-> Resting(0)]
  /\ raced = FALSE /\ skipped = FALSE

(* -------------------------------- the listener ------------------------------ *)
\* publish, and the commit of the transaction: lost when nobody listens.
Publish(ch) ==
  /\ published < MaxMessage /\ published' = published + 1
  /\ pending' = IF busListener = "listening"
                THEN Append(pending, [id |-> published', ch |-> ch]) ELSE pending
  /\ UNCHANGED <<busEntry, busListener, queue, appended, aged, sub, breaks, raced, skipped>>
\* LISTEN, and a new queue in the place of the former one.
Listen ==
  /\ busListener = "starting" /\ busListener' = "listening"
  /\ queue' = Append(queue, <<>>) /\ appended' = Append(appended, <<>>) /\ aged' = 0
  /\ UNCHANGED <<pending, published, busEntry, sub, breaks, raced, skipped>>
\* notifies.pop: the last first; the events of the channel are set.
Receive ==
  LET m == Last(pending)
      g == Len(queue)
      item == [id |-> m.id, ch |-> m.ch, n |-> Len(appended[g]) + 1]
  IN /\ busListener = "listening" /\ pending # <<>>
     /\ pending' = Front(pending)
     /\ queue' = [queue EXCEPT ![g] = Append(@, item)]
     /\ appended' = [appended EXCEPT ![g] = Append(@, item)]
     /\ sub' = [s \in Subscriber |->
                  IF sub[s].at = "wait" /\ m.ch \in ChannelsOf[s]
                  THEN [sub[s] EXCEPT !.at = "woken"] ELSE sub[s]]
     /\ UNCHANGED <<published, busEntry, busListener, aged, breaks, raced, skipped>>
Age ==
  /\ queue # <<>> /\ aged < Len(Last(appended)) /\ aged' = aged + 1
  /\ UNCHANGED <<pending, published, busEntry, busListener, queue, appended, sub, breaks, raced, skipped>>
\* The listener crashes, or nobody has subscribed for its timeout: the entry is
\* deleted with the events; or, as a query arrived meanwhile, it starts again.
Break ==
  /\ busListener = "listening" /\ breaks < MaxBreak /\ breaks' = breaks + 1
  /\ pending' = <<>>
  /\ \/ busListener' = "none" /\ busEntry' = FALSE
     \/ busListener' = "starting" /\ UNCHANGED busEntry
  /\ UNCHANGED <<published, queue, appended, aged, sub, raced, skipped>>

(* ------------------------------- the subscribers ---------------------------- *)
\* get_next walks the list of the present queue, from its first item.
Walking(last, second) ==
  [at |-> "walk", last |-> last, second |-> second, g |-> Len(queue), oldest |-> aged,
   i |-> 1, delete |-> 0, found |-> FALSE, first |-> NoMessage, message |-> NoMessage]
\* subscribe starts a listener where there is no entry, and waits for an event
\* where there is no queue yet.
Subscribe(s) ==
  /\ sub[s].at = "idle"
  /\ busEntry' = TRUE /\ busListener' = IF busEntry THEN busListener ELSE "starting"
  /\ sub' = [sub EXCEPT ![s] = IF queue = <<>> THEN [at |-> "wait", last |-> @.last]
                               ELSE Walking(@.last, FALSE)]
  /\ UNCHANGED <<pending, published, queue, appended, aged, breaks, raced, skipped>>
LatestOf(x, item) == item
FirstOf(x, item) == IF x.first = NoMessage THEN item ELSE x.first
WalkStep(x, s) ==
  LET item == queue[x.g][x.i]
      next == [x EXCEPT !.i = @ + 1]
  IN IF x.i > Len(queue[x.g])
     THEN [x EXCEPT !.at = "delete", !.message = IF x.found THEN NoMessage ELSE x.first]
     ELSE IF item.n <= x.oldest THEN [next EXCEPT !.delete = x.i - 1]
     ELSE IF item.ch \notin ChannelsOf[s] THEN next
     ELSE IF x.last = 0 \/ x.found THEN [x EXCEPT !.at = "delete", !.message = item]
     ELSE [next EXCEPT !.found = (item.id = x.last),
                       !.first = FirstOf(x, item)]
Walk(s) ==
  /\ sub[s].at = "walk" /\ sub' = [sub EXCEPT ![s] = WalkStep(sub[s], s)]
  /\ UNCHANGED <<pending, published, busEntry, busListener, queue, appended, aged, breaks, raced, skipped>>
\* The messages before m that the subscriber has not had, and should have.
Skipped(s, m) ==
  LET all == {appended[sub[s].g][i] : i \in DOMAIN appended[sub[s].g]}
  IN {k \in all : /\ k.ch \in ChannelsOf[s] /\ sub[s].oldest < k.n /\ k.n < m.n
                  /\ \A l \in all : l.id = sub[s].last => l.n < k.n}
\* The old prefix is deleted; then the answer, or the wait for an event.
DeleteOld(s) ==
  LET x == sub[s] IN
  /\ x.at = "delete"
  /\ queue' = [queue EXCEPT ![x.g] = SubSeq(@, x.delete + 1, Len(@))]
  /\ raced' = (raced \/ (/\ x.delete > 0
                          /\ \E t \in Subscriber \ {s} :
                               sub[t].at \in {"walk", "delete"} /\ sub[t].g = x.g))
  /\ IF x.message # NoMessage
     THEN /\ sub' = [sub EXCEPT ![s] = Resting(x.message.id)]
          /\ skipped' = (skipped \/ Skipped(s, x.message) # {})
     ELSE /\ sub' = [sub EXCEPT ![s] = IF x.second THEN Resting(x.last)
                                       ELSE [at |-> "wait", last |-> x.last]]
          /\ UNCHANGED skipped
  /\ UNCHANGED <<pending, published, busEntry, busListener, appended, aged, breaks>>
\* The event was set, or the polling ends; either way the events are cleaned in
\* the entry, which comes back if the listener has deleted it.
Wake(s) ==
  /\ sub[s].at = "woken" /\ sub' = [sub EXCEPT ![s] = Walking(@.last, TRUE)]
  /\ busEntry' = TRUE
  /\ UNCHANGED <<pending, published, busListener, queue, appended, aged, breaks, raced, skipped>>
PollEnds(s) ==
  /\ sub[s].at = "wait" /\ sub' = [sub EXCEPT ![s] = Resting(@.last)]
  /\ busEntry' = TRUE
  /\ UNCHANGED <<pending, published, busListener, queue, appended, aged, breaks, raced, skipped>>

BusNext == \/ Listen \/ Receive \/ Age \/ Break
        \/ \E ch \in Channel : Publish(ch)
        \/ \E s \in Subscriber : Subscribe(s) \/ Walk(s) \/ DeleteOld(s) \/ Wake(s) \/ PollEnds(s)
BusSpec == BusInit /\ [][BusNext]_busVars

(* -------------------------------- properties ------------------------------- *)
\* A subscriber that asks again and again gets the messages of its channels in the
\* order of the queue and skips none that is still to be kept, whatever arrives
\* while it reads, waits or is between two calls; unless another thread deletes the
\* old messages while it reads.
NoMessageSkipped == skipped => raced
==============================================================================
