---------------------------- MODULE InstanceCache ----------------------------
(* The values of the records of a model inside one transaction: in the         *)
(* database, in the transaction's cache (Transaction.cache) and in the local   *)
(* cache that the instances of one browse share (model/modelstorage.py).       *)
EXTENDS Naturals, Sequences, FiniteSets, SequencesExt
CONSTANTS
  Id, Name,     \* ids of the records, names of their fields
  Val,          \* values a field can have
  Browse,       \* lists of instances: each has a local cache
  ReadSize,     \* records read at once, at most
  MaxCount      \* bound of Transaction.counter
VARIABLES
  db,           \* id -> name -> value, as the transaction sees it
  saved,        \* the same at its last commit
  counter,      \* Transaction.counter
  cached,       \* Transaction.cache: id -> (name -> value) of what is cached
  lists,        \* browse -> [ids, counter, local, epoch]
  epoch         \* rollbacks so far
ivars == <<db, saved, counter, cached, lists, epoch>>

Nothing == [n \in {} |-> 0]
Empty == [i \in Id |-> Nothing]
NoList == [ids |-> <<>>, counter |-> 0, local |-> Empty, epoch |-> 0]
CacheInit ==
  /\ db \in [Id -> [Name -> {CHOOSE v \in Val : TRUE}]] /\ saved = db
  /\ counter = 0 /\ epoch = 0
  /\ cached = Empty
  /\ lists = [b \in Browse |-> NoList]

\* ModelStorage.browse and __init__: a new list has a new local cache.
NewList(b, ids) ==
  /\ lists' = [lists EXCEPT ![b] =
       [ids |-> ids, counter |-> counter, local |-> Empty, epoch |-> epoch]]
  /\ UNCHANGED <<db, saved, counter, cached, epoch>>

Unrefreshed(l) == l
\* LRUDictTransaction.refresh
Refreshed(l) == IF l.counter = counter THEN l
                ELSE [l EXCEPT !.local = Empty, !.counter = counter]
With(old, new) == [n \in DOMAIN old \cup DOMAIN new |->
                     IF n \in DOMAIN new THEN new[n] ELSE old[n]]
\* The ids read together with i: from i on, then from the first of the list, those
\* that have a field which is in no cache.
Together(l, i) ==
  LET k == CHOOSE j \in 1..Len(l.ids) : l.ids[j] = i
      round == SubSeq(l.ids, k, Len(l.ids)) \o SubSeq(l.ids, 1, k - 2)
      wanted == SelectSeq(round, LAMBDA j : j = i \/
                  ~(Name \subseteq DOMAIN cached[j] \cup DOMAIN l.local[j]))
  IN ToSet(SubSeq(wanted, 1, IF Len(wanted) < ReadSize THEN Len(wanted) ELSE ReadSize))
\* ModelStorage.__getattr__: the local cache, the transaction's, or a read of the
\* eager fields that neither has.
Get(b, i, n) ==
  LET l == Refreshed(lists[b])
      names == {n} \cup (Name \ (DOMAIN cached[i] \cup DOMAIN l.local[i]))
      row(j) == [m \in names |-> db[j][m]]
      read == Together(l, i)
  IN /\ i \in ToSet(l.ids)
     /\ UNCHANGED <<db, saved, counter, epoch>>
     /\ IF n \in DOMAIN l.local[i]
        THEN lists' = [lists EXCEPT ![b] = l] /\ UNCHANGED cached
        ELSE IF n \in DOMAIN cached[i]
        THEN /\ lists' = [lists EXCEPT ![b] =
                  [l EXCEPT !.local[i] = With(@, [m \in {n} |-> cached[i][n]])]]
             /\ UNCHANGED cached
        ELSE /\ lists' = [lists EXCEPT ![b] = [l EXCEPT !.local =
                  [j \in Id |-> IF j \in read THEN With(row(j), @[j]) ELSE @[j]]]]
             /\ cached' = [j \in Id |-> IF j \in read THEN With(cached[j], row(j)) ELSE cached[j]]
\* What the access returns.
Answer(b, i, n) ==
  LET l == Refreshed(lists[b]) IN
  IF n \in DOMAIN l.local[i] THEN l.local[i][n]
  ELSE IF n \in DOMAIN cached[i] THEN cached[i][n] ELSE db[i][n]

\* ModelStorage.write through the instances of b, then the UPDATE of ModelSQL.
WriteBy(b, S, n, v) ==
  /\ counter < MaxCount /\ S \subseteq ToSet(lists[b].ids) /\ S # {}
  /\ counter' = counter + 1
  /\ lists' = [lists EXCEPT ![b].local = [i \in Id |-> IF i \in S THEN Nothing ELSE @[i]]]
  /\ cached' = [i \in Id |-> IF i \in S THEN Nothing ELSE cached[i]]
  /\ db' = [i \in Id |-> IF i \in S THEN [db[i] EXCEPT ![n] = v] ELSE db[i]]
  /\ UNCHANGED <<saved, epoch>>
\* ModelSQL.search fills the transaction's cache with the rows it selects.
Search(S) ==
  /\ cached' = [i \in Id |-> IF i \in S THEN db[i] ELSE cached[i]]
  /\ cached' # cached
  /\ UNCHANGED <<db, saved, counter, lists, epoch>>
\* LRUDict._check_size_limit of either cache.
Drop(i) ==
  /\ cached[i] # Nothing
  /\ cached' = [cached EXCEPT ![i] = Nothing]
  /\ UNCHANGED <<db, saved, counter, lists, epoch>>
\* Transaction.commit and rollback clear the transaction's cache.
CommitDb ==
  /\ cached' = Empty /\ saved' = db /\ saved # db
  /\ UNCHANGED <<db, counter, lists, epoch>>
RollbackDb ==
  /\ epoch < 1 /\ epoch' = epoch + 1
  /\ cached' = Empty /\ db' = saved
  /\ UNCHANGED <<saved, counter, lists>>
CacheNext ==
  \/ \E b \in Browse : \E ids \in {s \in UNION {[1..k -> Id] : k \in 1..Cardinality(Id)} :
                                     IsInjective(s)} : NewList(b, ids)
  \/ \E b \in Browse, i \in Id, n \in Name : Get(b, i, n)
  \/ \E b \in Browse, S \in SUBSET Id, n \in Name, v \in Val : WriteBy(b, S, n, v)
  \/ \E S \in SUBSET Id : Search(S)
  \/ \E i \in Id : Drop(i)
  \/ CommitDb
  \/ RollbackDb
CacheSpec == CacheInit /\ [][CacheNext]_ivars

(* -------------------------------- properties ------------------------------- *)
\* An attribute has the value that the transaction has given it, through
\* whichever instance it was written and whatever was read, searched or evicted
\* before.  (Instances made before a rollback may keep what was rolled back:
\* the counter does not move.)
FreshRead == \A b \in Browse : lists[b].epoch = epoch =>
  \A i \in Id, n \in Name : Answer(b, i, n) = db[i][n]
==============================================================================
