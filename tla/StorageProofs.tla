----------------------------- MODULE StorageProofs -----------------------------
(* Theorems about what keeps a record right while it is stored: the values that *)
(* its instances cache, the numbers that a sequence gives it, what an update of *)
(* its module may write, and the records that a call must refuse.               *)
EXTENDS InstanceCache, Sequence, DataImport, Validation, TLAPS, FiniteSetTheorems

(* ------------- InstanceCache: an attribute has the value that the ------------ *)
(* ------------- transaction has given it                           ------------ *)
CacheValues == Val \cup {CHOOSE v \in Val : TRUE}
\* What is cached of a record: some of its fields.
Part == UNION {[N -> CacheValues] : N \in SUBSET Name}

CacheTyped ==
  /\ db \in [Id -> [Name -> CacheValues]] /\ saved \in [Id -> [Name -> CacheValues]]
  /\ counter \in Nat /\ epoch \in Nat
  /\ cached \in [Id -> Part]
  /\ lists \in [Browse -> [ids : Seq(Id), counter : Nat, local : [Id -> Part], epoch : Nat]]

\* f holds values of record i as they are in the database.
Fresh(f, i) == \A n \in DOMAIN f : f[n] = db[i][n]
\* The transaction's cache is fresh, and so is a local cache that is not to be emptied
\* at its next use: no write since its last one, and no rollback since it was made.
CachesFresh ==
  /\ \A i \in Id : Fresh(cached[i], i)
  /\ \A b \in Browse :
       /\ lists[b].counter <= counter /\ lists[b].epoch <= epoch
       /\ lists[b].counter = counter /\ lists[b].epoch = epoch
            => \A i \in Id : Fresh(lists[b].local[i], i)

CacheInv == CacheTyped /\ CachesFresh

LEMMA PartIntro ==
  ASSUME NEW N \in SUBSET Name, NEW f \in [N -> CacheValues]
  PROVE  f \in Part
BY DEF Part

LEMMA PartElim ==
  ASSUME NEW f \in Part
  PROVE  DOMAIN f \subseteq Name /\ f \in [DOMAIN f -> CacheValues]
BY DEF Part

LEMMA NothingPart == Nothing \in Part /\ DOMAIN Nothing = {} /\ Empty \in [Id -> Part]
<1>1. Nothing \in [{} -> CacheValues] /\ DOMAIN Nothing = {}
  BY DEF Nothing
<1>2. Nothing \in Part
  BY <1>1, PartIntro
<1> QED BY <1>1, <1>2 DEF Empty

\* Two parts of a record together are a part of it, fresh if both are.
LEMMA WithPart ==
  ASSUME NEW f \in Part, NEW g \in Part
  PROVE  /\ With(f, g) \in Part
         /\ \A i \in Id : Fresh(f, i) /\ Fresh(g, i) => Fresh(With(f, g), i)
<1>1. /\ DOMAIN f \subseteq Name /\ f \in [DOMAIN f -> CacheValues]
      /\ DOMAIN g \subseteq Name /\ g \in [DOMAIN g -> CacheValues]
  BY PartElim
<1>2. With(f, g) \in [DOMAIN f \cup DOMAIN g -> CacheValues]
  BY <1>1 DEF With
<1>3. With(f, g) \in Part
  BY <1>1, <1>2, PartIntro
<1>4. ASSUME NEW i \in Id, Fresh(f, i), Fresh(g, i)
      PROVE  Fresh(With(f, g), i)
  BY <1>1, <1>4 DEF With, Fresh
<1> QED BY <1>3, <1>4

\* A list that is used is refreshed: its local cache is then fresh, unless there was a
\* rollback since it was made.
LEMMA RefreshedTyped ==
  ASSUME CacheInv, NEW b \in Browse
  PROVE  LET l == Refreshed(lists[b])
         IN /\ l \in [ids : Seq(Id), counter : Nat, local : [Id -> Part], epoch : Nat]
            /\ l.counter = counter /\ l.epoch = lists[b].epoch
            /\ l.epoch = epoch => \A i \in Id : Fresh(l.local[i], i)
<1> DEFINE Lists == [ids : Seq(Id), counter : Nat, local : [Id -> Part], epoch : Nat]
<1>1. lists[b] \in Lists /\ counter \in Nat /\ Empty \in [Id -> Part]
  BY NothingPart DEF CacheInv, CacheTyped
<1>2. CASE lists[b].counter = counter
  BY <1>1, <1>2 DEF Refreshed, CacheInv, CachesFresh
<1>3. CASE lists[b].counter # counter
  <2>1. /\ Refreshed(lists[b]) \in Lists /\ Refreshed(lists[b]).counter = counter
        /\ Refreshed(lists[b]).epoch = lists[b].epoch /\ Refreshed(lists[b]).local = Empty
    BY <1>1, <1>3 DEF Refreshed
  <2>2. \A i \in Id : Fresh(Empty[i], i)
    BY NothingPart DEF Empty, Fresh
  <2> QED BY <2>1, <2>2
<1> QED BY <1>2, <1>3

LEMMA InitCacheInv == CacheInit => CacheInv
<1> SUFFICES ASSUME CacheInit PROVE CacheInv
  OBVIOUS
<1>1. db \in [Id -> [Name -> CacheValues]] /\ saved = db
  BY DEF CacheInit, CacheValues
<1>2. NoList \in [ids : Seq(Id), counter : Nat, local : [Id -> Part], epoch : Nat]
  BY NothingPart DEF NoList
<1>3. CacheTyped
  BY <1>1, <1>2, NothingPart DEF CacheInit, CacheTyped
<1>4. \A i \in Id : Fresh(Empty[i], i)
  BY NothingPart DEF Empty, Fresh
<1>5. CachesFresh
  BY <1>4 DEF CacheInit, CachesFresh, NoList
<1> QED BY <1>3, <1>5 DEF CacheInv

LEMMA NextCacheInv == CacheInv /\ [CacheNext]_ivars => CacheInv'
<1> SUFFICES ASSUME CacheInv, [CacheNext]_ivars
             PROVE  CacheInv'
  OBVIOUS
<1> DEFINE Lists == [ids : Seq(Id), counter : Nat, local : [Id -> Part], epoch : Nat]
<1>i. CacheTyped /\ CachesFresh
  BY DEF CacheInv
<1>t. /\ db \in [Id -> [Name -> CacheValues]] /\ saved \in [Id -> [Name -> CacheValues]]
      /\ counter \in Nat /\ epoch \in Nat
      /\ cached \in [Id -> Part] /\ lists \in [Browse -> Lists]
  BY <1>i DEF CacheTyped
<1> HIDE DEF Lists
<1>1. ASSUME NEW b \in Browse, NEW ids \in Seq(Id), NewList(b, ids) PROVE CacheInv'
  <2> DEFINE l == [ids |-> ids, counter |-> counter, local |-> Empty, epoch |-> epoch]
  <2>1. lists' = [lists EXCEPT ![b] = l] /\ UNCHANGED <<db, saved, counter, cached, epoch>>
    BY <1>1 DEF NewList
  <2>2. l \in Lists /\ l.counter = counter /\ l.epoch = epoch /\ l.local = Empty
    BY <1>t, NothingPart DEF Lists
  <2> HIDE DEF l
  <2>3. /\ lists' \in [Browse -> Lists] /\ lists'[b] = l
        /\ \A o \in Browse \ {b} : lists'[o] = lists[o]
    BY <1>t, <2>1, <2>2
  <2>4. CacheTyped'
    BY <1>t, <2>1, <2>3 DEF CacheTyped, Lists
  <2>5. \A i \in Id : Fresh(Empty[i], i)
    BY NothingPart DEF Empty, Fresh
  <2>6. CachesFresh'
    BY <1>i, <1>t, <2>1, <2>2, <2>3, <2>5 DEF CachesFresh, Fresh
  <2> QED BY <2>4, <2>6 DEF CacheInv
<1>2. ASSUME NEW b \in Browse, NEW i \in Id, NEW n \in Name, Get(b, i, n) PROVE CacheInv'
  <2> DEFINE l == Refreshed(lists[b])
             names == {n} \cup (Name \ (DOMAIN cached[i] \cup DOMAIN l.local[i]))
             asStored(j) == [m \in names |-> db[j][m]]
             read == Together(l, i)
  <2>1. /\ l \in Lists /\ l.counter = counter /\ l.epoch = lists[b].epoch
        /\ l.epoch = epoch => \A j \in Id : Fresh(l.local[j], j)
    BY RefreshedTyped DEF Lists
  <2>2. UNCHANGED <<db, saved, counter, epoch>>
    BY <1>2 DEF Get
  <2>3. names \subseteq Name
    OBVIOUS
  <2>4. \/ lists' = [lists EXCEPT ![b] = l] /\ cached' = cached
        \/ /\ n \in DOMAIN cached[i] /\ cached' = cached
           /\ lists' = [lists EXCEPT ![b] =
                [l EXCEPT !.local[i] = With(@, [m \in {n} |-> cached[i][n]])]]
        \/ /\ lists' = [lists EXCEPT ![b] = [l EXCEPT !.local =
                [j \in Id |-> IF j \in read THEN With(asStored(j), @[j]) ELSE @[j]]]]
           /\ cached' = [j \in Id |-> IF j \in read THEN With(cached[j], asStored(j)) ELSE cached[j]]
    BY <1>2 DEF Get
  <2> HIDE DEF l, names, read
  \* What becomes of the list and of the transaction's cache.
  <2>5. ASSUME NEW local \in [Id -> Part], lists' = [lists EXCEPT ![b] = [l EXCEPT !.local = local]],
               l.epoch = epoch => \A j \in Id : Fresh(local[j], j),
               cached' \in [Id -> Part], \A j \in Id : Fresh(cached'[j], j)
        PROVE  CacheInv'
    <3> DEFINE k == [l EXCEPT !.local = local]
    <3>1. k \in Lists /\ k.counter = counter /\ k.epoch = l.epoch /\ k.local = local
      BY <2>1 DEF Lists
    <3> HIDE DEF k
    <3>2. lists' = [lists EXCEPT ![b] = k]
      BY <2>5 DEF k
    <3>3. /\ lists' \in [Browse -> Lists] /\ lists'[b] = k
          /\ \A o \in Browse \ {b} : lists'[o] = lists[o]
      BY <1>t, <3>1, <3>2
    <3>4. CacheTyped'
      BY <1>t, <2>2, <2>5, <3>3 DEF CacheTyped, Lists
    <3>5. \A o \in Browse : lists'[o].counter <= counter /\ lists'[o].epoch <= epoch
      BY <1>i, <1>t, <2>1, <3>1, <3>3 DEF CachesFresh
    <3>6. CachesFresh'
      BY <1>i, <2>1, <2>2, <2>5, <3>1, <3>3, <3>5 DEF CachesFresh, Fresh
    <3> QED BY <3>4, <3>6 DEF CacheInv
  <2>l. /\ l.local \in [Id -> Part] /\ [l EXCEPT !.local = l.local] = l
    BY <2>1 DEF Lists
  <2>6. CASE lists' = [lists EXCEPT ![b] = l] /\ cached' = cached
    BY <1>i, <1>t, <2>1, <2>5, <2>6, <2>l DEF CachesFresh
  <2>7. CASE /\ n \in DOMAIN cached[i] /\ cached' = cached
             /\ lists' = [lists EXCEPT ![b] =
                  [l EXCEPT !.local[i] = With(@, [m \in {n} |-> cached[i][n]])]]
    <3> DEFINE new == [m \in {n} |-> cached[i][n]]
               local == [l.local EXCEPT ![i] = With(@, new)]
    <3>1. cached[i] \in [DOMAIN cached[i] -> CacheValues] /\ Fresh(cached[i], i)
      BY <1>i, <1>t, PartElim DEF CachesFresh
    <3>2. new \in [{n} -> CacheValues]
      BY <2>7, <3>1
    <3>3. new \in Part /\ Fresh(new, i)
      BY <2>7, <3>1, <3>2, PartIntro DEF Fresh
    <3> HIDE DEF new
    <3>4. /\ With(l.local[i], new) \in Part
          /\ Fresh(l.local[i], i) => Fresh(With(l.local[i], new), i)
      BY <2>l, <3>3, WithPart
    <3>5. /\ local \in [Id -> Part] /\ local[i] = With(l.local[i], new)
          /\ \A j \in Id \ {i} : local[j] = l.local[j]
      BY <2>l, <3>4
    <3>6. lists' = [lists EXCEPT ![b] = [l EXCEPT !.local = local]]
      BY <2>7, <2>1 DEF Lists, new
    <3> HIDE DEF local
    <3>7. l.epoch = epoch => \A j \in Id : Fresh(local[j], j)
      BY <2>1, <3>4, <3>5
    <3> QED BY <1>i, <1>t, <2>5, <2>7, <3>5, <3>6, <3>7 DEF CachesFresh
  <2>8. CASE /\ lists' = [lists EXCEPT ![b] = [l EXCEPT !.local =
                  [j \in Id |-> IF j \in read THEN With(asStored(j), @[j]) ELSE @[j]]]]
             /\ cached' = [j \in Id |-> IF j \in read THEN With(cached[j], asStored(j)) ELSE cached[j]]
    <3> DEFINE local == [j \in Id |-> IF j \in read THEN With(asStored(j), l.local[j])
                                                      ELSE l.local[j]]
    <3>1. \A j \in Id : asStored(j) \in Part /\ Fresh(asStored(j), j)
      <4> TAKE j \in Id
      <4>1. asStored(j) \in [names -> CacheValues]
        BY <1>t, <2>3
      <4> QED BY <2>3, <4>1, PartIntro DEF Fresh
    <3> HIDE DEF asStored
    <3>2. \A j \in Id : /\ With(asStored(j), l.local[j]) \in Part
                        /\ Fresh(l.local[j], j) => Fresh(With(asStored(j), l.local[j]), j)
      BY <2>l, <3>1, WithPart
    <3>3. \A j \in Id : With(cached[j], asStored(j)) \in Part /\ Fresh(With(cached[j], asStored(j)), j)
      BY <1>i, <1>t, <3>1, WithPart DEF CachesFresh
    <3>4. local \in [Id -> Part] /\ (l.epoch = epoch => \A j \in Id : Fresh(local[j], j))
      BY <2>1, <2>l, <3>2
    <3>5. cached' \in [Id -> Part] /\ \A j \in Id : Fresh(cached'[j], j)
      BY <1>i, <1>t, <2>8, <3>3 DEF CachesFresh
    <3>6. lists' = [lists EXCEPT ![b] = [l EXCEPT !.local = local]]
      BY <2>8
    <3> QED BY <2>5, <3>4, <3>5, <3>6
  <2> QED BY <2>4, <2>6, <2>7, <2>8
<1>3. ASSUME NEW b \in Browse, NEW S \in SUBSET Id, NEW n \in Name, NEW v \in Val,
             WriteBy(b, S, n, v)
      PROVE  CacheInv'
  <2> DEFINE local == [i \in Id |-> IF i \in S THEN Nothing ELSE lists[b].local[i]]
             l == [lists[b] EXCEPT !.local = local]
  <2>1. /\ counter' = counter + 1 /\ UNCHANGED <<saved, epoch>>
        /\ cached' = [i \in Id |-> IF i \in S THEN Nothing ELSE cached[i]]
        /\ db' = [i \in Id |-> IF i \in S THEN [db[i] EXCEPT ![n] = v] ELSE db[i]]
        /\ lists' = [lists EXCEPT ![b] = l]
    BY <1>3, <1>t DEF WriteBy, Lists
  <2>2. local \in [Id -> Part] /\ lists[b] \in Lists
    BY <1>t, NothingPart DEF Lists
  <2> HIDE DEF local
  <2>3. l \in Lists /\ l.counter = lists[b].counter /\ l.epoch = lists[b].epoch
    BY <2>2 DEF Lists
  <2> HIDE DEF l
  <2>4. /\ lists' \in [Browse -> Lists] /\ lists'[b] = l
        /\ \A o \in Browse \ {b} : lists'[o] = lists[o]
    BY <1>t, <2>1, <2>3
  <2>5. db' \in [Id -> [Name -> CacheValues]]
    <3>1. \A i \in Id : [db[i] EXCEPT ![n] = v] \in [Name -> CacheValues]
      BY <1>t DEF CacheValues
    <3> QED BY <1>t, <2>1, <3>1
  <2>6. cached' \in [Id -> Part] /\ \A i \in Id : (Fresh(cached[i], i))'
    <3>1. \A i \in Id : cached'[i] = Nothing \/ (cached'[i] = cached[i] /\ db'[i] = db[i])
      BY <1>t, <2>1
    <3> QED BY <1>i, <1>t, <2>1, <3>1, NothingPart DEF CachesFresh, Fresh
  <2>7. CacheTyped'
    BY <1>t, <2>1, <2>4, <2>5, <2>6 DEF CacheTyped, Lists
  \* Every local cache is to be refreshed now.
  <2>8. \A o \in Browse : lists'[o].counter < counter' /\ lists'[o].epoch <= epoch'
    <3>1. \A o \in Browse : lists[o].counter \in Nat
      BY <1>t DEF Lists
    <3> QED BY <1>i, <1>t, <2>1, <2>3, <2>4, <3>1 DEF CachesFresh
  <2>9. CachesFresh'
    <3>1. counter' \in Nat /\ \A o \in Browse : lists'[o].counter \in Nat
      BY <1>t, <2>1, <2>4 DEF Lists
    <3> QED BY <2>6, <2>8, <3>1 DEF CachesFresh
  <2> QED BY <2>7, <2>9 DEF CacheInv
<1>4. ASSUME NEW S \in SUBSET Id, Search(S) PROVE CacheInv'
  <2>1. /\ cached' = [i \in Id |-> IF i \in S THEN db[i] ELSE cached[i]]
        /\ UNCHANGED <<db, saved, counter, lists, epoch>>
    BY <1>4 DEF Search
  <2>2. \A i \in Id : db[i] \in Part
    BY <1>t, PartIntro
  <2>3. cached' \in [Id -> Part] /\ \A i \in Id : Fresh(cached'[i], i)
    BY <1>i, <1>t, <2>1, <2>2 DEF CachesFresh, Fresh
  <2> QED BY <1>i, <1>t, <2>1, <2>3 DEF CacheInv, CacheTyped, CachesFresh, Fresh
<1>5. ASSUME NEW i \in Id, Drop(i) PROVE CacheInv'
  <2>1. /\ cached' = [cached EXCEPT ![i] = Nothing]
        /\ UNCHANGED <<db, saved, counter, lists, epoch>>
    BY <1>5 DEF Drop
  <2>2. cached' \in [Id -> Part] /\ \A j \in Id : Fresh(cached'[j], j)
    BY <1>i, <1>t, <2>1, NothingPart DEF CachesFresh, Fresh
  <2> QED BY <1>i, <1>t, <2>1, <2>2 DEF CacheInv, CacheTyped, CachesFresh, Fresh
<1>6. CASE CommitDb
  <2>1. /\ cached' = Empty /\ saved' = db /\ UNCHANGED <<db, counter, lists, epoch>>
    BY <1>6 DEF CommitDb
  <2>2. \A j \in Id : Fresh(Empty[j], j)
    BY NothingPart DEF Empty, Fresh
  <2> QED BY <1>i, <1>t, <2>1, <2>2, NothingPart DEF CacheInv, CacheTyped, CachesFresh, Fresh
<1>7. CASE RollbackDb
  <2>1. /\ cached' = Empty /\ db' = saved /\ epoch' = epoch + 1
        /\ UNCHANGED <<saved, counter, lists>>
    BY <1>7 DEF RollbackDb
  <2>2. \A j \in Id : (Fresh(cached[j], j))'
    BY <2>1, NothingPart DEF Empty, Fresh
  <2>3. CacheTyped'
    BY <1>t, <2>1, NothingPart DEF CacheTyped, Lists
  \* Every instance was made before the rollback.
  <2>4. \A o \in Browse : lists'[o].epoch < epoch' /\ lists'[o].counter <= counter'
    <3>1. \A o \in Browse : lists[o].epoch \in Nat
      BY <1>t DEF Lists
    <3> QED BY <1>i, <1>t, <2>1, <3>1 DEF CachesFresh
  <2>5. CachesFresh'
    <3>1. epoch' \in Nat /\ \A o \in Browse : lists'[o].epoch \in Nat
      BY <1>t, <2>1 DEF Lists
    <3> QED BY <2>2, <2>4, <3>1 DEF CachesFresh
  <2> QED BY <2>3, <2>5 DEF CacheInv
<1>8. CASE UNCHANGED ivars
  BY <1>8 DEF ivars, CacheInv, CacheTyped, CachesFresh, Fresh
<1>9. \A s : s \in UNION {[1..k -> Id] : k \in 1..Cardinality(Id)} => s \in Seq(Id)
  <2> SUFFICES ASSUME NEW k \in 1..Cardinality(Id), NEW s \in [1..k -> Id]
               PROVE  s \in Seq(Id)
    OBVIOUS
  <2>1. k \in Nat
    OBVIOUS
  <2> QED BY <2>1
<1> QED
  BY <1>1, <1>2, <1>3, <1>4, <1>5, <1>6, <1>7, <1>8, <1>9 DEF CacheNext

\* For any records, fields, values and lists of instances: through whatever instance
\* an attribute was written, and whatever was read, searched or evicted before, an
\* instance gives the value of the transaction (ModelStorage.__getattr__, write,
\* LRUDictTransaction.refresh), unless it was made before a rollback.
THEOREM FreshReadHolds == CacheSpec => []FreshRead
<1>1. CacheInv => FreshRead
  <2> SUFFICES ASSUME CacheInv, NEW b \in Browse, lists[b].epoch = epoch,
                      NEW i \in Id, NEW n \in Name
               PROVE  Answer(b, i, n) = db[i][n]
    BY DEF FreshRead
  <2> DEFINE l == Refreshed(lists[b])
  <2>1. Fresh(l.local[i], i)
    BY RefreshedTyped
  <2>2. Fresh(cached[i], i)
    BY DEF CacheInv, CachesFresh
  <2> QED BY <2>1, <2>2 DEF Answer, Fresh
<1> QED BY <1>1, InitCacheInv, NextCacheInv, PTL DEF CacheSpec

(* ------------- Sequence: no number is committed twice, and the numbers ------- *)
(* ------------- that come from the row of a sequence have no gap        ------- *)
Work == [at : {"idle", "open", "written", "locked", "changed"}, seen : Nat, row : Nat,
         got : SUBSET Nat, next : Nat, restart : Nat]
SequenceTyped ==
  /\ type \in {"sql", "plain", "strict", "timestamp"}
  /\ row \in [next : Nat, version : Nat]
  /\ sqlNext \in Nat /\ sqlNext >= 1
  /\ work \in [User -> Work]
  /\ issued \in SUBSET Nat /\ twice \in BOOLEAN /\ now \in Nat /\ stale \in BOOLEAN

\* What a place says of the transaction that is there.
Shape(u) ==
  /\ work[u].at = "idle" => work[u].got = {} /\ work[u].restart = 0
  /\ work[u].at = "written" => /\ work[u].got = {} /\ work[u].restart = 0
                               /\ work[u].next >= 1
  /\ work[u].at = "written" \/ work[u].restart # 0 => type = "sql"
  /\ Holds(u) => type # "sql"

\* A sequence of the database: what was taken is below the next value, and nobody but
\* a transaction that has restarted the sequence has numbers that are not committed.
End(u) == IF work[u].restart = 0 THEN sqlNext ELSE work[u].restart
SqlTaken ==
  /\ ~twice
  /\ \A x \in issued : x < sqlNext
  /\ \A u \in User :
       /\ work[u].at = "written" => work[u].next <= sqlNext
       /\ work[u].restart # 0 => /\ work[u].restart >= sqlNext
                                 /\ \A v \in Others(u) : work[v].restart = 0 /\ work[v].got = {}
       /\ \A x \in work[u].got : x \notin issued /\ x < End(u)
       /\ \A v \in Others(u) : work[u].got \cap work[v].got = {}

\* A sequence in a row: what is committed is before the row, what the only holder of
\* the row has taken comes after it, and who still sees the row sees its number.
Committed(x) == IF type = "timestamp" THEN x <= row.next ELSE x < row.next
RowTaken ==
  /\ ~twice
  /\ \A x \in issued : Committed(x)
  /\ type # "timestamp" => row.next >= 1 /\ issued = 1..(row.next - 1)
  /\ type = "timestamp" => row.next <= now
  /\ \A u \in User :
       /\ work[u].at # "idle" => /\ work[u].seen <= row.version
                                 /\ type = "timestamp" => work[u].row <= now
       /\ work[u].at # "changed" => work[u].got = {}
       /\ work[u].at \in {"open", "locked"} /\ work[u].seen = row.version
            => work[u].row = row.next
       /\ Holds(u) => /\ work[u].seen = row.version
                      /\ \A v \in Others(u) : ~Holds(v)
       /\ work[u].at = "changed" =>
            /\ work[u].row >= row.next
            /\ \A x \in work[u].got : ~Committed(x)
            /\ type # "timestamp" => work[u].got = row.next..(work[u].row - 1)
            /\ type = "timestamp" => \A x \in work[u].got : x <= work[u].row

SequenceInv ==
  /\ SequenceTyped
  /\ \A u \in User : Shape(u)
  /\ type = "sql" /\ ~stale => SqlTaken
  /\ type # "sql" => RowTaken

LEMMA NextTyped ==
  ASSUME SequenceInv, [SequenceNext]_svars
  PROVE  SequenceTyped' /\ \A u \in User : Shape(u)'
<1>i. SequenceTyped /\ \A u \in User : Shape(u)
  BY DEF SequenceInv
<1>t. /\ row \in [next : Nat, version : Nat] /\ sqlNext \in Nat /\ sqlNext >= 1
      /\ work \in [User -> Work] /\ issued \in SUBSET Nat /\ twice \in BOOLEAN /\ now \in Nat
      /\ stale \in BOOLEAN /\ type \in {"sql", "plain", "strict", "timestamp"}
  BY <1>i DEF SequenceTyped
<1>w. \A u \in User : /\ work[u].seen \in Nat /\ work[u].row \in Nat /\ work[u].got \subseteq Nat
                      /\ work[u].next \in Nat /\ work[u].restart \in Nat
                      /\ work[u].at \in {"idle", "open", "written", "locked", "changed"}
                      /\ work[u] \in Work
  BY <1>t DEF Work
<1>n. NoWork \in Work /\ NoWork.at = "idle" /\ NoWork.got = {} /\ NoWork.restart = 0
  BY DEF NoWork, Work
\* One transaction becomes w.
<1>0. ASSUME NEW u \in User, NEW w \in Work, work' = [work EXCEPT ![u] = w], type' = type,
             /\ w.at = "idle" => w.got = {} /\ w.restart = 0
             /\ w.at = "written" => w.got = {} /\ w.restart = 0 /\ w.next >= 1
             /\ w.at = "written" \/ w.restart # 0 => type = "sql"
             /\ w.at \in {"locked", "changed"} => type # "sql"
      PROVE  work' \in [User -> Work] /\ \A v \in User : Shape(v)'
  <2>1. work'[u] = w /\ \A v \in User \ {u} : work'[v] = work[v]
    BY <1>0, <1>t
  <2> QED BY <1>0, <1>i, <1>t, <2>1 DEF Shape, Holds
<1>1. ASSUME NEW u \in User, BeginWork(u)
      PROVE  SequenceTyped' /\ \A v \in User : Shape(v)'
  <2> DEFINE w == [NoWork EXCEPT !.at = "open", !.seen = row.version, !.row = row.next]
  <2>1. w \in Work /\ w.at = "open" /\ w.restart = 0
    BY <1>t DEF NoWork, Work
  <2>2. work' = [work EXCEPT ![u] = w]
        /\ UNCHANGED <<type, row, sqlNext, issued, twice, now, stale>>
    BY <1>1 DEF BeginWork
  <2> HIDE DEF w
  <2> QED BY <1>0, <1>t, <2>1, <2>2 DEF SequenceTyped
<1>2. ASSUME NEW u \in User, AbortWork(u), \E x \in Nat : x >= 1 /\ sqlNext' = x,
             issued' \in SUBSET Nat,
             row' \in [next : Nat, version : Nat], twice' \in BOOLEAN,
             UNCHANGED <<type, now, stale>>
      PROVE  SequenceTyped' /\ \A v \in User : Shape(v)'
  BY <1>0, <1>2, <1>n, <1>t DEF SequenceTyped, AbortWork
<1>3. ASSUME NEW u \in User, NEW w \in Work, work' = [work EXCEPT ![u] = w], Rest,
             \E x \in Nat : x >= 1 /\ sqlNext' = x,
             w.at = work[u].at \/ (w.at \in {"locked", "changed"} /\ type # "sql"),
             w.at \notin {"idle", "written"}, w.restart # 0 => work[u].restart # 0
      PROVE  SequenceTyped' /\ \A v \in User : Shape(v)'
  <2>1. Shape(u)
    BY <1>i
  <2> QED BY <1>0, <1>3, <1>t, <2>1 DEF SequenceTyped, Rest, Shape, Holds
<1>4. ASSUME NEW u \in User, Nextval(u)
      PROVE  SequenceTyped' /\ \A v \in User : Shape(v)'
  <2>1. CASE work[u].restart = 0
    <3> DEFINE w == [work[u] EXCEPT !.got = @ \cup {sqlNext}]
    <3>1. w \in Work /\ w.at = work[u].at /\ w.restart = work[u].restart
      BY <1>t, <1>w DEF Work
    <3>2. work' = [work EXCEPT ![u] = w] /\ sqlNext' = sqlNext + 1 /\ Rest /\ work[u].at = "open"
      BY <1>4, <2>1, <1>w DEF Nextval, Work
    <3> HIDE DEF w
    <3>3. sqlNext + 1 \in Nat /\ sqlNext + 1 >= 1
      BY <1>t
    <3> QED BY <1>3, <3>1, <3>2, <3>3
  <2>2. CASE work[u].restart # 0
    <3> DEFINE w == [work[u] EXCEPT !.got = @ \cup {work[u].restart}, !.restart = @ + 1]
    <3>a. work[u].restart + 1 \in Nat /\ work[u].got \cup {work[u].restart} \in SUBSET Nat
      BY <1>w
    <3>1. w \in Work /\ w.at = work[u].at
      BY <1>w, <3>a DEF Work
    <3>2. work' = [work EXCEPT ![u] = w] /\ sqlNext' = sqlNext /\ Rest /\ work[u].at = "open"
      BY <1>4, <2>2, <1>w DEF Nextval, Work
    <3> HIDE DEF w
    <3> QED BY <1>3, <1>t, <2>2, <3>1, <3>2
  <2> QED BY <2>1, <2>2
<1>5. ASSUME NEW u \in User, Lock(u)
      PROVE  SequenceTyped' /\ \A v \in User : Shape(v)'
  <2>1. CASE Lost(u)
    BY <1>2, <1>5, <1>t, <2>1 DEF Lock, Rest
  <2>2. CASE ~Lost(u)
    <3> DEFINE w == [work[u] EXCEPT !.at = "locked"]
    <3>1. w \in Work /\ w.at = "locked" /\ w.restart = work[u].restart
      BY <1>w DEF Work
    <3>2. work' = [work EXCEPT ![u] = w] /\ sqlNext' = sqlNext /\ Rest /\ type # "sql"
      BY <1>5, <2>2, <1>w DEF Lock, Work
    <3> HIDE DEF w
    <3> QED BY <1>3, <1>t, <3>1, <3>2
  <2> QED BY <2>1, <2>2
<1>6. ASSUME NEW u \in User, TakeNumber(u)
      PROVE  SequenceTyped' /\ \A v \in User : Shape(v)'
  <2>1. CASE Lost(u)
    BY <1>2, <1>6, <1>t, <2>1 DEF TakeNumber, Rest
  <2>2. CASE ~Lost(u)
    <3> DEFINE w == [work[u] EXCEPT !.at = "changed", !.got = @ \cup {work[u].row}, !.row = @ + 1]
    <3>a. work[u].row + 1 \in Nat /\ work[u].got \cup {work[u].row} \in SUBSET Nat
      BY <1>w
    <3>1. w \in Work /\ w.at = "changed" /\ w.restart = work[u].restart
      BY <1>w, <3>a DEF Work
    <3>2. work' = [work EXCEPT ![u] = w] /\ sqlNext' = sqlNext /\ Rest /\ type # "sql"
      BY <1>6, <2>2, <1>w DEF TakeNumber, Work
    <3> HIDE DEF w
    <3> QED BY <1>3, <1>t, <3>1, <3>2
  <2> QED BY <2>1, <2>2
<1>7. ASSUME NEW u \in User, TakeTimestamp(u)
      PROVE  SequenceTyped' /\ \A v \in User : Shape(v)'
  <2>1. CASE Lost(u)
    BY <1>2, <1>7, <1>t, <2>1 DEF TakeTimestamp, Rest
  <2>2. CASE ~Lost(u)
    <3> DEFINE w == [work[u] EXCEPT !.at = "changed", !.got = @ \cup {now}, !.row = now]
    <3>1. w \in Work /\ w.at = "changed" /\ w.restart = work[u].restart
      BY <1>t, <1>w DEF Work
    <3>2. work' = [work EXCEPT ![u] = w] /\ sqlNext' = sqlNext /\ Rest /\ type # "sql"
      BY <1>7, <2>2, <1>w DEF TakeTimestamp, Work
    <3> HIDE DEF w
    <3> QED BY <1>3, <1>t, <3>1, <3>2
  <2> QED BY <2>1, <2>2
<1>8. ASSUME NEW u \in User, ReadNext(u)
      PROVE  SequenceTyped' /\ \A v \in User : Shape(v)'
  <2> DEFINE w == [work[u] EXCEPT !.at = "written", !.next = sqlNext]
  <2>1. w \in Work /\ w.at = "written" /\ w.next = sqlNext /\ w.got = {} /\ w.restart = 0
    BY <1>8, <1>t, <1>w DEF Work, ReadNext
  <2>2. work' = [work EXCEPT ![u] = w]
    BY <1>8, <1>t, <1>w DEF ReadNext, Work
  <2>3. sqlNext' = sqlNext /\ Rest /\ type = "sql"
    BY <1>8 DEF ReadNext
  <2> HIDE DEF w
  <2> QED BY <1>0, <1>t, <2>1, <2>2, <2>3 DEF SequenceTyped, Rest
<1>9. ASSUME NEW u \in User, Restart(u)
      PROVE  SequenceTyped' /\ \A v \in User : Shape(v)'
  <2> DEFINE w == [work[u] EXCEPT !.at = "open", !.restart = work[u].next]
  <2>1. w \in Work /\ w.at = "open"
    BY <1>w DEF Work
  <2>2. /\ work' = [work EXCEPT ![u] = w] /\ UNCHANGED <<type, row, sqlNext, issued, twice, now>>
        /\ stale' \in BOOLEAN /\ work[u].at = "written"
    BY <1>9, <1>t, <1>w DEF Restart, Work
  <2>3. type = "sql"
    BY <1>i, <2>2 DEF Shape
  <2> HIDE DEF w
  <2> QED BY <1>0, <1>t, <2>1, <2>2, <2>3 DEF SequenceTyped
<1>10. ASSUME NEW u \in User, CommitWork(u)
       PROVE  SequenceTyped' /\ \A v \in User : Shape(v)'
  <2>1. /\ issued' \in SUBSET Nat /\ twice' \in BOOLEAN /\ AbortWork(u)
        /\ UNCHANGED <<type, now, stale>>
    BY <1>10, <1>t, <1>w DEF CommitWork
  <2>2. row' \in [next : Nat, version : Nat]
    BY <1>10, <1>t, <1>w DEF CommitWork
  <2>3. sqlNext' \in Nat /\ sqlNext' >= 1
    BY <1>10, <1>t, <1>w DEF CommitWork
  <2> QED BY <1>2, <2>1, <2>2, <2>3
<1>11. ASSUME NEW u \in User, Rollback(u)
       PROVE  SequenceTyped' /\ \A v \in User : Shape(v)'
  BY <1>2, <1>11, <1>t DEF Rollback, Rest
<1>12. CASE Tick
  BY <1>i, <1>t, <1>12 DEF Tick, SequenceTyped, Shape, Holds
<1>13. CASE UNCHANGED svars
  BY <1>i, <1>13 DEF svars, SequenceTyped, Shape, Holds
<1> QED
  BY <1>1, <1>4, <1>5, <1>6, <1>7, <1>8, <1>9, <1>10, <1>11, <1>12, <1>13 DEF SequenceNext

\* The kind of a sequence does not change here, and stale is not forgotten.
LEMMA KindKept ==
  ASSUME SequenceInv, [SequenceNext]_svars
  PROVE  type' = type /\ (stale => stale')
<1>1. ASSUME NEW u \in User,
             \/ BeginWork(u) \/ Nextval(u) \/ Lock(u) \/ TakeNumber(u) \/ TakeTimestamp(u)
             \/ ReadNext(u) \/ CommitWork(u) \/ Rollback(u)
      PROVE  type' = type /\ stale' = stale
  BY <1>1 DEF BeginWork, Nextval, Lock, TakeNumber, TakeTimestamp, ReadNext, CommitWork,
              Rollback, Rest
<1>2. ASSUME NEW u \in User, Restart(u)
      PROVE  type' = type /\ (stale => stale')
  BY <1>2 DEF Restart
<1>3. CASE Tick \/ UNCHANGED svars
  BY <1>3 DEF Tick, svars
<1> QED BY <1>1, <1>2, <1>3 DEF SequenceNext

LEMMA SqlStep ==
  ASSUME SequenceInv, [SequenceNext]_svars, type = "sql", ~stale'
  PROVE  SqlTaken'
<1>i. /\ SqlTaken /\ ~stale /\ type' = type
      /\ \A u \in User : Shape(u)
  BY KindKept DEF SequenceInv
<1>t. /\ sqlNext \in Nat /\ sqlNext >= 1 /\ work \in [User -> Work] /\ issued \subseteq Nat
  BY DEF SequenceInv, SequenceTyped
<1>w. \A u \in User : /\ work[u].got \subseteq Nat /\ work[u].next \in Nat
                      /\ work[u].restart \in Nat
  BY <1>t DEF Work
<1>n. NoWork.at = "idle" /\ NoWork.got = {} /\ NoWork.restart = 0
  BY DEF NoWork
\* A transaction that has taken nothing begins or ends.
<1>0. ASSUME NEW u \in User, NEW w, work' = [work EXCEPT ![u] = w],
             w.at # "written", w.got = {}, w.restart = 0, UNCHANGED <<sqlNext, issued, twice>>
      PROVE  SqlTaken'
  <2>1. work'[u] = w /\ \A v \in User \ {u} : work'[v] = work[v]
    BY <1>0, <1>t
  <2> QED BY <1>i, <1>0, <2>1 DEF SqlTaken, End, Others
<1>1. ASSUME NEW u \in User, BeginWork(u) PROVE SqlTaken'
  <2>1. UNCHANGED <<sqlNext, issued, twice>>
    BY <1>1 DEF BeginWork
  <2> DEFINE w == [NoWork EXCEPT !.at = "open", !.seen = row.version, !.row = row.next]
  <2>2. w.at = "open" /\ w.got = {} /\ w.restart = 0
    BY DEF NoWork
  <2>3. work' = [work EXCEPT ![u] = w]
    BY <1>1 DEF BeginWork
  <2> HIDE DEF w
  <2> QED BY <1>0, <2>1, <2>2, <2>3
<1>2. ASSUME NEW u \in User, Nextval(u) PROVE SqlTaken'
  <2>1. /\ work[u].at = "open" /\ UNCHANGED <<issued, twice>>
        /\ \A v \in Others(u) : work[v].restart = 0
    BY <1>2 DEF Nextval, Rest
  <2>2. CASE work[u].restart = 0
    <3>1. /\ sqlNext' = sqlNext + 1
          /\ work' = [work EXCEPT ![u].got = @ \cup {sqlNext}]
      BY <1>2, <2>2 DEF Nextval
    <3>2. /\ work'[u].at = "open" /\ work'[u].got = work[u].got \cup {sqlNext}
          /\ work'[u].restart = 0
          /\ \A v \in User \ {u} : work'[v] = work[v]
      BY <1>t, <2>1, <2>2, <3>1 DEF Work
    <3>3. \A v \in User : work[v].restart = 0 /\ work'[v].restart = 0
      BY <2>1, <2>2, <3>2 DEF Others
    <3>4. \A v \in User : \A x \in work[v].got : x < sqlNext
      BY <1>i, <3>3 DEF SqlTaken, End
    <3>5. sqlNext \notin issued /\ \A v \in User : sqlNext \notin work[v].got
      BY <1>i, <1>t, <3>4 DEF SqlTaken
    <3>6. \A v \in User : \A x \in work'[v].got : x \notin issued /\ x < sqlNext'
      BY <1>i, <1>t, <1>w, <3>1, <3>2, <3>4, <3>5 DEF SqlTaken
    <3>7. \A v \in User : \A o \in Others(v) : work'[v].got \cap work'[o].got = {}
      BY <1>i, <3>2, <3>5 DEF SqlTaken, Others
    <3>8. \A x \in issued : x < sqlNext'
      BY <1>i, <1>t, <3>1 DEF SqlTaken
    <3>9. \A v \in User : work'[v].at = "written" => work'[v].next <= sqlNext'
      BY <1>i, <1>t, <1>w, <3>1, <3>2 DEF SqlTaken
    <3> QED BY <1>i, <2>1, <3>3, <3>6, <3>7, <3>8, <3>9 DEF SqlTaken, End, Others
  <2>3. CASE work[u].restart # 0
    <3>1. /\ sqlNext' = sqlNext
          /\ work' = [work EXCEPT ![u].got = @ \cup {work[u].restart}, ![u].restart = @ + 1]
      BY <1>2, <2>3 DEF Nextval
    <3>2. /\ work'[u].at = "open" /\ work'[u].got = work[u].got \cup {work[u].restart}
          /\ work'[u].restart = work[u].restart + 1
          /\ \A v \in User \ {u} : work'[v] = work[v]
      BY <1>t, <2>1, <3>1 DEF Work
    <3>3. /\ work[u].restart >= sqlNext
          /\ \A v \in Others(u) : work[v].restart = 0 /\ work[v].got = {}
          /\ \A x \in work[u].got : x \notin issued /\ x < work[u].restart
          /\ \A x \in issued : x < sqlNext
      BY <1>i, <2>3 DEF SqlTaken, End
    <3>4. work[u].restart \notin issued
      BY <1>t, <1>w, <3>3
    <3>5. /\ \A x \in work'[u].got : x \notin issued /\ x < work'[u].restart
          /\ work'[u].restart >= sqlNext /\ work'[u].restart # 0
      BY <1>t, <1>w, <3>2, <3>3, <3>4
    <3>6. \A v \in User \ {u} : work'[v].restart = 0 /\ work'[v].got = {}
      BY <3>2, <3>3 DEF Others
    <3>7. \A v \in User : work'[v].at = "written" => work'[v].next <= sqlNext
      BY <1>i, <3>2 DEF SqlTaken
    <3>8. \A v \in User : v = u \/ v \in User \ {u}
      OBVIOUS
    <3> QED BY <1>i, <2>1, <3>1, <3>5, <3>6, <3>7, <3>8 DEF SqlTaken, End, Others
  <2> QED BY <2>2, <2>3
<1>3. ASSUME NEW u \in User, ReadNext(u) PROVE SqlTaken'
  <2>1. /\ work[u].got = {} /\ work[u].restart = 0
        /\ work' = [work EXCEPT ![u].at = "written", ![u].next = sqlNext]
        /\ UNCHANGED <<sqlNext, issued, twice>>
    BY <1>3 DEF ReadNext, Rest
  <2>2. /\ work'[u].got = {} /\ work'[u].restart = 0 /\ work'[u].next = sqlNext
        /\ \A v \in User \ {u} : work'[v] = work[v]
    BY <1>t, <2>1 DEF Work
  <2>3. \A v \in User : work'[v].at = "written" => work'[v].next <= sqlNext
    BY <1>i, <1>t, <2>2 DEF SqlTaken
  <2>4. \A v \in User : work'[v].got = work[v].got /\ work'[v].restart = work[v].restart
    BY <2>1, <2>2
  <2>5. \A v \in User : End(v)' = End(v)
    BY <2>1, <2>4 DEF End
  <2>6. UNCHANGED <<sqlNext, issued, twice>>
    BY <2>1
  <2>7. \A v \in User :
          /\ work'[v].restart # 0 => /\ work'[v].restart >= sqlNext
                                     /\ \A o \in Others(v) : work'[o].restart = 0 /\ work'[o].got = {}
          /\ \A x \in work'[v].got : x \notin issued /\ x < End(v)'
          /\ \A o \in Others(v) : work'[v].got \cap work'[o].got = {}
    BY <1>i, <2>4, <2>5 DEF SqlTaken, Others
  <2> QED BY <1>i, <2>3, <2>6, <2>7 DEF SqlTaken
\* It waits for all numbers that are not committed; one that is not stale goes on at
\* the next value.
<1>4. ASSUME NEW u \in User, Restart(u) PROVE SqlTaken'
  <2>1. /\ work[u].at = "written" /\ UNCHANGED <<sqlNext, issued, twice>>
        /\ \A v \in Others(u) : work[v].restart = 0 /\ work[v].got = {}
        /\ work' = [work EXCEPT ![u].at = "open", ![u].restart = work[u].next]
        /\ ~(work[u].next < sqlNext)
    BY <1>4, <1>i DEF Restart
  <2>2. /\ work'[u].at = "open" /\ work'[u].restart = work[u].next /\ work'[u].got = work[u].got
        /\ \A v \in User \ {u} : work'[v] = work[v]
    BY <1>t, <2>1 DEF Work
  <2>3. work'[u].got = {} /\ work'[u].restart >= sqlNext
    BY <1>i, <1>t, <1>w, <2>1, <2>2 DEF Shape
  <2>4. \A v \in User \ {u} : work'[v].restart = 0 /\ work'[v].got = {}
    BY <2>1, <2>2 DEF Others
  <2>5. \A v \in User : work'[v].got = {}
    BY <2>3, <2>4
  <2>6. \A v \in User : work'[v].at = "written" => work'[v].next <= sqlNext
    BY <1>i, <2>2 DEF SqlTaken
  <2>7. \A v \in User : work'[v].restart # 0 => v = u
    BY <2>4
  <2> QED BY <1>i, <2>1, <2>3, <2>4, <2>5, <2>6, <2>7 DEF SqlTaken, Others
<1>5. ASSUME NEW u \in User, CommitWork(u) PROVE SqlTaken'
  <2>1. /\ work' = [work EXCEPT ![u] = NoWork] /\ issued' = issued \cup work[u].got
        /\ twice' = (twice \/ issued \cap work[u].got # {})
        /\ sqlNext' = End(u)
    BY <1>5 DEF CommitWork, AbortWork, End
  <2>2. /\ work'[u] = NoWork /\ \A v \in User \ {u} : work'[v] = work[v]
    BY <1>t, <2>1
  <2>3. End(u) \in Nat /\ sqlNext <= sqlNext'
    BY <1>i, <1>t, <1>w, <2>1 DEF End, SqlTaken
  <2>4. ~twice' /\ \A x \in issued' : x < sqlNext'
    <3>1. \A x \in work[u].got : x \notin issued /\ x < End(u)
      BY <1>i DEF SqlTaken
    <3>2. \A x \in issued : x < sqlNext /\ x \in Nat
      BY <1>i, <1>t DEF SqlTaken
    <3>3. \A x \in issued : x < sqlNext'
      BY <1>t, <2>1, <2>3, <3>2
    <3>4. ~twice' /\ \A x \in work[u].got : x < sqlNext'
      BY <1>i, <2>1, <3>1 DEF SqlTaken
    <3> QED BY <2>1, <3>3, <3>4
  <2>5. \A v \in User : work'[v].at = "written" => work'[v].next <= sqlNext'
    <3>1. \A v \in User : work[v].at = "written" => work[v].next <= sqlNext /\ work[v].next \in Nat
      BY <1>i, <1>w DEF SqlTaken
    <3>2. \A v \in User : work'[v].at = "written" => work'[v] = work[v]
      BY <1>n, <2>2
    <3> QED BY <1>t, <2>1, <2>3, <3>1, <3>2
  <2>6. ASSUME NEW v \in User \ {u}
        PROVE  /\ work[v].restart # 0 => /\ work[v].restart >= sqlNext'
                                         /\ \A o \in Others(v) : work'[o].restart = 0 /\ work'[o].got = {}
               /\ \A x \in work[v].got : /\ x \notin issued'
                                           /\ x < (IF work[v].restart = 0 THEN sqlNext'
                                                                          ELSE work[v].restart)
    <3>1. work[v].got \cap work[u].got = {} /\ \A x \in work[v].got : x \notin issued /\ x < End(v)
      BY <1>i DEF SqlTaken, Others
    <3>2. CASE work[v].restart = 0
      <4>1. \A x \in work[v].got : x < sqlNext'
        BY <1>t, <1>w, <2>1, <2>3, <3>1, <3>2 DEF End
      <4> QED BY <2>1, <3>1, <3>2, <4>1
    <3>3. CASE work[v].restart # 0
      <4>1. /\ work[v].restart >= sqlNext /\ work[u].restart = 0
            /\ \A o \in Others(v) : work[o].restart = 0 /\ work[o].got = {}
        BY <1>i, <3>3 DEF SqlTaken, Others
      <4>2. sqlNext' = sqlNext
        BY <2>1, <4>1 DEF End
      <4>3. \A o \in Others(v) : work'[o].restart = 0 /\ work'[o].got = {}
        BY <1>n, <2>2, <4>1 DEF Others
      <4> QED BY <2>1, <3>1, <3>3, <4>1, <4>2, <4>3 DEF End
    <3> QED BY <3>2, <3>3
  <2>7. \A v \in User : \A o \in Others(v) : work'[v].got \cap work'[o].got = {}
    BY <1>i, <1>n, <2>2 DEF SqlTaken, Others
  <2> QED BY <1>n, <2>2, <2>4, <2>5, <2>6, <2>7 DEF SqlTaken, End
<1>6. ASSUME NEW u \in User, Rollback(u) PROVE SqlTaken'
  BY <1>0, <1>6, <1>n DEF Rollback, Rest, AbortWork
<1>7. CASE UNCHANGED svars
  BY <1>i, <1>7 DEF svars, SqlTaken, End
<1>8. \A u \in User : ~Lock(u) /\ ~TakeNumber(u) /\ ~TakeTimestamp(u) /\ ~Tick
  BY DEF Lock, TakeNumber, TakeTimestamp, Tick
<1> QED
  BY <1>1, <1>2, <1>3, <1>4, <1>5, <1>6, <1>7, <1>8 DEF SequenceNext, Tick

LEMMA RowStep ==
  ASSUME SequenceInv, [SequenceNext]_svars, type # "sql"
  PROVE  RowTaken'
<1>i. /\ RowTaken /\ type' = type /\ type # "sql"
      /\ \A u \in User : Shape(u)
  BY KindKept DEF SequenceInv
<1>t. /\ row \in [next : Nat, version : Nat] /\ work \in [User -> Work] /\ issued \subseteq Nat
      /\ now \in Nat
  BY DEF SequenceInv, SequenceTyped
<1>w. \A u \in User : /\ work[u].got \subseteq Nat /\ work[u].seen \in Nat /\ work[u].row \in Nat
  BY <1>t DEF Work
<1>r. row.next \in Nat /\ row.version \in Nat
  BY <1>t
<1>n. NoWork.at = "idle" /\ NoWork.got = {}
  BY DEF NoWork
<1> DEFINE
  Has(w) == /\ w.at # "idle" => /\ w.seen <= row.version
                                /\ type = "timestamp" => w.row <= now
            /\ w.at # "changed" => w.got = {}
            /\ w.at \in {"open", "locked"} /\ w.seen = row.version => w.row = row.next
            /\ w.at \in {"locked", "changed"} => w.seen = row.version
            /\ w.at = "changed" =>
                 /\ w.row >= row.next
                 /\ \A x \in w.got : ~Committed(x)
                 /\ type # "timestamp" => w.got = row.next..(w.row - 1)
                 /\ type = "timestamp" => \A x \in w.got : x <= w.row
<1>h. \A u \in User : Has(work[u])
  BY <1>i DEF RowTaken, Holds
\* The row stays, and one transaction becomes w.
<1>0. ASSUME NEW u \in User, NEW w, work' = [work EXCEPT ![u] = w],
             UNCHANGED <<row, issued, twice, now>>,
             Has(w), w.at \in {"locked", "changed"} => \A v \in Others(u) : ~Holds(v)
      PROVE  RowTaken'
  <2>1. work'[u] = w /\ \A v \in User \ {u} : work'[v] = work[v]
    BY <1>0, <1>t
  <2>2. \A v \in User : /\ Has(work'[v])
                        /\ Holds(v)' <=> work'[v].at \in {"locked", "changed"}
    BY <1>0, <1>h, <2>1 DEF Holds
  <2>3. \A v \in User : Holds(v)' => \A o \in Others(v) : ~Holds(o)'
    BY <1>0, <1>i, <2>1 DEF RowTaken, Holds, Others
  <2> HIDE DEF Has
  <2>4. \A v \in User : Has(work'[v]) <=> Has(work[v])'
    BY <1>0, <1>i DEF Has, Committed
  <2>5. \A v \in User :
         /\ work'[v].at # "idle" => /\ work'[v].seen <= row'.version
                                    /\ type' = "timestamp" => work'[v].row <= now'
         /\ work'[v].at # "changed" => work'[v].got = {}
         /\ work'[v].at \in {"open", "locked"} /\ work'[v].seen = row'.version
              => work'[v].row = row'.next
         /\ Holds(v)' => work'[v].seen = row'.version
         /\ work'[v].at = "changed" =>
              /\ work'[v].row >= row'.next
              /\ \A x \in work'[v].got : ~Committed(x)'
              /\ type' # "timestamp" => work'[v].got = row'.next..(work'[v].row - 1)
              /\ type' = "timestamp" => \A x \in work'[v].got : x <= work'[v].row
    BY <1>0, <1>i, <2>2 DEF Has, Committed
  <2> QED BY <1>0, <1>i, <2>3, <2>5 DEF RowTaken, Committed
\* One transaction ends, and nothing of it stays.
<1>a. ASSUME NEW u \in User, AbortWork(u), UNCHANGED <<row, issued, twice, now>> PROVE RowTaken'
  <2>1. Has(NoWork)
    BY <1>n
  <2> HIDE DEF Has
  <2> QED BY <1>0, <1>a, <1>n, <2>1 DEF AbortWork
<1>1. ASSUME NEW u \in User, BeginWork(u) PROVE RowTaken'
  <2> DEFINE w == [NoWork EXCEPT !.at = "open", !.seen = row.version, !.row = row.next]
  <2>1. w.at = "open" /\ w.got = {} /\ w.seen = row.version /\ w.row = row.next
    BY DEF NoWork
  <2>2. work' = [work EXCEPT ![u] = w] /\ UNCHANGED <<row, issued, twice, now>>
    BY <1>1 DEF BeginWork
  <2> HIDE DEF w
  <2>3. Has(w)
    BY <1>i, <1>r, <2>1 DEF RowTaken
  <2> HIDE DEF Has
  <2> QED BY <1>0, <2>1, <2>2, <2>3
\* Who finds no holder and the row that it has seen holds it.
<1>2. ASSUME NEW u \in User, ~Lost(u)
      PROVE  work[u].seen = row.version /\ \A v \in Others(u) : ~Holds(v)
  BY <1>2 DEF Lost, Holds
<1>3. ASSUME NEW u \in User, Lock(u) PROVE RowTaken'
  <2>1. UNCHANGED <<row, issued, twice, now>> /\ work[u].at = "open"
    BY <1>3 DEF Lock, Rest
  <2>2. CASE Lost(u)
    BY <1>3, <1>a, <2>1, <2>2 DEF Lock
  <2>3. CASE ~Lost(u)
    <3> DEFINE w == [work[u] EXCEPT !.at = "locked"]
    <3>1. /\ w.at = "locked" /\ w.got = work[u].got /\ w.seen = work[u].seen
          /\ w.row = work[u].row
      BY <1>t DEF Work
    <3>2. work' = [work EXCEPT ![u] = w]
      BY <1>3, <1>t, <2>3 DEF Lock, Work
    <3> HIDE DEF w
    <3>3. Has(w)
      BY <1>2, <1>h, <2>1, <2>3, <3>1
    <3> HIDE DEF Has
    <3> QED BY <1>0, <1>2, <2>1, <2>3, <3>2, <3>3
  <2> QED BY <2>2, <2>3
<1>4. ASSUME NEW u \in User, TakeNumber(u) PROVE RowTaken'
  <2>1. /\ UNCHANGED <<row, issued, twice, now>> /\ type # "timestamp"
        /\ work[u].at \in {"open", "locked", "changed"}
    BY <1>4 DEF TakeNumber, Rest
  <2>2. CASE Lost(u)
    BY <1>4, <1>a, <2>1, <2>2 DEF TakeNumber
  <2>3. CASE ~Lost(u)
    <3> DEFINE w == [work[u] EXCEPT !.at = "changed", !.got = @ \cup {work[u].row}, !.row = @ + 1]
    <3>1. /\ w.at = "changed" /\ w.got = work[u].got \cup {work[u].row} /\ w.seen = work[u].seen
          /\ w.row = work[u].row + 1
      BY <1>t DEF Work
    <3>2. work' = [work EXCEPT ![u] = w]
      BY <1>4, <1>t, <2>3 DEF TakeNumber, Work
    <3> HIDE DEF w
    <3>3. /\ work[u].seen = row.version /\ work[u].row >= row.next
          /\ work[u].got = row.next..(work[u].row - 1)
      <4>1. CASE work[u].at = "changed"
        BY <1>2, <1>h, <2>1, <2>3, <4>1
      <4>2. CASE work[u].at \in {"open", "locked"}
        <5>1. work[u].seen = row.version /\ work[u].row = row.next /\ work[u].got = {}
          BY <1>2, <1>h, <2>3, <4>2
        <5>2. row.next..(row.next - 1) = {}
          BY <1>r
        <5> QED BY <1>r, <5>1, <5>2
      <4> QED BY <2>1, <4>1, <4>2
    <3>4. w.got = row.next..(w.row - 1) /\ w.row >= row.next
      BY <1>r, <1>w, <3>1, <3>3
    <3>5. \A x \in w.got : ~Committed(x)
      BY <1>r, <1>w, <2>1, <3>1, <3>4 DEF Committed
    <3>6. Has(w)
      <4>1. w.seen <= row.version
        BY <1>r, <3>1, <3>3
      <4> QED BY <2>1, <3>1, <3>3, <3>4, <3>5, <4>1
    <3> HIDE DEF Has
    <3> QED BY <1>0, <1>2, <2>1, <2>3, <3>2, <3>6
  <2> QED BY <2>2, <2>3
<1>5. ASSUME NEW u \in User, TakeTimestamp(u) PROVE RowTaken'
  <2>1. /\ UNCHANGED <<row, issued, twice, now>> /\ type = "timestamp"
        /\ work[u].at \in {"open", "changed"} /\ now # work[u].row
    BY <1>5 DEF TakeTimestamp, Rest
  <2>2. CASE Lost(u)
    BY <1>5, <1>a, <2>1, <2>2 DEF TakeTimestamp
  <2>3. CASE ~Lost(u)
    <3> DEFINE w == [work[u] EXCEPT !.at = "changed", !.got = @ \cup {now}, !.row = now]
    <3>1. /\ w.at = "changed" /\ w.got = work[u].got \cup {now} /\ w.seen = work[u].seen
          /\ w.row = now
      BY <1>t DEF Work
    <3>2. work' = [work EXCEPT ![u] = w]
      BY <1>5, <1>t, <2>3 DEF TakeTimestamp, Work
    <3> HIDE DEF w
    \* The clock has left the last number.
    <3>3. /\ work[u].seen = row.version /\ work[u].row >= row.next /\ work[u].row < now
      <4>1. work[u].row <= now
        BY <1>h, <2>1
      <4>2. CASE work[u].at = "changed"
        BY <1>2, <1>h, <1>t, <1>w, <2>1, <2>3, <4>1, <4>2
      <4>3. CASE work[u].at = "open"
        BY <1>2, <1>h, <1>t, <1>r, <1>w, <2>1, <2>3, <4>1, <4>3
      <4> QED BY <2>1, <4>2, <4>3
    <3>4. \A x \in work[u].got : ~Committed(x) /\ x <= work[u].row
      BY <1>h, <2>1
    <3>5. \A x \in w.got : ~Committed(x) /\ x <= now
      BY <1>r, <1>t, <1>w, <2>1, <3>1, <3>3, <3>4 DEF Committed
    <3>6. Has(w)
      BY <1>r, <1>t, <1>w, <2>1, <3>1, <3>3, <3>5
    <3> HIDE DEF Has
    <3> QED BY <1>0, <1>2, <2>1, <2>3, <3>2, <3>6
  <2> QED BY <2>2, <2>3
<1>6. ASSUME NEW u \in User, CommitWork(u) PROVE RowTaken'
  <2>1. /\ work' = [work EXCEPT ![u] = NoWork] /\ issued' = issued \cup work[u].got
        /\ twice' = (twice \/ issued \cap work[u].got # {}) /\ now' = now
        /\ row' = IF work[u].at = "changed"
                  THEN [next |-> work[u].row, version |-> row.version + 1] ELSE row
    BY <1>6 DEF CommitWork, AbortWork
  <2>2. /\ work'[u] = NoWork /\ \A v \in User \ {u} : work'[v] = work[v]
    BY <1>t, <2>1
  <2>3. CASE work[u].at # "changed"
    <3>1. work[u].got = {}
      BY <1>h, <2>3
    <3>2. UNCHANGED <<row, issued, twice, now>>
      <4>1. UNCHANGED <<row, issued, now>> /\ issued \cap work[u].got = {}
        BY <2>1, <2>3, <3>1
      <4>2. twice' = twice
        BY <2>1, <4>1 DEF SequenceInv, SequenceTyped
      <4> QED BY <4>1, <4>2
    <3> QED BY <1>a, <2>1, <3>2 DEF AbortWork
  <2>4. CASE work[u].at = "changed"
    <3> DEFINE new == work[u].row
    <3>1. /\ new \in Nat /\ row'.next = new /\ row'.version = row.version + 1
          /\ \A v \in Others(u) : ~Holds(v)
      BY <1>i, <1>w, <2>1, <2>4 DEF RowTaken, Holds
    <3>2. /\ new >= row.next
          /\ \A x \in work[u].got : ~Committed(x)
          /\ type # "timestamp" => work[u].got = row.next..(new - 1)
          /\ type = "timestamp" => (\A x \in work[u].got : x <= new) /\ new <= now
      BY <1>h, <2>4
    <3> HIDE DEF new
    <3>3. ~twice'
      BY <1>i, <2>1, <3>2 DEF RowTaken
    <3>4. /\ type # "timestamp" => new >= 1 /\ issued' = 1..(new - 1)
          /\ type = "timestamp" => new <= now'
      <4>1. CASE type # "timestamp"
        <5>1. row.next >= 1 /\ issued = 1..(row.next - 1) /\ work[u].got = row.next..(new - 1)
          BY <1>i, <3>2, <4>1 DEF RowTaken
        <5> QED BY <1>r, <2>1, <3>1, <3>2, <4>1, <5>1
      <4>2. CASE type = "timestamp"
        BY <2>1, <3>2, <4>2
      <4> QED BY <4>1, <4>2
    <3>5. \A x \in issued' : Committed(x)'
      <4>1. CASE type # "timestamp"
        BY <1>i, <3>1, <3>4, <4>1 DEF Committed
      <4>2. CASE type = "timestamp"
        <5>1. \A x \in issued : x <= row.next /\ x \in Nat
          BY <1>i, <1>t, <4>2 DEF RowTaken, Committed
        <5>2. \A x \in issued \cup work[u].got : x <= new
          BY <1>r, <3>1, <3>2, <4>2, <5>1
        <5> QED BY <1>i, <2>1, <3>1, <4>2, <5>2 DEF Committed
      <4> QED BY <4>1, <4>2
    <3>6. \A v \in User : ~Holds(v)' /\ work'[v].got = {}
      <4>1. \A v \in User \ {u} : work[v].at \notin {"locked", "changed"} /\ work[v].got = {}
        BY <1>h, <3>1 DEF Holds, Others
      <4> QED BY <1>n, <2>2, <4>1 DEF Holds
    \* Nobody who is open has seen the new version.
    <3>7. \A v \in User : work'[v].at # "idle" =>
                            /\ work'[v].seen <= row'.version /\ work'[v].seen # row'.version
                            /\ type' = "timestamp" => work'[v].row <= now'
      <4>1. \A v \in User \ {u} : work[v].at # "idle" =>
                            /\ work[v].seen <= row.version /\ work[v].seen \in Nat
                            /\ type = "timestamp" => work[v].row <= now
        BY <1>h, <1>w
      <4> QED BY <1>i, <1>n, <1>r, <2>1, <2>2, <3>1, <4>1
    <3>8. \A v \in User : work'[v].at # "changed"
      BY <3>6 DEF Holds
    <3> QED BY <1>i, <3>1, <3>3, <3>4, <3>5, <3>6, <3>7, <3>8 DEF RowTaken
  <2> QED BY <2>3, <2>4
<1>7. ASSUME NEW u \in User, Rollback(u) PROVE RowTaken'
  BY <1>7, <1>a DEF Rollback, Rest
<1>8. CASE Tick
  <2>1. now' = now + 1 /\ UNCHANGED <<row, work, issued, twice>>
    BY <1>8 DEF Tick
  <2>2. now <= now' /\ now' \in Nat
    BY <1>t, <2>1
  <2>3. \A u \in User : work[u].row <= now => work[u].row <= now'
    BY <1>t, <1>w, <2>2
  <2>4. row.next <= now => row.next <= now'
    BY <1>t, <1>r, <2>2
  <2> QED BY <1>i, <2>1, <2>3, <2>4 DEF RowTaken, Committed, Holds
<1>9. CASE UNCHANGED svars
  BY <1>i, <1>9 DEF svars, RowTaken, Committed, Holds
<1>10. \A u \in User : ~Nextval(u) /\ ~ReadNext(u) /\ ~Restart(u)
  BY <1>i DEF Nextval, ReadNext, Restart, Shape
<1> QED
  BY <1>1, <1>3, <1>4, <1>5, <1>6, <1>7, <1>8, <1>9, <1>10 DEF SequenceNext

\* For any number of transactions and of numbers, whatever is rolled back or started
\* again: no number of a sequence is committed twice, and those of a sequence in its
\* row have no gap (Sequence.get, get_many, update_sql_sequence), unless a restart of
\* an SQL sequence was computed before another transaction took numbers.
THEOREM NumbersOnceHolds == SequenceSpec => []NumbersOnce
<1>1. ASSUME SequenceInit
      PROVE  SequenceInv
  <2>1. /\ type \in {"sql", "plain", "strict", "timestamp"} /\ sqlNext = 1 /\ now = 1
        /\ row = [next |-> IF type = "timestamp" THEN 0 ELSE 1, version |-> 0]
        /\ issued = {} /\ twice = FALSE /\ stale = FALSE
        /\ work = [u \in User |-> NoWork]
    BY <1>1 DEF SequenceInit
  <2>2. NoWork \in Work /\ NoWork.at = "idle" /\ NoWork.got = {} /\ NoWork.restart = 0
    BY DEF NoWork, Work
  <2>3. SequenceTyped
    <3>1. row \in [next : Nat, version : Nat]
      BY <2>1
    <3>2. work \in [User -> Work]
      BY <2>1, <2>2
    <3>3. sqlNext \in Nat /\ sqlNext >= 1 /\ now \in Nat
      BY <2>1
    <3> QED BY <2>1, <3>1, <3>2, <3>3 DEF SequenceTyped
  <2>4. \A u \in User : work[u] = NoWork /\ ~Holds(u)
    BY <2>1, <2>2 DEF Holds
  <2>5. /\ \A u \in User : Shape(u)
        /\ SqlTaken
    BY <2>1, <2>2, <2>4 DEF Shape, SqlTaken
  <2>6. RowTaken
    <3>1. row.next = (IF type = "timestamp" THEN 0 ELSE 1)
      BY <2>1
    <3>2. type # "timestamp" => row.next = 1 /\ issued = 1..(row.next - 1)
      BY <2>1, <3>1
    <3> QED BY <2>1, <2>2, <2>4, <3>1, <3>2 DEF RowTaken
  <2> QED BY <2>3, <2>5, <2>6 DEF SequenceInv
<1>2. SequenceInv /\ [SequenceNext]_svars => SequenceInv'
  <2> SUFFICES ASSUME SequenceInv, [SequenceNext]_svars PROVE SequenceInv'
    OBVIOUS
  <2>1. type' = type
    BY KindKept
  <2> QED BY <2>1, NextTyped, SqlStep, RowStep DEF SequenceInv
<1>3. SequenceInv => NumbersOnce
  BY DEF SequenceInv, SequenceTyped, SqlTaken, RowTaken, NumbersOnce
<1> QED BY <1>1, <1>2, <1>3, PTL DEF SequenceSpec

(* ------------- Validation: a call refuses a record, and only one, that ------- *)
(* ------------- does not fit its domain                                 ------- *)
ValidationInv ==
  /\ \A r \in Rec : linkRow[r].links \subseteq Target
  /\ Called =>
       /\ \A r \in answer.ids : answer.rows[r].links \subseteq Target
       /\ answer.ok = (ValidDomain(answer.rows, answer.ids) /\ ValidRequired(answer.rows, answer.ids))

\* Either strategy answers for the records of the call.
LEMMA DomainStrategies ==
  ASSUME NEW rows, NEW S, \A r \in S : rows[r].links \subseteq Target
  PROVE  /\ ValidDomain(rows, S) =>
              \A r \in Apart(rows, S) : \A t \in rows[r].links : kindOf[t] = rows[r].kind
         /\ ~ValidDomain(rows, S) =>
              \E r \in S : \E t \in rows[r].links : kindOf[t] # rows[r].kind
<1>1. ASSUME NEW r \in S, NEW t \in rows[r].links
      PROVE  /\ t \in Linked(rows, S) /\ t \in Target
             /\ rows[r].kind \in Domains(rows, S)
             /\ t \in Linked(rows, WithDomain(rows, S, rows[r].kind))
  BY DEF Linked, Domains, WithDomain
<1>2. ASSUME ValidDomain(rows, S), NEW r \in Apart(rows, S), NEW t \in rows[r].links
      PROVE  kindOf[t] = rows[r].kind
  <2>1. r \in S
    BY DEF Apart
  <2>2. CASE Grouped(rows, S)
    <3>1. t \in Finds(rows, S)
      BY <1>1, <1>2, <2>1, <2>2 DEF ValidDomain
    <3>2. PICK d \in Domains(rows, S) :
            t \in Linked(rows, WithDomain(rows, S, d)) /\ kindOf[t] = d
      BY <3>1 DEF Finds
    <3>3. PICK o \in S : rows[o].kind = d /\ t \in rows[o].links
      BY <3>2 DEF Linked, WithDomain
    <3>4. rows[o].kind = rows[r].kind
      BY <3>3 DEF Apart
    <3> QED
      BY <3>2, <3>3, <3>4
  <2>3. CASE ~Grouped(rows, S)
    BY <1>1, <1>2, <2>1, <2>3 DEF ValidDomain
  <2> QED
    BY <2>2, <2>3
<1>3. ASSUME ~ValidDomain(rows, S)
      PROVE  \E r \in S : \E t \in rows[r].links : kindOf[t] # rows[r].kind
  <2>1. CASE Grouped(rows, S)
    <3>1. PICK t \in Linked(rows, S) : t \notin Finds(rows, S)
      BY <1>3, <2>1 DEF ValidDomain
    <3>2. PICK r \in S : t \in rows[r].links
      BY <3>1 DEF Linked
    <3>3. kindOf[t] # rows[r].kind
      BY <1>1, <3>1, <3>2 DEF Finds
    <3> QED
      BY <3>2, <3>3
  <2>2. CASE ~Grouped(rows, S)
    <3>1. PICK d \in Domains(rows, S) :
            \E t \in Linked(rows, WithDomain(rows, S, d)) : kindOf[t] # d
      BY <1>3, <2>2 DEF ValidDomain
    <3>2. PICK r \in S : rows[r].kind = d /\ \E t \in rows[r].links : kindOf[t] # d
      BY <3>1 DEF Linked, WithDomain
    <3> QED
      BY <3>2
  <2> QED
    BY <2>1, <2>2
<1> QED
  BY <1>2, <1>3

LEMMA ValidateKeeps ==
  ASSUME ValidationInv, NEW rows, NEW S, Validate(rows, S), kindOf' = kindOf,
         \A r \in Rec : rows[r].links \subseteq Target, S \subseteq Rec
  PROVE  ValidationInv'
<1> DEFINE ok == ValidDomain(rows, S) /\ ValidRequired(rows, S)
<1>1. /\ linkRow' = (IF ok THEN rows ELSE linkRow)
      /\ answer' = [ids |-> S, rows |-> rows, ok |-> ok]
  BY DEF Validate
<1>2. answer'.ids = S /\ answer'.rows = rows /\ answer'.ok = ok
  BY <1>1
<1>3. ok' = ok
  BY DEF ValidDomain, ValidRequired, Grouped, Domains, Linked, WithDomain, Finds
<1>4. \A r \in Rec : linkRow'[r].links \subseteq Target
  BY <1>1 DEF ValidationInv
<1>5. (ValidDomain(answer.rows, answer.ids) /\ ValidRequired(answer.rows, answer.ids))' = ok
  BY <1>2 DEF ValidDomain, ValidRequired, Grouped, Domains, Linked, WithDomain, Finds
<1> QED
  BY <1>2, <1>4, <1>5 DEF ValidationInv

LEMMA ValidationStep == ValidationInv /\ [ValidationNext]_validationVars => ValidationInv'
<1> SUFFICES ASSUME ValidationInv, [ValidationNext]_validationVars PROVE ValidationInv'
  OBVIOUS
<1>1. ASSUME NEW i \in Rec, NEW j \in Rec, NEW new \in [i..j -> Rows], CreateRows(i, new)
      PROVE  ValidationInv'
  <2> DEFINE rows == [r \in Rec |-> IF r \in DOMAIN new THEN new[r] ELSE linkRow[r]]
  <2>1. \A r \in Rec : rows[r].links \subseteq Target
    BY DEF Rows, ValidationInv
  <2>2. DOMAIN new \subseteq Rec
    BY ValidationAssumption DEF Rec
  <2>3. Validate(rows, DOMAIN new) /\ kindOf' = kindOf
    BY <1>1 DEF CreateRows
  <2> HIDE DEF rows
  <2> QED
    BY <2>1, <2>2, <2>3, ValidateKeeps
<1>2. ASSUME NEW S \in SUBSET Rec \ {{}}, NEW values \in [kind : Kind] \cup [links : SUBSET Target],
             WriteRows(S, values)
      PROVE  ValidationInv'
  <2> DEFINE rows == [r \in Rec |->
               IF r \in S THEN [kind |-> IF "kind" \in DOMAIN values THEN values.kind
                                         ELSE linkRow[r].kind,
                                links |-> IF "links" \in DOMAIN values THEN values.links
                                          ELSE linkRow[r].links]
               ELSE linkRow[r]]
  <2>1. "links" \in DOMAIN values => values.links \subseteq Target
    OBVIOUS
  <2>2. \A r \in Rec : rows[r].links \subseteq Target
    BY <2>1 DEF ValidationInv
  <2>3. Validate(rows, S) /\ kindOf' = kindOf
    BY <1>2 DEF WriteRows
  <2> HIDE DEF rows
  <2> QED
    BY <2>2, <2>3, ValidateKeeps
<1>3. ASSUME NEW t \in Target, NEW kind \in Kind, WriteTarget(t, kind) PROVE ValidationInv'
  BY <1>3 DEF WriteTarget, ValidationInv, Called
<1>4. CASE Return
  BY <1>4 DEF Return, ValidationInv, Called, NoAnswer
<1>5. CASE UNCHANGED validationVars
  <2>1. linkRow' = linkRow /\ kindOf' = kindOf /\ answer' = answer
    BY <1>5 DEF validationVars
  <2>2. (ValidDomain(answer.rows, answer.ids) /\ ValidRequired(answer.rows, answer.ids))'
          = (ValidDomain(answer.rows, answer.ids) /\ ValidRequired(answer.rows, answer.ids))
    BY <2>1 DEF ValidDomain, ValidRequired, Grouped, Domains, Linked, WithDomain, Finds
  <2> QED
    BY <2>1, <2>2 DEF ValidationInv, Called
<1> QED
  BY <1>1, <1>2, <1>3, <1>4, <1>5 DEF ValidationNext

\* Whichever strategy the number of records and of domains selects, a call is refused
\* only for a record that does not fit its domain, and is accepted only if all fit
\* that share no target with a record of another domain.
THEOREM ValidatedExactlyHolds == ValidationSpec => []ValidatedExactly
<1>1. ValidationInit => ValidationInv
  BY DEF ValidationInit, ValidationInv, Absent, Called, NoAnswer
<1>2. ValidationInv => ValidatedExactly
  <2> SUFFICES ASSUME ValidationInv, Called
               PROVE  IF answer.ok THEN \A r \in Apart(answer.rows, answer.ids) : Fits(answer.rows, r)
                                   ELSE \E r \in answer.ids : ~Fits(answer.rows, r)
    BY DEF ValidatedExactly
  <2>1. /\ \A r \in answer.ids : answer.rows[r].links \subseteq Target
        /\ answer.ok = (ValidDomain(answer.rows, answer.ids)
                          /\ ValidRequired(answer.rows, answer.ids))
    BY DEF ValidationInv
  <2> DEFINE rows == answer.rows
             S == answer.ids
  <2>2. /\ ValidDomain(rows, S) =>
             \A r \in Apart(rows, S) : \A t \in rows[r].links : kindOf[t] = rows[r].kind
        /\ ~ValidDomain(rows, S) =>
             \E r \in S : \E t \in rows[r].links : kindOf[t] # rows[r].kind
    <3>1. \A r \in S : rows[r].links \subseteq Target
      BY <2>1
    <3> HIDE DEF rows, S
    <3> QED
      BY <3>1, DomainStrategies
  <2> QED
    BY <2>1, <2>2 DEF ValidRequired, Fits, Apart
<1> QED
  BY <1>1, <1>2, ValidationStep, PTL DEF ValidationSpec

(* ------------- DataImport: an update takes nothing back from a user ---------- *)
AnyValue == XmlVal \cup UserVal \cup {NoXmlValue}
IsPart(f) == DOMAIN f \subseteq Field /\ \A x \in DOMAIN f : f[x] \in XmlVal
\* What the model data knows are values of the XML; a record that it does not know is
\* not there; and one that is not there, although the model data points to it, was
\* deleted by a user who may.
ImportInv ==
  /\ free \in BOOLEAN /\ (record = Gone \/ record \in [Field -> AnyValue])
  /\ \/ data = NoData /\ record = Gone
     \/ /\ data \in [known : {TRUE}, id : BOOLEAN, values : Values, fs_values : Values,
                     noupdate : BOOLEAN]
        /\ data.id /\ record = Gone => free

LEMMA ValuesAre == \A f : f \in Values => IsPart(f)
BY DEF Values, IsPart

LEMMA MergedValues ==
  ASSUME NEW f \in Values, NEW g \in Values
  PROVE  Merged(f, g) \in Values
<1>1. IsPart(f) /\ IsPart(g)
  BY ValuesAre
<1> DEFINE D == DOMAIN f \cup DOMAIN g
<1>2. Merged(f, g) \in [D -> XmlVal] /\ D \in SUBSET Field
  BY <1>1 DEF Merged, IsPart
<1> QED
  BY <1>2 DEF Values

LEMMA MergedRecord ==
  ASSUME NEW former \in [Field -> AnyValue], NEW g \in Values
  PROVE  Merged(former, g) \in [Field -> AnyValue]
<1>1. IsPart(g)
  BY ValuesAre
<1>2. DOMAIN former \cup DOMAIN g = Field
  BY <1>1 DEF IsPart
<1> QED
  BY <1>1, <1>2 DEF Merged, IsPart, AnyValue

LEMMA UpdatedValues ==
  ASSUME NEW former, NEW values \in Values
  PROVE  /\ ToUpdate(former, values) \in Values
         /\ \A f \in DOMAIN ToUpdate(former, values) : former[f] = Expected(data.values, f)
<1>1. IsPart(values)
  BY ValuesAre
<1> DEFINE D == DOMAIN ToUpdate(former, values)
<1>2. D \in SUBSET Field /\ ToUpdate(former, values) \in [D -> XmlVal]
  BY <1>1 DEF ToUpdate, IsPart
<1>3. \A f \in D : former[f] = Expected(data.values, f)
  BY DEF ToUpdate
<1> QED
  BY <1>2, <1>3 DEF Values

LEMMA RowTyped ==
  ASSUME NEW values \in Values
  PROVE  XmlRow(values) \in [Field -> AnyValue]
<1>1. IsPart(values)
  BY ValuesAre
<1> QED
  BY <1>1 DEF XmlRow, IsPart, AnyValue

LEMMA RecordThere == \A r \in [Field -> AnyValue] : r # Gone
BY ImportAssumption DEF Gone

LEMMA CreateRecordKeeps ==
  ASSUME ImportInv, free' = free, NEW values \in Values, NEW noupdate \in BOOLEAN,
         CreateRecord(values, noupdate)
  PROVE  ImportInv' /\ record = Gone /\ ~data.known
<1>1. record' \in [Field -> AnyValue] /\ record' # Gone
  BY RowTyped, RecordThere DEF CreateRecord
<1>2. data' \in [known : {TRUE}, id : BOOLEAN, values : Values, fs_values : Values,
                 noupdate : BOOLEAN]
  BY DEF CreateRecord
<1>3. record = Gone /\ ~data.known
  BY DEF CreateRecord, ImportInv
<1> QED
  BY <1>1, <1>2, <1>3 DEF ImportInv

LEMMA ImportRecordKeeps ==
  ASSUME ImportInv, free' = free, NEW values \in Values, NEW noupdate \in BOOLEAN,
         ImportRecord(values, noupdate)
  PROVE  /\ ImportInv'
         /\ record # Gone => \A f \in Field : record[f] \in UserVal => record'[f] = record[f]
         /\ record = Gone => free
<1> DEFINE former == IF record = Gone THEN XmlRow(values) ELSE record
           updated == ToUpdate(former, values)
           kept == Merged(data.values, updated)
           wanted == Merged(data.values, values)
<1>1. /\ data.known /\ data.id /\ record' = Merged(former, updated)
      /\ data' = IF kept = wanted THEN data
                 ELSE [data EXCEPT !.values = kept, !.fs_values = wanted, !.noupdate = noupdate]
  BY DEF ImportRecord
<1>2. /\ data \in [known : {TRUE}, id : BOOLEAN, values : Values, fs_values : Values,
                   noupdate : BOOLEAN]
      /\ record = Gone => free
  <2>1. data # NoData
    BY <1>1 DEF NoData
  <2> QED
    BY <1>1, <2>1 DEF ImportInv
<1>3. former \in [Field -> AnyValue]
  BY RowTyped DEF ImportInv
<1>4. updated \in Values /\ \A f \in DOMAIN updated : former[f] = Expected(data.values, f)
  BY UpdatedValues
<1>5. kept \in Values /\ wanted \in Values
  <2>1. data.values \in Values
    BY <1>2
  <2> HIDE DEF updated
  <2> QED
    BY <1>4, <2>1, MergedValues
<1>6. record' \in [Field -> AnyValue] /\ record' # Gone
  <2>1. record' \in [Field -> AnyValue]
    <3> HIDE DEF former, updated
    <3> QED
      BY <1>1, <1>3, <1>4, MergedRecord
  <2> QED
    BY <2>1, RecordThere
<1>7. ASSUME NEW f \in Field, record # Gone, record[f] \in UserVal PROVE record'[f] = record[f]
  <2>1. IsPart(data.values)
    BY <1>2, ValuesAre
  <2>2. Expected(data.values, f) \in XmlVal \cup {NoXmlValue}
    BY <2>1 DEF Expected, IsPart
  <2>3. former = record
    BY <1>7
  <2>4. f \notin DOMAIN updated
    <3> HIDE DEF former, updated
    <3> QED
      BY <1>4, <1>7, <2>2, <2>3, ImportAssumption
  <2>5. f \in DOMAIN former
    BY <1>3
  <2> HIDE DEF former, updated
  <2> QED
    BY <1>1, <2>3, <2>4, <2>5 DEF Merged
<1>8. data' \in [known : {TRUE}, id : BOOLEAN, values : Values, fs_values : Values,
                 noupdate : BOOLEAN]
  <2> HIDE DEF kept, wanted
  <2> QED
    BY <1>1, <1>2, <1>5
<1> QED
  BY <1>2, <1>6, <1>7, <1>8 DEF ImportInv

LEMMA ImportStep ==
  ImportInv /\ [ImportNext]_importVars =>
    /\ ImportInv'
    /\ \/ UNCHANGED importVars
       \/ event'[1] = "update" =>
            /\ record # Gone => \A f \in Field : record[f] \in UserVal => record'[f] = record[f]
            /\ record = Gone /\ data.known => free
<1> SUFFICES ASSUME ImportInv, [ImportNext]_importVars
             PROVE  /\ ImportInv'
                    /\ \/ UNCHANGED importVars
                       \/ event'[1] = "update" =>
                            /\ record # Gone =>
                                 \A f \in Field : record[f] \in UserVal => record'[f] = record[f]
                            /\ record = Gone /\ data.known => free
  OBVIOUS
<1>1. ASSUME free' = free, NEW values \in Values, NEW noupdate \in BOOLEAN, Update(values, noupdate)
      PROVE  /\ ImportInv'
             /\ record # Gone => \A f \in Field : record[f] \in UserVal => record'[f] = record[f]
             /\ record = Gone /\ data.known => free
  <2>1. CASE CreateRecord(values, noupdate)
    BY <1>1, <2>1, CreateRecordKeeps
  <2>2. CASE ImportRecord(values, noupdate)
    BY <1>1, <2>2, ImportRecordKeeps
  <2> QED
    BY <1>1, <2>1, <2>2 DEF Update
<1>2. ASSUME free' = free, RemoveRecord PROVE ImportInv' /\ event'[1] = "removed"
  BY <1>2 DEF RemoveRecord, ImportInv
<1>3. ASSUME free' = free, UserDelete PROVE ImportInv' /\ event'[1] = "user"
  <2>1. /\ data \in [known : {TRUE}, id : BOOLEAN, values : Values, fs_values : Values,
                     noupdate : BOOLEAN]
        /\ record' = Gone /\ (free \/ data.noupdate)
        /\ data' = IF data.noupdate THEN [data EXCEPT !.id = FALSE] ELSE data
        /\ event' = <<"user">>
    BY <1>3 DEF UserDelete, Guarded, ImportInv
  <2>2. /\ data' \in [known : {TRUE}, id : BOOLEAN, values : Values, fs_values : Values,
                      noupdate : BOOLEAN]
        /\ data.noupdate => ~data'.id
    BY <2>1
  <2> QED
    BY <1>3, <2>1, <2>2 DEF ImportInv
<1>4. ASSUME free' = free, Sync PROVE ImportInv' /\ event'[1] = "sync"
  <2>1. /\ data \in [known : {TRUE}, id : BOOLEAN, values : Values, fs_values : Values,
                     noupdate : BOOLEAN]
        /\ record \in [Field -> AnyValue]
        /\ record' = Merged(record, data.fs_values) /\ data' = [data EXCEPT !.values = data.fs_values]
        /\ event' = <<"sync">>
    BY <1>4 DEF Sync, ImportInv, NoData
  <2>2. record' \in [Field -> AnyValue] /\ record' # Gone
    BY <2>1, MergedRecord, RecordThere
  <2> QED
    BY <1>4, <2>1, <2>2 DEF ImportInv
<1>5. ASSUME free' = free, NEW f \in Field, NEW v \in AnyValue, UserWrite(f, v)
      PROVE  ImportInv' /\ event'[1] = "user"
  <2>1. record \in [Field -> AnyValue] /\ data' = data /\ event' = <<"user">>
        /\ record' = [record EXCEPT ![f] = v]
    BY <1>5 DEF UserWrite, ImportInv
  <2>2. record' \in [Field -> AnyValue] /\ record' # Gone /\ record # Gone
    BY <2>1, RecordThere
  <2> QED
    BY <1>5, <2>1, <2>2 DEF ImportInv
<1>6. CASE UNCHANGED importVars
  BY <1>6 DEF importVars, ImportInv
<1> QED
  BY <1>1, <1>2, <1>3, <1>4, <1>5, <1>6 DEF ImportNext, AnyValue

\* Whatever the XML, the users and the button made of a record before, no update takes
\* back a value that only a user can have given; and where the model data still points
\* to a record that is not there, users may delete it.
THEOREM UserValuesKeptHolds == ImportSpec => UserValuesKept
<1>1. ImportInit => ImportInv
  BY DEF ImportInit, ImportInv
<1> QED
  BY <1>1, ImportStep, PTL DEF ImportSpec, UserValuesKept
===============================================================================
