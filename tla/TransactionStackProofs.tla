------------------------ MODULE TransactionStackProofs ------------------------
(* Theorems about TransactionStack.  The with statements of a thread are the   *)
(* measure of all the rest: a transaction has a connection exactly when there   *)
(* is a block that started it, and is on the stack once for each block that     *)
(* holds it, so that what stop finds on the stack tells it whether to give the  *)
(* connection back.                                                             *)
EXTENDS TransactionStack, TLAPS, FiniteSetTheorems, SequenceTheorems

Attributes == Context \cup {NoContext}
Block == [kind : {"start", "current", "context"}, of : TxId, saved : Attributes, set : Context]
StackType ==
  /\ conns \in Nat /\ others \in Nat /\ waits \in Nat /\ left \in BOOLEAN
  /\ at \in {"run", "raise", "connect", "sync", "stamp"}
  /\ stack \in Seq(TxId) /\ blocks \in Seq(Block)
  /\ tx \in [TxId -> [context : Attributes, conn : BOOLEAN]]

(* ------------------------- the inductive invariant -------------------------- *)
IsStart(j) == blocks[j].kind = "start"
HeldBy(i) == {j \in 1..Depth : blocks[j].of = i /\ blocks[j].kind # "context"}
Waiting == at = "connect"
\* What start and stop are about to finish is the innermost block.
Busy ==
  /\ at \in {"connect", "sync"} => Depth > 0 /\ IsStart(Depth)
  /\ at = "stamp" => Depth > 0 /\ blocks[Depth].kind # "context"
  /\ Waiting => tx[blocks[Depth].of] = Fresh
\* A transaction has a connection if, and only if, a block has started it, and a
\* block that makes it the current one again is inside that block.
Started ==
  /\ \A j \in 1..Depth : IsStart(j) /\ (Waiting => j # Depth) => tx[blocks[j].of].conn
  /\ \A i \in TxId : tx[i].conn => \E j \in 1..Depth : IsStart(j) /\ blocks[j].of = i
  /\ \A j, k \in 1..Depth : IsStart(j) /\ IsStart(k) /\ blocks[j].of = blocks[k].of => j = k
  /\ \A j \in 1..Depth : blocks[j].kind = "current" =>
       \E k \in 1..(j - 1) : IsStart(k) /\ blocks[k].of = blocks[j].of
  /\ Depth > 0 => IsStart(1)
\* It is on the stack as often as blocks hold it; and at most once if none does.
OnStack ==
  \A i \in TxId :
    IF HeldBy(i) # {} THEN Cardinality(Places(stack, i)) = Cardinality(HeldBy(i))
                      ELSE Cardinality(Places(stack, i)) <= 1
Attributed ==
  /\ \A i \in TxId : tx[i].conn => tx[i].context # NoContext
  /\ \A i \in TxId : Places(stack, i) = {} => tx[i] = Fresh
  /\ \A j \in 1..Depth : blocks[j].kind = "context" => blocks[j].saved \in Context
Accounted == conns = Cardinality(Holders) + others
\* Unless a start has left its transaction on the stack: what the blocks around a
\* block have set.
Before(k, j) == k \in 1..(j - 1) /\ blocks[k].of = blocks[j].of
Layer(j) ==
  /\ IsStart(j) => \A k \in 1..(j - 1) : blocks[k].of # blocks[j].of
  /\ ~IsStart(j) => \E k \in 1..(j - 1) : Before(k, j) /\ IsStart(k)
  /\ blocks[j].kind = "context" => Before(j - 1, j) /\ blocks[j - 1].set = blocks[j].saved
  /\ blocks[j].kind = "current" =>
       \E k \in 1..(j - 1) : /\ Before(k, j) /\ blocks[k].set = blocks[j].set
                             /\ \A m \in (k + 1)..(j - 1) : blocks[m].of # blocks[j].of
Layered == ~left => \A j \in 1..Depth : Layer(j)
Matching == ~left =>
  /\ Len(stack) = Cardinality(Held(Depth))
  /\ \A j \in 1..Depth : stack[Cardinality(Held(j))] = blocks[j].of
InContext == ~left =>
  /\ \A j \in 1..Depth : Innermost(j) /\ (Waiting => j # Depth) =>
       tx[blocks[j].of].context = blocks[j].set
  /\ \A i \in TxId : tx[i].conn => \E j \in 1..Depth : blocks[j].of = i /\ Innermost(j)
StackInv == /\ StackType /\ Busy /\ Started /\ OnStack /\ Attributed /\ Accounted
            /\ Layered /\ Matching /\ InContext

(* --------------------------- lemmas about sequences ------------------------- *)
LEMMA FrontIs ==
  ASSUME NEW S, NEW s \in Seq(S), s # <<>>
  PROVE  /\ Front(s) \in Seq(S) /\ Len(Front(s)) = Len(s) - 1
         /\ \A k \in 1..(Len(s) - 1) : Front(s)[k] = s[k]
<1>1. Len(s) \in Nat \ {0}
  BY EmptySeq
<1>2. \A k \in 1..(Len(s) - 1) : s[k] \in S
  BY <1>1, ElementOfSeq
<1> DEFINE f == SubSeq(s, 1, Len(s) - 1)
<1>3. /\ f \in Seq(S) /\ Len(f) = IF 1 <= Len(s) - 1 THEN Len(s) - 1 - 1 + 1 ELSE 0
      /\ \A k \in 1..(Len(s) - 1 - 1 + 1) : f[k] = s[1 + k - 1]
  BY <1>1, <1>2, SubSeqProperties
<1>4. Front(s) = f
  BY DEF Front
<1> HIDE DEF f
<1> QED
  BY <1>1, <1>3, <1>4

LEMMA AppendIs ==
  ASSUME NEW S, NEW s \in Seq(S), NEW e \in S
  PROVE  /\ Append(s, e) \in Seq(S) /\ Len(Append(s, e)) = Len(s) + 1 /\ Len(s) \in Nat
         /\ \A k \in 1..Len(s) : Append(s, e)[k] = s[k]
         /\ Append(s, e)[Len(s) + 1] = e
BY AppendProperties, LenProperties

LEMMA PlacesFinite ==
  ASSUME NEW S, NEW s \in Seq(S), NEW x
  PROVE  /\ Places(s, x) = {k \in 1..Len(s) : s[k] = x}
         /\ IsFiniteSet(Places(s, x)) /\ Cardinality(Places(s, x)) \in Nat
<1>1. Len(s) \in Nat /\ DOMAIN s = 1..Len(s)
  BY LenProperties
<1>2. IsFiniteSet(1..Len(s)) /\ Places(s, x) \subseteq 1..Len(s)
  BY <1>1, FS_Interval DEF Places
<1> QED
  BY <1>1, <1>2, FS_Subset, FS_CardinalityType DEF Places

\* A transaction that is pushed is there once more, the others as often as before.
LEMMA PlacesAppend ==
  ASSUME NEW S, NEW s \in Seq(S), NEW e \in S, NEW x
  PROVE  /\ Places(Append(s, e), x) =
              IF e = x THEN Places(s, x) \cup {Len(s) + 1} ELSE Places(s, x)
         /\ Cardinality(Places(Append(s, e), x)) =
              IF e = x THEN Cardinality(Places(s, x)) + 1 ELSE Cardinality(Places(s, x))
<1>1. /\ Append(s, e) \in Seq(S) /\ Len(Append(s, e)) = Len(s) + 1 /\ Len(s) \in Nat
      /\ \A k \in 1..Len(s) : Append(s, e)[k] = s[k]
      /\ Append(s, e)[Len(s) + 1] = e
  BY AppendIs
<1>2. /\ Places(s, x) = {k \in 1..Len(s) : s[k] = x}
      /\ Places(Append(s, e), x) = {k \in 1..(Len(s) + 1) : Append(s, e)[k] = x}
      /\ IsFiniteSet(Places(s, x))
  <2>1. Places(s, x) = {k \in 1..Len(s) : s[k] = x} /\ IsFiniteSet(Places(s, x))
    BY PlacesFinite
  <2>2. Places(Append(s, e), x) = {k \in 1..Len(Append(s, e)) : Append(s, e)[k] = x}
    <3> DEFINE t == Append(s, e)
    <3>1. t \in Seq(S)
      BY <1>1
    <3> HIDE DEF t
    <3>2. Places(t, x) = {k \in 1..Len(t) : t[k] = x}
      BY <3>1, PlacesFinite
    <3> QED
      BY <3>2 DEF t
  <2> QED
    BY <1>1, <2>1, <2>2
<1>3. Places(Append(s, e), x) =
        IF e = x THEN Places(s, x) \cup {Len(s) + 1} ELSE Places(s, x)
  BY <1>1, <1>2
<1>4. Len(s) + 1 \notin Places(s, x)
  BY <1>1, <1>2
<1> QED
  BY <1>2, <1>3, <1>4, FS_AddElement

\* One that is popped is there once less.
LEMMA PlacesRemove ==
  ASSUME NEW S, NEW s \in Seq(S), NEW p \in 1..Len(s), NEW x
  PROVE  /\ RemoveAt(s, p) \in Seq(S) /\ Len(RemoveAt(s, p)) = Len(s) - 1
         /\ \A k \in 1..(Len(s) - 1) : RemoveAt(s, p)[k] = IF k < p THEN s[k] ELSE s[k + 1]
         /\ Cardinality(Places(RemoveAt(s, p), x)) =
              IF s[p] = x THEN Cardinality(Places(s, x)) - 1 ELSE Cardinality(Places(s, x))
<1> DEFINE t == RemoveAt(s, p)
           a == SubSeq(s, 1, p - 1)
           b == SubSeq(s, p + 1, Len(s))
<1>1. Len(s) \in Nat /\ \A k \in 1..Len(s) : s[k] \in S
  BY LenProperties, ElementOfSeq
<1>2. a \in Seq(S) /\ Len(a) = p - 1 /\ \A k \in 1..(p - 1) : a[k] = s[k]
  BY <1>1, SubSeqProperties
<1>3. b \in Seq(S) /\ Len(b) = Len(s) - p /\ \A k \in 1..(Len(s) - p) : b[k] = s[p + k]
  <2>1. \A k \in (p + 1)..Len(s) : s[k] \in S
    BY <1>1
  <2>2. /\ b \in Seq(S) /\ Len(b) = IF p + 1 <= Len(s) THEN Len(s) - (p + 1) + 1 ELSE 0
        /\ \A k \in 1..(Len(s) - (p + 1) + 1) : b[k] = s[p + 1 + k - 1]
    BY <1>1, <2>1, SubSeqProperties
  <2> QED
    BY <1>1, <2>2
<1>4. t = a \o b
  BY DEF RemoveAt
<1> HIDE DEF a, b, t
<1>5. /\ t \in Seq(S) /\ Len(t) = Len(s) - 1
      /\ \A k \in 1..(Len(s) - 1) : t[k] = IF k < p THEN s[k] ELSE s[k + 1]
  <2>1. /\ t \in Seq(S) /\ Len(t) = Len(a) + Len(b)
        /\ \A i \in 1..(Len(a) + Len(b)) : t[i] = IF i <= Len(a) THEN a[i] ELSE b[i - Len(a)]
    BY <1>2, <1>3, <1>4, ConcatProperties
  <2>2. Len(a) + Len(b) = Len(s) - 1
    BY <1>1, <1>2, <1>3
  <2>3. ASSUME NEW k \in 1..(Len(s) - 1) PROVE t[k] = IF k < p THEN s[k] ELSE s[k + 1]
    <3>1. CASE k < p
      BY <3>1, <1>1, <1>2, <2>1, <2>2
    <3>2. CASE k >= p
      <4>1. t[k] = b[k - (p - 1)] /\ k - (p - 1) \in 1..(Len(s) - p)
        BY <3>2, <1>1, <1>2, <2>1, <2>2
      <4>2. b[k - (p - 1)] = s[p + (k - (p - 1))] /\ p + (k - (p - 1)) = k + 1
        BY <4>1, <1>1, <1>3
      <4> QED
        BY <3>2, <4>1, <4>2, <1>1
    <3> QED
      BY <3>1, <3>2, <1>1
  <2> QED
    BY <2>1, <2>2, <2>3
<1> DEFINE P == Places(s, x) \ {p}
           Q == Places(t, x)
           f == [k \in Q |-> IF k < p THEN k ELSE k + 1]
<1>6. /\ Places(s, x) = {k \in 1..Len(s) : s[k] = x} /\ IsFiniteSet(Places(s, x))
      /\ Q = {k \in 1..Len(t) : t[k] = x} /\ IsFiniteSet(Q)
  BY <1>5, PlacesFinite
<1> HIDE DEF P, Q
<1>7. P = {k \in 1..Len(s) : s[k] = x /\ k # p}
  BY <1>6 DEF P
<1>8. f \in Injection(Q, P)
  <2>1. f \in [Q -> P]
    BY <1>1, <1>5, <1>6, <1>7
  <2>2. \A k, m \in Q : f[k] = f[m] => k = m
    BY <1>1, <1>5, <1>6
  <2> QED
    BY <2>1, <2>2 DEF Injection, IsInjective
<1>9. f \in Surjection(Q, P)
  <2>1. f \in [Q -> P]
    BY <1>1, <1>5, <1>6, <1>7
  <2>2. ASSUME NEW m \in P PROVE \E k \in Q : f[k] = m
    <3>1. CASE m < p
      BY <3>1, <1>1, <1>5, <1>6, <1>7, m \in Q
    <3>2. CASE m > p
      BY <3>2, <1>1, <1>5, <1>6, <1>7, m - 1 \in Q
    <3> QED
      BY <3>1, <3>2, <1>7
  <2> QED
    BY <2>1, <2>2 DEF Surjection
<1>10. Cardinality(P) = Cardinality(Q)
  BY <1>6, <1>8, <1>9, FS_Surjection
<1>11. Cardinality(P) = IF p \in Places(s, x) THEN Cardinality(Places(s, x)) - 1
                                              ELSE Cardinality(Places(s, x))
  BY <1>6, FS_RemoveElement DEF P
<1> QED
  BY <1>1, <1>5, <1>6, <1>10, <1>11 DEF Q, t

(* ---------------------------- lemmas about blocks --------------------------- *)
LEMMA TxIdFinite == IsFiniteSet(TxId)
BY StackAssumption, FS_Interval DEF TxId

LEMMA HeldFinite ==
  ASSUME StackType
  PROVE  /\ Depth \in Nat /\ \A j \in 1..Depth : blocks[j] \in Block
         /\ \A n \in 0..Depth : IsFiniteSet(Held(n)) /\ Cardinality(Held(n)) \in Nat
         /\ \A i : IsFiniteSet(HeldBy(i)) /\ Cardinality(HeldBy(i)) \in Nat
<1>1. Depth \in Nat /\ \A j \in 1..Depth : blocks[j] \in Block
  BY LenProperties, ElementOfSeq DEF StackType, Depth
<1>2. \A n \in 0..Depth : IsFiniteSet(1..n)
  BY <1>1, FS_Interval
<1>3. ASSUME NEW n \in 0..Depth PROVE IsFiniteSet(Held(n)) /\ Cardinality(Held(n)) \in Nat
  <2>1. Held(n) \subseteq 1..n
    BY DEF Held
  <2> QED
    BY <1>2, <2>1, FS_Subset, FS_CardinalityType
<1>4. ASSUME NEW i PROVE IsFiniteSet(HeldBy(i)) /\ Cardinality(HeldBy(i)) \in Nat
  <2>1. HeldBy(i) \subseteq 1..Depth /\ IsFiniteSet(1..Depth)
    BY <1>1, <1>2 DEF HeldBy
  <2> QED
    BY <2>1, FS_Subset, FS_CardinalityType
<1> QED
  BY <1>1, <1>3, <1>4

\* What a block that is entered, or left, changes.
LEMMA BlocksGrown ==
  ASSUME StackType, NEW b, Depth \in Nat, Depth' = Depth + 1, blocks'[Depth + 1] = b,
         \A j \in 1..Depth : blocks'[j] = blocks[j]
  PROVE  /\ \A n \in 0..Depth : Held(n)' = Held(n)
         /\ Cardinality(Held(Depth)') =
              IF b.kind # "context" THEN Cardinality(Held(Depth)) + 1 ELSE Cardinality(Held(Depth))
         /\ \A i : /\ HeldBy(i)' = IF b.of = i /\ b.kind # "context" THEN HeldBy(i) \cup {Depth + 1}
                                                                   ELSE HeldBy(i)
                   /\ Cardinality(HeldBy(i)') =
                        IF b.of = i /\ b.kind # "context" THEN Cardinality(HeldBy(i)) + 1
                                                         ELSE Cardinality(HeldBy(i))
<1>1. ASSUME NEW n \in 0..Depth PROVE Held(n)' = Held(n)
  BY DEF Held
<1>2. Held(Depth)' = IF b.kind # "context" THEN Held(Depth) \cup {Depth + 1} ELSE Held(Depth)
  BY DEF Held
<1>3. Depth + 1 \notin Held(Depth)
  BY DEF Held
<1>4. Cardinality(Held(Depth)') =
        IF b.kind # "context" THEN Cardinality(Held(Depth)) + 1 ELSE Cardinality(Held(Depth))
  <2>1. IsFiniteSet(Held(Depth))
    BY HeldFinite
  <2>2. Cardinality(Held(Depth) \cup {Depth + 1}) = Cardinality(Held(Depth)) + 1
    BY <1>3, <2>1, FS_AddElement
  <2> QED
    BY <1>2, <2>2
<1>5. ASSUME NEW i
      PROVE  /\ HeldBy(i)' = IF b.of = i /\ b.kind # "context" THEN HeldBy(i) \cup {Depth + 1}
                                                             ELSE HeldBy(i)
             /\ Cardinality(HeldBy(i)') =
                  IF b.of = i /\ b.kind # "context" THEN Cardinality(HeldBy(i)) + 1
                                                   ELSE Cardinality(HeldBy(i))
  <2>1. HeldBy(i)' = IF b.of = i /\ b.kind # "context" THEN HeldBy(i) \cup {Depth + 1}
                                                      ELSE HeldBy(i)
    BY DEF HeldBy
  <2>2. IsFiniteSet(HeldBy(i))
    BY HeldFinite
  <2>3. Depth + 1 \notin HeldBy(i)
    BY DEF HeldBy
  <2>4. Cardinality(HeldBy(i) \cup {Depth + 1}) = Cardinality(HeldBy(i)) + 1
    BY <2>2, <2>3, FS_AddElement
  <2> QED
    BY <2>1, <2>4
<1> QED
  BY <1>1, <1>4, <1>5

LEMMA BlocksPushed ==
  ASSUME StackType, NEW b \in Block, blocks' = Append(blocks, b)
  PROVE  /\ blocks' \in Seq(Block) /\ Depth' = Depth + 1 /\ Depth \in Nat
         /\ \A j \in 1..Depth : blocks'[j] = blocks[j]
         /\ blocks'[Depth + 1] = b
         /\ \A n \in 0..Depth : Held(n)' = Held(n)
         /\ Cardinality(Held(Depth)') =
              IF b.kind # "context" THEN Cardinality(Held(Depth)) + 1 ELSE Cardinality(Held(Depth))
         /\ \A i : /\ HeldBy(i)' = IF b.of = i /\ b.kind # "context" THEN HeldBy(i) \cup {Depth + 1}
                                                                   ELSE HeldBy(i)
                   /\ Cardinality(HeldBy(i)') =
                        IF b.of = i /\ b.kind # "context" THEN Cardinality(HeldBy(i)) + 1
                                                         ELSE Cardinality(HeldBy(i))
<1>1. /\ blocks' \in Seq(Block) /\ Depth' = Depth + 1 /\ Depth \in Nat
      /\ \A j \in 1..Depth : blocks'[j] = blocks[j]
      /\ blocks'[Depth + 1] = b
  BY AppendIs DEF StackType, Depth
<1> QED
  BY <1>1, BlocksGrown

LEMMA BlocksPopped ==
  ASSUME StackType, Depth > 0, blocks' = Front(blocks)
  PROVE  /\ blocks' \in Seq(Block) /\ Depth' = Depth - 1 /\ Depth \in Nat
         /\ \A j \in 1..(Depth - 1) : blocks'[j] = blocks[j]
         /\ \A n \in 0..(Depth - 1) : Held(n)' = Held(n)
         /\ Cardinality(Held(Depth - 1)) = IF blocks[Depth].kind # "context"
                                           THEN Cardinality(Held(Depth)) - 1
                                           ELSE Cardinality(Held(Depth))
         /\ \A i : /\ HeldBy(i)' = HeldBy(i) \ {Depth}
                   /\ Cardinality(HeldBy(i)') =
                        IF blocks[Depth].of = i /\ blocks[Depth].kind # "context"
                        THEN Cardinality(HeldBy(i)) - 1 ELSE Cardinality(HeldBy(i))
<1>1. /\ blocks' \in Seq(Block) /\ Depth' = Depth - 1 /\ Depth \in Nat
      /\ \A j \in 1..(Depth - 1) : blocks'[j] = blocks[j]
  <2>1. blocks # <<>> /\ Depth \in Nat
    BY LenProperties, EmptySeq DEF StackType, Depth
  <2> QED
    BY <2>1, FrontIs DEF StackType, Depth
<1>2. ASSUME NEW n \in 0..(Depth - 1) PROVE Held(n)' = Held(n)
  BY <1>1 DEF Held
<1>3. /\ Held(Depth - 1) = Held(Depth) \ {Depth} /\ IsFiniteSet(Held(Depth))
      /\ Depth \in Held(Depth) <=> blocks[Depth].kind # "context"
  <2>1. IsFiniteSet(Held(Depth))
    BY <1>1, HeldFinite
  <2>2. Held(Depth - 1) = Held(Depth) \ {Depth}
    BY <1>1 DEF Held
  <2> QED
    BY <1>1, <2>1, <2>2 DEF Held
<1>4. Cardinality(Held(Depth - 1)) = IF blocks[Depth].kind # "context"
        THEN Cardinality(Held(Depth)) - 1 ELSE Cardinality(Held(Depth))
  BY <1>3, FS_RemoveElement
<1>5. ASSUME NEW i
      PROVE  /\ HeldBy(i)' = HeldBy(i) \ {Depth}
             /\ Cardinality(HeldBy(i)') = IF blocks[Depth].of = i /\ blocks[Depth].kind # "context"
                  THEN Cardinality(HeldBy(i)) - 1 ELSE Cardinality(HeldBy(i))
  <2>1. HeldBy(i)' = HeldBy(i) \ {Depth}
    BY <1>1 DEF HeldBy
  <2>2. IsFiniteSet(HeldBy(i))
    BY HeldFinite
  <2>3. Depth \in HeldBy(i) <=> blocks[Depth].of = i /\ blocks[Depth].kind # "context"
    BY <1>1 DEF HeldBy
  <2> QED
    BY <2>1, <2>2, <2>3, FS_RemoveElement
<1> QED
  BY <1>1, <1>2, <1>4, <1>5

\* While nothing is about to start, a block of a transaction that has no connection
\* does not hold it.
LEMMA HeldIsConnected ==
  ASSUME StackInv, NEW i \in TxId, ~tx[i].conn, NEW j \in HeldBy(i)
  PROVE  Waiting /\ j = Depth
<1>1. Depth \in Nat /\ \A k \in 1..Depth : blocks[k] \in Block
  BY HeldFinite DEF StackInv
<1>2. j \in 1..Depth /\ blocks[j].of = i /\ blocks[j].kind \in {"start", "current"}
  BY <1>1 DEF HeldBy, Block
<1>3. CASE IsStart(j)
  BY <1>2, <1>3 DEF StackInv, Started
<1>4. CASE blocks[j].kind = "current"
  <2>1. PICK k \in 1..(j - 1) : IsStart(k) /\ blocks[k].of = i
    BY <1>2, <1>4 DEF StackInv, Started
  <2>2. k \in 1..Depth /\ k # Depth
    BY <1>1, <1>2, <2>1
  <2> QED
    BY <2>1, <2>2 DEF StackInv, Started
<1> QED
  BY <1>2, <1>3, <1>4 DEF IsStart

\* The innermost block is the only one that holds what it started; and a block that
\* makes a transaction the current one again is not the only one.
LEMMA HeldByLast ==
  ASSUME StackInv, Depth > 0, blocks[Depth].kind # "context", ~Waiting
  PROVE  LET i == blocks[Depth].of IN
         /\ i \in TxId /\ tx[i].conn /\ Depth \in HeldBy(i)
         /\ Cardinality(Places(stack, i)) = Cardinality(HeldBy(i))
         /\ IsStart(Depth) => HeldBy(i) = {Depth} /\ Once(i)
         /\ ~IsStart(Depth) => HeldBy(i) \ {Depth} # {} /\ ~Once(i)
<1> DEFINE i == blocks[Depth].of
<1>1. Depth \in Nat /\ \A k \in 1..Depth : blocks[k] \in Block
  BY HeldFinite DEF StackInv
<1>2. i \in TxId /\ blocks[Depth].kind \in {"start", "current"} /\ Depth \in HeldBy(i)
  BY <1>1 DEF HeldBy, Block
<1>3. tx[i].conn
  BY <1>2, HeldIsConnected DEF StackInv
<1>4. Cardinality(Places(stack, i)) = Cardinality(HeldBy(i)) /\ IsFiniteSet(HeldBy(i))
  BY <1>2, HeldFinite DEF StackInv, OnStack
<1>5. ASSUME IsStart(Depth) PROVE HeldBy(i) = {Depth} /\ Once(i)
  <2>1. ASSUME NEW j \in HeldBy(i), j # Depth PROVE FALSE
    <3>1. j \in 1..Depth /\ blocks[j].of = i /\ blocks[j].kind \in {"start", "current"}
      BY <1>1 DEF HeldBy, Block
    <3>2. ~IsStart(j)
      BY <1>1, <1>5, <2>1, <3>1 DEF StackInv, Started
    <3>3. PICK k \in 1..(j - 1) : IsStart(k) /\ blocks[k].of = i
      BY <3>1, <3>2 DEF StackInv, Started, IsStart
    <3>4. k \in 1..Depth /\ k # Depth
      BY <1>1, <3>1, <3>3
    <3> QED
      BY <1>1, <1>5, <3>3, <3>4 DEF StackInv, Started
  <2>2. HeldBy(i) = {Depth}
    BY <1>2, <2>1
  <2> QED
    BY <1>4, <2>2, FS_Singleton DEF Once
<1>6. ASSUME ~IsStart(Depth) PROVE HeldBy(i) \ {Depth} # {} /\ ~Once(i)
  <2>1. PICK k \in 1..(Depth - 1) : IsStart(k) /\ blocks[k].of = i
    BY <1>1, <1>2, <1>6 DEF StackInv, Started, IsStart
  <2>2. k \in HeldBy(i) /\ k # Depth
    BY <1>1, <2>1 DEF HeldBy, IsStart
  <2>3. \A x : HeldBy(i) # {x}
    BY <1>2, <2>2
  <2>4. Cardinality(HeldBy(i)) # 1
    BY <1>4, <2>3, FS_Singleton
  <2> QED
    BY <1>4, <2>2, <2>4 DEF Once
<1> QED
  BY <1>2, <1>3, <1>4, <1>5, <1>6

LEMMA HeldBounds ==
  ASSUME StackType, Started, NEW j \in 1..Depth
  PROVE  /\ Cardinality(Held(j)) \in 1..Cardinality(Held(Depth))
         /\ j < Depth => Cardinality(Held(j)) <= Cardinality(Held(Depth - 1))
<1>1. /\ Depth \in Nat
      /\ \A n \in 0..Depth : IsFiniteSet(Held(n)) /\ Cardinality(Held(n)) \in Nat
  BY HeldFinite
<1>2. 1 \in Held(j) /\ Held(j) \subseteq Held(Depth)
  BY <1>1 DEF Held, Started, IsStart
<1>3. Cardinality(Held(j)) # 0
  BY <1>1, <1>2, FS_EmptySet
<1>4. Cardinality(Held(j)) <= Cardinality(Held(Depth))
  BY <1>1, <1>2, FS_Subset
<1>5. ASSUME j < Depth PROVE Cardinality(Held(j)) <= Cardinality(Held(Depth - 1))
  <2>1. Held(j) \subseteq Held(Depth - 1) /\ IsFiniteSet(Held(Depth - 1))
    BY <1>1, <1>5 DEF Held
  <2> QED
    BY <2>1, FS_Subset
<1> QED
  BY <1>1, <1>3, <1>4, <1>5

LEMMA NoBlocks ==
  ASSUME StackType, Depth = 0
  PROVE  Cardinality(Held(Depth)) = 0 /\ \A i : HeldBy(i) = {}
<1>1. Held(Depth) = {} /\ \A i : HeldBy(i) = {}
  BY DEF Held, HeldBy
<1> QED
  BY <1>1, FS_EmptySet

\* What a block says of the blocks around it does not depend on those inside it.
LEMMA LayerKept ==
  ASSUME NEW j \in Nat \ {0}, Layer(j), \A k \in 1..j : blocks'[k] = blocks[k]
  PROVE  Layer(j)'
<1>1. \A k \in 1..j : (IsStart(k)' <=> IsStart(k)) /\ (Before(k, j)' <=> Before(k, j))
  BY DEF IsStart, Before
<1>2. Before(j - 1, j) => j - 1 \in 1..(j - 1)
  BY DEF Before
<1>3. IsStart(j)' => \A k \in 1..(j - 1) : blocks'[k].of # blocks'[j].of
  BY <1>1 DEF Layer
<1>4. ASSUME ~IsStart(j)' PROVE \E k \in 1..(j - 1) : Before(k, j)' /\ IsStart(k)'
  <2>1. PICK k \in 1..(j - 1) : Before(k, j) /\ IsStart(k)
    BY <1>1, <1>4 DEF Layer
  <2> QED
    BY <2>1, <1>1
<1>5. ASSUME blocks'[j].kind = "context"
      PROVE  Before(j - 1, j)' /\ blocks'[j - 1].set = blocks'[j].saved
  <2>1. Before(j - 1, j) /\ blocks[j - 1].set = blocks[j].saved
    BY <1>5 DEF Layer
  <2>2. j - 1 \in 1..j
    BY <1>2, <2>1
  <2> QED
    BY <2>1, <2>2, <1>1
<1>6. ASSUME blocks'[j].kind = "current"
      PROVE  \E k \in 1..(j - 1) :
               /\ Before(k, j)' /\ blocks'[k].set = blocks'[j].set
               /\ \A m \in (k + 1)..(j - 1) : blocks'[m].of # blocks'[j].of
  <2>1. PICK k \in 1..(j - 1) : /\ Before(k, j) /\ blocks[k].set = blocks[j].set
                                /\ \A m \in (k + 1)..(j - 1) : blocks[m].of # blocks[j].of
    BY <1>6 DEF Layer
  <2>2. Before(k, j)' /\ blocks'[k].set = blocks'[j].set
    BY <2>1, <1>1
  <2>3. \A m \in (k + 1)..(j - 1) : blocks'[m].of # blocks'[j].of
    BY <2>1
  <2> QED
    BY <2>2, <2>3
<1> QED
  BY <1>3, <1>4, <1>5, <1>6 DEF Layer

\* A transaction that is pushed in a block that holds it, and popped when the block
\* ends, leaves what is below it on the stack.
LEMMA MatchingPushed ==
  ASSUME StackType, Started, Matching, ~left, NEW b \in Block, b.kind # "context",
         blocks' = Append(blocks, b), stack' = Append(stack, b.of)
  PROVE  Matching'
<1> DEFINE d == Depth
<1>1. /\ Depth' = d + 1 /\ d \in Nat /\ blocks'[d + 1] = b
      /\ \A j \in 1..d : blocks'[j] = blocks[j]
  BY BlocksPushed
<1>2. /\ \A n \in 0..d : Held(n)' = Held(n)
      /\ Cardinality(Held(Depth)') = Cardinality(Held(d)) + 1
  BY BlocksPushed
<1>3. Len(stack) = Cardinality(Held(d)) /\ Cardinality(Held(d)) \in Nat
  BY <1>1, HeldFinite DEF Matching
<1>4. b.of \in TxId
  BY DEF Block
<1>5. /\ Len(stack') = Len(stack) + 1 /\ stack'[Len(stack) + 1] = b.of
      /\ \A k \in 1..Len(stack) : stack'[k] = stack[k]
  BY <1>4, AppendIs DEF StackType
<1>6. ASSUME NEW j \in 1..d PROVE stack'[Cardinality(Held(j)')] = blocks'[j].of
  <2>1. Cardinality(Held(j)) \in 1..Len(stack)
    BY <1>3, HeldBounds
  <2>2. Held(j)' = Held(j) /\ stack[Cardinality(Held(j))] = blocks[j].of
    BY <1>1, <1>2 DEF Matching
  <2> QED
    BY <2>1, <2>2, <1>1, <1>5
<1>7. ASSUME NEW j \in 1..Depth', j = d + 1 PROVE stack'[Cardinality(Held(j)')] = blocks'[j].of
  <2>1. Held(j)' = Held(Depth)'
    BY <1>7, <1>1 DEF Held
  <2> QED
    BY <1>1, <1>2, <1>3, <1>5, <1>7, <2>1
<1> HIDE DEF d
<1>8. \A j \in 1..Depth' : j \in 1..d \/ j = d + 1
  BY <1>1
<1> QED
  BY <1>2, <1>3, <1>5, <1>6, <1>7, <1>8 DEF Matching

LEMMA MatchingPopped ==
  ASSUME StackType, Started, Matching, ~left, Depth > 0, blocks[Depth].kind # "context",
         blocks' = Front(blocks), Pop(blocks[Depth].of)
  PROVE  Matching'
<1> DEFINE d == Depth
           i == blocks[d].of
<1>1. /\ Depth' = d - 1 /\ d \in Nat /\ \A j \in 1..(d - 1) : blocks'[j] = blocks[j]
      /\ \A n \in 0..(d - 1) : Held(n)' = Held(n)
      /\ Cardinality(Held(d - 1)) = Cardinality(Held(d)) - 1
  BY BlocksPopped
<1>2. /\ Len(stack) = Cardinality(Held(d)) /\ Len(stack) \in Nat
      /\ stack[Len(stack)] = i
  BY <1>1, HeldFinite DEF Matching
<1>3. Len(stack) \in 1..Len(stack)
  BY <1>1, <1>2, HeldBounds
<1>4. PICK k \in Places(stack, i) :
        stack' = RemoveAt(stack, k) /\ \A m \in Places(stack, i) : m <= k
  BY DEF Pop
<1>5. Places(stack, i) = {m \in 1..Len(stack) : stack[m] = i}
  BY PlacesFinite DEF StackType
<1>6. k = Len(stack) /\ k \in 1..Len(stack)
  BY <1>2, <1>3, <1>4, <1>5
<1>7. /\ Len(stack') = Len(stack) - 1
      /\ \A m \in 1..(Len(stack) - 1) : stack'[m] = stack[m]
  <2>1. /\ Len(stack') = Len(stack) - 1
        /\ \A m \in 1..(Len(stack) - 1) : stack'[m] = IF m < k THEN stack[m] ELSE stack[m + 1]
    BY <1>4, <1>6, PlacesRemove DEF StackType
  <2> QED
    BY <1>2, <1>6, <2>1
<1>8. ASSUME NEW j \in 1..(d - 1) PROVE stack'[Cardinality(Held(j)')] = blocks'[j].of
  <2>1. Cardinality(Held(j)) \in 1..(Len(stack) - 1)
    <3>1. Cardinality(Held(j)) \in 1..Cardinality(Held(d)) /\ Cardinality(Held(j)) <= Cardinality(Held(d - 1))
      BY <1>1, HeldBounds
    <3> QED
      BY <3>1, <1>1, <1>2
  <2>2. Held(j)' = Held(j) /\ stack[Cardinality(Held(j))] = blocks[j].of
    BY <1>1 DEF Matching
  <2> QED
    BY <2>1, <2>2, <1>1, <1>7
<1>9. Held(Depth)' = Held(d - 1)
  BY <1>1 DEF Held
<1> HIDE DEF d, i
<1> QED
  BY <1>1, <1>2, <1>7, <1>8, <1>9 DEF Matching

(* ------------------------------ start and connect --------------------------- *)
\* start, of a transaction that is new or was left on the stack.
LEMMA StartsKeeps ==
  ASSUME StackInv, at = "run", NEW i \in TxId, NEW pushed \in Seq(TxId),
         Starts(i, pushed), tx[i].context = NoContext,
         Cardinality(Places(pushed, i)) = 1,
         \A x \in TxId : x # i => Places(pushed, x) = Places(stack, x),
         UNCHANGED <<conns, others, tx>>, left' \in BOOLEAN,
         ~left' => \/ Depth = 0 /\ Len(pushed) = 1 /\ pushed[1] = i
                   \/ ~left /\ pushed = Append(stack, i)
  PROVE  StackInv'
<1> DEFINE d == Depth
<1> USE DEF StackInv
<1>1. PICK c \in Context : blocks' = Enter("start", i, c)
  BY DEF Starts
<1> DEFINE b == [kind |-> "start", of |-> i, saved |-> tx[i].context, set |-> c]
<1>2. b \in Block /\ blocks' = Append(blocks, b)
  BY <1>1 DEF Enter, Block, Attributes
<1>3. tx[i] = Fresh /\ ~tx[i].conn
  <2>1. tx[i] \in [context : Attributes, conn : BOOLEAN] /\ ~tx[i].conn
    BY DEF StackType, Attributed
  <2> QED
    BY <2>1 DEF Fresh
<1>4. HeldBy(i) = {}
  BY <1>3, HeldIsConnected DEF Waiting
<1>5. /\ blocks' \in Seq(Block) /\ Depth' = d + 1 /\ d \in Nat
      /\ \A j \in 1..d : blocks'[j] = blocks[j]
      /\ blocks'[d + 1] = b
  BY <1>2, BlocksPushed
<1>6. /\ \A n \in 0..d : Held(n)' = Held(n)
      /\ Cardinality(Held(Depth)') = Cardinality(Held(d)) + 1
      /\ \A x : /\ HeldBy(x)' = IF i = x THEN HeldBy(x) \cup {d + 1} ELSE HeldBy(x)
                /\ Cardinality(HeldBy(x)') =
                     IF i = x THEN Cardinality(HeldBy(x)) + 1 ELSE Cardinality(HeldBy(x))
  BY <1>2, BlocksPushed
<1>7. \A j \in 1..d : blocks[j] \in Block
  BY HeldFinite
<1>8. at' = "connect" /\ waits' = ConnRetry /\ stack' = pushed
  BY DEF Starts
<1>9. b.kind = "start" /\ b.of = i /\ b.set = c
  OBVIOUS
<1> HIDE DEF d, b
<1>10. StackType'
  BY <1>5, <1>8, StackAssumption DEF StackType
<1>11. Busy'
  BY <1>3, <1>5, <1>8, <1>9 DEF Busy, IsStart, Waiting
<1>12. \A j \in 1..d : IsStart(j) => blocks[j].of # i /\ tx[blocks[j].of].conn
  BY <1>3, <1>5 DEF Started, Waiting, d
<1>13. Started'
  <2>1. \A j \in 1..Depth' : IsStart(j)' /\ (Waiting' => j # Depth') => tx'[blocks'[j].of].conn
    BY <1>5, <1>8, <1>12 DEF IsStart, Waiting
  <2>2. \A x \in TxId : tx'[x].conn => \E j \in 1..Depth' : IsStart(j)' /\ blocks'[j].of = x
    BY <1>5 DEF Started, IsStart, d
  <2>3. \A j, k \in 1..Depth' :
          IsStart(j)' /\ IsStart(k)' /\ blocks'[j].of = blocks'[k].of => j = k
    <3>1. \A j, k \in 1..d : IsStart(j) /\ IsStart(k) /\ blocks[j].of = blocks[k].of => j = k
      BY DEF Started, d
    <3>2. \A j \in 1..d : (IsStart(j)' <=> IsStart(j)) /\ blocks'[j].of = blocks[j].of
      BY <1>5 DEF IsStart
    <3>3. \A j \in 1..Depth' : j \in 1..d \/ j = d + 1
      BY <1>5
    <3>4. \A j \in 1..d : IsStart(j)' => blocks'[j].of # blocks'[d + 1].of
      BY <3>2, <1>5, <1>9, <1>12
    <3> QED
      BY <3>1, <3>2, <3>3, <3>4
  <2>4. \A j \in 1..Depth' : blocks'[j].kind = "current" =>
          \E k \in 1..(j - 1) : IsStart(k)' /\ blocks'[k].of = blocks'[j].of
    <3> SUFFICES ASSUME NEW j \in 1..Depth', blocks'[j].kind = "current"
                 PROVE  \E k \in 1..(j - 1) : IsStart(k)' /\ blocks'[k].of = blocks'[j].of
      OBVIOUS
    <3>1. j \in 1..d /\ blocks'[j] = blocks[j]
      BY <1>5, <1>9
    <3>2. PICK k \in 1..(j - 1) : IsStart(k) /\ blocks[k].of = blocks[j].of
      BY <3>1 DEF Started, d
    <3>3. k \in 1..d
      BY <3>1, <1>5
    <3> QED
      BY <3>1, <3>2, <3>3, <1>5 DEF IsStart
  <2>5. IsStart(1)'
    <3>1. CASE d = 0
      BY <3>1, <1>5, <1>9 DEF IsStart
    <3>2. CASE d > 0
      BY <3>2, <1>5 DEF Started, IsStart, d
    <3> QED
      BY <3>1, <3>2, <1>5
  <2> QED
    BY <2>1, <2>2, <2>3, <2>4, <2>5 DEF Started
<1>14. OnStack'
  <2>1. ASSUME NEW x \in TxId
        PROVE  IF HeldBy(x)' # {} THEN Cardinality(Places(stack', x)) = Cardinality(HeldBy(x)')
                                  ELSE Cardinality(Places(stack', x)) <= 1
    <3>1. CASE x = i
      <4>1. Cardinality(HeldBy(i)) = 0
        BY <1>4, FS_EmptySet
      <4>2. Cardinality(HeldBy(i)') = 1
        BY <4>1, <1>6
      <4>3. HeldBy(i)' # {}
        BY <1>6
      <4> QED
        BY <3>1, <4>2, <4>3, <1>8
    <3>2. CASE x # i
      BY <3>2, <1>6, <1>8 DEF OnStack
    <3> QED
      BY <3>1, <3>2
  <2> QED
    BY <2>1 DEF OnStack
<1>15. Attributed'
  <2>1. \A x \in TxId : Places(stack', x) = {} => tx'[x] = Fresh
    BY <1>3, <1>8 DEF Attributed
  <2>2. \A j \in 1..Depth' : blocks'[j].kind = "context" => blocks'[j].saved \in Context
    BY <1>5, <1>9 DEF Attributed, d
  <2> QED
    BY <2>1, <2>2 DEF Attributed
<1>16. Accounted'
  BY DEF Accounted, Holders
<1>17. Layered'
  <2> SUFFICES ASSUME ~left', NEW j \in 1..Depth' PROVE Layer(j)'
    BY DEF Layered
  <2>1. CASE j = d + 1
    <3>1. \A k \in 1..d : blocks[k].of # i
      <4>1. CASE d = 0
        BY <4>1
      <4>2. CASE ~left
        BY <4>2, <1>5, <1>12 DEF Layered, Layer, Before, d
      <4> QED
        BY <4>1, <4>2 DEF d
    <3>2. blocks'[j].of = i /\ blocks'[j].kind = "start"
      BY <2>1, <1>5, <1>9
    <3>3. \A k \in 1..(j - 1) : k \in 1..d /\ blocks'[k] = blocks[k]
      BY <2>1, <1>5
    <3>4. \A k \in 1..(j - 1) : blocks'[k].of # blocks'[j].of
      BY <3>1, <3>2, <3>3
    <3> QED
      BY <3>2, <3>4 DEF IsStart, Layer
  <2>2. CASE j \in 1..d
    <3>1. ~left
      BY <2>2 DEF d
    <3>2. \A k \in 1..j : blocks'[k] = blocks[k]
      BY <2>2, <1>5
    <3>3. Layer(j)
      BY <2>2, <3>1 DEF Layered, d
    <3> QED
      BY <2>2, <3>2, <3>3, LayerKept
  <2> QED
    BY <2>1, <2>2, <1>5
<1>18. Matching'
  <2> SUFFICES ASSUME ~left'
      PROVE  /\ Len(stack') = Cardinality(Held(Depth)')
             /\ \A j \in 1..Depth' : stack'[Cardinality(Held(j)')] = blocks'[j].of
    BY DEF Matching
  <2>1. CASE d = 0 /\ Len(pushed) = 1 /\ pushed[1] = i
    <3>1. Cardinality(Held(Depth)') = 1
      BY <2>1, <1>6, NoBlocks DEF d
    <3>2. \A j \in 1..Depth' : Held(j)' = Held(Depth)'
      BY <2>1, <1>5 DEF Held
    <3> QED
      BY <2>1, <3>1, <3>2, <1>5, <1>8, <1>9
  <2>2. CASE ~left /\ pushed = Append(stack, i)
    <3>1. stack' = Append(stack, b.of) /\ b.kind # "context"
      BY <2>2, <1>8, <1>9
    <3>2. Matching'
      BY <2>2, <3>1, <1>2, MatchingPushed
    <3> QED
      BY <3>2 DEF Matching
  <2> QED
    BY <2>1, <2>2 DEF d
<1>19. InContext'
  <2> SUFFICES ASSUME ~left'
      PROVE  /\ \A j \in 1..Depth' : Innermost(j)' /\ (Waiting' => j # Depth') =>
                  tx'[blocks'[j].of].context = blocks'[j].set
             /\ \A x \in TxId : tx'[x].conn =>
                  \E j \in 1..Depth' : blocks'[j].of = x /\ Innermost(j)'
    BY DEF InContext
  <2>1. CASE d = 0
    BY <2>1, <1>5, <1>8 DEF Waiting, Started, d
  <2>2. CASE ~left /\ d > 0
    <3>1. ASSUME NEW j \in 1..Depth', Innermost(j)', j # Depth'
          PROVE  tx'[blocks'[j].of].context = blocks'[j].set
      <4>1. j \in 1..d /\ blocks'[j] = blocks[j]
        BY <3>1, <1>5
      <4>2. Innermost(j)
        BY <3>1, <4>1, <1>5 DEF Innermost, d
      <4> QED
        BY <2>2, <4>1, <4>2 DEF InContext, Waiting, d
    <3>2. ASSUME NEW x \in TxId, tx'[x].conn
          PROVE  \E j \in 1..Depth' : blocks'[j].of = x /\ Innermost(j)'
      <4>1. PICK j \in 1..d : blocks[j].of = x /\ Innermost(j)
        BY <2>2, <3>2 DEF InContext, d
      <4>2. j \in 1..Depth' /\ blocks'[j].of = x /\ x # i
        BY <3>2, <4>1, <1>3, <1>5
      <4>3. ASSUME NEW m \in 1..Depth', m > j PROVE blocks'[m].of # x
        <5>1. CASE m = d + 1
          BY <5>1, <4>2, <1>5, <1>9
        <5>2. CASE m \in 1..d
          BY <5>2, <4>1, <4>3, <1>5 DEF Innermost, d
        <5> QED
          BY <5>1, <5>2, <1>5
      <4>4. Innermost(j)'
        BY <4>2, <4>3 DEF Innermost
      <4> QED
        BY <4>2, <4>4
    <3> QED
      BY <3>1, <3>2, <1>8 DEF Waiting
  <2> QED
    BY <2>1, <2>2, <1>5 DEF d
<1> QED
  BY <1>10, <1>11, <1>13, <1>14, <1>15, <1>16, <1>17, <1>18, <1>19

LEMMA StartKeeps ==
  ASSUME StackInv, StartTransaction
  PROVE  StackInv'
<1> USE DEF StackInv
<1>1. /\ at = "run" /\ Depth = 0 /\ Starts(Current, Pushed) /\ UNCHANGED <<conns, others, tx>>
      /\ left' = (left /\ (Len(stack) > 1 \/ tx[Current] # Fresh))
  <2>1. Depth = 0
    BY EmptySeq DEF StartTransaction, Depth, StackType
  <2> QED
    BY <2>1 DEF StartTransaction, Ready
<1> DEFINE i == Current
           p == Pushed
<1>2. p \in Seq(TxId) /\ i \in TxId /\ Len(p) \in Nat \ {0} /\ i = p[Len(p)]
  <2>1. 1 \in TxId
    BY StackAssumption DEF TxId
  <2>2. CASE stack = <<>>
    BY <2>1, <2>2 DEF Current, Pushed, Last
  <2>3. CASE stack # <<>>
    <3>1. Len(stack) \in Nat \ {0}
      BY <2>3, EmptySeq, LenProperties DEF StackType
    <3>2. stack[Len(stack)] \in TxId
      BY <3>1, ElementOfSeq DEF StackType
    <3> QED
      BY <2>3, <3>1, <3>2 DEF Current, Pushed, Last, StackType
  <2> QED
    BY <2>2, <2>3
<1>3. /\ Cardinality(Places(p, i)) = 1
      /\ \A x \in TxId : x # i => Places(p, x) = Places(stack, x)
  <2>1. CASE stack = <<>>
    <3>1. p = <<1>> /\ i = 1
      BY <2>1 DEF Current, Pushed, Last
    <3>2. Places(p, i) = {1} /\ \A x \in TxId : x # i => Places(p, x) = {}
      BY <3>1 DEF Places
    <3>3. \A x : Places(stack, x) = {}
      BY <2>1 DEF Places
    <3> QED
      BY <3>2, <3>3, FS_Singleton
  <2>2. CASE stack # <<>>
    <3>1. p = stack /\ Len(p) \in Places(p, i)
      BY <2>2, <1>2, PlacesFinite DEF Pushed
    <3>2. HeldBy(i) = {}
      BY <1>1, NoBlocks
    <3>3. Cardinality(Places(p, i)) <= 1
      BY <1>2, <3>1, <3>2 DEF OnStack
    <3>4. IsFiniteSet(Places(p, i)) /\ Cardinality(Places(p, i)) \in Nat
      BY <1>2, PlacesFinite
    <3>5. Cardinality(Places(p, i)) # 0
      BY <3>1, <3>4, FS_EmptySet
    <3> QED
      BY <3>1, <3>3, <3>4, <3>5
  <2> QED
    BY <2>1, <2>2
<1>4. CASE tx[i].context = NoContext
  <2>1. left' \in BOOLEAN
    BY <1>1 DEF StackType
  <2>2. ~left' => \/ Depth = 0 /\ Len(p) = 1 /\ p[1] = i
                  \/ ~left /\ p = Append(stack, i)
    <3> SUFFICES ASSUME ~left' PROVE Len(p) = 1
      BY <1>1, <1>2
    <3>1. CASE stack = <<>>
      BY <3>1 DEF Pushed
    <3>2. CASE stack # <<>> /\ left
      <4>1. ~(Len(stack) > 1)
        BY <1>1, <3>2
      <4>2. Len(stack) \in Nat \ {0}
        BY <1>2, <3>2 DEF Pushed
      <4>3. \A n \in Nat \ {0} : n > 1 \/ n = 1
        OBVIOUS
      <4> QED
        BY <3>2, <4>1, <4>2, <4>3, Zenon DEF Pushed
    <3>3. CASE stack # <<>> /\ ~left
      <4>1. Len(stack) = 0
        BY <1>1, <3>3, NoBlocks DEF Matching
      <4> QED
        BY <3>3, <4>1, EmptySeq DEF StackType
    <3> QED
      BY <3>1, <3>2, <3>3
  <2> HIDE DEF i, p
  <2> QED
    BY <1>1, <1>2, <1>3, <1>4, <2>1, <2>2, StartsKeeps DEF i, p
<1>5. CASE tx[i].context # NoContext
  <2>1. /\ at' = "raise" /\ UNCHANGED <<waits, blocks, tx, conns, others>> /\ stack' = p
    BY <1>1, <1>5 DEF Starts
  <2>2. Places(stack, i) # {}
    BY <1>2, <1>5 DEF Attributed, Fresh
  <2>3. stack # <<>>
    BY <2>2 DEF Places
  <2>4. stack' = stack
    BY <2>1, <2>3 DEF Pushed
  <2>5. left
    <3> SUFFICES ASSUME ~left PROVE FALSE
      OBVIOUS
    <3>1. Len(stack) = 0
      BY <1>1, NoBlocks DEF Matching
    <3> QED
      BY <2>3, <3>1, EmptySeq DEF StackType
  <2>6. tx[i] # Fresh
    BY <1>5 DEF Fresh
  <2>7. left'
    BY <1>1, <2>5, <2>6
  <2> HIDE DEF i, p
  <2>8. StackType' /\ Busy'
    BY <1>1, <2>1, <2>4, <2>7 DEF StackType, Busy, Waiting
  <2>9. Started' /\ OnStack' /\ Attributed' /\ Accounted'
    BY <1>1, <2>1, <2>4 DEF Started, OnStack, Attributed, Accounted, Holders, Depth, IsStart, HeldBy
  <2> QED
    BY <2>7, <2>8, <2>9 DEF Layered, Matching, InContext
<1> QED
  BY <1>4, <1>5

LEMMA NewKeeps ==
  ASSUME StackInv, NewTransaction
  PROVE  StackInv'
<1> USE DEF StackInv
<1>1. PICK i \in NewIds :
        IF tx[Current].conn
        THEN Starts(i, Append(stack, i)) /\ UNCHANGED left
        ELSE /\ stack' = Append(stack, i) /\ at' = "raise" /\ left' = TRUE
             /\ UNCHANGED <<waits, blocks>>
  BY DEF NewTransaction
<1>2. i \in TxId /\ Places(stack, i) = {} /\ at = "run" /\ UNCHANGED <<conns, others, tx>>
  BY DEF NewTransaction, Inside, Ready, NewIds, ToSet, Places
<1>3. tx[i] = Fresh
  BY <1>2 DEF Attributed
<1> DEFINE p == Append(stack, i)
<1>4. p \in Seq(TxId)
  BY <1>2 DEF StackType
<1>5. Cardinality(Places(p, i)) = 1 /\ \A x \in TxId : x # i => Places(p, x) = Places(stack, x)
  <2>1. /\ \A x \in TxId : x # i => Places(p, x) = Places(stack, x)
        /\ Cardinality(Places(p, i)) = Cardinality(Places(stack, i)) + 1
    <3>1. stack \in Seq(TxId)
      BY DEF StackType
    <3>2. ASSUME NEW x \in TxId, x # i PROVE Places(p, x) = Places(stack, x)
      BY <1>2, <3>1, <3>2, PlacesAppend
    <3>3. Cardinality(Places(p, i)) = Cardinality(Places(stack, i)) + 1
      <4>1. \A e, x \in TxId : Cardinality(Places(Append(stack, e), x)) =
              IF e = x THEN Cardinality(Places(stack, x)) + 1 ELSE Cardinality(Places(stack, x))
        BY <3>1, PlacesAppend
      <4> QED
        BY <1>2, <4>1
    <3> QED
      BY <3>2, <3>3
  <2>2. Cardinality(Places(stack, i)) = 0
    BY <1>2, FS_EmptySet
  <2> QED
    BY <2>1, <2>2
<1>6. CASE tx[Current].conn
  <2>1. Starts(i, p) /\ left' = left /\ left' \in BOOLEAN
    BY <1>1, <1>6 DEF StackType
  <2>2. tx[i].context = NoContext
    BY <1>3 DEF Fresh
  <2>3. p = Append(stack, i)
    OBVIOUS
  <2> HIDE DEF p
  <2> QED
    BY <1>2, <1>4, <1>5, <2>1, <2>2, <2>3, StartsKeeps
<1>7. CASE ~tx[Current].conn
  <2>1. /\ stack' = p /\ at' = "raise" /\ left' /\ UNCHANGED <<waits, blocks, conns, others, tx>>
    BY <1>1, <1>2, <1>7
  <2> HIDE DEF p
  <2>2. StackType' /\ Busy'
    BY <1>2, <1>4, <2>1 DEF StackType, Busy, Waiting
  <2>3. Started' /\ Accounted'
    BY <1>2, <2>1 DEF Started, Accounted, Holders, Depth, IsStart, Waiting
  <2>4. Attributed'
    BY <1>3, <1>5, <2>1 DEF Attributed, Depth
  <2>5. HeldBy(i) = {}
    BY <1>2, <1>3, HeldIsConnected DEF Fresh, Waiting
  <2>6. OnStack'
    <3> SUFFICES ASSUME NEW x \in TxId
                 PROVE  IF HeldBy(x) # {} THEN Cardinality(Places(p, x)) = Cardinality(HeldBy(x))
                                          ELSE Cardinality(Places(p, x)) <= 1
      BY <2>1 DEF OnStack, HeldBy, Depth
    <3>1. CASE x = i
      BY <3>1, <1>5, <2>5
    <3>2. CASE x # i
      BY <3>2, <1>5 DEF OnStack
    <3> QED
      BY <3>1, <3>2
  <2> QED
    BY <2>1, <2>2, <2>3, <2>4, <2>6 DEF Layered, Matching, InContext
<1> QED
  BY <1>6, <1>7

\* A step that changes neither the stack nor a block nor a transaction.
LEMMA IdleKeeps ==
  ASSUME StackInv, UNCHANGED <<stack, tx, blocks, left>>,
         StackType', Busy', Accounted', Waiting' <=> Waiting
  PROVE  StackInv'
<1> USE DEF StackInv
<1>1. Started'
  BY DEF Started, Depth, IsStart
<1>2. OnStack' /\ Attributed'
  BY DEF OnStack, Attributed, HeldBy, Depth
<1>3. Layered'
  BY DEF Layered, Layer, Depth, IsStart, Before
<1>4. Matching'
  BY DEF Matching, Held, Depth
<1>5. InContext'
  BY DEF InContext, Innermost, Depth
<1> QED
  BY <1>1, <1>2, <1>3, <1>4, <1>5

LEMMA ConnectKeeps ==
  ASSUME StackInv, Connect
  PROVE  StackInv'
<1> USE DEF StackInv
<1> DEFINE d == Depth
           i == blocks[d].of
           r == [context |-> blocks[d].set, conn |-> TRUE]
<1>1. d \in Nat \ {0} /\ \A j \in 1..d : blocks[j] \in Block
  BY HeldFinite DEF Connect, Busy
<1>2. IsStart(d) /\ tx[i] = Fresh /\ Waiting
  BY DEF Connect, Busy, Waiting
<1>3. i \in TxId /\ r \in [context : Context, conn : BOOLEAN] /\ r.conn /\ r.context = blocks[d].set
  BY <1>1 DEF Block
<1>4. /\ tx' = [tx EXCEPT ![i] = r] /\ conns' = conns + 1 /\ at' = "sync"
      /\ UNCHANGED <<others, stack, blocks, waits, left>>
  BY DEF Connect, Last, Depth
<1>5. tx'[i] = r /\ \A x \in TxId : x # i => tx'[x] = tx[x]
  BY <1>3, <1>4 DEF StackType
<1>6. Depth' = d /\ ~Waiting'
  BY <1>4 DEF Depth, Waiting
<1>7. d \in HeldBy(i)
  BY <1>1, <1>2 DEF HeldBy, IsStart
<1> HIDE DEF d, i, r
<1>8. StackType'
  <2>1. r \in [context : Attributes, conn : BOOLEAN]
    BY <1>3 DEF Attributes
  <2> QED
    BY <1>3, <1>4, <2>1 DEF StackType
<1>9. Busy'
  BY <1>1, <1>2, <1>4, <1>6 DEF Busy, IsStart
<1>10. Started'
  <2>1. \A j \in 1..Depth' : IsStart(j)' => tx'[blocks'[j].of].conn
    <3> SUFFICES ASSUME NEW j \in 1..d, IsStart(j) PROVE tx'[blocks[j].of].conn
      BY <1>4, <1>6 DEF IsStart
    <3>1. CASE blocks[j].of = i
      BY <3>1, <1>3, <1>5
    <3>2. CASE blocks[j].of # i
      <4>1. blocks[j].of \in TxId /\ j # d
        BY <3>2, <1>1 DEF Block, i
      <4> QED
        BY <3>2, <4>1, <1>5 DEF Started, d
    <3> QED
      BY <3>1, <3>2
  <2>2. \A x \in TxId : tx'[x].conn => \E j \in 1..Depth' : IsStart(j)' /\ blocks'[j].of = x
    <3> SUFFICES ASSUME NEW x \in TxId, tx'[x].conn
                 PROVE  \E j \in 1..d : IsStart(j) /\ blocks[j].of = x
      BY <1>4, <1>6 DEF IsStart
    <3>1. CASE x = i
      BY <3>1, <1>1, <1>2 DEF i
    <3>2. CASE x # i
      BY <3>2, <1>5 DEF Started, d
    <3> QED
      BY <3>1, <3>2
  <2> QED
    BY <1>4, <1>6, <2>1, <2>2 DEF Started, IsStart, d
<1>11. OnStack'
  BY <1>4, <1>6 DEF OnStack, HeldBy, d
<1>12. Places(stack, i) # {}
  <2>1. IsFiniteSet(HeldBy(i)) /\ Cardinality(Places(stack, i)) = Cardinality(HeldBy(i))
    BY <1>3, <1>7, HeldFinite DEF OnStack
  <2>2. Cardinality(HeldBy(i)) # 0
    BY <1>7, <2>1, FS_EmptySet
  <2> QED
    BY <2>1, <2>2, FS_EmptySet
<1>13. Attributed'
  <2>1. \A x \in TxId : tx'[x].conn => tx'[x].context # NoContext
    BY <1>3, <1>5, StackAssumption DEF Attributed
  <2>2. \A x \in TxId : Places(stack, x) = {} => tx'[x] = Fresh
    BY <1>5, <1>12 DEF Attributed
  <2> QED
    BY <1>4, <1>6, <2>1, <2>2 DEF Attributed, d
<1>14. Accounted'
  <2>1. Holders' = Holders \cup {i} /\ i \notin Holders
    BY <1>2, <1>3, <1>5 DEF Holders, Fresh
  <2>2. IsFiniteSet(Holders)
    BY TxIdFinite, FS_Subset DEF Holders
  <2>3. Cardinality(Holders') = Cardinality(Holders) + 1
    BY <2>1, <2>2, FS_AddElement
  <2>4. Cardinality(Holders) \in Nat
    BY <2>2, FS_CardinalityType
  <2> QED
    BY <1>4, <2>3, <2>4 DEF Accounted, StackType
<1>15. Layered'
  BY <1>4, <1>6 DEF Layered, Layer, IsStart, Before, d
<1>16. Matching'
  BY <1>4, <1>6 DEF Matching, Held, d
<1>17. InContext'
  <2> SUFFICES ASSUME ~left
      PROVE  /\ \A j \in 1..d : Innermost(j) => tx'[blocks[j].of].context = blocks[j].set
             /\ \A x \in TxId : tx'[x].conn => \E j \in 1..d : blocks[j].of = x /\ Innermost(j)
    BY <1>4, <1>6 DEF InContext, Innermost, d
  <2>1. Innermost(d)
    BY <1>1 DEF Innermost, d
  <2>2. ASSUME NEW j \in 1..d, Innermost(j) PROVE tx'[blocks[j].of].context = blocks[j].set
    <3>1. CASE j = d
      BY <3>1, <1>3, <1>5 DEF i
    <3>2. CASE j # d
      <4>1. blocks[j].of # i /\ blocks[j].of \in TxId
        BY <2>2, <3>2, <1>1 DEF Innermost, Block, i, d
      <4> QED
        BY <2>2, <3>2, <4>1, <1>5 DEF InContext, d
    <3> QED
      BY <3>1, <3>2
  <2>3. ASSUME NEW x \in TxId, tx'[x].conn PROVE \E j \in 1..d : blocks[j].of = x /\ Innermost(j)
    <3>1. CASE x = i
      BY <3>1, <1>1, <2>1 DEF i
    <3>2. CASE x # i
      BY <2>3, <3>2, <1>5 DEF InContext, d
    <3> QED
      BY <3>1, <3>2
  <2> QED
    BY <2>2, <2>3
<1> QED
  BY <1>8, <1>9, <1>10, <1>11, <1>13, <1>14, <1>15, <1>16, <1>17

\* Once the innermost block is left, and its connection with it if it is a start.
LEMMA StartedPopped ==
  ASSUME StackInv, Depth > 0, blocks' = Front(blocks), ~Waiting',
         \A x \in TxId : tx'[x].conn <=> tx[x].conn /\ ~(IsStart(Depth) /\ blocks[Depth].of = x)
  PROVE  Started'
<1> USE DEF StackInv
<1> DEFINE d == Depth
<1>1. d \in Nat \ {0} /\ \A j \in 1..d : blocks[j] \in Block
  BY HeldFinite
<1>2. Depth' = d - 1 /\ \A j \in 1..(d - 1) : blocks'[j] = blocks[j]
  BY BlocksPopped
<1> HIDE DEF d
<1>3. \A j \in 1..(d - 1) : (IsStart(j)' <=> IsStart(j)) /\ j \in 1..d /\ j # d
  BY <1>1, <1>2 DEF IsStart
<1>4. \A j, k \in 1..d : IsStart(j) /\ IsStart(k) /\ blocks[j].of = blocks[k].of => j = k
  BY DEF Started, d
<1>5. ASSUME NEW j \in 1..(d - 1), IsStart(j) PROVE tx'[blocks[j].of].conn
  <2>1. tx[blocks[j].of].conn
    BY <1>3, <1>5 DEF Started, d
  <2>2. ~(IsStart(d) /\ blocks[d].of = blocks[j].of)
    BY <1>1, <1>3, <1>4, <1>5
  <2>3. blocks[j].of \in TxId
    BY <1>1, <1>3 DEF Block
  <2> QED
    BY <2>1, <2>2, <2>3 DEF d
<1>6. ASSUME NEW x \in TxId, tx'[x].conn PROVE \E j \in 1..(d - 1) : IsStart(j) /\ blocks[j].of = x
  <2>1. PICK j \in 1..d : IsStart(j) /\ blocks[j].of = x
    BY <1>6 DEF Started, d
  <2>2. j # d
    BY <1>6, <2>1 DEF d
  <2> QED
    BY <2>1, <2>2, <1>1
<1>7. \A j \in 1..(d - 1) : IsStart(j)' => tx'[blocks'[j].of].conn
  BY <1>2, <1>3, <1>5
<1>8. \A x \in TxId : tx'[x].conn => \E j \in 1..(d - 1) : IsStart(j)' /\ blocks'[j].of = x
  BY <1>2, <1>3, <1>6
<1>9. \A j, k \in 1..(d - 1) : IsStart(j)' /\ IsStart(k)' /\ blocks'[j].of = blocks'[k].of => j = k
  BY <1>2, <1>3, <1>4
<1>10. ASSUME NEW j \in 1..(d - 1), blocks'[j].kind = "current"
       PROVE  \E k \in 1..(j - 1) : IsStart(k)' /\ blocks'[k].of = blocks'[j].of
  <2>1. j \in 1..d /\ blocks[j].kind = "current"
    BY <1>2, <1>3, <1>10
  <2>2. PICK k \in 1..(j - 1) : IsStart(k) /\ blocks[k].of = blocks[j].of
    BY <2>1 DEF Started, d
  <2>3. k \in 1..(d - 1)
    BY <1>1
  <2> QED
    BY <1>2, <1>3, <2>2, <2>3
<1>11. d - 1 > 0 => IsStart(1)'
  BY <1>1, <1>3 DEF Started, d
<1> QED
  BY <1>2, <1>7, <1>8, <1>9, <1>10, <1>11 DEF Started

\* When start fails its block is left, and its transaction, if it is still on the
\* stack, is there once.
LEMMA ConnectFailsKeeps ==
  ASSUME StackInv, ConnectFails
  PROVE  StackInv'
<1> USE DEF StackInv
<1> DEFINE d == Depth
           i == blocks[d].of
<1>1. d \in Nat \ {0} /\ \A j \in 1..d : blocks[j] \in Block
  BY HeldFinite DEF ConnectFails, Busy
<1>2. IsStart(d) /\ tx[i] = Fresh /\ i \in TxId /\ at = "connect"
  BY <1>1 DEF ConnectFails, Busy, Waiting, Block
<1>3. at' = "raise" /\ left' /\ UNCHANGED <<conns, others, stack, tx, waits>> /\ blocks' = Front(blocks)
  BY DEF ConnectFails
<1>4. /\ blocks' \in Seq(Block) /\ Depth' = d - 1
      /\ \A j \in 1..(d - 1) : blocks'[j] = blocks[j]
      /\ \A x : /\ HeldBy(x)' = HeldBy(x) \ {d}
                /\ Cardinality(HeldBy(x)') =
                     IF blocks[d].of = x /\ blocks[d].kind # "context"
                     THEN Cardinality(HeldBy(x)) - 1 ELSE Cardinality(HeldBy(x))
  BY <1>1, <1>3, BlocksPopped
<1>5. d \in HeldBy(i) /\ HeldBy(i) = {d}
  <2>1. d \in HeldBy(i)
    BY <1>1, <1>2 DEF HeldBy, IsStart
  <2>2. ~tx[i].conn
    BY <1>2 DEF Fresh
  <2>3. \A j \in HeldBy(i) : j = d
    BY <1>2, <2>2, HeldIsConnected
  <2> QED
    BY <2>1, <2>3
<1> HIDE DEF d, i
<1>6. StackType' /\ Accounted'
  BY <1>3, <1>4 DEF StackType, Accounted, Holders
<1>7. Busy'
  BY <1>3 DEF Busy, Waiting
<1>8. Started'
  <2>1. \A x \in TxId : tx'[x].conn <=> tx[x].conn /\ ~(IsStart(Depth) /\ blocks[Depth].of = x)
    BY <1>2, <1>3 DEF Fresh, i, d
  <2>2. ~Waiting' /\ Depth > 0
    BY <1>1, <1>3 DEF Waiting, d
  <2> QED
    BY <1>3, <2>1, <2>2, StartedPopped
<1>9. OnStack'
  <2> SUFFICES ASSUME NEW x \in TxId
               PROVE  IF HeldBy(x)' # {} THEN Cardinality(Places(stack, x)) = Cardinality(HeldBy(x)')
                                         ELSE Cardinality(Places(stack, x)) <= 1
    BY <1>3 DEF OnStack
  <2>1. CASE x = i
    <3>1. HeldBy(x)' = {}
      BY <2>1, <1>4, <1>5
    <3>2. Cardinality(HeldBy(i)) = 1
      BY <1>5, FS_Singleton
    <3>3. Cardinality(Places(stack, i)) = 1
      BY <1>2, <1>5, <3>2 DEF OnStack
    <3> QED
      BY <2>1, <3>1, <3>3
  <2>2. CASE x # i
    <3>1. d \notin HeldBy(x)
      BY <2>2 DEF HeldBy, i
    <3>2. HeldBy(x)' = HeldBy(x)
      BY <3>1, <1>4
    <3> QED
      BY <3>2 DEF OnStack
  <2> QED
    BY <2>1, <2>2
<1>10. Attributed'
  <2>1. \A j \in 1..(d - 1) : blocks'[j].kind = "context" => blocks'[j].saved \in Context
    BY <1>1, <1>4 DEF Attributed, d
  <2> QED
    BY <1>3, <1>4, <2>1 DEF Attributed
<1> QED
  BY <1>3, <1>6, <1>7, <1>8, <1>9, <1>10 DEF Layered, Matching, InContext

(* ----------------------------------- stop ----------------------------------- *)
LEMMA LayeredPopped ==
  ASSUME StackType, Layered, Depth > 0, blocks' = Front(blocks), left' = left
  PROVE  Layered'
<1>1. Depth' = Depth - 1 /\ Depth \in Nat /\ \A j \in 1..(Depth - 1) : blocks'[j] = blocks[j]
  BY BlocksPopped
<1> SUFFICES ASSUME ~left, NEW j \in 1..(Depth - 1) PROVE Layer(j)'
  BY <1>1 DEF Layered
<1>2. Layer(j) /\ j \in Nat \ {0} /\ \A k \in 1..j : blocks'[k] = blocks[k]
  BY <1>1 DEF Layered
<1> QED
  BY <1>2, LayerKept

\* A transaction is popped as often as its blocks end.
LEMMA OnStackPopped ==
  ASSUME StackInv, Depth > 0, blocks[Depth].kind # "context", ~Waiting,
         blocks' = Front(blocks), Pop(blocks[Depth].of)
  PROVE  /\ OnStack' /\ stack' \in Seq(TxId)
         /\ \A x \in TxId : x # blocks[Depth].of => (Places(stack', x) = {} <=> Places(stack, x) = {})
         /\ ~IsStart(Depth) => Places(stack', blocks[Depth].of) # {}
<1> USE DEF StackInv
<1> DEFINE d == Depth
<1>0. PICK i : i = blocks[d].of
  OBVIOUS
<1>1. /\ i \in TxId /\ d \in HeldBy(i)
      /\ Cardinality(Places(stack, i)) = Cardinality(HeldBy(i))
      /\ IsStart(d) => HeldBy(i) = {d}
      /\ ~IsStart(d) => HeldBy(i) \ {d} # {}
  BY <1>0, HeldByLast
<1>2. \A x : /\ HeldBy(x)' = HeldBy(x) \ {d}
             /\ Cardinality(HeldBy(x)') = IF i = x /\ blocks[d].kind # "context"
                  THEN Cardinality(HeldBy(x)) - 1 ELSE Cardinality(HeldBy(x))
  BY <1>0, BlocksPopped
<1>3. PICK k \in Places(stack, i) : stack' = RemoveAt(stack, k)
  BY <1>0 DEF Pop
<1>4. k \in 1..Len(stack) /\ stack[k] = i /\ stack \in Seq(TxId)
  BY PlacesFinite DEF StackType
<1>5. /\ stack' \in Seq(TxId)
      /\ \A x : Cardinality(Places(stack', x)) =
           IF i = x THEN Cardinality(Places(stack, x)) - 1 ELSE Cardinality(Places(stack, x))
  <2>1. stack' \in Seq(TxId)
    BY <1>3, <1>4, PlacesRemove
  <2>2. \A x : Cardinality(Places(RemoveAt(stack, k), x)) =
           IF stack[k] = x THEN Cardinality(Places(stack, x)) - 1 ELSE Cardinality(Places(stack, x))
    BY <1>4, PlacesRemove
  <2> QED
    BY <1>3, <1>4, <2>1, <2>2
<1>6. \A x : /\ IsFiniteSet(Places(stack, x)) /\ Cardinality(Places(stack, x)) \in Nat
             /\ IsFiniteSet(Places(stack', x)) /\ Cardinality(Places(stack', x)) \in Nat
  BY <1>4, <1>5, PlacesFinite
<1>7. \A x : IsFiniteSet(HeldBy(x)) /\ Cardinality(HeldBy(x)) \in Nat
  BY HeldFinite
<1> HIDE DEF d
<1>8. ASSUME NEW x \in TxId
      PROVE  IF HeldBy(x)' # {} THEN Cardinality(Places(stack', x)) = Cardinality(HeldBy(x)')
                                ELSE Cardinality(Places(stack', x)) <= 1
  <2>1. CASE x # i
    <3>1. d \notin HeldBy(x)
      BY <1>0, <2>1 DEF HeldBy
    <3>2. HeldBy(x)' = HeldBy(x) /\ Cardinality(Places(stack', x)) = Cardinality(Places(stack, x))
      BY <2>1, <3>1, <1>2, <1>5
    <3> QED
      BY <3>2 DEF OnStack
  <2>2. CASE x = i
    <3>1. Cardinality(Places(stack', i)) = Cardinality(HeldBy(i)')
      BY <1>0, <1>1, <1>2, <1>5 DEF d
    <3>2. CASE IsStart(d)
      <4>1. HeldBy(i)' = {}
        BY <3>2, <1>1, <1>2
      <4>2. Cardinality(HeldBy(i)) = 1
        BY <3>2, <1>1, FS_Singleton
      <4> QED
        BY <2>2, <4>1, <4>2, <1>1, <1>5
    <3>3. CASE ~IsStart(d)
      BY <2>2, <3>1, <3>3, <1>1, <1>2
    <3> QED
      BY <3>2, <3>3
  <2> QED
    BY <2>1, <2>2
<1>9. ASSUME NEW x \in TxId, x # i PROVE Places(stack', x) = {} <=> Places(stack, x) = {}
  <2>1. Cardinality(Places(stack', x)) = Cardinality(Places(stack, x))
    BY <1>5, <1>9
  <2> QED
    BY <2>1, <1>6, FS_EmptySet
<1>10. ASSUME ~IsStart(d) PROVE Places(stack', i) # {}
  <2>1. HeldBy(i)' # {}
    BY <1>1, <1>2, <1>10
  <2>2. IsFiniteSet(HeldBy(i)')
    BY <1>2, <1>7, FS_RemoveElement
  <2>3. Cardinality(Places(stack', i)) = Cardinality(HeldBy(i)')
    BY <1>1, <1>8, <2>1
  <2>4. Cardinality(HeldBy(i)') # 0
    BY <2>1, <2>2, FS_EmptySet
  <2> QED
    BY <2>3, <2>4, FS_EmptySet
<1> QED
  BY <1>0, <1>5, <1>8, <1>9, <1>10 DEF OnStack, d

\* stop, at the end of the innermost block, whatever happened in it.
LEMMA StopKeeps ==
  ASSUME StackInv, Depth > 0, blocks[Depth].kind # "context", ~Waiting,
         Stop(blocks[Depth].of), at' \in {"run", "raise"},
         waits' \in Nat, UNCHANGED <<others, left>>
  PROVE  StackInv'
<1> USE DEF StackInv
<1> DEFINE d == Depth
           i == blocks[d].of
<1>1. /\ i \in TxId /\ tx[i].conn
      /\ IsStart(d) <=> Once(i)
  BY HeldByLast
<1>2. /\ blocks' = Front(blocks) /\ Pop(i)
      /\ IF Once(i) THEN conns' = conns - 1 /\ tx' = [tx EXCEPT ![i] = Fresh]
                    ELSE UNCHANGED <<conns, tx>>
  BY DEF Stop
<1>3. /\ blocks' \in Seq(Block) /\ Depth' = d - 1 /\ d \in Nat
      /\ \A j \in 1..(d - 1) : blocks'[j] = blocks[j]
  BY <1>2, BlocksPopped
<1>4. \A j \in 1..d : blocks[j] \in Block
  BY HeldFinite
<1>5. /\ IsStart(d) => tx'[i] = Fresh
      /\ ~IsStart(d) => tx' = tx
      /\ \A x \in TxId : x # i => tx'[x] = tx[x]
  BY <1>1, <1>2 DEF StackType
<1>6. ~Waiting'
  BY DEF Waiting
<1>7. \A x \in TxId : tx'[x].conn <=> tx[x].conn /\ ~(IsStart(d) /\ i = x)
  BY <1>1, <1>5 DEF Fresh
<1>8. Started'
  BY <1>2, <1>6, <1>7, StartedPopped
<1>9. /\ OnStack' /\ stack' \in Seq(TxId)
      /\ \A x \in TxId : x # i => (Places(stack', x) = {} <=> Places(stack, x) = {})
      /\ ~IsStart(d) => Places(stack', i) # {}
  BY <1>2, OnStackPopped
<1>10. Layered'
  BY <1>2, LayeredPopped
<1>11. Matching'
  <2>1. CASE ~left
    BY <2>1, <1>2, MatchingPopped
  <2> QED
    BY <2>1 DEF Matching
<1> HIDE DEF d, i
<1>12. Accounted' /\ conns' \in Nat /\ tx' \in [TxId -> [context : Attributes, conn : BOOLEAN]]
  <2>1. IsFiniteSet(Holders) /\ Cardinality(Holders) \in Nat
    BY TxIdFinite, FS_Subset, FS_CardinalityType DEF Holders
  <2>2. CASE IsStart(d)
    <3>1. Holders' = Holders \ {i} /\ i \in Holders
      BY <2>2, <1>1, <1>7 DEF Holders
    <3>2. Cardinality(Holders') = Cardinality(Holders) - 1 /\ Cardinality(Holders) # 0
      BY <2>1, <3>1, FS_RemoveElement, FS_EmptySet
    <3>3. conns' = conns - 1
      BY <2>2, <1>1, <1>2
    <3>4. Fresh \in [context : Attributes, conn : BOOLEAN]
      BY DEF Fresh, Attributes
    <3>5. tx' \in [TxId -> [context : Attributes, conn : BOOLEAN]]
      BY <2>2, <3>4, <1>1, <1>2 DEF StackType
    <3>6. conns' = Cardinality(Holders') + others'
      BY <2>1, <3>2, <3>3 DEF Accounted, StackType
    <3>7. conns' \in Nat
      BY <2>1, <3>2, <3>6 DEF StackType
    <3> QED
      BY <3>5, <3>6, <3>7 DEF Accounted
  <2>3. CASE ~IsStart(d)
    BY <2>3, <1>1, <1>2 DEF Accounted, Holders, StackType
  <2> QED
    BY <2>2, <2>3
<1>13. StackType'
  BY <1>3, <1>9, <1>12 DEF StackType
<1>14. Busy'
  BY <1>6 DEF Busy
<1>15. Attributed'
  <2>1. \A x \in TxId : tx'[x].conn => tx'[x].context # NoContext
    BY <1>5, <1>7 DEF Attributed
  <2>2. ASSUME NEW x \in TxId, Places(stack', x) = {} PROVE tx'[x] = Fresh
    BY <2>2, <1>5, <1>9 DEF Attributed
  <2>3. \A j \in 1..(d - 1) : blocks'[j].kind = "context" => blocks'[j].saved \in Context
    BY <1>3 DEF Attributed, d
  <2> QED
    BY <1>3, <2>1, <2>2, <2>3 DEF Attributed
<1>16. InContext'
  <2> SUFFICES ASSUME ~left
      PROVE  /\ \A j \in 1..Depth' : Innermost(j)' => tx'[blocks'[j].of].context = blocks'[j].set
             /\ \A x \in TxId : tx'[x].conn =>
                  \E j \in 1..Depth' : blocks'[j].of = x /\ Innermost(j)'
    BY DEF InContext
  <2>1. Innermost(d) /\ tx[i].context = blocks[d].set
    BY <1>3 DEF Innermost, InContext, Waiting, d, i
  <2>2. Layer(d)
    BY <1>3 DEF Layered, d
  <2>3. ASSUME NEW j \in 1..(d - 1), blocks[j].of # i
        PROVE  (Innermost(j)' <=> Innermost(j)) /\ blocks[j].of \in TxId
    <3>1. Innermost(j)' <=> \A m \in 1..(d - 1) : m > j => blocks[m].of # blocks[j].of
      BY <1>3 DEF Innermost
    <3>2. Innermost(j) <=> \A m \in 1..d : m > j => blocks[m].of # blocks[j].of
      BY DEF Innermost, d
    <3>3. \A m \in 1..d : m \in 1..(d - 1) \/ m = d
      BY <1>3
    <3>4. j \in 1..d
      BY <1>3
    <3> QED
      BY <2>3, <3>1, <3>2, <3>3, <3>4, <1>3, <1>4 DEF i, Block
  <2>4. ASSUME NEW j \in 1..(d - 1), Innermost(j)', blocks[j].of # i
        PROVE  tx'[blocks[j].of].context = blocks[j].set
    <3>1. j \in 1..d /\ Innermost(j) /\ blocks[j].of \in TxId
      BY <2>3, <2>4, <1>3
    <3>2. tx[blocks[j].of].context = blocks[j].set
      BY <3>1 DEF InContext, Waiting, d
    <3> QED
      BY <2>4, <3>1, <3>2, <1>5
  <2>5. ASSUME NEW x \in TxId, tx'[x].conn, x # i
        PROVE  \E j \in 1..(d - 1) : blocks[j].of = x /\ Innermost(j)'
    <3>1. PICK j \in 1..d : blocks[j].of = x /\ Innermost(j)
      BY <2>5, <1>7 DEF InContext, d
    <3>2. j \in 1..(d - 1)
      BY <2>5, <3>1, <1>3 DEF i
    <3> QED
      BY <2>3, <2>5, <3>1, <3>2
  <2>6. CASE IsStart(d)
    <3>1. \A j \in 1..(d - 1) : blocks[j].of # i
      BY <2>2, <2>6 DEF Layer, i
    <3>2. ~tx'[i].conn
      BY <2>6, <1>1, <1>7
    <3> QED
      BY <2>4, <2>5, <3>1, <3>2, <1>3
  <2>7. CASE ~IsStart(d)
    <3>1. blocks[d].kind = "current"
      BY <2>7, <1>3, <1>4 DEF IsStart, Block, d
    <3>2. PICK k \in 1..(d - 1) : /\ Before(k, d) /\ blocks[k].set = blocks[d].set
                                  /\ \A m \in (k + 1)..(d - 1) : blocks[m].of # blocks[d].of
      BY <2>2, <3>1 DEF Layer
    <3>3. blocks[k].of = i
      BY <3>2 DEF Before, i
    <3>4. \A j \in 1..(d - 1) : Innermost(j)' /\ blocks[j].of = i => j = k
      BY <3>2, <3>3, <1>3 DEF Innermost, i
    <3>5. Innermost(k)'
      BY <3>2, <3>3, <1>3 DEF Innermost, i
    <3>6. ASSUME NEW j \in 1..(d - 1), Innermost(j)', blocks[j].of = i
          PROVE  tx'[blocks[j].of].context = blocks[j].set
      BY <2>1, <2>7, <3>2, <3>4, <3>6, <1>5 DEF i
    <3> QED
      BY <2>4, <2>5, <3>3, <3>5, <3>6, <1>3
  <2> QED
    BY <2>6, <2>7
<1> QED
  BY <1>8, <1>9, <1>10, <1>11, <1>12, <1>13, <1>14, <1>15, <1>16

(* ------------------------------ the other blocks ----------------------------- *)
\* In a block the current transaction is the one of that block.
LEMMA CurrentIs ==
  ASSUME StackType, Matching, Started, Depth > 0, stack # <<>>
  PROVE  /\ Pushed = stack /\ Current = stack[Len(stack)] /\ Len(stack) \in 1..Len(stack)
         /\ Current \in TxId /\ Places(stack, Current) # {}
         /\ ~left => Current = blocks[Depth].of
<1>1. Len(stack) \in Nat \ {0} /\ Len(stack) \in 1..Len(stack)
  BY EmptySeq, LenProperties DEF StackType
<1>2. Pushed = stack /\ Current = stack[Len(stack)]
  BY DEF Pushed, Current, Last
<1>3. Current \in TxId
  BY <1>1, <1>2, ElementOfSeq DEF StackType
<1>4. Len(stack) \in Places(stack, Current)
  BY <1>1, <1>2, PlacesFinite DEF StackType
<1>5. Depth \in Nat
  BY HeldFinite
<1> QED
  BY <1>1, <1>2, <1>3, <1>4, <1>5 DEF Matching

LEMMA SetContextKeeps ==
  ASSUME StackInv, SetContext
  PROVE  StackInv'
<1> USE DEF StackInv
<1>0. PICK d : d = Depth
  OBVIOUS
<1>1. /\ at = "run" /\ blocks # <<>> /\ tx[Current].context # NoContext
      /\ UNCHANGED <<conns, others, stack, at, waits, left>>
  BY  DEF SetContext, Inside, Ready
<1>2. d \in Nat \ {0} /\ \A j \in 1..d : blocks[j] \in Block
  <2>1. Len(blocks) \in Nat \ {0}
    BY <1>1, LenProperties, EmptySeq DEF StackType
  <2> QED
    BY <1>0, <2>1, HeldFinite DEF Depth
<1>3. stack # <<>>
  <2> SUFFICES ASSUME stack = <<>> PROVE FALSE
    OBVIOUS
  <2>1. 1 \in TxId
    BY StackAssumption DEF TxId
  <2>2. \A x : Places(stack, x) = {}
    BY  DEF Places
  <2>3. Current = 1
    BY  DEF Current, Pushed, Last
  <2>4. tx[1] = Fresh
    BY <2>1, <2>2 DEF Attributed
  <2> QED
    BY <1>1, <2>3, <2>4 DEF Fresh
<1>4. PICK i : i = Current
  OBVIOUS
<1>5. i \in TxId /\ Places(stack, i) # {} /\ (~left => i = blocks[d].of)
  BY <1>0, <1>2, <1>3, <1>4, CurrentIs
<1>6. PICK c \in Context : tx' = [tx EXCEPT ![i].context = c] /\ blocks' = Enter("context", i, c)
  BY <1>4 DEF SetContext
<1> DEFINE b == [kind |-> "context", of |-> i, saved |-> tx[i].context, set |-> c]
<1>7. tx[i] \in [context : Attributes, conn : BOOLEAN] /\ tx[i].context \in Context
  BY <1>1, <1>4, <1>5 DEF StackType, Attributes
<1>8. /\ b \in Block /\ blocks' = Append(blocks, b)
      /\ b.kind = "context" /\ b.of = i /\ b.saved = tx[i].context /\ b.set = c
  BY <1>5, <1>6, <1>7 DEF Enter, Block, Attributes
<1>9. /\ blocks' \in Seq(Block) /\ Depth' = d + 1
      /\ \A j \in 1..d : blocks'[j] = blocks[j]
      /\ blocks'[d + 1] = b
  BY <1>0, <1>8, BlocksPushed
<1>10. /\ \A n \in 0..d : Held(n)' = Held(n)
       /\ Cardinality(Held(Depth)') = Cardinality(Held(d))
       /\ \A x : HeldBy(x)' = HeldBy(x) /\ Cardinality(HeldBy(x)') = Cardinality(HeldBy(x))
  BY <1>0, <1>8, BlocksPushed
<1>11. /\ tx'[i].context = c /\ tx'[i].conn = tx[i].conn
       /\ \A x \in TxId : x # i => tx'[x] = tx[x]
       /\ tx' \in [TxId -> [context : Attributes, conn : BOOLEAN]]
  <2>1. [tx[i] EXCEPT !.context = c] \in [context : Attributes, conn : BOOLEAN]
    BY <1>7 DEF Attributes
  <2>2. tx' = [tx EXCEPT ![i] = [tx[i] EXCEPT !.context = c]]
    BY <1>6
  <2> QED
    BY <1>5, <1>7, <2>1, <2>2 DEF StackType
<1> HIDE DEF b
<1>12. StackType' /\ Busy'
  BY <1>1, <1>9, <1>11 DEF StackType, Busy, Waiting
<1>13. ~Waiting /\ ~Waiting'
  BY <1>1 DEF Waiting
<1>14. \A j \in 1..d : IsStart(j)' <=> IsStart(j)
  BY <1>9 DEF IsStart
<1>15. ~IsStart(d + 1)' /\ \A j \in 1..Depth' : j \in 1..d \/ j = d + 1
  BY <1>2, <1>8, <1>9 DEF IsStart
<1>16. \A x \in TxId : tx'[x].conn <=> tx[x].conn
  BY <1>11
<1>17. Started'
  <2>1. \A j \in 1..Depth' : IsStart(j)' => tx'[blocks'[j].of].conn
    <3> SUFFICES ASSUME NEW j \in 1..d, IsStart(j) PROVE tx'[blocks[j].of].conn
      BY <1>9, <1>14, <1>15
    <3>1. blocks[j].of \in TxId /\ tx[blocks[j].of].conn
      BY <1>0, <1>2, <1>13 DEF Started, Block
    <3> QED
      BY <3>1, <1>16
  <2>2. ASSUME NEW x \in TxId, tx'[x].conn PROVE \E j \in 1..Depth' : IsStart(j)' /\ blocks'[j].of = x
    <3>1. PICK j \in 1..d : IsStart(j) /\ blocks[j].of = x
      BY <1>0, <2>2, <1>16 DEF Started
    <3> QED
      BY <3>1, <1>2, <1>9, <1>14
  <2>3. \A j, k \in 1..Depth' :
          IsStart(j)' /\ IsStart(k)' /\ blocks'[j].of = blocks'[k].of => j = k
    <3>1. \A j, k \in 1..d : IsStart(j) /\ IsStart(k) /\ blocks[j].of = blocks[k].of => j = k
      BY <1>0 DEF Started
    <3> QED
      BY <3>1, <1>9, <1>14, <1>15
  <2>4. ASSUME NEW j \in 1..Depth', blocks'[j].kind = "current"
        PROVE  \E k \in 1..(j - 1) : IsStart(k)' /\ blocks'[k].of = blocks'[j].of
    <3>1. j \in 1..d /\ blocks[j].kind = "current"
      BY <2>4, <1>8, <1>9, <1>15
    <3>2. PICK k \in 1..(j - 1) : IsStart(k) /\ blocks[k].of = blocks[j].of
      BY <1>0, <3>1 DEF Started
    <3>3. k \in 1..d
      BY <3>1, <1>2
    <3> QED
      BY <3>1, <3>2, <3>3, <1>9, <1>14
  <2>5. IsStart(1)'
    BY <1>0, <1>2, <1>14 DEF Started
  <2> QED
    BY <2>1, <2>2, <2>3, <2>4, <2>5 DEF Started
<1>18. OnStack'
  BY <1>1, <1>10 DEF OnStack
<1>19. Attributed'
  <2>1. \A x \in TxId : tx'[x].conn => tx'[x].context # NoContext
    BY <1>11, StackAssumption DEF Attributed
  <2>2. \A x \in TxId : Places(stack, x) = {} => tx'[x] = Fresh
    BY <1>5, <1>11 DEF Attributed
  <2>3. \A j \in 1..Depth' : blocks'[j].kind = "context" => blocks'[j].saved \in Context
    BY <1>0, <1>7, <1>8, <1>9, <1>15 DEF Attributed
  <2> QED
    BY <1>1, <2>1, <2>2, <2>3 DEF Attributed
<1>20. Accounted'
  <2>1. Holders' = Holders
    BY <1>16 DEF Holders
  <2> QED
    BY <1>1, <2>1 DEF Accounted
<1>21. ~left => Innermost(d) /\ tx[i].context = blocks[d].set
  BY <1>0, <1>2, <1>5, <1>13 DEF InContext, Innermost
<1>22. Layered'
  <2> SUFFICES ASSUME ~left, NEW j \in 1..Depth' PROVE Layer(j)'
    BY <1>1 DEF Layered
  <2>1. CASE j \in 1..d
    <3>1. Layer(j) /\ j \in Nat \ {0} /\ \A k \in 1..j : blocks'[k] = blocks[k]
      BY <1>0, <2>1, <1>2, <1>9 DEF Layered
    <3> QED
      BY <3>1, LayerKept
  <2>2. CASE j = d + 1
    <3>1. blocks'[d].of = i /\ d \in 1..(j - 1) /\ j - 1 = d
      BY <2>2, <1>2, <1>5, <1>9
    <3>2. \E k \in 1..(j - 1) : Before(k, j)' /\ IsStart(k)'
      <4>1. PICK k \in 1..d : blocks[k].of = i /\ IsStart(k)
        <5>1. CASE IsStart(d)
          BY <5>1, <1>2, <1>5
        <5>2. CASE ~IsStart(d)
          <6>1. \E k \in 1..(d - 1) : Before(k, d) /\ IsStart(k)
            BY <1>0, <5>2, <1>2 DEF Layered, Layer
          <6> QED
            BY <6>1, <1>2, <1>5 DEF Before
        <5> QED
          BY <5>1, <5>2
      <4>2. Before(k, j)' /\ IsStart(k)'
        <5>1. blocks'[k].of = i /\ blocks'[j].of = i /\ k \in 1..(j - 1)
          <6>1. blocks'[k].of = i
            BY <4>1, <1>9
          <6>2. blocks'[j].of = i
            BY <2>2, <1>8, <1>9
          <6>3. k \in 1..(j - 1)
            BY <2>2, <1>2
          <6> QED
            BY <6>1, <6>2, <6>3
        <5>2. IsStart(k)'
          BY <4>1, <1>14
        <5> QED
          BY <5>1, <5>2 DEF Before
      <4> QED
        BY <2>2, <4>1, <4>2, <1>2
    <3>3. Before(j - 1, j)' /\ blocks'[j - 1].set = blocks'[j].saved
      BY <2>2, <3>1, <1>2, <1>8, <1>9, <1>21 DEF Before
    <3>4. ~IsStart(j)' /\ blocks'[j].kind = "context"
      BY <2>2, <1>8, <1>9, <1>15
    <3> QED
      BY <3>2, <3>3, <3>4 DEF Layer
  <2> QED
    BY <2>1, <2>2, <1>15
<1>23. Matching'
  <2> SUFFICES ASSUME ~left
      PROVE  /\ Len(stack) = Cardinality(Held(Depth)')
             /\ \A j \in 1..Depth' : stack[Cardinality(Held(j)')] = blocks'[j].of
    BY <1>1 DEF Matching
  <2>1. \A j \in 1..d : stack[Cardinality(Held(j)')] = blocks'[j].of
    BY <1>0, <1>9, <1>10 DEF Matching
  <2>2. Len(stack) = Cardinality(Held(Depth)')
    BY <1>0, <1>10 DEF Matching
  <2>3. ASSUME NEW j \in 1..Depth', j = d + 1 PROVE stack[Cardinality(Held(j)')] = blocks'[j].of
    <3>1. Held(j)' = Held(Depth)'
      BY <2>3, <1>9 DEF Held
    <3>2. i = stack[Len(stack)]
      BY <1>0, <1>2, <1>3, <1>4, CurrentIs
    <3> QED
      BY <2>2, <2>3, <3>1, <3>2, <1>8, <1>9
  <2> QED
    BY <2>1, <2>2, <2>3, <1>15
<1>24. InContext'
  <2> SUFFICES ASSUME ~left
      PROVE  /\ \A j \in 1..Depth' : Innermost(j)' => tx'[blocks'[j].of].context = blocks'[j].set
             /\ \A x \in TxId : tx'[x].conn =>
                  \E j \in 1..Depth' : blocks'[j].of = x /\ Innermost(j)'
    BY <1>1 DEF InContext
  <2>1. ASSUME NEW j \in 1..Depth', Innermost(j)' PROVE tx'[blocks'[j].of].context = blocks'[j].set
    <3>1. CASE j = d + 1
      BY <3>1, <1>8, <1>9, <1>11
    <3>2. CASE j \in 1..d
      <4>1. blocks[j].of # i /\ Innermost(j) /\ blocks[j].of \in TxId
        <5>1. \A m \in 1..(d + 1) : m > j => blocks'[m].of # blocks'[j].of
          BY <2>1, <1>9 DEF Innermost
        <5>2. d + 1 \in 1..(d + 1) /\ d + 1 > j /\ \A m \in 1..d : m \in 1..(d + 1)
          BY <3>2, <1>2
        <5>3. blocks[j].of # i
          BY <3>2, <5>1, <5>2, <1>8, <1>9
        <5>4. \A m \in 1..d : m > j => blocks[m].of # blocks[j].of
          BY <3>2, <5>1, <5>2, <1>9
        <5>5. Innermost(j)
          BY <1>0, <5>4 DEF Innermost
        <5> QED
          BY <3>2, <5>3, <5>5, <1>2 DEF Block
      <4> QED
        BY <1>0, <3>2, <4>1, <1>9, <1>11, <1>13 DEF InContext
    <3> QED
      BY <3>1, <3>2, <1>15
  <2>2. ASSUME NEW x \in TxId, tx'[x].conn
        PROVE  \E j \in 1..Depth' : blocks'[j].of = x /\ Innermost(j)'
    <3>1. CASE x = i
      <4>1. d + 1 \in 1..Depth' /\ Innermost(d + 1)'
        BY <1>2, <1>9 DEF Innermost
      <4> QED
        BY <3>1, <4>1, <1>8, <1>9
    <3>2. CASE x # i
      <4>1. PICK j \in 1..d : blocks[j].of = x /\ Innermost(j)
        BY <1>0, <2>2, <1>16 DEF InContext
      <4>2. Innermost(j)'
        BY <1>0, <3>2, <4>1, <1>8, <1>9, <1>15 DEF Innermost
      <4> QED
        BY <4>1, <4>2, <1>2, <1>9
    <3> QED
      BY <3>1, <3>2
  <2> QED
    BY <2>1, <2>2
<1> QED
  BY <1>12, <1>17, <1>18, <1>19, <1>20, <1>22, <1>23, <1>24

LEMMA ExitContextKeeps ==
  ASSUME StackInv, ExitContext
  PROVE  StackInv'
<1> USE DEF StackInv
<1>0. PICK d : d = Depth
  OBVIOUS
<1>1. /\ at \in {"run", "raise"} /\ blocks # <<>> /\ blocks[d].kind = "context"
      /\ tx' = [tx EXCEPT ![Current].context = blocks[d].saved]
      /\ stack' = Pushed /\ blocks' = Front(blocks)
      /\ UNCHANGED <<conns, others, at, waits, left>>
  BY <1>0 DEF ExitContext, Leaving, Last, Depth
<1>2. d \in Nat \ {0} /\ \A j \in 1..d : blocks[j] \in Block
  <2>1. Len(blocks) \in Nat \ {0}
    BY <1>1, LenProperties, EmptySeq DEF StackType
  <2> QED
    BY <1>0, <2>1, HeldFinite DEF Depth
<1>3. ~Waiting /\ ~Waiting' /\ ~IsStart(d)
  BY <1>1 DEF Waiting, IsStart
<1>4. stack # <<>>
  <2>1. blocks[1].of \in TxId /\ tx[blocks[1].of].conn
    <3>1. 1 \in 1..d /\ IsStart(1)
      BY <1>0, <1>2 DEF Started
    <3> QED
      BY <1>0, <1>2, <1>3, <3>1 DEF Started, Block
  <2>2. Places(stack, blocks[1].of) # {}
    BY <2>1 DEF Attributed, Fresh
  <2> QED
    BY <2>2 DEF Places
<1>5. PICK i : i = Current
  OBVIOUS
<1>6. /\ i \in TxId /\ Places(stack, i) # {} /\ (~left => i = blocks[d].of)
      /\ stack' = stack
  BY <1>0, <1>1, <1>2, <1>4, <1>5, CurrentIs
<1>7. PICK c : c = blocks[d].saved
  OBVIOUS
<1>8. c \in Context
  <2>1. d \in 1..d
    BY <1>2
  <2> QED
    BY <1>0, <1>1, <1>7, <2>1 DEF Attributed
<1>9. /\ tx'[i].context = c /\ tx'[i].conn = tx[i].conn
      /\ \A x \in TxId : x # i => tx'[x] = tx[x]
      /\ tx' \in [TxId -> [context : Attributes, conn : BOOLEAN]]
  <2>1. tx[i] \in [context : Attributes, conn : BOOLEAN]
    BY <1>6 DEF StackType
  <2>2. [tx[i] EXCEPT !.context = c] \in [context : Attributes, conn : BOOLEAN]
    BY <1>8, <2>1 DEF Attributes
  <2>3. tx' = [tx EXCEPT ![i] = [tx[i] EXCEPT !.context = c]]
    BY <1>1, <1>5, <1>7
  <2> QED
    BY <1>6, <2>1, <2>2, <2>3 DEF StackType
<1>10. /\ blocks' \in Seq(Block) /\ Depth' = d - 1
       /\ \A j \in 1..(d - 1) : blocks'[j] = blocks[j]
       /\ \A n \in 0..(d - 1) : Held(n)' = Held(n)
       /\ Cardinality(Held(d - 1)) = Cardinality(Held(d))
       /\ \A x : HeldBy(x)' = HeldBy(x) \ {d}
  BY <1>0, <1>1, <1>2, BlocksPopped
<1>11. \A x : HeldBy(x)' = HeldBy(x)
  <2>1. \A x : d \notin HeldBy(x)
    BY <1>1 DEF HeldBy
  <2> QED
    BY <2>1, <1>10
<1>12. StackType' /\ Busy'
  BY <1>1, <1>3, <1>6, <1>9, <1>10 DEF StackType, Busy, Waiting
<1>13. \A x \in TxId : tx'[x].conn <=> tx[x].conn
  BY <1>9
<1>14. Started'
  BY <1>0, <1>1, <1>2, <1>3, <1>13, StartedPopped
<1>15. OnStack'
  BY <1>6, <1>11 DEF OnStack
<1>16. Attributed'
  <2>1. \A x \in TxId : tx'[x].conn => tx'[x].context # NoContext
    BY <1>8, <1>9, StackAssumption DEF Attributed
  <2>2. \A x \in TxId : Places(stack, x) = {} => tx'[x] = Fresh
    BY <1>6, <1>9 DEF Attributed
  <2>3. \A j \in 1..(d - 1) : blocks'[j].kind = "context" => blocks'[j].saved \in Context
    BY <1>0, <1>2, <1>10 DEF Attributed
  <2> QED
    BY <1>6, <1>10, <2>1, <2>2, <2>3 DEF Attributed
<1>17. Accounted'
  <2>1. Holders' = Holders
    BY <1>13 DEF Holders
  <2> QED
    BY <1>1, <2>1 DEF Accounted
<1>18. Layered'
  BY <1>0, <1>1, <1>2, LayeredPopped
<1>19. Matching'
  <2> SUFFICES ASSUME ~left
      PROVE  /\ Len(stack) = Cardinality(Held(Depth)')
             /\ \A j \in 1..(d - 1) : stack[Cardinality(Held(j)')] = blocks'[j].of
    BY <1>1, <1>6, <1>10 DEF Matching
  <2>1. \A j \in 1..(d - 1) : stack[Cardinality(Held(j)')] = blocks'[j].of
    BY <1>0, <1>2, <1>10 DEF Matching
  <2>2. Held(Depth)' = Held(d - 1)
    BY <1>10 DEF Held
  <2>3. Len(stack) = Cardinality(Held(Depth)')
    BY <1>0, <2>2, <1>10 DEF Matching
  <2> QED
    BY <2>1, <2>3
<1>20. InContext'
  <2> SUFFICES ASSUME ~left
      PROVE  /\ \A j \in 1..(d - 1) : Innermost(j)' => tx'[blocks'[j].of].context = blocks'[j].set
             /\ \A x \in TxId : tx'[x].conn =>
                  \E j \in 1..(d - 1) : blocks'[j].of = x /\ Innermost(j)'
    BY <1>1, <1>10 DEF InContext
  <2>1. d - 1 \in 1..(d - 1) /\ blocks[d - 1].of = i /\ blocks[d - 1].set = c
    <3>1. Layer(d)
      BY <1>0, <1>2 DEF Layered
    <3> QED
      BY <3>1, <1>1, <1>2, <1>6, <1>7 DEF Layer, Before
  <2>2. Innermost(d - 1)'
    BY <1>2, <1>10 DEF Innermost
  <2>3. ASSUME NEW j \in 1..(d - 1), blocks[j].of # i
        PROVE  (Innermost(j)' <=> Innermost(j)) /\ blocks[j].of \in TxId /\ j \in 1..d
    <3>1. Innermost(j)' <=> \A m \in 1..(d - 1) : m > j => blocks[m].of # blocks[j].of
      BY <1>10 DEF Innermost
    <3>2. Innermost(j) <=> \A m \in 1..d : m > j => blocks[m].of # blocks[j].of
      BY <1>0 DEF Innermost
    <3>3. \A m \in 1..d : m \in 1..(d - 1) \/ m = d
      BY <1>2
    <3>4. j \in 1..d /\ blocks[d].of = i
      BY <1>2, <1>6
    <3> QED
      BY <2>3, <3>1, <3>2, <3>3, <3>4, <1>2 DEF Block
  <2>4. ASSUME NEW j \in 1..(d - 1), Innermost(j)' PROVE tx'[blocks'[j].of].context = blocks'[j].set
    <3>1. CASE blocks[j].of = i
      <4>1. j = d - 1
        BY <2>1, <2>4, <3>1, <1>2, <1>10 DEF Innermost
      <4> QED
        BY <2>1, <4>1, <1>9, <1>10
    <3>2. CASE blocks[j].of # i
      <4>1. Innermost(j) /\ blocks[j].of \in TxId /\ j \in 1..d
        BY <2>3, <2>4, <3>2
      <4>2. tx[blocks[j].of].context = blocks[j].set
        BY <1>0, <4>1, <1>3 DEF InContext
      <4> QED
        BY <3>2, <4>1, <4>2, <1>9, <1>10
    <3> QED
      BY <3>1, <3>2
  <2>5. ASSUME NEW x \in TxId, tx'[x].conn
        PROVE  \E j \in 1..(d - 1) : blocks'[j].of = x /\ Innermost(j)'
    <3>1. CASE x = i
      BY <2>1, <2>2, <3>1, <1>10
    <3>2. CASE x # i
      <4>1. PICK j \in 1..d : blocks[j].of = x /\ Innermost(j)
        BY <1>0, <2>5, <1>13 DEF InContext
      <4>2. j \in 1..(d - 1)
        BY <3>2, <4>1, <1>2, <1>6
      <4> QED
        BY <2>3, <3>2, <4>1, <4>2, <1>10
    <3> QED
      BY <3>1, <3>2
  <2> QED
    BY <2>4, <2>5
<1> QED
  BY <1>12, <1>14, <1>15, <1>16, <1>17, <1>18, <1>19, <1>20

LEMMA SetCurrentKeeps ==
  ASSUME StackInv, SetCurrent
  PROVE  StackInv'
<1> USE DEF StackInv
<1>0. PICK d : d = Depth
  OBVIOUS
<1>1. at = "run" /\ blocks # <<>> /\ UNCHANGED <<conns, others, tx, at, waits, left>>
  BY DEF SetCurrent, Inside, Ready
<1>2. d \in Nat /\ \A j \in 1..d : blocks[j] \in Block
  BY <1>0, HeldFinite
<1>3. PICK i \in {x \in ToSet(stack) : tx[x].conn} :
        stack' = Append(stack, i) /\ blocks' = Enter("current", i, tx[i].context)
  BY DEF SetCurrent
<1>4. i \in TxId /\ tx[i].conn
  <2>1. i \in ToSet(stack) /\ stack \in Seq(TxId)
    BY DEF StackType
  <2>2. \E k \in 1..Len(stack) : i = stack[k]
    BY <2>1, LenProperties DEF ToSet
  <2> QED
    BY <2>1, <2>2, ElementOfSeq
<1> DEFINE b == [kind |-> "current", of |-> i, saved |-> tx[i].context, set |-> tx[i].context]
<1>5. tx[i].context \in Context
  <2>1. tx[i] \in [context : Attributes, conn : BOOLEAN] /\ tx[i].context # NoContext
    BY <1>4 DEF StackType, Attributed
  <2> QED
    BY <2>1 DEF Attributes
<1>6. /\ b \in Block /\ blocks' = Append(blocks, b) /\ stack' = Append(stack, b.of)
      /\ b.kind = "current" /\ b.of = i /\ b.set = tx[i].context
  BY <1>3, <1>4, <1>5 DEF Enter, Block, Attributes
<1>7. /\ blocks' \in Seq(Block) /\ Depth' = d + 1
      /\ \A j \in 1..d : blocks'[j] = blocks[j]
      /\ blocks'[d + 1] = b
  BY <1>0, <1>6, BlocksPushed
<1>8. \A x : /\ HeldBy(x)' = IF i = x THEN HeldBy(x) \cup {d + 1} ELSE HeldBy(x)
             /\ Cardinality(HeldBy(x)') =
                  IF i = x THEN Cardinality(HeldBy(x)) + 1 ELSE Cardinality(HeldBy(x))
  BY <1>0, <1>6, BlocksPushed
<1> HIDE DEF b
<1>9. ~Waiting /\ ~Waiting'
  BY <1>1 DEF Waiting
<1>10. StackType' /\ Busy'
  <2>1. stack' \in Seq(TxId)
    BY <1>3, <1>4, AppendIs DEF StackType
  <2> QED
    BY <1>1, <1>7, <2>1 DEF StackType, Busy, Waiting
<1>11. \A j \in 1..d : IsStart(j)' <=> IsStart(j)
  BY <1>7 DEF IsStart
<1>12. ~IsStart(d + 1)' /\ \A j \in 1..Depth' : j \in 1..d \/ j = d + 1
  <2>1. blocks'[d + 1].kind # "start"
    BY <1>6, <1>7
  <2>2. ~IsStart(d + 1)'
    <3>1. PICK n : n = d + 1
      OBVIOUS
    <3> QED
      BY <2>1, <3>1 DEF IsStart
  <2> QED
    BY <1>2, <1>7, <2>2
<1>13. PICK s \in 1..d : IsStart(s) /\ blocks[s].of = i
  BY <1>0, <1>4 DEF Started
<1>14. Started'
  <2>1. \A j \in 1..Depth' : IsStart(j)' => tx'[blocks'[j].of].conn
    <3> SUFFICES ASSUME NEW j \in 1..d, IsStart(j) PROVE tx[blocks[j].of].conn
      BY <1>1, <1>7, <1>11, <1>12
    <3> QED
      BY <1>0, <1>9 DEF Started
  <2>2. ASSUME NEW x \in TxId, tx'[x].conn PROVE \E j \in 1..Depth' : IsStart(j)' /\ blocks'[j].of = x
    <3>1. PICK j \in 1..d : IsStart(j) /\ blocks[j].of = x
      BY <1>0, <1>1, <2>2 DEF Started
    <3>2. IsStart(j)'
      BY <1>11, <3>1
    <3>3. blocks'[j].of = x
      BY <1>7, <3>1
    <3>4. j \in 1..Depth'
      BY <1>2, <1>7
    <3> QED
      BY <3>2, <3>3, <3>4
  <2>3. \A j, k \in 1..Depth' :
          IsStart(j)' /\ IsStart(k)' /\ blocks'[j].of = blocks'[k].of => j = k
    <3>1. \A j, k \in 1..d : IsStart(j) /\ IsStart(k) /\ blocks[j].of = blocks[k].of => j = k
      BY <1>0 DEF Started
    <3> QED
      BY <3>1, <1>7, <1>11, <1>12
  <2>4. ASSUME NEW j \in 1..Depth', blocks'[j].kind = "current"
        PROVE  \E k \in 1..(j - 1) : IsStart(k)' /\ blocks'[k].of = blocks'[j].of
    <3>1. CASE j \in 1..d
      <4>1. blocks[j].kind = "current"
        BY <2>4, <3>1, <1>7
      <4>2. PICK k \in 1..(j - 1) : IsStart(k) /\ blocks[k].of = blocks[j].of
        BY <1>0, <3>1, <4>1 DEF Started
      <4>3. k \in 1..d
        BY <3>1, <1>2
      <4> QED
        BY <3>1, <4>2, <4>3, <1>7, <1>11
    <3>2. CASE j = d + 1
      <4>1. IsStart(s)' /\ blocks'[s].of = i /\ s \in 1..(j - 1)
        BY <3>2, <1>2, <1>7, <1>11, <1>13
      <4>2. blocks'[j].of = i
        BY <3>2, <1>6, <1>7
      <4> QED
        BY <4>1, <4>2
    <3> QED
      BY <3>1, <3>2, <1>12
  <2>5. IsStart(1)'
    <3>1. 1 \in 1..d /\ IsStart(1)
      BY <1>0, <1>2, <1>13 DEF Started
    <3> QED
      BY <3>1, <1>11
  <2> QED
    BY <2>1, <2>2, <2>3, <2>4, <2>5 DEF Started
<1>15. OnStack'
  <2> SUFFICES ASSUME NEW x \in TxId
               PROVE  IF HeldBy(x)' # {} THEN Cardinality(Places(stack', x)) = Cardinality(HeldBy(x)')
                                         ELSE Cardinality(Places(stack', x)) <= 1
    BY DEF OnStack
  <2>1. Cardinality(Places(stack', x)) =
          IF i = x THEN Cardinality(Places(stack, x)) + 1 ELSE Cardinality(Places(stack, x))
    <3>1. stack \in Seq(TxId)
      BY DEF StackType
    <3>2. \A e, y \in TxId : Cardinality(Places(Append(stack, e), y)) =
            IF e = y THEN Cardinality(Places(stack, y)) + 1 ELSE Cardinality(Places(stack, y))
      BY <3>1, PlacesAppend
    <3> QED
      BY <1>3, <1>4, <3>2
  <2>2. CASE i = x
    <3>1. s \in HeldBy(x)
      BY <1>0, <1>13, <2>2 DEF HeldBy, IsStart
    <3>2. Cardinality(Places(stack, x)) = Cardinality(HeldBy(x)) /\ HeldBy(x)' # {}
      BY <2>2, <3>1, <1>8 DEF OnStack
    <3> QED
      BY <2>1, <2>2, <3>2, <1>8
  <2>3. CASE i # x
    BY <2>1, <2>3, <1>8 DEF OnStack
  <2> QED
    BY <2>2, <2>3
<1>16. Attributed'
  <2>1. ASSUME NEW x \in TxId, Places(stack', x) = {} PROVE tx[x] = Fresh
    <3>0. stack \in Seq(TxId)
      BY DEF StackType
    <3>a. \A t \in Seq(TxId) : \A e \in TxId : \A y :
            Places(Append(t, e), y) =
              IF e = y THEN Places(t, y) \cup {Len(t) + 1} ELSE Places(t, y)
      BY PlacesAppend
    <3>1. \A e, y \in TxId : Places(Append(stack, e), y) =
            IF e = y THEN Places(stack, y) \cup {Len(stack) + 1} ELSE Places(stack, y)
      BY <3>0, <3>a
    <3>2. Places(stack, x) = {}
      BY <1>3, <1>4, <2>1, <3>1
    <3> QED
      BY <3>2 DEF Attributed
  <2>2. \A j \in 1..Depth' : blocks'[j].kind = "context" => blocks'[j].saved \in Context
    <3>1. \A j \in 1..d : blocks[j].kind = "context" => blocks[j].saved \in Context
      BY <1>0 DEF Attributed
    <3>2. blocks'[d + 1].kind # "context"
      BY <1>6, <1>7
    <3>3. \A j \in 1..d : blocks'[j] = blocks[j]
      BY <1>7
    <3> QED
      BY <1>12, <3>1, <3>2, <3>3
  <2> QED
    BY <1>1, <2>1, <2>2 DEF Attributed
<1>17. Accounted'
  BY <1>1 DEF Accounted, Holders
<1>18. Layered'
  <2> SUFFICES ASSUME ~left, NEW j \in 1..Depth' PROVE Layer(j)'
    BY <1>1 DEF Layered
  <2>1. CASE j \in 1..d
    <3>1. Layer(j) /\ j \in Nat \ {0} /\ \A k \in 1..j : blocks'[k] = blocks[k]
      BY <1>0, <2>1, <1>2, <1>7 DEF Layered
    <3> QED
      BY <3>1, LayerKept
  <2>2. CASE j = d + 1
    <3>1. ~IsStart(j)' /\ blocks'[j] = b /\ blocks'[j].kind = "current" /\ blocks'[j].of = i
      BY <2>2, <1>6, <1>7, <1>12
    <3>2. s \in 1..(j - 1) /\ blocks'[s].of = i /\ IsStart(s)'
      BY <2>2, <1>2, <1>7, <1>11, <1>13
    <3>3. Before(s, j)'
      BY <3>1, <3>2 DEF Before
    <3>4. PICK k \in 1..d : blocks[k].of = i /\ Innermost(k)
      BY <1>0, <1>4 DEF InContext
    <3>5. blocks[k].set = tx[i].context
      BY <1>0, <1>9, <3>4 DEF InContext
    <3>6. k \in 1..(j - 1) /\ blocks'[k].of = i /\ blocks'[k].set = blocks'[j].set
      <4>1. k \in 1..(j - 1)
        BY <2>2, <1>2
      <4>2. blocks'[k] = blocks[k]
        BY <1>7
      <4> QED
        BY <3>1, <3>4, <3>5, <4>1, <4>2, <1>6
    <3>7. Before(k, j)'
      BY <3>1, <3>6 DEF Before
    <3>8. \A m \in (k + 1)..(j - 1) : blocks'[m].of # blocks'[j].of
      <4>1. \A m \in (k + 1)..(j - 1) : m \in 1..d /\ m > k
        BY <2>2, <3>4, <1>2
      <4> QED
        BY <1>0, <3>1, <3>4, <4>1, <1>7 DEF Innermost
    <3>9. blocks'[j].kind # "context"
      BY <3>1
    <3> QED
      BY <3>1, <3>2, <3>3, <3>6, <3>7, <3>8, <3>9 DEF Layer
  <2> QED
    BY <2>1, <2>2, <1>12
<1>19. Matching'
  <2>1. CASE ~left
    BY <2>1, <1>6, MatchingPushed
  <2> QED
    BY <2>1, <1>1 DEF Matching
<1>20. InContext'
  <2> SUFFICES ASSUME ~left
      PROVE  /\ \A j \in 1..Depth' : Innermost(j)' => tx[blocks'[j].of].context = blocks'[j].set
             /\ \A x \in TxId : tx[x].conn =>
                  \E j \in 1..Depth' : blocks'[j].of = x /\ Innermost(j)'
    BY <1>1 DEF InContext
  <2>1. ASSUME NEW j \in 1..Depth', Innermost(j)' PROVE tx[blocks'[j].of].context = blocks'[j].set
    <3>1. CASE j = d + 1
      BY <3>1, <1>6, <1>7
    <3>2. CASE j \in 1..d
      <4>1. \A m \in 1..(d + 1) : m > j => blocks'[m].of # blocks'[j].of
        BY <2>1, <1>7 DEF Innermost
      <4>2. \A m \in 1..d : m > j => blocks[m].of # blocks[j].of
        BY <3>2, <4>1, <1>2, <1>7
      <4>3. Innermost(j)
        BY <1>0, <4>2 DEF Innermost
      <4> QED
        BY <1>0, <3>2, <4>3, <1>7, <1>9 DEF InContext
    <3> QED
      BY <3>1, <3>2, <1>12
  <2>2. ASSUME NEW x \in TxId, tx[x].conn
        PROVE  \E j \in 1..Depth' : blocks'[j].of = x /\ Innermost(j)'
    <3>1. CASE x = i
      <4>1. PICK n : n = d + 1
        OBVIOUS
      <4>2. n \in 1..Depth' /\ \A m \in 1..Depth' : ~(m > n)
        BY <4>1, <1>2, <1>7
      <4>3. Innermost(n)'
        BY <4>2 DEF Innermost
      <4> QED
        BY <3>1, <4>1, <4>2, <4>3, <1>6, <1>7
    <3>2. CASE x # i
      <4>1. PICK j \in 1..d : blocks[j].of = x /\ Innermost(j)
        BY <1>0, <2>2 DEF InContext
      <4>2. \A m \in 1..Depth' : m > j => blocks'[m].of # x
        BY <1>0, <3>2, <4>1, <1>6, <1>7, <1>12 DEF Innermost
      <4>3. j \in 1..Depth' /\ blocks'[j].of = x
        BY <4>1, <1>2, <1>7
      <4>4. Innermost(j)'
        BY <4>2, <4>3 DEF Innermost
      <4> QED
        BY <4>3, <4>4
    <3> QED
      BY <3>1, <3>2
  <2> QED
    BY <2>1, <2>2
<1> QED
  BY <1>10, <1>14, <1>15, <1>16, <1>17, <1>18, <1>19, <1>20

(* --------------------------------- theorems --------------------------------- *)
LEMMA StackInitInv == StackInit => StackInv
<1> SUFFICES ASSUME StackInit PROVE StackInv
  OBVIOUS
<1>1. Depth = 0 /\ Len(stack) = 0 /\ stack = <<>> /\ blocks = <<>>
  BY DEF StackInit, Depth
<1>2. Fresh \in [context : Attributes, conn : BOOLEAN]
  BY DEF Fresh, Attributes
<1>3. StackType
  <2>1. stack \in Seq(TxId) /\ blocks \in Seq(Block)
    BY <1>1
  <2>2. tx \in [TxId -> [context : Attributes, conn : BOOLEAN]]
    BY <1>2 DEF StackInit
  <2> QED
    BY <2>1, <2>2 DEF StackInit, StackType
<1>4. Busy /\ Started
  BY <1>1 DEF StackInit, Busy, Started, Waiting, Fresh
<1>5. \A x : HeldBy(x) = {} /\ Places(stack, x) = {} /\ Cardinality(Places(stack, x)) = 0
  <2>1. \A x : HeldBy(x) = {} /\ Places(stack, x) = {}
    BY <1>1 DEF HeldBy, Places
  <2> QED
    BY <2>1, FS_EmptySet
<1>6. OnStack /\ Attributed
  BY <1>1, <1>5 DEF StackInit, OnStack, Attributed, Fresh
<1>7. Accounted
  <2>1. Holders = {}
    BY DEF StackInit, Holders, Fresh
  <2> QED
    BY <2>1, FS_EmptySet DEF StackInit, Accounted
<1>8. Layered /\ InContext
  BY <1>1 DEF StackInit, Layered, InContext, Fresh
<1>9. Matching
  BY <1>1, <1>3, NoBlocks DEF Matching
<1> QED
  BY <1>3, <1>4, <1>6, <1>7, <1>8, <1>9 DEF StackInv

LEMMA StackStep == StackInv /\ [StackNext]_stackVars => StackInv'
<1> SUFFICES ASSUME StackInv, [StackNext]_stackVars PROVE StackInv'
  OBVIOUS
<1>0. StackType /\ Busy /\ Accounted /\ Depth \in Nat /\ \A j \in 1..Depth : blocks[j] \in Block
  BY HeldFinite DEF StackInv
<1>a. blocks # <<>> => Depth > 0
  BY <1>0, EmptySeq, LenProperties DEF Depth, StackType
<1>b. Last(blocks) = blocks[Depth]
  BY DEF Last, Depth
<1>1. CASE StartTransaction
  BY <1>1, StartKeeps
<1>2. CASE NewTransaction
  BY <1>2, NewKeeps
<1>3. CASE WaitConnection
  <2>1. StackType'
    BY <1>0, <1>3 DEF WaitConnection, StackType
  <2>2. Busy' /\ Accounted' /\ (Waiting' <=> Waiting)
    BY <1>0, <1>3 DEF WaitConnection, Busy, Accounted, Holders, Waiting, IsStart, Depth
  <2> QED
    BY <1>3, <2>1, <2>2, IdleKeeps DEF WaitConnection
<1>4. CASE Connect
  BY <1>4, ConnectKeeps
<1>5. CASE ConnectFails
  BY <1>5, ConnectFailsKeeps
<1>6. CASE Sync
  <2>1. CASE at' = "run" /\ UNCHANGED <<conns, tx, stack, blocks>>
    <3>1. UNCHANGED <<stack, tx, blocks, left, conns, others, waits>> /\ at = "sync" /\ at' = "run"
      BY <1>6, <2>1 DEF Sync
    <3>2. StackType' /\ Busy' /\ Accounted' /\ (Waiting' <=> Waiting)
      BY <1>0, <3>1 DEF StackType, Busy, Accounted, Holders, Waiting
    <3> QED
      BY <3>1, <3>2, IdleKeeps
  <2>2. CASE at' = "raise" /\ Stop(Last(blocks).of)
    <3>1. at = "sync" /\ UNCHANGED <<others, waits, left>>
      BY <1>6 DEF Sync
    <3>2. Depth > 0 /\ blocks[Depth].kind # "context" /\ ~Waiting
      BY <1>0, <3>1 DEF Busy, IsStart, Waiting
    <3>3. Stop(blocks[Depth].of) /\ waits' \in Nat
      BY <1>0, <1>b, <2>2, <3>1 DEF StackType
    <3> QED
      BY <2>2, <3>1, <3>2, <3>3, StopKeeps
  <2> QED
    BY <1>6, <2>1, <2>2 DEF Sync
<1>7. CASE Exit
  <2>1. /\ at \in {"run", "raise"} /\ Depth > 0 /\ blocks[Depth].kind # "context" /\ ~Waiting
        /\ UNCHANGED <<others, left>>
    BY <1>7, <1>a, <1>b DEF Exit, Leaving, Waiting
  <2>2. CASE Stop(blocks[Depth].of) /\ at' \in {"run", "raise"} /\ UNCHANGED waits
    <3>1. waits' \in Nat
      BY <1>0, <2>2 DEF StackType
    <3> QED
      BY <2>1, <2>2, <3>1, StopKeeps
  <2>3. CASE at' = "stamp" /\ waits' = ConnRetry /\ UNCHANGED <<conns, tx, stack, blocks>>
    <3>1. StackType' /\ Busy' /\ Accounted' /\ (Waiting' <=> Waiting)
      BY <1>0, <2>1, <2>3, StackAssumption
         DEF StackType, Busy, Accounted, Holders, Waiting, Depth
    <3> QED
      BY <2>1, <2>3, <3>1, IdleKeeps
  <2> QED
    BY <1>7, <1>b, <2>1, <2>2, <2>3 DEF Exit
<1>8. CASE Stamp
  <2>1. /\ at = "stamp" /\ Stop(blocks[Depth].of) /\ at' \in {"run", "raise"}
        /\ UNCHANGED <<others, waits, left>>
    BY <1>8, <1>b DEF Stamp
  <2>2. Depth > 0 /\ blocks[Depth].kind # "context" /\ ~Waiting /\ waits' \in Nat
    BY <1>0, <2>1 DEF Busy, Waiting, StackType
  <2> QED
    BY <2>1, <2>2, StopKeeps
<1>9. CASE SetContext
  BY <1>9, SetContextKeeps
<1>10. CASE ExitContext
  BY <1>10, ExitContextKeeps
<1>11. CASE SetCurrent
  BY <1>11, SetCurrentKeeps
<1>12. CASE Raise \/ Catch
  <2>1. /\ at \in {"run", "raise"} /\ at' \in {"run", "raise"}
        /\ UNCHANGED <<conns, others, stack, tx, blocks, waits, left>>
    BY <1>12 DEF Raise, Catch
  <2>2. StackType' /\ Busy' /\ Accounted' /\ (Waiting' <=> Waiting)
    BY <1>0, <2>1 DEF StackType, Busy, Accounted, Holders, Waiting
  <2> QED
    BY <2>1, <2>2, IdleKeeps
<1>13. CASE Elsewhere
  <2>1. UNCHANGED <<stack, tx, blocks, at, waits, left>>
    BY <1>13 DEF Elsewhere
  <2>2. IsFiniteSet(Holders) /\ Cardinality(Holders) \in Nat /\ Holders' = Holders
    BY <2>1, TxIdFinite, FS_Subset, FS_CardinalityType DEF Holders
  <2>3. Accounted' /\ conns' \in Nat /\ others' \in Nat
    BY <1>0, <1>13, <2>2 DEF Elsewhere, Accounted, StackType
  <2>4. StackType' /\ Busy' /\ (Waiting' <=> Waiting)
    BY <1>0, <2>1, <2>3 DEF StackType, Busy, Waiting, IsStart, Depth
  <2> QED
    BY <2>1, <2>3, <2>4, IdleKeeps
<1>14. CASE UNCHANGED stackVars
  <2>1. UNCHANGED <<conns, others, stack, tx, blocks, at, waits, left>>
    BY <1>14 DEF stackVars
  <2>2. StackType' /\ Busy' /\ Accounted' /\ (Waiting' <=> Waiting)
    BY <1>0, <2>1 DEF StackType, Busy, Accounted, Holders, Waiting, IsStart, Depth
  <2> QED
    BY <2>1, <2>2, IdleKeeps
<1> QED
  BY <1>1, <1>2, <1>3, <1>4, <1>5, <1>6, <1>7, <1>8, <1>9, <1>10, <1>11, <1>12, <1>13, <1>14
     DEF StackNext

LEMMA StackInvKeeps == StackInv => StackKept
<1> SUFFICES ASSUME StackInv PROVE StackKept
  OBVIOUS
<1>1. Depth \in Nat /\ DOMAIN blocks = 1..Depth
  BY LenProperties DEF StackInv, StackType, Depth
<1>2. Holders \subseteq {b.of : b \in {c \in ToSet(blocks) : c.kind = "start"}}
  <2> SUFFICES ASSUME NEW i \in Holders
               PROVE  \E b \in ToSet(blocks) : b.kind = "start" /\ b.of = i
    OBVIOUS
  <2>1. PICK j \in 1..Depth : IsStart(j) /\ blocks[j].of = i
    BY DEF StackInv, Started, Holders
  <2>2. blocks[j] \in ToSet(blocks)
    BY <1>1, <2>1 DEF ToSet
  <2> QED
    BY <2>1, <2>2 DEF IsStart
<1>3. CurrentRestored
  <2>1. at # "connect" => ~Waiting
    BY DEF Waiting
  <2> QED
    BY <2>1 DEF StackInv, Matching, InContext, CurrentRestored
<1> QED
  BY <1>2, <1>3 DEF StackInv, Accounted, StackKept, ConnectionsKept

\* Whatever blocks a thread enters, in whatever order they and what is in them fail,
\* stop gives back each connection of the pool once, a block finds the transaction
\* and the attributes that the blocks around it have set, and other threads do not
\* change that.
THEOREM StackIsKept == StackSpec => []StackKept
<1>1. StackInit => StackInv
  BY StackInitInv
<1>2. StackInv /\ [StackNext]_stackVars => StackInv'
  BY StackStep
<1>3. StackInv => StackKept
  BY StackInvKeeps
<1> QED
  BY <1>1, <1>2, <1>3, PTL DEF StackSpec
===============================================================================
