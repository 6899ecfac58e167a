--------------------------- MODULE TransactionStack ---------------------------
(* The stack of transactions of a thread (transaction.py), the with statements  *)
(* that push and pop it and the pool of connections of the database             *)
(* (backend/postgresql/database.py), which other threads use as well.  Every    *)
(* block of a request may end with an exception, and so may whatever needs a    *)
(* connection.                                                                  *)
EXTENDS Naturals, Sequences, FiniteSets, SequencesExt
CONSTANTS
  MaxConn,      \* maxconn
  ConnRetry,    \* database.retry: more attempts to get a connection
  Context,      \* values of the attributes user and context together
  NoContext,    \* what they are in a new transaction
  MaxDepth      \* bound: nested blocks, and length of the stack
ASSUME StackAssumption ==
  MaxConn \in Nat /\ ConnRetry \in Nat /\ MaxDepth \in Nat /\ NoContext \notin Context
VARIABLES
  conns,        \* connections of the pool that are given out
  others,       \* those that other threads have
  stack,        \* _Local.transactions: ids of transactions
  tx,           \* id -> [context, conn], the attributes of the transaction
  blocks,       \* the with statements: [kind, of, saved, set]
  at,           \* "run", "raise", "connect", "sync" or "stamp"
  waits,        \* attempts left of get_connection
  left          \* ghost: a start has left its transaction on the stack
stackVars == <<conns, others, stack, tx, blocks, at, waits, left>>

Fresh == [context |-> NoContext, conn |-> FALSE]
TxId == 1..(MaxDepth + 1)
StackInit ==
  /\ conns = 0 /\ others = 0 /\ stack = <<>> /\ tx = [i \in TxId |-> Fresh]
  /\ blocks = <<>> /\ at = "run" /\ waits = 0 /\ left = FALSE

\* The ids of a new transaction: the first that is not on the stack.
NewIds == {i \in TxId \ ToSet(stack) : \A j \in 1..(i - 1) : j \in ToSet(stack)}
\* Transaction(): the top of the stack or, on an empty one, a new transaction.
Pushed == IF stack = <<>> THEN <<1>> ELSE stack
Current == Last(Pushed)
Enter(kind, i, context) == Append(blocks,
  [kind |-> kind, of |-> i, saved |-> tx[i].context, set |-> context])
Ready == at = "run" /\ Len(blocks) < MaxDepth
Inside == Ready /\ blocks # <<>>

(* ----------------------------- start and connect ---------------------------- *)
\* The assertions of start, then get_connection.
Starts(i, pushed) ==
  /\ stack' = pushed
  /\ IF tx[i].context = NoContext
     THEN at' = "connect" /\ waits' = ConnRetry /\ \E c \in Context : blocks' = Enter("start", i, c)
     ELSE at' = "raise" /\ UNCHANGED <<waits, blocks>>
\* with Transaction().start(...), in a thread that is in no transaction
StartTransaction ==
  /\ Ready /\ blocks = <<>> /\ Starts(Current, Pushed)
  /\ left' = (left /\ (Len(stack) > 1 \/ tx[Current] # Fresh))
  /\ UNCHANGED <<conns, others, tx>>
\* with Transaction().new_transaction(): it is pushed, and then takes the name of
\* the database of the current one, which may have none.
NewTransaction ==
  /\ Inside /\ Len(stack) < MaxDepth
  /\ \E i \in NewIds :
       IF tx[Current].conn
       THEN Starts(i, Append(stack, i)) /\ UNCHANGED left
       ELSE /\ stack' = Append(stack, i) /\ at' = "raise" /\ left' = TRUE
            /\ UNCHANGED <<waits, blocks>>
  /\ UNCHANGED <<conns, others, tx>>
WaitConnection ==
  /\ at \in {"connect", "stamp"} /\ conns = MaxConn /\ waits > 0 /\ waits' = waits - 1
  /\ UNCHANGED <<conns, others, stack, tx, blocks, at, left>>
Connect ==
  /\ at = "connect" /\ conns < MaxConn /\ conns' = conns + 1
  /\ tx' = [tx EXCEPT ![Last(blocks).of] = [context |-> Last(blocks).set, conn |-> TRUE]]
  /\ at' = "sync" /\ UNCHANGED <<others, stack, blocks, waits, left>>
\* The pool stays exhausted, or the database cannot be reached; the exception of
\* start leaves the transaction on the stack.
ConnectFails ==
  /\ at = "connect" /\ (conns < MaxConn \/ waits = 0)
  /\ at' = "raise" /\ left' = TRUE /\ blocks' = Front(blocks)
  /\ UNCHANGED <<conns, others, stack, tx, waits>>

(* ----------------------------------- stop ----------------------------------- *)
\* reverse, remove and reverse
Places(s, i) == {k \in DOMAIN s : s[k] = i}
Pop(i) == \E k \in Places(stack, i) :
  stack' = RemoveAt(stack, k) /\ \A m \in Places(stack, i) : m <= k
Once(i) == Cardinality(Places(stack, i)) = 1
StopUnlessSync(i) ==
  /\ IF Once(i) /\ at # "sync" THEN conns' = conns - 1 /\ tx' = [tx EXCEPT ![i] = Fresh]
                               ELSE UNCHANGED <<conns, tx>>
  /\ Pop(i) /\ blocks' = Front(blocks)
\* stop, of the innermost block: a transaction that was pushed twice goes on.
Stop(i) ==
  /\ IF Once(i) THEN conns' = conns - 1 /\ tx' = [tx EXCEPT ![i] = Fresh]
                ELSE UNCHANGED <<conns, tx>>
  /\ Pop(i) /\ blocks' = Front(blocks)
\* Cache.sync in start, which stops the transaction when it raises
Sync ==
  /\ at = "sync"
  /\ \/ at' = "run" /\ UNCHANGED <<conns, tx, stack, blocks>>
     \/ at' = "raise" /\ Stop(Last(blocks).of)
  /\ UNCHANGED <<others, waits, left>>
Leaving(kinds) == at \in {"run", "raise"} /\ blocks # <<>> /\ Last(blocks).kind \in kinds
\* __exit__: a rollback after an exception, otherwise a commit, which may fail and
\* for which Cache.commit may need a connection of its own.
Exit ==
  /\ Leaving({"start", "current"})
  /\ LET i == Last(blocks).of  commits == at = "run" /\ Once(i) IN
     \/ Stop(i) /\ (at' = at \/ (commits /\ at' = "raise")) /\ UNCHANGED waits
     \/ commits /\ at' = "stamp" /\ waits' = ConnRetry /\ UNCHANGED <<conns, tx, stack, blocks>>
  /\ UNCHANGED <<others, left>>
\* get_connection, the stamps of ir_cache, put_connection, and the commit
Stamp ==
  /\ at = "stamp" /\ (conns < MaxConn \/ waits = 0) /\ Stop(Last(blocks).of)
  /\ at' \in (IF conns < MaxConn THEN {"run", "raise"} ELSE {"raise"})
  /\ UNCHANGED <<others, waits, left>>

(* ------------------------------ the other blocks ----------------------------- *)
\* with Transaction().set_context(...), set_user or reset_context
SetContext ==
  /\ Inside /\ tx[Current].context # NoContext
  /\ \E c \in Context \ {tx[Current].context} :
       tx' = [tx EXCEPT ![Current].context = c] /\ blocks' = Enter("context", Current, c)
  /\ UNCHANGED <<conns, others, stack, at, waits, left>>
\* _AttributeManager.__exit__ restores what is then the current transaction.
ExitContext ==
  /\ Leaving({"context"})
  /\ tx' = [tx EXCEPT ![Current].context = Last(blocks).saved]
  /\ stack' = Pushed /\ blocks' = Front(blocks)
  /\ UNCHANGED <<conns, others, at, waits, left>>
\* with Transaction().set_current_transaction(i), the one a record was made in
SetCurrent ==
  /\ Inside /\ Len(stack) < MaxDepth
  /\ \E i \in {j \in ToSet(stack) : tx[j].conn} :
       stack' = Append(stack, i) /\ blocks' = Enter("current", i, tx[i].context)
  /\ UNCHANGED <<conns, others, tx, at, waits, left>>
\* What is in a block raises, or what is around it handles the exception.
Raise == at = "run" /\ blocks # <<>> /\ at' = "raise"
         /\ UNCHANGED <<conns, others, stack, tx, blocks, waits, left>>
Catch == at = "raise" /\ at' = "run"
         /\ UNCHANGED <<conns, others, stack, tx, blocks, waits, left>>
\* Another thread takes a connection or gives one back.
Elsewhere ==
  /\ \/ conns < MaxConn /\ conns' = conns + 1 /\ others' = others + 1
     \/ others > 0 /\ conns' = conns - 1 /\ others' = others - 1
  /\ UNCHANGED <<stack, tx, blocks, at, waits, left>>

StackNext == \/ StartTransaction \/ NewTransaction \/ WaitConnection \/ Connect \/ ConnectFails \/ Sync
        \/ Exit \/ Stamp \/ SetContext \/ ExitContext \/ SetCurrent \/ Raise \/ Catch
        \/ Elsewhere
StackSpec == StackInit /\ [][StackNext]_stackVars

(* -------------------------------- properties ------------------------------- *)
\* The connections given out are those of the transactions in whose blocks the
\* thread is, and of other threads: whatever fails, at whatever depth, none is lost
\* and none is given back twice, and between two requests the thread has none.
Holders == {i \in TxId : tx[i].conn}
ConnectionsKept ==
  /\ conns = Cardinality(Holders) + others
  /\ Holders \subseteq {b.of : b \in {c \in ToSet(blocks) : c.kind = "start"}}
\* In a block Transaction() is the transaction of that block, with the context that
\* the innermost of its blocks has set, whatever blocks were entered and left before;
\* after a request there is none.  (The start of a new transaction that fails
\* leaves it on the stack of the thread.)
Depth == Len(blocks)
Held(n) == {j \in 1..n : blocks[j].kind # "context"}
Innermost(j) == \A m \in 1..Depth : m > j => blocks[m].of # blocks[j].of
CurrentRestored == ~left =>
  /\ Len(stack) = Cardinality(Held(Depth))
  /\ \A j \in 1..Depth : stack[Cardinality(Held(j))] = blocks[j].of
  /\ at # "connect" => \A j \in 1..Depth :
       Innermost(j) => tx[blocks[j].of].context = blocks[j].set
StackKept == ConnectionsKept /\ CurrentRestored
\* The assertions of start hold: what a thread starts has nothing of an earlier
\* transaction.  The code does not keep this when a new transaction could not
\* start in a block of set_context, and no run claims it.
StartsClean == blocks = <<>> => tx[Current].context = NoContext
==============================================================================
