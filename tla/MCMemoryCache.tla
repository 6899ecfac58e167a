--------------------------- MODULE MCMemoryCache ---------------------------
(* Small instances of MemoryCache: two threads of one process, with or       *)
(* without a thread in another process.                                      *)
EXTENDS MemoryCache, TLC

CONSTANTS p1, p2, t1, t2, t3

TwoThreads == (t1 :> p1) @@ (t2 :> p1)
ThreeThreads == (t1 :> p1) @@ (t2 :> p1) @@ (t3 :> p2)
TwoProcesses == (t1 :> p1) @@ (t2 :> p2)

Threads == Permutations({t1, t2})
============================================================================
