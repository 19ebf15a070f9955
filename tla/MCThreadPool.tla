---------------------------- MODULE MCThreadPool ----------------------------
(* Instance of ThreadPool: one pool of one to two threads, a timer, a plain    *)
(* task and a recurring timer.                                                *)
EXTENDS ThreadPool, TLC

MCPoolOf == [t \in Tasks |-> CHOOSE q \in Pools : TRUE]
MCKindOf == [t \in Tasks |-> IF t \in {"t1", "t2"} THEN "timer"
                             ELSE IF t = "r" THEN "recurring" ELSE "plain"]
MCDesired == [q \in Pools |-> 1]
MCMaxCapacity == [q \in Pools |-> 2]

\* GetBlocks and FreeBlocks are the calls they stand for, one after the other.
SmallPools == [free : {<<>>, <<1>>, <<2, 1>>, <<1, 2, 3>>}, nodes : 0 .. 2, count : {3}]
ASSUME \A m \in SmallPools : \A n \in 0 .. Len(m.free) :
    GetBlocks(m, n) = FoldLeft(LAMBDA r, i : GetBlock(r), m, Numbers(n))
ASSUME \A m \in SmallPools : \A s \in {<<>>, <<7>>, <<7, 8>>, <<7, 8, 9>>} :
    FreeBlocks(m, s) = FoldLeft(FreeBlock, m, s)
===========================================================================
