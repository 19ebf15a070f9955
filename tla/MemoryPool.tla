----------------------------- MODULE MemoryPool -----------------------------
(***************************************************************************)
(* MemoryPool.cpp: the pool of preallocated blocks of one type.  free is   *)
(* the free list from head to tail, nodes the length of the list of empty  *)
(* list nodes (mAllocatedListHead), count the counter mfreeBlocks that     *)
(* getBlock consults instead of the list.  Each operation runs under the   *)
(* mutex of the pool.                                                      *)
(***************************************************************************)
EXTENDS Naturals, Sequences

\* makeAllocation of n blocks of which the allocator delivered got: the
\* counter is raised by the number asked for.
MakeAllocation(m, n, got) ==
    [free |-> m.free \o got, nodes |-> m.nodes, count |-> m.count + n]

EmptyPool == [free |-> <<>>, nodes |-> 0, count |-> 0]

\* getBlock throws bad_alloc.
Exhausted(m) == m.count = 0

\* getBlock follows the null head of an empty list.
Deceived(m) == m.count > 0 /\ m.free = <<>>

BlockOf(m) == Head(m.free)

GetBlock(m) == [free |-> Tail(m.free), nodes |-> m.nodes + 1, count |-> m.count - 1]

\* freeBlock reuses any empty list node; with none left it ignores the call.
FreeBlock(m, block) ==
    IF m.nodes = 0 THEN m
    ELSE [free |-> Append(m.free, block), nodes |-> m.nodes - 1, count |-> m.count + 1]

\* n calls of getBlock in a row.
GetBlocks(m, n) ==
    [free |-> SubSeq(m.free, n + 1, Len(m.free)), nodes |-> m.nodes + n, count |-> m.count - n]

\* freeBlock for the blocks of a sequence, one after the other.
FreeBlocks(m, blocks) ==
    LET taken == IF Len(blocks) <= m.nodes THEN Len(blocks) ELSE m.nodes
    IN [free |-> m.free \o SubSeq(blocks, 1, taken), nodes |-> m.nodes - taken,
        count |-> m.count + taken]
===========================================================================
