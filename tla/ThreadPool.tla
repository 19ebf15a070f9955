----------------------------- MODULE ThreadPool -----------------------------
(***************************************************************************)
(* ThreadPool.cpp and Timer.cpp: the pool of the server's workers and the  *)
(* pool whose threads sit out the timers.  The two have a mutex, a queue   *)
(* and threads each, and share the memory pools of the three block types   *)
(* they use, TaskNode, std::function and ThreadNode: those belong to the   *)
(* types.  A thread is named by its ThreadNode block.                      *)
(*                                                                         *)
(* A section under mThreadPoolMutex is one step, but enqueueTask takes its *)
(* two blocks in two, because the other pool may come between them.        *)
(***************************************************************************)
EXTENDS Integers, Sequences, SequencesExt, FiniteSets, MemoryPool

CONSTANTS
    Pools,              \* the thread pools
    Desired,            \* Desired[q]: threads created at the start
    MaxCapacity,        \* MaxCapacity[q]: mMaxPoolCapacity
    maxLoadPerThread,   \* queued tasks per thread before the pool grows
    Tasks,              \* tasks submitted, each at most once
    PoolOf,             \* PoolOf[t]: the pool a task goes to
    KindOf,             \* "plain", "timer" or "recurring"
    Elsewhere,          \* bound: tasks of other pools beyond their share of blocks
    Shortage,           \* bound: TaskNode blocks MakeAlloc may fail to get
    Faults,             \* bound: threads not created, tasks that throw
    NoBlock             \* not a block

ASSUME PoolAssumption ==
    /\ maxLoadPerThread \in Nat
    /\ Elsewhere \in Nat /\ Shortage \in Nat /\ Faults \in Nat
    /\ IsFiniteSet(Pools)
    /\ Desired \in [Pools -> Nat] /\ MaxCapacity \in [Pools -> Nat]
    /\ \A q \in Pools : MaxCapacity[q] >= Desired[q]
    /\ PoolOf \in [Tasks -> Pools]
    /\ KindOf \in [Tasks -> {"plain", "timer", "recurring"}]
    /\ NoBlock \notin Pools \cup Tasks \cup Nat

VARIABLES
    nodes,      \* memory pool of TaskNode
    functions,  \* memory pool of std::function<void(void*)>
    holders,    \* memory pool of ThreadNode
    count,      \* count[q]: mCurrentThreadsCount
    queue,      \* queue[q]: mCurrentTasks, of [task, node, fn]
    making,     \* making[q]: the enqueueTask between its two blocks
    threads,    \* threads[b]: [pool, core, pc, job]
    closing,    \* closing[q]: mTerminatePool; "dead" once joined
    status,     \* status[t]: where a task has got to
    stop,       \* stop[t]: mTimerStop of a timer
    faults,     \* number of failures so far
    crashed     \* a null or garbage pointer was followed

memory == <<nodes, functions, holders>>
vars == <<nodes, functions, holders, count, queue, making, threads, closing,
          status, stop, faults, crashed>>

NoJob == [task |-> NoBlock, node |-> NoBlock, fn |-> NoBlock]
NoThread == [pool |-> NoBlock, core |-> FALSE, pc |-> "none", job |-> NoJob]

---------------------------------------------------------------------------
(* ThreadPool::ThreadPool, both pools being built before any task comes,   *)
(* and the memory they lay in: the types' blocks for both of them.         *)

SumOver(f) == Cardinality(UNION {{q} \X (1 .. f[q]) : q \in Pools})
Holders == SumOver([q \in Pools |-> MaxCapacity[q] + 1])
Blocks == SumOver([q \in Pools |-> (MaxCapacity[q] + 1) * maxLoadPerThread])
Threads == 1 .. Holders

\* Fault: no std::function for the spare place.
FunctionBlocksPerThread == SumOver([q \in Pools |-> MaxCapacity[q] * maxLoadPerThread])

FunctionBlocks == SumOver([q \in Pools |-> (MaxCapacity[q] + 1) * maxLoadPerThread])
Started == SumOver(Desired)

\* Tasks of other pools hold blocks that exist.
ASSUME BlocksAssumption == Elsewhere + Shortage <= Blocks

Numbers(n) == [i \in 1 .. n |-> i]

Init ==
    /\ \E lack \in {0, Shortage}, out \in 0 .. Elsewhere :
         /\ nodes = GetBlocks(MakeAllocation(EmptyPool, Blocks, Numbers(Blocks - lack)), out)
         /\ functions = GetBlocks(MakeAllocation(EmptyPool, FunctionBlocks, Numbers(FunctionBlocks)), out)
    /\ holders = GetBlocks(MakeAllocation(EmptyPool, Holders, Numbers(Holders)), Started)
    /\ \E own \in [1 .. Started -> Pools] :
         /\ \A q \in Pools : Cardinality({b \in 1 .. Started : own[b] = q}) = Desired[q]
         /\ threads = [b \in Threads |->
                         IF b <= Started
                           THEN [NoThread EXCEPT !.pool = own[b], !.core = TRUE, !.pc = "top"]
                           ELSE NoThread]
    /\ count = Desired
    /\ queue = [q \in Pools |-> <<>>]
    /\ making = [q \in Pools |-> NoJob]
    /\ closing = [q \in Pools |-> "no"]
    /\ status = [t \in Tasks |-> "new"]
    /\ stop = [t \in Tasks |-> FALSE]
    /\ faults = 0
    /\ crashed = FALSE

---------------------------------------------------------------------------
(* enqueueTask.                                                            *)

Open(q) == making[q] = NoJob /\ ~crashed
Waiting(q) == {b \in Threads : threads[b].pool = q /\ threads[b].pc = "waiting"}

\* notify_one: one of the waiting threads, if any.
NotifyOne(q, ths) ==
    IF Waiting(q) = {} THEN threads' = ths
    ELSE \E b \in Waiting(q) : threads' = [ths EXCEPT ![b].pc = "notified"]

HasRoom(q) == Len(queue[q]) <= maxLoadPerThread * count[q]
MayGrow(q) == ~HasRoom(q) /\ count[q] < MaxCapacity[q]

Refuse(t) == status' = [status EXCEPT ![t] = "refused"]

\* THREAD_POOL_FULL_ALERT, and the bad_alloc of createTaskNode.
EnqueueRefused(t) ==
    LET q == PoolOf[t]
    IN /\ status[t] = "new" /\ Open(q) /\ closing[q] # "dead"
       /\ (~HasRoom(q) /\ ~MayGrow(q)) \/ Exhausted(nodes)
       /\ Refuse(t)
       /\ UNCHANGED <<nodes, functions, holders, count, queue, making, threads, closing, stop, faults, crashed>>

\* createTaskNode up to its TaskNode.
EnqueueNode(t) ==
    LET q == PoolOf[t]
    IN /\ status[t] = "new" /\ Open(q) /\ closing[q] # "dead"
       /\ HasRoom(q) \/ MayGrow(q)
       /\ ~Exhausted(nodes)
       /\ IF Deceived(nodes)
            THEN crashed' = TRUE /\ UNCHANGED <<nodes, making, status>>
            ELSE /\ making' = [making EXCEPT ![q] = [task |-> t, node |-> BlockOf(nodes), fn |-> NoBlock]]
                 /\ nodes' = GetBlock(nodes)
                 /\ status' = [status EXCEPT ![t] = "making"]
                 /\ UNCHANGED crashed
       /\ UNCHANGED <<functions, holders, count, queue, threads, closing, stop, faults>>

Accept(q) ==
    /\ queue' = [queue EXCEPT ![q] = Append(@, [making[q] EXCEPT !.fn = BlockOf(functions)])]
    /\ functions' = GetBlock(functions)
    /\ making' = [making EXCEPT ![q] = NoJob]
    /\ status' = [status EXCEPT ![making[q].task] = "queued"]

\* The task joins the queue of a pool with room.  Without a std::function
\* the TaskNode is freed again: its destructor runs on memory no constructor
\* has seen and frees what the callback field says.
EnqueueAdd(q) ==
    /\ making[q] # NoJob /\ ~crashed
    /\ IF Exhausted(functions)
         THEN crashed' = TRUE /\ UNCHANGED <<queue, functions, making, status, threads>>
         ELSE HasRoom(q) /\ Accept(q) /\ NotifyOne(q, threads) /\ UNCHANGED crashed
    /\ UNCHANGED <<nodes, holders, count, closing, stop, faults>>

\* addNewThread for an expandable thread.
EnqueueGrow(q) ==
    /\ making[q] # NoJob /\ ~crashed /\ ~Exhausted(functions)
    /\ MayGrow(q) /\ ~Exhausted(holders)
    /\ Accept(q)
    /\ holders' = GetBlock(holders)
    /\ count' = [count EXCEPT ![q] = @ + 1]
    /\ NotifyOne(q, [threads EXCEPT ![BlockOf(holders)] =
                        [NoThread EXCEPT !.pool = q, !.pc = "top"]])
    /\ UNCHANGED <<nodes, closing, stop, faults, crashed>>

\* addNewThread finds no ThreadNode, or the system gives no thread and the
\* ThreadNode goes back: the task is accepted all the same.
EnqueueGrowFails(q) ==
    /\ making[q] # NoJob /\ ~crashed /\ ~Exhausted(functions)
    /\ MayGrow(q)
    /\ IF Exhausted(holders) THEN UNCHANGED <<holders, faults>>
       ELSE /\ faults < Faults
            /\ faults' = faults + 1
            /\ holders' = FreeBlock(GetBlock(holders), BlockOf(holders))
    /\ Accept(q)
    /\ NotifyOne(q, threads)
    /\ UNCHANGED <<nodes, count, closing, stop, crashed>>

---------------------------------------------------------------------------
(* threadRoutineHelper.                                                    *)

At(b, pcs) == threads[b].pc \in pcs /\ ~crashed
Go(b, pc) == threads' = [threads EXCEPT ![b].pc = pc]
Q(b) == threads[b].pool

\* The mutex is taken at the top of the routine and again after a wait.
Locks(b) == At(b, {"top", "notified"}) /\ making[Q(b)] = NoJob

\* Fault: a thread waits without looking at the queue first.
WaitUnchecked(b) ==
    /\ Locks(b) /\ closing[Q(b)] = "no"
    /\ Go(b, "waiting")
    /\ UNCHANGED <<nodes, functions, holders, count, queue, making, closing, status, stop, faults, crashed>>

Wait(b) ==
    /\ Locks(b) /\ closing[Q(b)] = "no" /\ queue[Q(b)] = <<>>
    /\ Go(b, "waiting")
    /\ UNCHANGED <<nodes, functions, holders, count, queue, making, closing, status, stop, faults, crashed>>

TakeTask(b) ==
    LET job == Head(queue[Q(b)])
    IN /\ threads' = [threads EXCEPT ![b].pc = IF KindOf[job.task] = "plain" THEN "run" ELSE "test",
                                     ![b].job = job]
       /\ queue' = [queue EXCEPT ![Q(b)] = Tail(@)]
       /\ status' = [status EXCEPT ![job.task] = "running"]

Poll(b) ==
    /\ Locks(b) /\ closing[Q(b)] = "no" /\ queue[Q(b)] # <<>>
    /\ TakeTask(b)
    /\ UNCHANGED <<nodes, functions, holders, count, making, closing, stop, faults, crashed>>

\* wait_for of an expandable thread ends with its timeout and nothing to do.
TimedOut(b) ==
    /\ At(b, {"waiting", "notified"}) /\ making[Q(b)] = NoJob
    /\ ~threads[b].core
    /\ closing[Q(b)] = "no" /\ queue[Q(b)] = <<>>

\* Fault: a thread that goes is still counted.
IdleOutCounted(b) ==
    /\ TimedOut(b)
    /\ Go(b, "exited")
    /\ UNCHANGED <<nodes, functions, holders, count, queue, making, closing, status, stop, faults, crashed>>

\* Fault: a thread that goes gives back its ThreadNode, which is still listed.
IdleOutReleased(b) ==
    /\ TimedOut(b)
    /\ count' = [count EXCEPT ![Q(b)] = @ - 1]
    /\ holders' = FreeBlock(holders, b)
    /\ Go(b, "exited")
    /\ UNCHANGED <<nodes, functions, queue, making, closing, status, stop, faults, crashed>>

\* Fault: a thread that timed out is counted off and goes on.
IdleOutStays(b) ==
    /\ TimedOut(b)
    /\ count' = [count EXCEPT ![Q(b)] = @ - 1]
    /\ Go(b, "top")
    /\ UNCHANGED <<nodes, functions, holders, queue, making, closing, status, stop, faults, crashed>>

\* The thread goes, and its ThreadNode stays in the list.
IdleOut(b) ==
    /\ TimedOut(b)
    /\ count' = [count EXCEPT ![Q(b)] = @ - 1]
    /\ Go(b, "exited")
    /\ UNCHANGED <<nodes, functions, holders, queue, making, closing, status, stop, faults, crashed>>

Leave(b) ==
    /\ Locks(b) /\ closing[Q(b)] = "yes"
    /\ Go(b, "exited")
    /\ UNCHANGED <<nodes, functions, holders, count, queue, making, closing, status, stop, faults, crashed>>

\* task(args) returns.
Finish(b, from) ==
    /\ At(b, from)
    /\ Go(b, "freeing")
    /\ status' = [status EXCEPT ![threads[b].job.task] = "done"]
    /\ UNCHANGED <<nodes, functions, holders, count, queue, making, closing, stop, faults, crashed>>

RunPlain(b) == Finish(b, {"run"})

\* task(args) throws: the thread ends, still counted, with its TaskNode.
Throw(b) ==
    /\ At(b, {"run"}) /\ faults < Faults
    /\ faults' = faults + 1
    /\ Go(b, "exited")
    /\ status' = [status EXCEPT ![threads[b].job.task] = "done"]
    /\ UNCHANGED <<nodes, functions, holders, count, queue, making, closing, stop, crashed>>

\* ~TaskNode, called by FreeBlock<TaskNode> before the node is given back.
FreeFunction(b) ==
    /\ At(b, {"freeing"})
    /\ functions' = FreeBlock(functions, threads[b].job.fn)
    /\ threads' = [threads EXCEPT ![b].pc = "freed", ![b].job.fn = NoBlock]
    /\ UNCHANGED <<nodes, holders, count, queue, making, closing, status, stop, faults, crashed>>

FreeNode(b) ==
    /\ At(b, {"freed"})
    /\ nodes' = FreeBlock(nodes, threads[b].job.node)
    /\ threads' = [threads EXCEPT ![b].pc = "top", ![b].job = NoJob]
    /\ UNCHANGED <<functions, holders, count, queue, making, closing, status, stop, faults, crashed>>

---------------------------------------------------------------------------
(* Timer::implementTimer, on the thread that runs it.                      *)

Stopped(b) == stop[threads[b].job.task]
OnlyThread(b, pc) ==
    /\ Go(b, pc)
    /\ UNCHANGED <<nodes, functions, holders, count, queue, making, closing, status, stop, faults, crashed>>

\* wait_for evaluates its predicate, then blocks; killTimer takes no mutex
\* and may store and notify in between.
TimerTest(b) == At(b, {"test"}) /\ OnlyThread(b, IF Stopped(b) THEN "due" ELSE "blocking")
TimerBlock(b) == At(b, {"blocking"}) /\ OnlyThread(b, "sleeping")

\* The duration has passed, or notify_all reached the sleeping thread.
TimerDue(b) == At(b, {"sleeping", "awake"}) /\ OnlyThread(b, "due")

TimerFire(b) == At(b, {"due"}) /\ ~Stopped(b) /\ OnlyThread(b, "fired")
TimerAgain(b) ==
    /\ At(b, {"fired"}) /\ KindOf[threads[b].job.task] = "recurring" /\ ~Stopped(b)
    /\ OnlyThread(b, "test")
TimerEnd(b) ==
    /\ At(b, {"due", "fired"})
    /\ threads[b].pc = "due" => Stopped(b)
    /\ threads[b].pc = "fired" => KindOf[threads[b].job.task] = "timer" \/ Stopped(b)
    /\ Finish(b, {"due", "fired"})

\* killTimer.
KillTimer(t) ==
    /\ KindOf[t] # "plain" /\ ~stop[t] /\ ~crashed
    /\ status[t] \in {"queued", "running"}
    /\ stop' = [stop EXCEPT ![t] = TRUE]
    /\ threads' = [b \in Threads |->
                     IF threads[b].job.task = t /\ threads[b].pc = "sleeping"
                       THEN [threads[b] EXCEPT !.pc = "awake"] ELSE threads[b]]
    /\ UNCHANGED <<nodes, functions, holders, count, queue, making, closing, status, faults, crashed>>

---------------------------------------------------------------------------
(* ThreadPool::~ThreadPool.                                                *)

\* Fault: the waiting threads are not notified.
TerminateSilently(q) ==
    /\ closing[q] = "no" /\ Open(q)
    /\ closing' = [closing EXCEPT ![q] = "yes"]
    /\ UNCHANGED <<nodes, functions, holders, count, queue, making, threads, status, stop, faults, crashed>>

Terminate(q) ==
    /\ closing[q] = "no" /\ Open(q)
    /\ closing' = [closing EXCEPT ![q] = "yes"]
    /\ threads' = [b \in Threads |->
                     IF b \in Waiting(q) THEN [threads[b] EXCEPT !.pc = "notified"] ELSE threads[b]]
    /\ UNCHANGED <<nodes, functions, holders, count, queue, making, status, stop, faults, crashed>>

\* All threads joined: the ThreadNodes go back, then the tasks still queued.
Join(q) ==
    LET own == SetToSeq({b \in Threads : threads[b].pool = q})
    IN /\ closing[q] = "yes" /\ Open(q)
       /\ \A b \in Threads : threads[b].pool = q => threads[b].pc = "exited"
       /\ closing' = [closing EXCEPT ![q] = "dead"]
       /\ holders' = FreeBlocks(holders, own)
       /\ threads' = [b \in Threads |-> IF threads[b].pool = q THEN NoThread ELSE threads[b]]
       /\ functions' = FreeBlocks(functions, [i \in DOMAIN queue[q] |-> queue[q][i].fn])
       /\ nodes' = FreeBlocks(nodes, [i \in DOMAIN queue[q] |-> queue[q][i].node])
       /\ status' = [t \in Tasks |-> IF \E i \in DOMAIN queue[q] : queue[q][i].task = t
                                       THEN "dropped" ELSE status[t]]
       /\ queue' = [queue EXCEPT ![q] = <<>>]
       /\ UNCHANGED <<count, making, stop, faults, crashed>>

---------------------------------------------------------------------------

Enqueue ==
    \/ \E t \in Tasks : EnqueueRefused(t) \/ EnqueueNode(t)
    \/ \E q \in Pools : EnqueueAdd(q) \/ EnqueueGrow(q) \/ EnqueueGrowFails(q)

ThreadStep(b) ==
    \/ Wait(b) \/ Poll(b) \/ Leave(b)
    \/ RunPlain(b) \/ FreeFunction(b) \/ FreeNode(b)
    \/ TimerTest(b) \/ TimerBlock(b) \/ TimerDue(b) \/ TimerFire(b) \/ TimerAgain(b) \/ TimerEnd(b)

Next ==
    \/ Enqueue
    \/ \E b \in Threads : ThreadStep(b) \/ IdleOut(b) \/ Throw(b)
    \/ \E t \in Tasks : KillTimer(t)
    \/ \E q \in Pools : Terminate(q) \/ Join(q)

\* Threads run, timers become due and the caller of enqueueTask finishes it.
\* Nothing makes a caller submit, kill or terminate, or a thread idle out.
Fairness ==
    /\ \A b \in Threads : WF_vars(ThreadStep(b))
    /\ \A q \in Pools : WF_vars(EnqueueAdd(q) \/ EnqueueGrow(q) \/ EnqueueGrowFails(q))
    /\ \A q \in Pools : WF_vars(Join(q))

Spec == Init /\ [][Next]_vars /\ Fairness

---------------------------------------------------------------------------
(* Properties.                                                             *)

Live(q) == {b \in Threads : threads[b].pool = q /\ threads[b].pc # "exited"}
Jobs == (UNION {ToSet(queue[q]) \cup ({making[q]} \ {NoJob}) : q \in Pools})
        \cup ({threads[b].job : b \in Threads} \ {NoJob})

TypeOK ==
    /\ nodes.count \in 0 .. Blocks /\ holders.count \in 0 .. Holders
    /\ functions.count \in 0 .. FunctionBlocks
    /\ \A q \in Pools : count[q] \in 0 .. MaxCapacity[q]
    /\ \A q \in Pools : \A i \in DOMAIN queue[q] : PoolOf[queue[q][i].task] = q
    /\ \A b \in Threads : threads[b].pool \in Pools \cup {NoBlock}
    /\ \A t \in Tasks : status[t] \in {"new", "refused", "making", "queued", "running", "done", "dropped"}

\* No TaskNode or std::function block serves two tasks at a time, or is in
\* use and on the free list, nor is the ThreadNode of a thread: each task
\* submitted is found once, in the queue or with its thread, however the
\* threads of the pools that share the memory take and give back blocks.
BlocksExclusive ==
    /\ \A i, j \in Jobs : i.node = j.node \/ (i.fn = j.fn /\ i.fn # NoBlock) => i = j
    /\ \A b, c \in Threads : threads[b].job # NoJob /\ threads[b].job = threads[c].job => b = c
    /\ \A b \in Threads, q \in Pools : threads[b].job \notin ToSet(queue[q])
    /\ IsInjective(nodes.free) /\ IsInjective(functions.free) /\ IsInjective(holders.free)
    /\ \A j \in Jobs : j.node \notin ToSet(nodes.free) /\ j.fn \notin ToSet(functions.free)
    /\ \A b \in ToSet(holders.free) : threads[b] = NoThread

\* While every block asked for at the start was delivered, neither path of
\* createTaskNode that follows a bad pointer is taken: a caller that got a
\* TaskNode also gets a std::function, since functions come back first.
NoBadPointer == crashed => Len(nodes.free) < nodes.count

\* The number of threads a pool believes to have is the number that serve
\* it, up to tasks that threw; so the bound on the queue counts real threads.
CountIsReal ==
    \A q \in Pools : closing[q] = "no" =>
        /\ count[q] >= Cardinality(Live(q))
        /\ count[q] > Cardinality(Live(q)) => faults > 0

\* The pool has threads, and all of them sit in recurring timers nobody stopped.
Hogged(q) ==
    /\ Live(q) # {}
    /\ \A b \in Live(q) : /\ threads[b].job # NoJob
                          /\ KindOf[threads[b].job.task] = "recurring"
                          /\ ~Stopped(b)

\* No thread is left: tasks that threw ended them all.  They are still counted, so
\* tasks are accepted, and the pool grows only once the queue is full.
Deserted(q) == Live(q) = {} /\ faults > 0

\* Every task enqueueTask accepted is run to its end unless its pool is
\* closed first, is for ever taken up by recurring timers, or has for ever lost
\* its last thread to a task that threw: notify_one may wake a thread that idles
\* out or one that finds the task gone, a timer may be killed just before its
\* thread blocks, and a task queued behind others.
AcceptedTasksRun ==
    \A t \in Tasks :
        KindOf[t] # "recurring" /\ status[t] = "queued" ~>
            \/ status[t] = "done"
            \/ closing[PoolOf[t]] # "no"
            \/ crashed
            \/ [](Hogged(PoolOf[t]) \/ Deserted(PoolOf[t]))

\* A pool told to terminate is joined: no thread sleeps through notify_all,
\* and only a recurring timer nobody kills keeps its thread.
ClosedPoolsJoined ==
    \A q \in Pools :
        closing[q] = "yes" ~>
            \/ closing[q] = "dead"
            \/ crashed
            \/ [](\E b \in Live(q) : threads[b].job # NoJob /\ ~Stopped(b)
                                     /\ KindOf[threads[b].job.task] = "recurring")
===========================================================================
