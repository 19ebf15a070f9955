-------------------------- MODULE ClientLifecycle --------------------------
(***************************************************************************)
(* What the server knows about its clients and how it forgets them:        *)
(* ClientDataManager.cpp, the pulse monitor that looks for dead processes  *)
(* (PulseMonitor.cpp) and the garbage collector that untunes their         *)
(* requests (ClientGarbageCollector.cpp), with the path of a tune request  *)
(* through RequestHandler.cpp as far as it touches the client tables.      *)
(*                                                                         *)
(* Steps are the critical sections of mGlobalTableMutex, mRequestMapMutex, *)
(* mGcQueueMutex and the queue mutex.  Rate limits, duplicates and         *)
(* capacity belong to RequestPipeline.tla; a request is served here in any *)
(* order, which covers every priority.                                     *)
(***************************************************************************)
EXTENDS Integers, Sequences, FiniteSets, SequencesExt

CONSTANTS
    Process,        \* client processes (PIDs, not reused)
    Thread,         \* their threads (TIDs)
    ProcessOf,      \* [Thread -> Process]
    Worker,         \* threads of the request pool
    ThreadCap,      \* PER_CLIENT_TID_CAP
    BatchSize,      \* mCleanupBatchSize
    MaxHandle,      \* bound: tune requests sent
    Durations,      \* kinds of duration: subset of {"timed", "infinite"}
    Mishaps,        \* what may go wrong: subset of {"abrupt", "alloc"}
    None            \* no task, no process, no thread

Handle == 1 .. MaxHandle

ASSUME ClientAssumption ==
    /\ ProcessOf \in [Thread -> Process]
    /\ ThreadCap \in Nat \ {0} /\ BatchSize \in Nat \ {0} /\ MaxHandle \in Nat
    /\ Durations \subseteq {"timed", "infinite"}
    /\ Mishaps \subseteq {"abrupt", "alloc"}
    /\ None \notin Process \cup Thread

VARIABLES
    alive,      \* processes for which /proc/<pid>/comm exists
    last,       \* the last handle generated
    sender,     \* sender[h]: thread and duration of the request
    worker,     \* worker[w]: the tune it handles and how far it is
    repo,       \* mClientRepo: the threads listed for a process and its level
    entry,      \* mClientTidRepo: "absent", "null" (a key without data) or "present"
    handles,    \* mClientHandles of a thread's data
    active,     \* keys of mActiveRequests
    completed,  \* those marked REQ_COMPLETED
    queue,      \* messages of the request queue; equal untunes count once
    draining,   \* the consumer holds the queue mutex
    pulse,      \* checkForDeadClients: processes to look at, and one to delete
    gcQueue,    \* mGcQueue
    gc,         \* performCleanup: where it is, which thread, which handles
    crashed,    \* a null pointer has been dereferenced
    mishaps     \* history: what went wrong so far

tables == <<repo, entry, handles>>
server == <<active, completed, queue, draining>>
daemons == <<pulse, gcQueue, gc>>
clientSide == <<alive, last, sender>>
vars == <<clientSide, worker, tables, server, daemons, crashed, mishaps>>

NoClient == [threads |-> <<>>, level |-> "none"]
NoSender == [thread |-> None, dur |-> "infinite"]
GcIdle == [pc |-> "idle", count |-> 0, thread |-> None, todo |-> {}]
Tune(h)   == [type |-> "tune", handle |-> h]
Untune(h) == [type |-> "untune", handle |-> h]
Owner(h)  == ProcessOf[sender[h].thread]

Init ==
    /\ alive = Process
    /\ last = 0
    /\ sender = [h \in Handle |-> NoSender]
    /\ worker = [w \in Worker |-> None]
    /\ repo = [p \in Process |-> NoClient]
    /\ entry = [t \in Thread |-> "absent"]
    /\ handles = [t \in Thread |-> {}]
    /\ active = {} /\ completed = {} /\ queue = {} /\ draining = FALSE
    /\ pulse = [todo |-> {}, victim |-> None]
    /\ gcQueue = <<>>
    /\ gc = GcIdle
    /\ crashed = FALSE
    /\ mishaps = {}

----------------------------------------------------------------------------
(* Clients *)

\* A thread sends a tune request, and a worker takes it up.
SendTune(w, t, d) ==
    /\ worker[w] = None
    /\ ProcessOf[t] \in alive
    /\ last < MaxHandle
    /\ last' = last + 1
    /\ sender' = [sender EXCEPT ![last + 1] = [thread |-> t, dur |-> d]]
    /\ worker' = [worker EXCEPT ![w] = [pc |-> "exists", handle |-> last + 1]]
    /\ UNCHANGED <<alive, tables, server, daemons, crashed, mishaps>>

\* Is a tune request of p on its way to the lists of the CocoTable?
InFlight(p) ==
    \/ \E w \in Worker : worker[w] # None /\ Owner(worker[w].handle) = p
    \/ \E h \in 1 .. last : Tune(h) \in queue /\ Owner(h) = p

Exit(p) ==
    /\ p \in alive
    /\ InFlight(p) => "abrupt" \in Mishaps
    /\ alive' = alive \ {p}
    /\ mishaps' = IF InFlight(p) THEN mishaps \cup {"abrupt"} ELSE mishaps
    /\ UNCHANGED <<last, sender, worker, tables, server, daemons, crashed>>

----------------------------------------------------------------------------
(* Workers: processIncomingRequest for a tune request *)

At(w, pc) == worker[w] # None /\ worker[w].pc = pc
Goto(w, pc) == worker' = [worker EXCEPT ![w].pc = pc]
Drop(w) == worker' = [worker EXCEPT ![w] = None]
ThreadOf(w) == sender[worker[w].handle].thread

\* clientExists: both tables have a key; data behind the key are not looked at.
Known(t) == repo[ProcessOf[t]].level # "none" /\ entry[t] # "absent"

ClientExists(w) ==
    /\ At(w, "exists")
    /\ Goto(w, IF Known(ThreadOf(w)) THEN "limit" ELSE "create")
    /\ UNCHANGED <<clientSide, tables, server, daemons, crashed, mishaps>>

\* createNewClient puts fresh data behind the key of the thread ...
FreshEntry(t) ==
    /\ entry' = [entry EXCEPT ![t] = "present"]
    /\ handles' = [handles EXCEPT ![t] = {}]

\* Fault: <= for < in the comparison with PER_CLIENT_TID_CAP.
ListThreadOverCap(w, t, p) ==
    \/ /\ repo[p].level = "none"
       /\ repo' = [repo EXCEPT ![p] =
                      [threads |-> <<t>>, level |-> IF p \in alive THEN "known" ELSE "unknown"]]
       /\ Goto(w, "limit") /\ UNCHANGED mishaps
    \/ /\ repo[p].level # "none" /\ Len(repo[p].threads) <= ThreadCap
       /\ repo' = [repo EXCEPT ![p].threads = Append(@, t)]
       /\ Goto(w, "limit") /\ UNCHANGED mishaps

\* ... and lists the thread with its process, whose level is read from /proc.
ListThread(w, t, p) ==
    \/ /\ repo[p].level = "none"
       /\ repo' = [repo EXCEPT ![p] =
                      [threads |-> <<t>>, level |-> IF p \in alive THEN "known" ELSE "unknown"]]
       /\ Goto(w, "limit") /\ UNCHANGED mishaps
    \/ /\ repo[p].level # "none" /\ Len(repo[p].threads) < ThreadCap
       /\ repo' = [repo EXCEPT ![p].threads = Append(@, t)]
       /\ Goto(w, "limit") /\ UNCHANGED mishaps
    \/ /\ repo[p].level # "none" /\ Len(repo[p].threads) >= ThreadCap
       /\ Drop(w) /\ UNCHANGED repo
       /\ mishaps' = mishaps \cup {"cap"}

\* Fault: createNewClient relies on the clientExists call before it.
CreateUnchecked(w) ==
    /\ At(w, "create")
    /\ FreshEntry(ThreadOf(w)) /\ ListThread(w, ThreadOf(w), ProcessOf[ThreadOf(w)])
    /\ UNCHANGED <<clientSide, server, daemons, crashed>>

\* createNewClient checks again, since another worker may have been faster.
CreateNewClient(w) ==
    /\ At(w, "create")
    /\ \/ /\ Known(ThreadOf(w))
          /\ Goto(w, "limit") /\ UNCHANGED <<tables, mishaps>>
       \/ /\ ~Known(ThreadOf(w))
          /\ FreshEntry(ThreadOf(w)) /\ ListThread(w, ThreadOf(w), ProcessOf[ThreadOf(w)])
    /\ UNCHANGED <<clientSide, server, daemons, crashed>>

\* No block for the thread's data, or none for the process's data.
CreateFails(w) ==
    /\ "alloc" \in Mishaps
    /\ At(w, "create") /\ ~Known(ThreadOf(w))
    /\ \/ UNCHANGED <<entry, handles>>
       \/ repo[ProcessOf[ThreadOf(w)]].level = "none" /\ FreshEntry(ThreadOf(w))
    /\ Drop(w)
    /\ mishaps' = mishaps \cup {"alloc"}
    /\ UNCHANGED <<clientSide, repo, server, daemons, crashed>>

\* shouldBeProcessed: a thread without a key has health -1 and is refused; a key
\* without data is dereferenced.
RateLimit(w) ==
    /\ At(w, "limit")
    /\ IF entry[ThreadOf(w)] = "absent" THEN Drop(w) ELSE Goto(w, "verify")
    /\ crashed' = (entry[ThreadOf(w)] = "null")
    /\ UNCHANGED <<clientSide, tables, server, daemons, mishaps>>

\* VerifyIncomingRequest: the level of the process must be known.
Verify(w) ==
    /\ At(w, "verify")
    /\ IF repo[ProcessOf[ThreadOf(w)]].level = "known" THEN Goto(w, "match") ELSE Drop(w)
    /\ UNCHANGED <<clientSide, tables, server, daemons, crashed, mishaps>>

\* Looking a missing thread up with operator[] leaves a key without data.
Touch(t) == entry' = [entry EXCEPT ![t] = IF @ = "absent" THEN "null" ELSE @]

\* shouldRequestBeAdded: requestMatch looks the client's handles up.
Match(w) ==
    /\ At(w, "match")
    /\ Touch(ThreadOf(w))
    /\ Goto(w, "add")
    /\ UNCHANGED <<clientSide, repo, handles, server, daemons, crashed, mishaps>>

\* addRequest with insertRequestByClientId.
AddRequest(w) ==
    LET t == ThreadOf(w)
        h == worker[w].handle
    IN  /\ At(w, "add")
        /\ active' = active \cup {h}
        /\ Touch(t)
        /\ handles' = IF entry[t] = "present" THEN [handles EXCEPT ![t] = @ \cup {h}] ELSE handles
        /\ Goto(w, "enqueue")
        /\ UNCHANGED <<clientSide, repo, completed, queue, draining, daemons, crashed, mishaps>>

\* addAndWakeup waits for the consumer to release the queue mutex.
Enqueue(w) ==
    /\ At(w, "enqueue")
    /\ ~draining
    /\ queue' = queue \cup {Tune(worker[w].handle)}
    /\ Drop(w)
    /\ UNCHANGED <<clientSide, tables, active, completed, draining, daemons, crashed, mishaps>>

WorkerStep(w) ==
    \/ ClientExists(w) \/ CreateNewClient(w) \/ CreateFails(w) \/ RateLimit(w)
    \/ Verify(w) \/ Match(w) \/ AddRequest(w) \/ Enqueue(w)

----------------------------------------------------------------------------
(* The consumer of the queue, and timers *)

Take(m) ==
    /\ m \in queue
    /\ queue' = queue \ {m}
    /\ draining' = (queue # {m})

ServeTune(h) ==
    /\ Take(Tune(h))
    /\ completed' = completed \cup {h}
    /\ UNCHANGED <<clientSide, worker, tables, active, daemons, crashed, mishaps>>

\* An untune of a request that is not in the lists (yet) is dropped.
DropUntune(h) ==
    /\ Take(Untune(h))
    /\ h \notin active \/ h \notin completed
    /\ UNCHANGED <<clientSide, worker, tables, active, completed, daemons, crashed, mishaps>>

\* removeRequest with deleteRequestByClientId: a key without data is dereferenced.
ServeUntune(h) ==
    LET t == sender[h].thread
    IN  /\ Take(Untune(h))
        /\ h \in active /\ h \in completed
        /\ active' = active \ {h}
        /\ handles' = [handles EXCEPT ![t] = @ \ {h}]
        /\ crashed' = (entry[t] = "null")
        /\ UNCHANGED <<clientSide, worker, repo, entry, completed, daemons, mishaps>>

ConsumerStep == \E h \in Handle : ServeTune(h) \/ DropUntune(h) \/ ServeUntune(h)

\* The timer of a request in the lists expires.
Expire(h) ==
    /\ h \in active /\ h \in completed /\ sender[h].dur = "timed"
    /\ ~draining /\ Untune(h) \notin queue
    /\ queue' = queue \cup {Untune(h)}
    /\ UNCHANGED <<clientSide, worker, tables, active, completed, draining,
                   daemons, crashed, mishaps>>

----------------------------------------------------------------------------
(* Pulse monitor: checkForDeadClients *)

PulseStart ==
    /\ pulse = [todo |-> {}, victim |-> None]
    /\ \E p \in Process : repo[p].level # "none"
    /\ pulse' = [pulse EXCEPT !.todo = {p \in Process : repo[p].level # "none"}]
    /\ UNCHANGED <<clientSide, worker, tables, server, gcQueue, gc, crashed, mishaps>>

SkipLive(p) ==
    /\ p \in pulse.todo /\ pulse.victim = None
    /\ p \in alive
    /\ pulse' = [pulse EXCEPT !.todo = @ \ {p}]
    /\ UNCHANGED <<clientSide, worker, tables, server, gcQueue, gc, crashed, mishaps>>

\* Fault: only the first thread of the process is queued.
SubmitFirst(p) ==
    /\ p \in pulse.todo /\ pulse.victim = None
    /\ p \notin alive
    /\ gc.pc = "idle"
    /\ gcQueue' = gcQueue \o SubSeq(repo[p].threads, 1, 1)
    /\ pulse' = [todo |-> pulse.todo \ {p}, victim |-> p]
    /\ UNCHANGED <<clientSide, worker, tables, server, gc, crashed, mishaps>>

\* submitClientThreadsForCleanup, when the collector does not hold the mutex.
SubmitDead(p) ==
    /\ p \in pulse.todo /\ pulse.victim = None
    /\ p \notin alive
    /\ gc.pc = "idle"
    /\ gcQueue' = gcQueue \o repo[p].threads
    /\ pulse' = [todo |-> pulse.todo \ {p}, victim |-> p]
    /\ UNCHANGED <<clientSide, worker, tables, server, gc, crashed, mishaps>>

\* Fault: the entry of the dead process stays and is found again.
KeepClientPID ==
    /\ pulse.victim # None
    /\ pulse' = [pulse EXCEPT !.victim = None]
    /\ UNCHANGED <<clientSide, worker, tables, server, gcQueue, gc, crashed, mishaps>>

\* deleteClientPID
DeleteClientPID ==
    /\ pulse.victim # None
    /\ repo' = [repo EXCEPT ![pulse.victim] = NoClient]
    /\ pulse' = [pulse EXCEPT !.victim = None]
    /\ UNCHANGED <<clientSide, worker, entry, handles, server, gcQueue, gc, crashed, mishaps>>

PulseStep == PulseStart \/ DeleteClientPID \/ \E p \in Process : SkipLive(p) \/ SubmitDead(p)

----------------------------------------------------------------------------
(* Garbage collector: performCleanup, under mGcQueueMutex *)

\* Fault: the loop stops one short of the queue.
GcMoreButLast == gc.count < BatchSize /\ gc.count + 1 < Len(gcQueue)

\* The bound is evaluated again for every iteration, on a queue that shrinks.
GcMore == gc.count < BatchSize /\ gc.count < Len(gcQueue)

GcStart ==
    /\ gc.pc = "idle" /\ gcQueue # <<>>
    /\ gc' = [GcIdle EXCEPT !.pc = "loop"]
    /\ UNCHANGED <<clientSide, worker, tables, server, pulse, gcQueue, crashed, mishaps>>

\* The handles of the thread are copied; without data a null pointer is followed.
GcCopy ==
    LET t == Head(gcQueue)
    IN  /\ gc.pc = "loop" /\ GcMore
        /\ gcQueue' = Tail(gcQueue)
        /\ Touch(t)
        /\ crashed' = (entry[t] # "present")
        /\ gc' = [gc EXCEPT !.pc = "delete", !.thread = t, !.todo = handles[t]]
        /\ UNCHANGED <<clientSide, worker, repo, handles, server, pulse, mishaps>>

\* deleteClientTID
GcDelete ==
    /\ gc.pc = "delete"
    /\ entry' = [entry EXCEPT ![gc.thread] = "absent"]
    /\ handles' = [handles EXCEPT ![gc.thread] = {}]
    /\ gc' = [gc EXCEPT !.pc = "untune"]
    /\ UNCHANGED <<clientSide, worker, repo, server, pulse, gcQueue, crashed, mishaps>>

\* An untune is enqueued for a request the RequestManager still has.
GcUntune(h) ==
    /\ gc.pc = "untune" /\ h \in gc.todo
    /\ \/ h \in active /\ ~draining /\ queue' = queue \cup {Untune(h)}
       \/ h \notin active /\ UNCHANGED queue
    /\ gc' = [gc EXCEPT !.todo = @ \ {h}]
    /\ UNCHANGED <<clientSide, worker, tables, active, completed, draining,
                   pulse, gcQueue, crashed, mishaps>>

\* There is no block for the untune: the handle is passed over.
GcUntuneFails(h) ==
    /\ "alloc" \in Mishaps
    /\ gc.pc = "untune" /\ h \in gc.todo \cap active
    /\ gc' = [gc EXCEPT !.todo = @ \ {h}]
    /\ mishaps' = mishaps \cup {"alloc"}
    /\ UNCHANGED <<clientSide, worker, tables, server, pulse, gcQueue, crashed>>

GcNext ==
    /\ gc.pc = "untune" /\ gc.todo = {}
    /\ gc' = [gc EXCEPT !.pc = "loop", !.count = @ + 1, !.thread = None]
    /\ UNCHANGED <<clientSide, worker, tables, server, pulse, gcQueue, crashed, mishaps>>

GcEnd ==
    /\ gc.pc = "loop" /\ ~GcMore
    /\ gc' = GcIdle
    /\ UNCHANGED <<clientSide, worker, tables, server, pulse, gcQueue, crashed, mishaps>>

GcStep ==
    \/ GcStart \/ GcCopy \/ GcDelete \/ GcNext \/ GcEnd
    \/ \E h \in Handle : GcUntune(h) \/ GcUntuneFails(h)

----------------------------------------------------------------------------

Next ==
    /\ ~crashed
    /\ \/ \E w \in Worker, t \in Thread, d \in Durations : SendTune(w, t, d)
       \/ \E p \in Process : Exit(p)
       \/ \E w \in Worker : WorkerStep(w)
       \/ ConsumerStep
       \/ \E h \in Handle : Expire(h)
       \/ PulseStep
       \/ GcStep

Spec == Init /\ [][Next]_vars

\* Pool threads, consumer and the two recurring timers keep running; a thread that
\* waits for a mutex gets it once it is released.
Fairness ==
    /\ \A w \in Worker : WF_vars(~crashed /\ WorkerStep(w))
    /\ WF_vars(~crashed /\ ConsumerStep)
    /\ WF_vars(~crashed /\ PulseStep)
    /\ WF_vars(~crashed /\ GcStep)

LiveSpec == Spec /\ Fairness

----------------------------------------------------------------------------
(* Properties *)

\* Shape of the state.
TypeOK ==
    /\ alive \subseteq Process /\ last \in 0 .. MaxHandle
    /\ sender \in [Handle -> [thread : Thread \cup {None}, dur : {"timed", "infinite"}]]
    /\ \A w \in Worker : worker[w] # None => worker[w].handle \in 1 .. last
    /\ \A p \in Process :
          /\ repo[p].threads \in Seq(Thread) /\ Len(repo[p].threads) <= ThreadCap
          /\ repo[p].level \in {"none", "unknown", "known"}
    /\ entry \in [Thread -> {"absent", "null", "present"}]
    /\ handles \in [Thread -> SUBSET Handle]
    /\ active \subseteq Handle /\ completed \subseteq Handle
    /\ queue \subseteq {Tune(h) : h \in Handle} \cup {Untune(h) : h \in Handle}
    /\ draining \in BOOLEAN /\ crashed \in BOOLEAN
    /\ pulse \in [todo : SUBSET Process, victim : Process \cup {None}]
    /\ gcQueue \in Seq(Thread)
    /\ gc \in [pc : {"idle", "loop", "delete", "untune"}, count : 0 .. BatchSize,
               thread : Thread \cup {None}, todo : SUBSET Handle]
    /\ mishaps \subseteq {"abrupt", "alloc", "cap"}

\* Whatever happens to other clients, and however many requests of a thread meet
\* in clientExists and createNewClient, the requests of a living process stay in
\* its client entry: untunes find the client and its death will be noticed.
LiveClientsKept ==
    \A h \in active : Owner(h) \in alive =>
        /\ entry[sender[h].thread] = "present"
        /\ h \in handles[sender[h].thread]
        /\ repo[Owner(h)].level # "none"

\* The server follows no null pointer in the client tables, unless some process
\* exited while a tune request of it was on its way.
SurvivesOrderlyClients == crashed => "abrupt" \in mishaps

Collected(t) == gc.thread = t /\ gc.pc = "delete"

\* As long as nothing went wrong, data of a thread can always be reached by the
\* collector: it is listed with its process, queued, or being collected, also
\* between submitClientThreadsForCleanup and deleteClientPID.
EntriesReachable ==
    mishaps = {} => \A t \in Thread : entry[t] = "present" =>
        \/ t \in ToSet(repo[ProcessOf[t]].threads)
        \/ t \in ToSet(gcQueue)
        \/ Collected(t)

\* The server has forgotten process p: no request, no entry, no thread data.
Forgotten(p) ==
    /\ \A h \in active : Owner(h) # p
    /\ repo[p].level = "none"
    /\ \A t \in Thread : ProcessOf[t] = p => entry[t] # "present"

\* A process that exits is forgotten for good, its infinite requests included, if
\* it left nothing in flight, memory sufficed and the thread cap was respected.
DeadClientsForgotten ==
    [](mishaps = {}) => \A p \in Process : (p \notin alive) ~> []Forgotten(p)
============================================================================
