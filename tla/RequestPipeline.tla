-------------------------- MODULE RequestPipeline --------------------------
(***************************************************************************)
(* The life of a resource provisioning request inside the server: worker   *)
(* threads of the request pool (RequestHandler.cpp), the tables of the     *)
(* RequestManager and its untune cache, the priority queue, its single     *)
(* consumer (RequestQueue.cpp), the timers of CocoTable.cpp.               *)
(*                                                                         *)
(* Steps are the critical sections of the code.  Operations of the         *)
(* consumer on state that only the consumer touches (the lists of the      *)
(* CocoTable, the Request it frees) belong to the step of the critical     *)
(* section next to them.  A request's place in the lists is abstracted to  *)
(* membership in `linked`; CocoTable.tla is about the lists.               *)
(***************************************************************************)
EXTENDS Integers, Sequences, FiniteSets, Bags, SequencesExt

CONSTANTS
    Worker,         \* threads of the request pool
    Client,         \* thread ids of clients
    Offered,        \* the tune requests clients may send: body, prio, dur
    RetuneTo,       \* durations a retune may ask for
    Infinite,       \* the duration -1
    MaxConcurrent,  \* mMaxConcurrentRequests
    CacheSize,      \* mMaxSize of the untune cache
    MaxHandle,      \* bound: tune requests sent
    MaxFollowUps,   \* bound: untune and retune requests sent
    Throttling,     \* may the per-client rate limiter refuse a request?
    Failures,       \* may timers and memory blocks run out?
    NoTask          \* an idle worker

Handle == 1 .. MaxHandle
Status == {"cancelled", "completed"}
TimerState == {"none", "armed", "fired", "stopped"}

ASSUME PipelineAssumption ==
    /\ MaxHandle \in Nat \ {0} /\ MaxConcurrent \in Nat /\ CacheSize \in Nat \ {0}
    /\ MaxFollowUps \in Nat
    /\ Throttling \in BOOLEAN /\ Failures \in BOOLEAN
    /\ Infinite = -1
    /\ \A o \in Offered : o.prio \in 0 .. 3 /\ (o.dur = Infinite \/ o.dur \in Nat \ {0})
    /\ \A d \in RetuneTo : d = Infinite \/ d \in Nat \ {0}

VARIABLES
    last,       \* the last handle generated
    request,    \* request[h]: the Request object of handle h, its client, body, ...
    freed,      \* handles whose Request object went back to the memory pool
    frees,      \* frees[h]: how often it did (cleanUpRequest); history, nobody reads it
    worker,     \* worker[w]: the message it handles and how far it is
    clients,    \* clients with an entry in the ClientDataManager
    owned,      \* owned[c]: handles in the client's entry
    active,     \* keys of mActiveRequests
    status,     \* status[h]: the RequestProcessingStatus bits
    cached,     \* mHandleSet of the untune cache
    recency,    \* mRecencyQueue of the untune cache
    queue,      \* mOrderedQueue, a bag of messages
    consumer,   \* "idle": the queue mutex is free; otherwise the consumer holds it
    current,    \* the tune request the consumer is inserting
    linked,     \* requests whose nodes are in the lists of the CocoTable
    timer,      \* timer[h]: the Timer object of a request
    firing,     \* firing[h]: timer threads inside timerExpired, not yet enqueued
    followUps   \* untune and retune requests sent

handler == <<last, request, freed, frees, worker, clients, owned>>
books   == <<active, status, cached, recency>>
backend == <<queue, consumer, current, linked, timer, firing>>
vars == <<handler, books, backend, followUps>>

\* Messages of the queue.  A tune message is the Request object itself.
TuneMsg(h)       == [type |-> "tune", handle |-> h]
UntuneMsg(h, p)  == [type |-> "untune", handle |-> h, prio |-> p]
RetuneMsg(h, d)  == [type |-> "retune", handle |-> h, prio |-> 0, dur |-> d]

Message ==
    {TuneMsg(h) : h \in Handle} \cup {UntuneMsg(h, p) : h \in Handle, p \in 0 .. 3}
    \cup {RetuneMsg(h, d) : h \in Handle, d \in RetuneTo}

PriorityOf(m) == IF m.type = "tune" THEN request[m.handle].prio ELSE m.prio

NoRequest == [client |-> "none"]

Init ==
    /\ last = 0
    /\ request = [h \in Handle |-> NoRequest]
    /\ freed = {}
    /\ frees = [h \in Handle |-> 0]
    /\ worker = [w \in Worker |-> NoTask]
    /\ clients = {}
    /\ owned = [c \in Client |-> {}]
    /\ active = {}
    /\ status = [h \in Handle |-> {}]
    /\ cached = {}
    /\ recency = <<>>
    /\ queue = EmptyBag
    /\ consumer = "idle"
    /\ current = 0
    /\ linked = {}
    /\ timer = [h \in Handle |-> "none"]
    /\ firing = [h \in Handle |-> 0]
    /\ followUps = 0

----------------------------------------------------------------------------
(* Clients and workers *)

Assign(w, m, c, pc) == worker' = [worker EXCEPT ![w] = [pc |-> pc, msg |-> m, client |-> c]]
At(w, pc) == worker[w] # NoTask /\ worker[w].pc = pc
Goto(w, pc) == worker' = [worker EXCEPT ![w].pc = pc]
Drop(w) == worker' = [worker EXCEPT ![w] = NoTask]

\* The Request object goes back to the memory pool.
Return(h) ==
    /\ freed' = freed \cup {h}
    /\ frees' = [frees EXCEPT ![h] = @ + 1]

\* cleanUpRequest for the message of worker w.
Discard(w) ==
    /\ Drop(w)
    /\ IF worker[w].msg.type = "tune"
       THEN Return(worker[w].msg.handle)
       ELSE UNCHANGED <<freed, frees>>

\* The receiver generates a handle, hands the message to the pool and returns
\* the handle to the client.
SendTune(w, c, o) ==
    /\ worker[w] = NoTask
    /\ last < MaxHandle
    /\ last' = last + 1
    /\ request' = [request EXCEPT ![last + 1] =
                      [client |-> c, body |-> o.body, prio |-> o.prio, dur |-> o.dur]]
    /\ Assign(w, TuneMsg(last + 1), c, "admit")
    /\ UNCHANGED <<freed, frees, clients, owned, books, backend, followUps>>

\* A client that knows a handle untunes or retunes it; the library sends these
\* with properties 0, the highest priority.
SendFollowUp(w, c, m, pc) ==
    /\ worker[w] = NoTask
    /\ followUps < MaxFollowUps
    /\ m.handle <= last
    /\ followUps' = followUps + 1
    /\ Assign(w, m, c, pc)
    /\ UNCHANGED <<last, request, freed, frees, clients, owned, books, backend>>
SendUntune(w, c, h) == SendFollowUp(w, c, UntuneMsg(h, 0), "cancel")
SendRetune(w, c, h, d) == SendFollowUp(w, c, RetuneMsg(h, d), "lookup")

\* isGlobalRateLimitHonored
AdmitTune(w) ==
    /\ At(w, "admit")
    /\ IF Cardinality(active) >= MaxConcurrent
       THEN Discard(w)
       ELSE Goto(w, "register") /\ UNCHANGED <<freed, frees>>
    /\ UNCHANGED <<last, request, clients, owned, books, backend, followUps>>

\* clientExists, or else createNewClient, which may find no memory block.
RegisterClient(w) ==
    /\ At(w, "register")
    /\ \/ /\ clients' = clients \cup {worker[w].client}
          /\ Goto(w, "match")
          /\ UNCHANGED <<freed, frees>>
       \/ /\ Failures /\ worker[w].client \notin clients
          /\ Discard(w)
          /\ UNCHANGED clients
    /\ UNCHANGED <<last, request, owned, books, backend, followUps>>

\* The rate limiter refuses the client: a tune before it is matched, an untune
\* after it cancelled the processing of its handle.
RateLimit(w) ==
    /\ Throttling
    /\ At(w, "match") \/ At(w, "forward")
    /\ Discard(w)
    /\ UNCHANGED <<last, request, clients, owned, books, backend, followUps>>

\* requestMatch returns at the first outstanding request that differs, so a new
\* request is a duplicate only if it equals every one of them.
RequestMatch(c, body) == owned[c] # {} /\ \A h \in owned[c] : request[h].body = body

\* VerifyIncomingRequest (the bodies offered pass it) and shouldRequestBeAdded,
\* under the shared lock.
ShouldRequestBeAdded(w) ==
    LET c == worker[w].client
        h == worker[w].msg.handle
    IN  /\ At(w, "match")
        /\ IF Cardinality(active) >= MaxConcurrent \/ RequestMatch(c, request[h].body)
           THEN Discard(w)
           ELSE Goto(w, "add") /\ UNCHANGED <<freed, frees>>
        /\ UNCHANGED <<last, request, clients, owned, books, backend, followUps>>

\* Fault: addRequest trusts the capacity check of shouldRequestBeAdded.
MayAddUncounted(h) == h \notin active /\ h \notin cached
\* Fault: the untune cache is not consulted.
MayAddUntuned(h) == Cardinality(active) < MaxConcurrent /\ h \notin active

\* The conditions of addRequest; handles are unique, so h is never active here.
MayAdd(h) == Cardinality(active) < MaxConcurrent /\ h \notin active /\ h \notin cached

\* addRequest, under the exclusive lock.
AddRequest(w) ==
    LET c == worker[w].client
        h == worker[w].msg.handle
    IN  /\ At(w, "add")
        /\ IF MayAdd(h)
           THEN /\ active' = active \cup {h}
                /\ status' = [status EXCEPT ![h] = {}]
                /\ owned' = [owned EXCEPT ![c] = IF c \in clients THEN @ \cup {h} ELSE @]
                /\ Goto(w, "enqueue")
                /\ UNCHANGED <<freed, frees>>
           ELSE Discard(w) /\ UNCHANGED <<active, status, owned>>
        /\ UNCHANGED <<last, request, clients, cached, recency, backend, followUps>>

\* HandleCache::insert
CacheInsert(h) ==
    LET full == Cardinality(cached) >= CacheSize
    IN  /\ cached' = (IF full THEN cached \ {Head(recency)} ELSE cached) \cup {h}
        /\ recency' = Append(IF full THEN Tail(recency) ELSE recency, h)

\* An untune: unknown clients are dropped; disableRequestProcessing marks the
\* request, or remembers the handle if it is not in the map.
CancelRequest(w) ==
    LET h == worker[w].msg.handle
    IN  /\ At(w, "cancel")
        /\ \/ /\ worker[w].client \notin clients
              /\ Drop(w) /\ UNCHANGED books
           \/ /\ worker[w].client \in clients /\ h \notin active
              /\ CacheInsert(h)
              /\ Drop(w) /\ UNCHANGED <<active, status>>
           \/ /\ worker[w].client \in clients /\ h \in active
              /\ status' = [status EXCEPT ![h] = @ \cup {"cancelled"}]
              /\ Goto(w, "forward") /\ UNCHANGED <<active, cached, recency>>
        /\ UNCHANGED <<last, request, freed, frees, clients, owned, backend, followUps>>

\* A retune: only the client is checked.
LookupClient(w) ==
    /\ At(w, "lookup")
    /\ IF worker[w].client \in clients THEN Goto(w, "forward") ELSE Drop(w)
    /\ UNCHANGED <<last, request, freed, frees, clients, owned, books, backend, followUps>>

\* verifyHandle for untunes and retunes.
VerifyHandle(w) ==
    /\ At(w, "forward")
    /\ IF worker[w].msg.handle \in active THEN Goto(w, "enqueue") ELSE Drop(w)
    /\ UNCHANGED <<last, request, freed, frees, clients, owned, books, backend, followUps>>

\* addAndWakeup: needs the queue mutex, which the consumer keeps until it has
\* drained the queue.
AddAndWakeup(w) ==
    /\ At(w, "enqueue")
    /\ consumer = "idle"
    /\ queue' = queue (+) SetToBag({worker[w].msg})
    /\ Drop(w)
    /\ UNCHANGED <<last, request, freed, frees, clients, owned, books,
                   consumer, current, linked, timer, firing, followUps>>

WorkerStep(w) ==
    \/ AdmitTune(w) \/ RegisterClient(w) \/ RateLimit(w)
    \/ ShouldRequestBeAdded(w) \/ AddRequest(w)
    \/ CancelRequest(w) \/ LookupClient(w) \/ VerifyHandle(w) \/ AddAndWakeup(w)

----------------------------------------------------------------------------
(* The consumer *)

\* The next message: one of the highest priority, in no particular order among
\* equals (std::priority_queue).
Top(m) ==
    /\ consumer \in {"idle", "draining"}
    /\ m \in BagToSet(queue)
    /\ \A n \in BagToSet(queue) : PriorityOf(m) <= PriorityOf(n)
Without(m) == queue (-) SetToBag({m})

\* The message is dealt with and q is left: the hook goes on until the queue is
\* empty, and only then is the mutex released.
Continue(q) ==
    /\ queue' = q
    /\ consumer' = IF q = EmptyBag THEN "idle" ELSE "draining"

\* Fault: the handle stays in the client's entry.
ForgetButOwned(h) == active' = active \ {h} /\ UNCHANGED owned

\* RequestManager::removeRequest
Forget(h) ==
    /\ active' = active \ {h}
    /\ owned' = [owned EXCEPT ![request[h].client] = @ \ {h}]

\* cleanUpRequest of a tune request: its timer goes with it.
Free(h) ==
    /\ Return(h)
    /\ timer' = [timer EXCEPT ![h] = "none"]

\* Fault: only a completed request is taken for processed.
StaleIfCompleted(h) == "completed" \in status[h]

\* Has the tune request been untuned, or processed already?
Stale(h) == status[h] \cap {"cancelled", "completed"} # {}

DropTune(m) ==
    /\ m.type = "tune" /\ Top(m)
    /\ Stale(m.handle)
    /\ Forget(m.handle) /\ Free(m.handle)
    /\ Continue(Without(m))
    /\ UNCHANGED <<last, request, worker, clients, status, cached, recency,
                   current, linked, firing, followUps>>

\* The status has been read and found clean: the request will be inserted.
BeginTune(m) ==
    /\ m.type = "tune" /\ Top(m)
    /\ ~Stale(m.handle)
    /\ queue' = Without(m)
    /\ consumer' = "inserting"
    /\ current' = m.handle
    /\ UNCHANGED <<handler, books, linked, timer, firing, followUps>>

\* markRequestAsComplete and CocoTable::insertRequest.
InsertTune ==
    /\ consumer = "inserting"
    /\ linked' = linked \cup {current}
    /\ status' = [status EXCEPT ![current] = @ \cup {"completed"}]
    /\ timer' = [timer EXCEPT ![current] =
                    IF request[current].dur = Infinite THEN "none" ELSE "armed"]
    /\ Continue(queue) /\ current' = 0
    /\ UNCHANGED <<handler, active, cached, recency, firing, followUps>>

\* The insertion fails: no block for the timer (nothing is linked) or no pool
\* task for it (everything is).  RequestQueue cleans the request up.
InsertTuneFails ==
    /\ Failures
    /\ consumer = "inserting"
    /\ request[current].dur # Infinite
    /\ \/ UNCHANGED linked
       \/ linked' = linked \cup {current}
    /\ status' = [status EXCEPT ![current] = @ \cup {"completed"}]
    /\ Forget(current) /\ Free(current)
    /\ Continue(queue) /\ current' = 0
    /\ UNCHANGED <<last, request, worker, clients, cached, recency, firing, followUps>>

\* Untunes and retunes of requests that are gone, and untunes of requests that
\* have not been inserted.
DropFollowUp(m) ==
    /\ m.type # "tune" /\ Top(m)
    /\ \/ m.handle \notin active
       \/ m.type = "untune" /\ "completed" \notin status[m.handle]
    /\ Continue(Without(m))
    /\ UNCHANGED <<handler, books, current, linked, timer, firing, followUps>>

\* Fault: untunes are served whether or not the request has been inserted.
ServeAnyUntune(m) ==
    /\ m.type = "untune" /\ Top(m)
    /\ m.handle \in active
    /\ linked' = linked \ {m.handle}
    /\ Forget(m.handle) /\ Free(m.handle)
    /\ Continue(Without(m))
    /\ UNCHANGED <<last, request, worker, clients, status, cached, recency,
                   current, firing, followUps>>

\* Fault: the request is freed without CocoTable::removeRequest.
ServeUntuneKeepsNodes(m) ==
    /\ m.type = "untune" /\ Top(m)
    /\ m.handle \in active /\ "completed" \in status[m.handle]
    /\ Forget(m.handle) /\ Free(m.handle)
    /\ Continue(Without(m))
    /\ UNCHANGED <<last, request, worker, clients, status, cached, recency,
                   current, linked, firing, followUps>>

\* Fault: the status of the handle is looked up, not whether it is still in the map.
ServeUntuneAgain(m) ==
    /\ m.type = "untune" /\ Top(m)
    /\ "completed" \in status[m.handle]
    /\ linked' = linked \ {m.handle}
    /\ Forget(m.handle) /\ Free(m.handle)
    /\ Continue(Without(m))
    /\ UNCHANGED <<last, request, worker, clients, status, cached, recency,
                   current, firing, followUps>>

\* CocoTable::removeRequest, RequestManager::removeRequest, cleanUpRequest.
ServeUntune(m) ==
    /\ m.type = "untune" /\ Top(m)
    /\ m.handle \in active /\ "completed" \in status[m.handle]
    /\ linked' = linked \ {m.handle}
    /\ Forget(m.handle) /\ Free(m.handle)
    /\ Continue(Without(m))
    /\ UNCHANGED <<last, request, worker, clients, status, cached, recency,
                   current, firing, followUps>>

\* The request is still queued: its duration is overwritten.
ServeEarlyRetune(m) ==
    /\ m.type = "retune" /\ Top(m)
    /\ m.handle \in active /\ "completed" \notin status[m.handle]
    /\ request' = [request EXCEPT ![m.handle].dur = m.dur]
    /\ Continue(Without(m))
    /\ UNCHANGED <<last, freed, frees, worker, clients, owned, books,
                   current, linked, timer, firing, followUps>>

\* updateRequest refuses a finite duration below the present one.
Refused(h, d) == d > 0 /\ d < request[h].dur

RefuseRetune(m) ==
    /\ m.type = "retune" /\ Top(m)
    /\ m.handle \in active /\ "completed" \in status[m.handle]
    /\ Refused(m.handle, m.dur)
    /\ Continue(Without(m))
    /\ UNCHANGED <<handler, books, current, linked, timer, firing, followUps>>

\* Fault: the new timer is created but not started.
TimerAfterRetuneUnstarted(d) == {"stopped"}

\* What updateRequest leaves as the request's timer: a new one, started unless
\* the duration is infinite; none if there is no block; one that does not run
\* if it cannot be started.
TimerAfterRetune(d) ==
    {IF d = Infinite THEN "stopped" ELSE "armed"}
    \cup (IF Failures THEN {"none"} \cup (IF d = Infinite THEN {} ELSE {"stopped"}) ELSE {})

\* updateRequest: the old timer is killed and replaced.
ServeRetune(m) ==
    /\ m.type = "retune" /\ Top(m)
    /\ m.handle \in active /\ "completed" \in status[m.handle]
    /\ ~Refused(m.handle, m.dur)
    /\ timer[m.handle] # "none"
    /\ request' = [request EXCEPT ![m.handle].dur = m.dur]
    /\ \E t \in TimerAfterRetune(m.dur) : timer' = [timer EXCEPT ![m.handle] = t]
    /\ Continue(Without(m))
    /\ UNCHANGED <<last, freed, frees, worker, clients, owned, books,
                   current, linked, firing, followUps>>

\* updateRequest on a request without a Timer object: killTimer through a null
\* pointer ends the process.
CrashOnRetune(m) ==
    /\ m.type = "retune" /\ Top(m)
    /\ m.handle \in active /\ "completed" \in status[m.handle]
    /\ ~Refused(m.handle, m.dur)
    /\ timer[m.handle] = "none"
    /\ queue' = Without(m)
    /\ consumer' = "crashed"
    /\ UNCHANGED <<handler, books, current, linked, timer, firing, followUps>>

ServeMessage(m) ==
    \/ DropTune(m) \/ BeginTune(m) \/ DropFollowUp(m) \/ ServeUntune(m)
    \/ ServeEarlyRetune(m) \/ RefuseRetune(m) \/ ServeRetune(m) \/ CrashOnRetune(m)

ConsumerStep == InsertTune \/ InsertTuneFails \/ \E m \in BagToSet(queue) : ServeMessage(m)

----------------------------------------------------------------------------
(* Timers *)

\* implementTimer: the wait ended and mTimerStop was not set.  From here on the
\* callback runs whatever happens to the request or to the timer.
Expire(h) ==
    /\ timer[h] = "armed"
    /\ timer' = [timer EXCEPT ![h] = "fired"]
    /\ firing' = [firing EXCEPT ![h] = @ + 1]
    /\ UNCHANGED <<handler, books, queue, consumer, current, linked, followUps>>

\* Fault: the untune is given HIGH_TRANSFER_PRIORITY, as moveToPendingList does.
TimerExpiredTransfers(h) ==
    /\ firing[h] > 0
    /\ consumer = "idle"
    /\ queue' = queue (+) SetToBag({UntuneMsg(h, -1)})
    /\ firing' = [firing EXCEPT ![h] = @ - 1]
    /\ UNCHANGED <<handler, books, consumer, current, linked, timer, followUps>>

\* timerExpired enqueues an untune with the handle and priority of the request,
\* read from the Request object.  The object may have been freed by then; its
\* block keeps its content until the pool hands it out again, and that reuse is
\* not modelled here.
TimerExpired(h) ==
    /\ firing[h] > 0
    /\ consumer = "idle"
    /\ queue' = queue (+) SetToBag({UntuneMsg(h, request[h].prio)})
    /\ firing' = [firing EXCEPT ![h] = @ - 1]
    /\ UNCHANGED <<handler, books, consumer, current, linked, timer, followUps>>

\* timerExpired gets no block for the untune request and returns.
TimerExpiredFails(h) ==
    /\ Failures
    /\ firing[h] > 0
    /\ firing' = [firing EXCEPT ![h] = @ - 1]
    /\ UNCHANGED <<handler, books, queue, consumer, current, linked, timer, followUps>>

----------------------------------------------------------------------------

Running == consumer # "crashed"

Next ==
    /\ Running
    /\ \/ \E w \in Worker, c \in Client, o \in Offered : SendTune(w, c, o)
       \/ \E w \in Worker, c \in Client, h \in Handle : SendUntune(w, c, h)
       \/ \E w \in Worker, c \in Client, h \in Handle, d \in RetuneTo : SendRetune(w, c, h, d)
       \/ \E w \in Worker : WorkerStep(w)
       \/ ConsumerStep
       \/ \E h \in Handle : Expire(h) \/ TimerExpired(h) \/ TimerExpiredFails(h)

Spec == Init /\ [][Next]_vars

\* The pool threads and the consumer thread are always scheduled again, and a
\* thread that wants the queue mutex gets it once the consumer has released it.
\* Clients need not send anything, and nothing is assumed of the expiry of timers.
Fairness ==
    /\ \A w \in Worker : WF_vars(Running /\ WorkerStep(w))
    /\ WF_vars(Running /\ ConsumerStep)
    /\ \A h \in Handle : WF_vars(Running /\ TimerExpired(h))

LiveSpec == Spec /\ Fairness

----------------------------------------------------------------------------
(* Properties *)

\* Shape of the state.
TypeOK ==
    /\ last \in 0 .. MaxHandle
    /\ \A h \in Handle : h <= last =>
          /\ request[h].client \in Client
          /\ request[h].prio \in 0 .. 3
          /\ request[h].dur \in Nat \cup {Infinite}
    /\ freed \subseteq Handle /\ frees \in [Handle -> Nat]
    /\ active \subseteq Handle /\ linked \subseteq Handle
    /\ \A w \in Worker : worker[w] # NoTask => worker[w].msg \in Message
    /\ clients \subseteq Client
    /\ owned \in [Client -> SUBSET Handle]
    /\ status \in [Handle -> SUBSET Status]
    /\ cached \subseteq Handle /\ recency \in Seq(Handle)
    /\ IsABag(queue) /\ BagToSet(queue) \subseteq Message
    /\ consumer \in {"idle", "draining", "inserting", "crashed"}
    /\ current \in Handle \cup {0}
    /\ timer \in [Handle -> TimerState]
    /\ firing \in [Handle -> Nat]
    /\ followUps \in 0 .. MaxFollowUps

\* The maps of RequestManager and ClientDataManager agree at every moment, and
\* neither refers to a Request object that was returned to the memory pool
\* (getRequestFromMap hands the pointer to the consumer).
BooksAgree ==
    /\ active \cap freed = {}
    /\ \A c \in Client : owned[c] = {h \in active : request[h].client = c}

\* A tune request in the queue is alive, tracked and queued once, although its
\* untune may overtake it (client untunes have the highest priority) or meet it
\* between the consumer's status check and its insertion.
QueuedTunesAlive ==
    \A h \in Handle : TuneMsg(h) \in BagToSet(queue) \/ current = h =>
        /\ h \in active \ (freed \cup linked)
        /\ "completed" \notin status[h]
        /\ current = h => TuneMsg(h) \notin BagToSet(queue)
        /\ current # h => queue[TuneMsg(h)] = 1

\* shouldRequestBeAdded and addRequest check the limit on concurrent requests in
\* separate critical sections; it holds all the same.
CapacityRespected == Cardinality(active) <= MaxConcurrent

\* A handle in the untune cache is not in the server's tables and no request of
\* that handle is in effect: an untune that came before its tune request was
\* added wins (disableRequestProcessing, addRequest).
CachedNeverApplied == cached \cap (active \cup linked) = {}

\* The lists of the CocoTable hold nodes of live, tracked and completed requests
\* only, and every completed request is there.  Fails when a timer cannot be
\* started: insertRequest then returns 0 with the nodes linked.
LinkedAreTracked ==
    linked = {h \in active \ freed : "completed" \in status[h]}

\* A timed request in the lists always has somebody on the way to remove it: its
\* timer, a timer thread in timerExpired, or an untune in the queue.
TimedHaveRemover ==
    \A h \in linked : request[h].dur # Infinite =>
        \/ timer[h] = "armed"
        \/ firing[h] > 0
        \/ \E p \in 0 .. 3 : UntuneMsg(h, p) \in BagToSet(queue)

\* An untune that got past the rate limiter is effective: from some time on, and
\* for good, its request is not in effect, however tune and untune interleave.
UntuneEffective ==
    \A h \in Handle :
        (\E w \in Worker : At(w, "enqueue") /\ worker[w].msg = UntuneMsg(h, 0))
            ~> [](h \notin linked)

\* A timed request leaves the lists, or becomes an infinite one by a retune, once
\* timers that are due do expire.
TimedRequestsExpire ==
    (\A h \in Handle : WF_vars(Running /\ Expire(h))) =>
        \A h \in Handle :
            (h \in linked /\ request[h].dur # Infinite)
                ~> (h \notin linked \/ request[h].dur = Infinite)

\* Somebody will still follow the pointer to the tune request: a worker, the
\* queue or the consumer.
InHands(h) ==
    \/ \E w \in Worker : worker[w] # NoTask /\ worker[w].msg = TuneMsg(h)
    \/ TuneMsg(h) \in BagToSet(queue)
    \/ current = h

\* Where a handle is in its life.  Whatever is none of the stages of a well-kept
\* request is "corrupt": freed twice, freed or in the lists while somebody is still
\* to deal with the object, freed while tracked, in the lists but not tracked.
Stage(h) ==
    IF h > last THEN "unknown"
    ELSE IF frees[h] = 0 /\ h \notin linked
         THEN IF h \in active THEN "tracked" ELSE "offered"
    ELSE IF frees[h] = 0 /\ h \in active /\ ~InHands(h) THEN "applied"
    ELSE IF frees[h] = 1 /\ h \notin active /\ ~InHands(h)
         THEN IF h \in linked THEN "dangling" ELSE "gone"
    ELSE "corrupt"

Lifecycle == INSTANCE RequestLifecycle WITH
    MayStrand <- Failures,
    stage <- [h \in Handle |-> Stage(h)],
    withdrawn <- cached

\* Every step of workers, consumer and timers is a step of the abstract life of
\* one request, or invisible.  So the Request object is put into the lists at most
\* once and returned to the memory pool (cleanUpRequest) at most once, whoever of
\* untune, timer, rejection and duplicate comes first; it leaves the lists when it is
\* returned, is not returned while a worker, the queue or the consumer holds it, is
\* not tracked or inserted again afterwards, and is not tracked at all after a
\* withdrawal the server remembers.  Only a timer that cannot be started leaves the
\* nodes of a returned request in the lists.
LifecycleSpec == Lifecycle!Spec

----------------------------------------------------------------------------
(* A claim of the documentation that the code does not keep *)

\* Comment on disableRequestProcessing: as soon as an untune for a handle is
\* received, the request is not serviced any more.
ReceivedUntuneEffective ==
    \A h \in Handle :
        (\E w \in Worker : At(w, "cancel") /\ worker[w].msg = UntuneMsg(h, 0))
            ~> [](h \notin linked)
============================================================================
