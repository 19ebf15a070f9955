------------------------ MODULE ContextualClassifier ------------------------
(***************************************************************************)
(* The contextual classifier (contextual-classifier/*.cpp): the netlink    *)
(* thread that hears of every exec, the bounded queue of pending events,   *)
(* the worker that classifies a process, moves it to the focused cgroup    *)
(* and sends its signal, and as much of the server as decides whether a    *)
(* move takes effect and is undone: client entries, the duplicate check,   *)
(* the consumer, and the daemons that withdraw requests of dead processes. *)
(*                                                                         *)
(* What a process is classified as only selects the signal, so the feature *)
(* extraction and the model's inference are left out.  An exit event never *)
(* passes shouldProcBeIgnored and is not delivered here.  Each step of the *)
(* consumer serves one message; the races inside it are those of           *)
(* RequestPipeline.tla.                                                    *)
(***************************************************************************)
EXTENDS Naturals, Sequences, FiniteSets

CONSTANTS
    Process,        \* processes (PIDs, not reused)
    Ignored,        \* filtered: low parent PID, blocklist, not on the allow-list
    CGroup,         \* cgroup identifiers that configurations name
    Focused,        \* FOCUSED_CGROUP_IDENTIFIER
    Companion,      \* Companion[p]: mThreadNameList of p's application, to mCGroupIds
    Configured,     \* cgroups in the TargetRegistry: named and created
    Unopenable,     \* cgroups whose cgroup.procs may not open: removed, never created
    QueueSize,      \* pendingQueueControlSize
    SocketSize,     \* events the kernel keeps for the netlink socket
    MaxConcurrent,  \* mMaxConcurrentRequests
    Mortal,         \* bound: processes that may exit
    MaxExecs        \* bound: exec calls

ASSUME ClassifierAssumption ==
    /\ Ignored \subseteq Process
    /\ Focused \in CGroup /\ Configured \subseteq CGroup
    /\ CGroup \cap {"home", "root", "absent"} = {}
    /\ \A p \in Process : Companion[p] \in UNION {[S -> CGroup] : S \in SUBSET Process}
    /\ QueueSize \in Nat \ {0} /\ SocketSize \in Nat \ {0} /\ MaxConcurrent \in Nat
    /\ MaxExecs \in Nat

\* Every exec makes the worker generate at most two handles.
Handle == 1 .. 2 * MaxExecs

VARIABLES
    alive,      \* processes with a /proc/<pid>/comm
    execs,      \* exec calls so far; events are numbered
    newest,     \* history: number and process of the last exec that is not filtered
    socket,     \* events in the socket's buffer, and whether one was lost
    listener,   \* the netlink thread: "up", "failed", "done"
    mPendingEv,
    mNeedExit,
    main,       \* the worker: where it is and the event it handles
    mRestuneHandle,
    served,     \* history: number of the last event that was classified and moved
    last,       \* the last handle generated
    known,      \* processes with a client entry
    request,    \* request[h]: mActiveRequests
    queue,      \* messages of the request queue
    group,      \* group[p]: cgroup of p
    default,    \* default[p]: the value stored for /proc/<pid>/cgroup
    twice,      \* history: processes moved while another request held them
    refused,    \* history: <<h, p>> where the move of p by h did not open its file
    astray      \* history: processes whose own cgroup is lost, or never was recorded

system == <<alive, execs, newest>>
netlink == <<socket, listener>>
classifier == <<main, mRestuneHandle, served, last>>
server == <<known, request, queue>>
cgroups == <<group, default, twice, refused, astray>>
vars == <<system, netlink, mPendingEv, mNeedExit, classifier, server, cgroups>>

Event(n, p) == [num |-> n, pid |-> p]
NoEvent == Event(0, "none")
Waiting == [pc |-> "wait", ev |-> NoEvent]
NoRequest == [client |-> "none", moves |-> {}, signal |-> FALSE, status |-> "absent"]
Tune(h) == [type |-> "tune", handle |-> h]
Untune(h) == [type |-> "untune", handle |-> h]

Active == {h \in Handle : request[h].status # "absent"}
OfClient(p) == {h \in Active : request[h].client = p}

Init ==
    /\ alive = Process /\ execs = 0 /\ newest = NoEvent
    /\ socket = [events |-> <<>>, overrun |-> FALSE]
    /\ listener = "up"
    /\ mPendingEv = <<>> /\ mNeedExit = FALSE
    /\ main = Waiting
    /\ mRestuneHandle = 0 /\ served = 0 /\ last = 0
    /\ known = {} /\ queue = {}
    /\ request = [h \in Handle |-> NoRequest]
    /\ group = [p \in Process |-> "home"]
    /\ default = [p \in Process |-> "absent"]
    /\ twice = {} /\ refused = {} /\ astray = {}

----------------------------------------------------------------------------
(* The system *)

\* A process calls exec.  The kernel drops an event the buffer has no room for
\* and lets the next recv report ENOBUFS.
Exec(p) ==
    /\ p \in alive /\ execs < MaxExecs
    /\ execs' = execs + 1
    /\ newest' = IF p \in Ignored THEN newest ELSE Event(execs + 1, p)
    /\ socket' = IF Len(socket.events) < SocketSize
                 THEN [socket EXCEPT !.events = Append(@, Event(execs + 1, p))]
                 ELSE [socket EXCEPT !.overrun = TRUE]
    /\ UNCHANGED <<alive, listener, mPendingEv, mNeedExit, classifier, server, cgroups>>

Exit(p) ==
    /\ p \in alive \cap Mortal
    /\ alive' = alive \ {p}
    /\ group' = [group EXCEPT ![p] = "home"]
    /\ UNCHANGED <<execs, newest, netlink, mPendingEv, mNeedExit, classifier, server,
                   default, twice, refused, astray>>

----------------------------------------------------------------------------
(* The netlink thread: HandleProcEv *)

ShouldProcBeIgnored(p) == p \notin alive \/ p \in Ignored

\* Fault: the queue refuses the new event instead of dropping the oldest.
RefuseNew(q, ev) == IF Len(q) >= QueueSize THEN q ELSE Append(q, ev)

\* push, and pop when the queue has become too long.
Push(q, ev) == LET r == Append(q, ev) IN IF Len(r) > QueueSize THEN Tail(r) ELSE r

\* recvEvent delivers an event.
HandleProcEv ==
    /\ listener = "up" /\ ~mNeedExit
    /\ ~socket.overrun /\ socket.events # <<>>
    /\ LET ev == Head(socket.events)
       IN  mPendingEv' = IF ShouldProcBeIgnored(ev.pid) THEN mPendingEv ELSE Push(mPendingEv, ev)
    /\ socket' = [socket EXCEPT !.events = Tail(@)]
    /\ UNCHANGED <<system, listener, mNeedExit, classifier, server, cgroups>>

\* recv fails with something else than EINTR: the thread returns for good.
RecvFails ==
    /\ listener = "up" /\ ~mNeedExit /\ socket.overrun
    /\ listener' = "failed"
    /\ UNCHANGED <<system, socket, mPendingEv, mNeedExit, classifier, server, cgroups>>

ListenerReturns ==
    /\ listener = "up" /\ mNeedExit
    /\ listener' = "done"
    /\ UNCHANGED <<system, socket, mPendingEv, mNeedExit, classifier, server, cgroups>>

----------------------------------------------------------------------------
(* The worker: ClassifierMain *)

Goto(pc) == main' = IF pc = "wait" THEN Waiting ELSE [main EXCEPT !.pc = pc]
Incoming == main.ev.pid

Take ==
    /\ main.pc = "wait" /\ ~mNeedExit /\ mPendingEv # <<>>
    /\ main' = [pc |-> "classify", ev |-> Head(mPendingEv)]
    /\ mPendingEv' = Tail(mPendingEv)
    /\ UNCHANGED <<system, netlink, mNeedExit, mRestuneHandle, served, last, server, cgroups>>

\* fetchComm and ClassifyProcess give up on a process that is gone.
ClassifyProcess ==
    /\ main.pc = "classify"
    /\ Goto(IF Incoming \in alive THEN "untune" ELSE "wait")
    /\ UNCHANGED <<system, netlink, mPendingEv, mNeedExit, mRestuneHandle, served, last, server, cgroups>>

\* The first half of MoveAppThreadsToCGroup: an untune for the outstanding
\* request, in the name of the incoming process.  processIncomingRequest drops it
\* when that process is no client, or the request is no longer tracked.
UntuneOutstanding ==
    /\ main.pc = "untune"
    /\ IF mRestuneHandle \in Active /\ Incoming \in known
       THEN /\ request' = [request EXCEPT ![mRestuneHandle].status =
                              IF @ = "tracked" THEN "cancelled" ELSE @]
            /\ queue' = queue \cup {Untune(mRestuneHandle)}
       ELSE UNCHANGED <<request, queue>>
    /\ mRestuneHandle' = 0
    /\ Goto("tune")
    /\ UNCHANGED <<system, netlink, mPendingEv, mNeedExit, served, last, known, cgroups>>

\* requestMatch: the client has requests, and all of them equal the new one.
RequestMatch(r) ==
    /\ OfClient(r.client) # {}
    /\ \A h \in OfClient(r.client) : request[h].moves = r.moves /\ request[h].signal = r.signal

\* processIncomingRequest for a tune request with handle h.
Submit(h, r) ==
    IF Cardinality(Active) >= MaxConcurrent
    THEN UNCHANGED server
    ELSE /\ known' = known \cup {r.client}
         /\ IF RequestMatch(r)
            THEN UNCHANGED <<request, queue>>
            ELSE /\ request' = [request EXCEPT ![h] = r]
                 /\ queue' = queue \cup {Tune(h)}

\* The moves of the incoming process and of those its configuration names.
Moves(p) ==
    {[pid |-> p, to |-> Focused]} \cup
    {[pid |-> c, to |-> Companion[p][c]] : c \in (DOMAIN Companion[p] \cap alive) \ {p}}

TuneIncoming ==
    /\ main.pc = "tune"
    /\ last' = last + 1
    /\ mRestuneHandle' = last + 1
    /\ Submit(last + 1, [client |-> Incoming, moves |-> Moves(Incoming), signal |-> FALSE,
                         status |-> "tracked"])
    /\ served' = main.ev.num
    /\ Goto("apply")
    /\ UNCHANGED <<system, netlink, mPendingEv, mNeedExit, cgroups>>

\* The signal request of the workload, if a signal is configured for it; it may
\* fail verification or the rate limit.
ApplyActions ==
    /\ main.pc = "apply"
    /\ last' = last + 1
    /\ \/ Submit(last + 1, [client |-> Incoming, moves |-> {}, signal |-> TRUE,
                            status |-> "tracked"])
       \/ UNCHANGED server
    /\ Goto("wait")
    /\ UNCHANGED <<system, netlink, mPendingEv, mNeedExit, mRestuneHandle, served, cgroups>>

Terminate ==
    /\ ~mNeedExit
    /\ mNeedExit' = TRUE
    /\ mPendingEv' = <<>>
    /\ UNCHANGED <<system, netlink, classifier, server, cgroups>>

WorkerReturns ==
    /\ main.pc = "wait" /\ mNeedExit
    /\ Goto("done")
    /\ UNCHANGED <<system, netlink, mPendingEv, mNeedExit, mRestuneHandle, served, last, server, cgroups>>

----------------------------------------------------------------------------
(* The server *)

Applied == {h \in Active : request[h].status = "applied"}
MovedBy(h) == {m.pid : m \in request[h].moves}
Remove(h) == request' = [request EXCEPT ![h] = NoRequest]

\* moveProcessToCGroup, for each move of the request.  A cgroup that is not
\* configured ends it at once.  Otherwise the cgroup the process is in is remembered,
\* and then the process is moved, if the file of the new one opens.  A process that
\* is gone has no cgroup to read and cannot be moved.
MoveProcessToCGroup(h) ==
    LET to(p) == (CHOOSE m \in request[h].moves : m.pid = p).to
        found == {p \in MovedBy(h) : to(p) \in Configured}
    IN  \E shut \in SUBSET {p \in found : to(p) \in Unopenable} :
            /\ default' = [p \in Process |->
                              IF p \in found /\ p \in alive THEN group[p] ELSE default[p]]
            /\ group' = [p \in Process |->
                              IF p \in found \ shut /\ p \in alive THEN to(p) ELSE group[p]]
            /\ twice' = twice \cup {p \in MovedBy(h) : \E k \in Applied : p \in MovedBy(k)}
            /\ refused' = refused \cup {<<h, p>> : p \in shut}
            /\ astray' = astray \cup (MovedBy(h) \ found)

\* Fault: the stored value is deleted before it is read.
RootForAll(p) == "root"

\* Where removeProcessFromCGroup sends a process: the base path without a stored value.
OriginalCGroup(p) == IF default[p] = "absent" THEN "root" ELSE default[p]

\* The stored value is deleted whether or not the process could be moved back.
RemoveProcessFromCGroup(h) ==
    \E shut \in SUBSET {p \in MovedBy(h) : OriginalCGroup(p) \in Unopenable} :
        /\ group' = [p \in Process |->
                        IF p \in MovedBy(h) \ shut /\ p \in alive THEN OriginalCGroup(p) ELSE group[p]]
        /\ default' = [p \in Process |-> IF p \in MovedBy(h) THEN "absent" ELSE default[p]]
        /\ astray' = astray \cup shut
        /\ UNCHANGED <<twice, refused>>

\* One message of orderedQueueConsumerHook.
ServeTune(h) ==
    /\ Tune(h) \in queue
    /\ \A k \in Handle : Untune(k) \notin queue
    /\ queue' = queue \ {Tune(h)}
    /\ IF request[h].status = "cancelled"
       THEN Remove(h) /\ UNCHANGED cgroups
       ELSE /\ request' = [request EXCEPT ![h].status = "applied"]
            /\ MoveProcessToCGroup(h)
    /\ UNCHANGED <<system, netlink, mPendingEv, mNeedExit, classifier, known>>

\* An untune of a request that is not in the table yet does nothing.
ServeUntune(h) ==
    /\ Untune(h) \in queue
    /\ queue' = queue \ {Untune(h)}
    /\ IF request[h].status = "applied"
       THEN Remove(h) /\ RemoveProcessFromCGroup(h)
       ELSE UNCHANGED <<request, cgroups>>
    /\ UNCHANGED <<system, netlink, mPendingEv, mNeedExit, classifier, known>>

\* The timer of a signal request ends.
Expire(h) ==
    /\ h \in Applied /\ request[h].signal
    /\ queue' = queue \cup {Untune(h)}
    /\ UNCHANGED <<system, netlink, mPendingEv, mNeedExit, classifier, known, request, cgroups>>

\* Pulse monitor and garbage collector, for one dead process.
Forget(p) ==
    /\ p \in known \ alive
    /\ known' = known \ {p}
    /\ queue' = queue \cup {Untune(h) : h \in OfClient(p)}
    /\ UNCHANGED <<system, netlink, mPendingEv, mNeedExit, classifier, request, cgroups>>

----------------------------------------------------------------------------

Listener == HandleProcEv \/ RecvFails \/ ListenerReturns
Worker == Take \/ ClassifyProcess \/ UntuneOutstanding \/ TuneIncoming \/ ApplyActions \/ WorkerReturns
Consumer == \E h \in Handle : ServeTune(h) \/ ServeUntune(h)

Next ==
    \/ \E p \in Process : Exec(p) \/ Exit(p) \/ Forget(p)
    \/ Listener \/ Worker \/ Consumer
    \/ \E h \in Handle : Expire(h)
    \/ Terminate

\* The threads run; a thread that waits for a mutex gets it once it is released.
Fairness == WF_vars(HandleProcEv \/ RecvFails) /\ WF_vars(Worker) /\ WF_vars(Consumer)

Spec == Init /\ [][Next]_vars /\ Fairness

----------------------------------------------------------------------------
(* Properties *)

\* The moves of p by requests in effect whose files opened.
MovesOf(p) ==
    {m \in UNION {request[h].moves : h \in {k \in Applied : <<k, p>> \notin refused}} : m.pid = p}

\* A living process is where the requests in effect put it, and back in its own
\* cgroup when the last of them is withdrawn, whoever withdraws it and however
\* untunes overtake tunes in the queue; a move whose file did not open leaves it at
\* home, and its withdrawal too.  The exceptions are processes that two requests moved
\* at a time, for which the stored cgroup was overwritten; processes named with a
\* cgroup that is not configured, which are not moved but still sent to the root
\* cgroup by the withdrawal; and those whose own cgroup did not open on the way back.
MovesInEffect ==
    \A p \in alive \ (twice \cup astray) :
        IF MovesOf(p) = {} THEN group[p] = "home" ELSE \E m \in MovesOf(p) : group[p] = m.to

\* The application opened last gets the worker's attention, however many events
\* pile up before it: the bounded queue gives up older ones.  This ends with the
\* netlink thread, which one lost event stops.
NewestServed ==
    \A n \in 1 .. MaxExecs : newest.num = n ~>
        \/ served = n \/ newest.num # n \/ newest.pid \notin alive
        \/ listener # "up" \/ mNeedExit
=============================================================================
