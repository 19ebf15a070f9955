--------------------- MODULE ContextualClassifierProofs ---------------------
(***************************************************************************)
(* Proofs about ContextualClassifier, for any processes, filters, sizes    *)
(* and numbers of events.                                                  *)
(*                                                                         *)
(* MovesInEffect speaks of cgroups only.  It is inductive together with    *)
(* what makes the stored cgroup the right one: a process that was neither  *)
(* moved twice nor led astray is held by at most one request, which was    *)
(* applied once (its tune leaves the queue), while the process was alive,  *)
(* and found it at home.  Whether that request's file opened is known for  *)
(* good from then on: a handle is fresh, and no earlier refusal is its own.*)
(***************************************************************************)
EXTENDS ContextualClassifier, SequenceTheorems, TLAPS

EventSet == [num : Nat, pid : Process]
Pid == Process \cup {"none"}
Cgroup == CGroup \cup {"home", "root"}
Status == {"absent", "tracked", "cancelled", "applied"}
Move == [pid : Process, to : CGroup]
Request == [client : Pid, moves : SUBSET Move, signal : BOOLEAN, status : Status]

ShapeInv ==
    /\ alive \subseteq Process /\ execs \in Nat
    /\ socket \in [events : Seq(EventSet), overrun : BOOLEAN]
    /\ mPendingEv \in Seq(EventSet)
    /\ main \in [pc : {"wait", "classify", "untune", "tune", "apply", "done"},
                 ev : [num : Nat, pid : Pid]]
    /\ main.pc \in {"classify", "untune", "tune", "apply"} => main.ev.pid \in Process
    /\ last \in Nat
    /\ request \in [Handle -> Request]
    /\ group \in [Process -> Cgroup]
    /\ default \in [Process -> Cgroup \cup {"absent"}]

\* A request moves a process to one place.
MovesInv == \A h \in Handle : \A m, n \in request[h].moves : m.pid = n.pid => m = n

\* A tune is queued until its request is applied, and once: handles are fresh.
QueueInv ==
    /\ \A h \in Handle : Tune(h) \in queue => h <= last /\ request[h].status # "applied"
    /\ \A h \in Handle : h > last => request[h] = NoRequest
    /\ \A h \in Handle, p \in Process : <<h, p>> \in refused => h <= last /\ Tune(h) \notin queue

\* A living process that is no exception is held by one request at most, which found
\* it at home and left it there if the file did not open.
HeldInv ==
    \A p \in alive \ (twice \cup astray) :
        /\ \A h \in Applied : p \in MovedBy(h) => default[p] = "home"
        /\ \A h, k \in Applied : p \in MovedBy(h) /\ p \in MovedBy(k) => h = k
        /\ \A h \in Applied : \A m \in request[h].moves :
               m.pid = p => group[p] = IF <<h, p>> \in refused THEN "home" ELSE m.to
        /\ (\A h \in Applied : p \notin MovedBy(h)) => group[p] = "home"

\* The inductive invariant.
ClassifierInv == ShapeInv /\ MovesInv /\ QueueInv /\ HeldInv

----------------------------------------------------------------------------

LEMMA InitClassifier == Init => ClassifierInv
<1> SUFFICES ASSUME Init PROVE ClassifierInv
  OBVIOUS
<1> USE ClassifierAssumption DEF Init
<1>1. request \in [Handle -> Request] /\ \A h \in Handle : request[h] = NoRequest
  BY DEF NoRequest, Request, Pid, Status
<1>2. Applied = {}
  BY <1>1 DEF Applied, Active, NoRequest
<1>3. ShapeInv
  BY <1>1 DEF ShapeInv, Waiting, NoEvent, Event, Pid, Cgroup
<1>4. MovesInv
  BY <1>1 DEF MovesInv, NoRequest
<1>5. QueueInv
  BY <1>1 DEF QueueInv
<1>6. HeldInv
  BY <1>2 DEF HeldInv
<1> QED BY <1>3, <1>4, <1>5, <1>6 DEF ClassifierInv

\* Requests by handle.
LEMMA RequestFields ==
    ASSUME ShapeInv, NEW h \in Handle
    PROVE  /\ h \in Nat /\ h > 0
           /\ request[h] \in Request /\ request[h].status \in Status
           /\ request[h].moves \subseteq Move
           /\ h \in Active <=> request[h].status # "absent"
           /\ h \in Applied <=> request[h].status = "applied"
<1>1. h \in Nat /\ h > 0
  BY ClassifierAssumption DEF Handle
<1>2. request[h] \in Request
  BY DEF ShapeInv
<1> QED BY <1>1, <1>2 DEF Request, Applied, Active

\* Steps outside the server.
LEMMA QuietInv ==
    ASSUME ClassifierInv, ShapeInv', UNCHANGED <<alive, last, request, queue, cgroups>>
    PROVE  ClassifierInv'
<1> USE DEF ClassifierInv, cgroups
<1>1. MovesInv'
  BY DEF MovesInv
<1>2. QueueInv'
  BY DEF QueueInv
<1>3. Applied' = Applied /\ \A h : MovedBy(h)' = MovedBy(h)
  BY DEF Applied, Active, MovedBy
<1>4. HeldInv'
  BY <1>3 DEF HeldInv
<1> QED BY <1>1, <1>2, <1>4

\* The socket, the netlink thread and the queue of pending events.
LEMMA EventInv ==
    ASSUME ClassifierInv,
           \/ \E p \in Process : Exec(p)
           \/ HandleProcEv \/ RecvFails \/ ListenerReturns \/ Take \/ Terminate
    PROVE  ClassifierInv'
<1> USE DEF ClassifierInv, system, netlink, classifier, server, cgroups
<1>1. ASSUME NEW p \in Process, Exec(p) PROVE ClassifierInv'
  <2>1. Event(execs + 1, p) \in EventSet /\ execs' \in Nat
    BY <1>1 DEF Exec, Event, EventSet, ShapeInv
  <2>2. socket' \in [events : Seq(EventSet), overrun : BOOLEAN]
    <3>1. Append(socket.events, Event(execs + 1, p)) \in Seq(EventSet)
      BY <2>1 DEF ShapeInv
    <3> QED BY <1>1, <3>1 DEF Exec, ShapeInv
  <2>3. ShapeInv'
    BY <1>1, <2>1, <2>2 DEF Exec, ShapeInv
  <2> QED BY <1>1, <2>3, QuietInv DEF Exec
<1>2. CASE HandleProcEv
  <2>1. PICK ev \in EventSet :
            /\ mPendingEv' \in {mPendingEv, Push(mPendingEv, ev)}
            /\ socket.events # <<>>
    BY <1>2, HeadTailProperties DEF HandleProcEv, ShapeInv
  <2>2. socket' \in [events : Seq(EventSet), overrun : BOOLEAN]
    <3>1. Tail(socket.events) \in Seq(EventSet)
      BY <2>1, HeadTailProperties DEF ShapeInv
    <3> QED BY <1>2, <3>1 DEF HandleProcEv, ShapeInv
  <2>3. Push(mPendingEv, ev) \in Seq(EventSet)
    <3>1. /\ Append(mPendingEv, ev) \in Seq(EventSet) /\ Append(mPendingEv, ev) # <<>>
      BY DEF ShapeInv
    <3>2. Tail(Append(mPendingEv, ev)) \in Seq(EventSet)
      BY <3>1, HeadTailProperties
    <3> QED BY <3>1, <3>2 DEF Push
  <2>4. ShapeInv'
    BY <1>2, <2>1, <2>2, <2>3 DEF HandleProcEv, ShapeInv
  <2> QED BY <1>2, <2>4, QuietInv DEF HandleProcEv
<1>3. CASE RecvFails \/ ListenerReturns
  <2>1. ShapeInv'
    BY <1>3 DEF RecvFails, ListenerReturns, ShapeInv
  <2> QED BY <1>3, <2>1, QuietInv DEF RecvFails, ListenerReturns
<1>4. CASE Take
  <2>1. Head(mPendingEv) \in EventSet /\ mPendingEv' \in Seq(EventSet)
    BY <1>4, HeadTailProperties DEF Take, ShapeInv
  <2>2. ShapeInv'
    BY <1>4, <2>1 DEF Take, ShapeInv, EventSet, Pid
  <2> QED BY <1>4, <2>2, QuietInv DEF Take
<1>5. CASE Terminate
  <2>1. ShapeInv'
    BY <1>5 DEF Terminate, ShapeInv
  <2> QED BY <1>5, <2>1, QuietInv DEF Terminate
<1> QED BY <1>1, <1>2, <1>3, <1>4, <1>5

\* The worker between its requests.
LEMMA GotoShape ==
    ASSUME ShapeInv,
           NEW pc \in {"wait", "untune", "tune", "apply", "done"}, Goto(pc),
           pc \in {"untune", "tune", "apply"} => main.ev.pid \in Process
    PROVE  /\ main' \in [pc : {"wait", "classify", "untune", "tune", "apply", "done"},
                         ev : [num : Nat, pid : Pid]]
           /\ main'.pc \in {"classify", "untune", "tune", "apply"} => main'.ev.pid \in Process
<1>1. CASE pc = "wait"
  BY <1>1 DEF Goto, Waiting, NoEvent, Event, Pid
<1>2. CASE pc # "wait"
  BY <1>2 DEF Goto, ShapeInv
<1> QED BY <1>1, <1>2

LEMMA WorkerMovesInv ==
    ASSUME ClassifierInv, ClassifyProcess \/ WorkerReturns
    PROVE  ClassifierInv'
<1> USE DEF ClassifierInv, system, netlink, classifier, server, cgroups
<1>1. PICK pc \in {"wait", "untune", "done"} : Goto(pc) /\ (pc = "untune" => main.pc = "classify")
  BY DEF ClassifyProcess, WorkerReturns
<1>2. UNCHANGED <<system, netlink, mPendingEv, last, server, cgroups>>
  BY DEF ClassifyProcess, WorkerReturns
<1>3. ShapeInv'
  BY <1>1, <1>2, GotoShape DEF ShapeInv
<1> QED BY <1>2, <1>3, QuietInv

\* A process exits.
LEMMA ExitInv ==
    ASSUME ClassifierInv, NEW p \in Process, Exit(p)
    PROVE  ClassifierInv'
<1> USE DEF ClassifierInv, Exit, system, netlink, classifier, server
<1>1. ShapeInv'
  BY DEF ShapeInv, Cgroup
<1>2. MovesInv' /\ QueueInv'
  BY DEF MovesInv, QueueInv
<1>3. Applied' = Applied /\ \A h : MovedBy(h)' = MovedBy(h)
  BY DEF Applied, Active, MovedBy
<1>4. HeldInv'
  BY <1>3 DEF HeldInv, ShapeInv
<1> QED BY <1>1, <1>2, <1>4

\* Untunes are queued; requests not in effect may be marked.
LEMMA UntunesQueuedInv ==
    ASSUME ClassifierInv, ShapeInv',
           UNCHANGED <<alive, last, cgroups>>,
           \A h \in Handle : Tune(h) \in queue' => Tune(h) \in queue,
           \A h \in Handle : /\ request'[h].moves = request[h].moves
                             /\ request'[h].status = "applied" <=> request[h].status = "applied"
                             /\ request[h] = NoRequest => request'[h] = NoRequest
    PROVE  ClassifierInv'
<1> USE DEF ClassifierInv, cgroups
<1>1. MovesInv'
  BY DEF MovesInv
<1>2. QueueInv'
  BY DEF QueueInv
<1>3. Applied' = Applied
  BY RequestFields DEF Applied, Active
<1>4. \A h \in Applied : h \in Handle /\ MovedBy(h)' = MovedBy(h) /\ request'[h].moves = request[h].moves
  BY DEF Applied, Active, MovedBy
<1>5. HeldInv'
  BY <1>3, <1>4 DEF HeldInv
<1> QED BY <1>1, <1>2, <1>5

LEMMA UntuneInv ==
    ASSUME ClassifierInv,
           \/ UntuneOutstanding
           \/ \E h \in Handle : Expire(h)
           \/ \E p \in Process : Forget(p)
    PROVE  ClassifierInv'
<1> USE DEF ClassifierInv, system, netlink, classifier, server
<1>1. \A h, k : Tune(h) # Untune(k)
  BY DEF Tune, Untune
<1>2. CASE UntuneOutstanding
  <2>1. UNCHANGED <<alive, execs, last, socket, mPendingEv, cgroups>> /\ Goto("tune") /\ main.pc = "untune"
    BY <1>2 DEF UntuneOutstanding
  <2>2. /\ request' \in [Handle -> Request]
        /\ \A h \in Handle : /\ request'[h].moves = request[h].moves
                             /\ request'[h].status = "applied" <=> request[h].status = "applied"
                             /\ request[h] = NoRequest => request'[h] = NoRequest
    <3>1. CASE request' = request
      BY <3>1 DEF ShapeInv
    <3>2. CASE request' # request
      <4>1. PICK k \in Handle :
                /\ k \in Active
                /\ request' = [request EXCEPT ![k].status = IF @ = "tracked" THEN "cancelled" ELSE @]
        BY <1>2, <3>2 DEF UntuneOutstanding, Active
      <4>2. request[k] \in Request /\ request[k].status # "absent"
        BY <4>1, RequestFields
      <4>3. PICK s \in Status :
                /\ request'[k] = [request[k] EXCEPT !.status = s]
                /\ s = "applied" <=> request[k].status = "applied"
        BY <4>1, <4>2 DEF Request, Status, ShapeInv
      <4>4. /\ request'[k] \in Request /\ request'[k].moves = request[k].moves
            /\ request'[k].status = s
        BY <4>2, <4>3 DEF Request
      <4>5. request' \in [Handle -> Request] /\ \A h \in Handle \ {k} : request'[h] = request[h]
        BY <4>1, <4>4 DEF ShapeInv
      <4>6. request[k] # NoRequest
        BY <4>2 DEF NoRequest
      <4> QED BY <4>3, <4>4, <4>5, <4>6
    <3> QED BY <3>1, <3>2
  <2>3. \A h \in Handle : Tune(h) \in queue' => Tune(h) \in queue
    BY <1>1, <1>2 DEF UntuneOutstanding
  <2>4. ShapeInv'
    BY <2>1, <2>2, GotoShape DEF ShapeInv, cgroups
  <2> QED BY <2>1, <2>2, <2>3, <2>4, UntunesQueuedInv
<1>3. ASSUME NEW h \in Handle, Expire(h) PROVE ClassifierInv'
  <2>1. ShapeInv'
    BY <1>3 DEF Expire, ShapeInv, cgroups
  <2>2. \A k \in Handle : Tune(k) \in queue' => Tune(k) \in queue
    BY <1>1, <1>3 DEF Expire
  <2>3. UNCHANGED <<alive, last, request, cgroups>>
    BY <1>3 DEF Expire
  <2> QED BY <2>1, <2>2, <2>3, UntunesQueuedInv
<1>4. ASSUME NEW p \in Process, Forget(p) PROVE ClassifierInv'
  <2>1. ShapeInv'
    BY <1>4 DEF Forget, ShapeInv, cgroups
  <2>2. \A k \in Handle : Tune(k) \in queue' => Tune(k) \in queue
    BY <1>1, <1>4 DEF Forget
  <2>3. UNCHANGED <<alive, last, request, cgroups>>
    BY <1>4 DEF Forget
  <2> QED BY <2>1, <2>2, <2>3, UntunesQueuedInv
<1> QED BY <1>2, <1>3, <1>4

\* The worker sends a request with a fresh handle.
LEMMA SubmitInv ==
    ASSUME ClassifierInv, NEW r \in Request, r.status = "tracked",
           \A m, n \in r.moves : m.pid = n.pid => m = n,
           Submit(last + 1, r) \/ UNCHANGED server,
           last' = last + 1,
           UNCHANGED <<alive, execs, socket, mPendingEv, cgroups>>,
           main' \in [pc : {"wait", "classify", "untune", "tune", "apply", "done"},
                      ev : [num : Nat, pid : Pid]],
           main'.pc \in {"classify", "untune", "tune", "apply"} => main'.ev.pid \in Process
    PROVE  ClassifierInv'
<1> USE DEF ClassifierInv
<1> DEFINE h == last + 1
<1>1. /\ request' = request \/ request' = [request EXCEPT ![h] = r]
      /\ queue' = queue \/ (queue' = queue \cup {Tune(h)} /\ request' = [request EXCEPT ![h] = r])
  BY DEF Submit, server
<1>2. h \in Nat /\ h > last
  BY DEF ShapeInv
<1>3. /\ request' \in [Handle -> Request]
      /\ \A k \in Handle : k # h => request'[k] = request[k]
      /\ h \in Handle => request[h] = NoRequest /\ request'[h] \in {NoRequest, r}
      /\ h \in Handle /\ request' = [request EXCEPT ![h] = r] => request'[h] = r
  <2>1. h \in Handle => request[h] = NoRequest
    BY <1>2 DEF QueueInv
  <2>2. request \in [Handle -> Request]
    BY DEF ShapeInv
  <2>3. CASE request' = request
    BY <2>1, <2>2, <2>3
  <2>4. CASE request' = [request EXCEPT ![h] = r]
    BY <2>1, <2>2, <2>4
  <2> QED BY <1>1, <2>3, <2>4
<1>4. NoRequest.status = "absent" /\ NoRequest.moves = {}
  BY DEF NoRequest
<1>5. \A g, k : Tune(g) = Tune(k) => g = k
  BY DEF Tune
<1> HIDE DEF h
<1>6. ShapeInv'
  BY <1>2, <1>3 DEF ShapeInv, cgroups, h
<1>7. MovesInv'
  BY <1>3, <1>4 DEF MovesInv
<1>8. QueueInv'
  <2>1. ASSUME NEW k \in Handle, Tune(k) \in queue'
        PROVE  k <= last' /\ request'[k].status # "applied"
    <3>1. CASE k = h
      <4>1. request'[k].status \in {"absent", "tracked"}
        BY <1>3, <1>4, <3>1
      <4> QED BY <1>2, <3>1, <4>1 DEF h
    <3>2. CASE k # h
      <4>1. Tune(k) \in queue
        BY <1>1, <1>5, <2>1, <3>2
      <4>2. k <= last /\ k \in Nat /\ request[k].status # "applied"
        BY <4>1, RequestFields DEF QueueInv
      <4> QED BY <1>2, <1>3, <3>2, <4>2 DEF ShapeInv
    <3> QED BY <3>1, <3>2
  <2>2. ASSUME NEW k \in Handle, k > last' PROVE request'[k] = NoRequest
    <3>1. k > last /\ k # h
      BY <1>2, <2>2, RequestFields DEF h, ShapeInv
    <3> QED BY <1>3, <3>1 DEF QueueInv
  <2>3. ASSUME NEW k \in Handle, NEW p \in Process, <<k, p>> \in refused'
        PROVE  k <= last' /\ Tune(k) \notin queue'
    <3>1. k <= last /\ Tune(k) \notin queue
      BY <2>3 DEF QueueInv, cgroups
    <3>2. k \in Nat /\ last \in Nat
      BY RequestFields DEF ShapeInv
    <3>3. k # h
      BY <1>2, <3>1, <3>2
    <3> QED BY <1>1, <1>5, <3>1, <3>2, <3>3
  <2> QED BY <2>1, <2>2, <2>3 DEF QueueInv
<1>9. Applied' = Applied
  <2>1. \A k \in Handle : request'[k].status = "applied" <=> request[k].status = "applied"
    BY <1>3, <1>4
  <2> QED BY <2>1 DEF Applied, Active
<1>10. \A k \in Applied : k \in Handle /\ request'[k] = request[k] /\ MovedBy(k)' = MovedBy(k)
  BY <1>3, <1>4 DEF Applied, Active, MovedBy
<1>11. HeldInv'
  BY <1>9, <1>10 DEF HeldInv, cgroups
<1> QED BY <1>6, <1>7, <1>8, <1>11

LEMMA TuneIncomingInv ==
    ASSUME ClassifierInv, TuneIncoming \/ ApplyActions
    PROVE  ClassifierInv'
<1> USE DEF ClassifierInv
<1> DEFINE p == main.ev.pid
<1>1. p \in Process /\ p \in Pid
  BY DEF TuneIncoming, ApplyActions, ShapeInv, Pid
<1>2. Moves(p) \subseteq Move /\ \A m, n \in Moves(p) : m.pid = n.pid => m = n
  BY <1>1, ClassifierAssumption DEF Moves, Move
<1>3. PICK M \in {Moves(p), {}}, b \in BOOLEAN :
          \/ Submit(last + 1, [client |-> p, moves |-> M, signal |-> b, status |-> "tracked"])
          \/ UNCHANGED server
  <2>1. CASE TuneIncoming
    BY <2>1, Zenon DEF TuneIncoming, Incoming
  <2>2. CASE ApplyActions
    BY <2>2, Zenon DEF ApplyActions, Incoming
  <2> QED BY <2>1, <2>2
<1> DEFINE r == [client |-> p, moves |-> M, signal |-> b, status |-> "tracked"]
<1>4. r \in Request /\ r.status = "tracked" /\ r.moves = M
  BY <1>1, <1>2 DEF Request, Status
<1>5. PICK pc \in {"wait", "apply"} : Goto(pc)
  BY DEF TuneIncoming, ApplyActions
<1>6. /\ main' \in [pc : {"wait", "classify", "untune", "tune", "apply", "done"},
                    ev : [num : Nat, pid : Pid]]
      /\ main'.pc \in {"classify", "untune", "tune", "apply"} => main'.ev.pid \in Process
  BY <1>1, <1>5, GotoShape
<1>7. last' = last + 1 /\ UNCHANGED <<alive, execs, socket, mPendingEv, cgroups>>
  BY DEF TuneIncoming, ApplyActions, system, netlink
<1>8. \A m, n \in M : m.pid = n.pid => m = n
  BY <1>2
<1> HIDE DEF p, r
<1>9. Submit(last + 1, r) \/ UNCHANGED server
  BY <1>3 DEF r
<1> QED BY <1>4, <1>6, <1>7, <1>8, <1>9, SubmitInv

----------------------------------------------------------------------------
(* The consumer *)

\* The consumer serves a tune request: it drops a cancelled one, and applies another,
\* which may find a process where an earlier request put it.
LEMMA ServeTuneInv ==
    ASSUME ClassifierInv, NEW h \in Handle, ServeTune(h)
    PROVE  ClassifierInv'
<1> USE DEF ClassifierInv
<1>1. /\ Tune(h) \in queue /\ queue' = queue \ {Tune(h)}
      /\ UNCHANGED <<alive, execs, socket, mPendingEv, main, last>>
  BY DEF ServeTune, system, netlink, classifier
<1>2. /\ h \in Nat /\ h <= last /\ request[h] \in Request
      /\ request[h].status # "applied" /\ h \notin Applied
  BY <1>1, RequestFields DEF QueueInv
<1>3. \A k \in Handle : Tune(k) \in queue' => Tune(k) \in queue /\ k # h
  BY <1>1 DEF Tune
<1>4. \A k \in Handle : k > last => k # h
  BY <1>2, RequestFields DEF ShapeInv
<1>5. NoRequest.status = "absent" /\ NoRequest.moves = {} /\ NoRequest \in Request
  BY DEF NoRequest, Request, Pid, Status
<1>6. CASE request' = [request EXCEPT ![h] = NoRequest] /\ UNCHANGED cgroups
  <2>1. /\ request' \in [Handle -> Request] /\ request'[h] = NoRequest
        /\ \A k \in Handle \ {h} : request'[k] = request[k]
    BY <1>5, <1>6 DEF ShapeInv
  <2>2. ShapeInv'
    BY <1>1, <1>6, <2>1 DEF ShapeInv, cgroups
  <2>3. MovesInv'
    BY <1>5, <2>1 DEF MovesInv
  <2>4. QueueInv'
    BY <1>1, <1>3, <1>4, <1>6, <2>1 DEF QueueInv, cgroups
  <2>5. Applied' = Applied
    <3>1. \A k \in Handle : request'[k].status = "applied" <=> request[k].status = "applied"
      BY <1>2, <1>5, <2>1
    <3> QED BY <3>1 DEF Applied, Active
  <2>6. \A k \in Applied : k \in Handle \ {h} /\ request'[k] = request[k] /\ MovedBy(k)' = MovedBy(k)
    BY <1>2, <2>1 DEF Applied, Active, MovedBy
  <2>7. HeldInv'
    BY <1>1, <1>6, <2>5, <2>6 DEF HeldInv, cgroups
  <2> QED BY <2>2, <2>3, <2>4, <2>7
<1>7. CASE request' = [request EXCEPT ![h].status = "applied"] /\ MoveProcessToCGroup(h)
  <2>1. /\ request' \in [Handle -> Request]
        /\ request'[h].status = "applied" /\ request'[h].moves = request[h].moves
        /\ \A k \in Handle \ {h} : request'[k] = request[k]
    <3>1. request'[h] = [request[h] EXCEPT !.status = "applied"]
      BY <1>7 DEF ShapeInv
    <3>2. request'[h] \in Request
      BY <1>2, <3>1 DEF Request, Status
    <3> QED BY <1>2, <1>7, <3>1, <3>2 DEF ShapeInv, Request
  <2>2. Applied' = Applied \cup {h}
    <3>1. \A k \in Handle : request'[k].status = "applied" <=> request[k].status = "applied" \/ k = h
      BY <2>1
    <3> QED BY <3>1 DEF Applied, Active
  <2>3. /\ \A k \in Handle : MovedBy(k)' = MovedBy(k) /\ request'[k].moves = request[k].moves
        /\ Applied \subseteq Handle
    BY <2>1 DEF MovedBy, Applied, Active
  <2> DEFINE to(p) == (CHOOSE m \in request[h].moves : m.pid = p).to
  <2>4. \A m \in request[h].moves : to(m.pid) = m.to
    <3> SUFFICES ASSUME NEW m \in request[h].moves PROVE to(m.pid) = m.to
      OBVIOUS
    <3>1. \A n \in request[h].moves : n.pid = m.pid => n = m
      BY DEF MovesInv
    <3>2. (CHOOSE n \in request[h].moves : n.pid = m.pid) = m
      BY <3>1
    <3> QED BY <3>2
  <2>5. \A p \in MovedBy(h) : to(p) \in Cgroup
    <3> SUFFICES ASSUME NEW m \in request[h].moves PROVE to(m.pid) \in Cgroup
      BY DEF MovedBy
    <3>1. m.to \in CGroup
      BY <1>2 DEF Request, Move
    <3> QED BY <2>4, <3>1 DEF Cgroup
  <2> DEFINE found == {p \in MovedBy(h) : to(p) \in Configured}
  <2>6. PICK shut \in SUBSET found :
            /\ default' = [p \in Process |->
                              IF p \in found /\ p \in alive THEN group[p] ELSE default[p]]
            /\ group' = [p \in Process |->
                              IF p \in found \ shut /\ p \in alive THEN to(p) ELSE group[p]]
            /\ twice' = twice \cup {p \in MovedBy(h) : \E k \in Applied : p \in MovedBy(k)}
            /\ refused' = refused \cup {<<h, p>> : p \in shut}
            /\ astray' = astray \cup (MovedBy(h) \ found)
    BY <1>7 DEF MoveProcessToCGroup
  <2> HIDE DEF to
  <2>7. ShapeInv'
    BY <1>1, <2>1, <2>5, <2>6 DEF ShapeInv
  <2> HIDE DEF found
  <2>8. MovesInv'
    BY <2>3 DEF MovesInv
  <2>9. QueueInv'
    <3>1. \A k \in Handle, p \in Process : <<k, p>> \in refused' => <<k, p>> \in refused \/ k = h
      BY <2>6
    <3>2. \A k \in Handle, p \in Process : <<k, p>> \in refused' => k <= last' /\ Tune(k) \notin queue'
      BY <1>1, <1>2, <3>1 DEF QueueInv
    <3> QED BY <1>1, <1>3, <1>4, <2>1, <3>2 DEF QueueInv
  <2>10. HeldInv'
    <3> SUFFICES ASSUME NEW p \in alive, p \notin twice', p \notin astray'
                 PROVE  /\ \A k \in Applied' : p \in MovedBy(k) => default'[p] = "home"
                        /\ \A g, k \in Applied' : p \in MovedBy(g) /\ p \in MovedBy(k) => g = k
                        /\ \A k \in Applied' : \A m \in request[k].moves :
                               m.pid = p => group'[p] = IF <<k, p>> \in refused' THEN "home" ELSE m.to
                        /\ (\A k \in Applied' : p \notin MovedBy(k)) => group'[p] = "home"
      BY <1>1, <2>2, <2>3 DEF HeldInv
    <3>1. p \in Process /\ p \in alive \ (twice \cup astray)
      BY <2>6 DEF ShapeInv
    <3>2. CASE p \in MovedBy(h)
      <4>1. \A k \in Applied : p \notin MovedBy(k)
        BY <2>6, <3>2
      <4>2. group[p] = "home"
        BY <3>1, <4>1 DEF HeldInv
      <4>3. p \in found
        BY <2>6, <3>2
      <4>4. default'[p] = "home" /\ group'[p] = IF p \in shut THEN "home" ELSE to(p)
        BY <2>6, <3>1, <4>2, <4>3
      <4>5. <<h, p>> \in refused' <=> p \in shut
        BY <1>1, <2>6, <3>1 DEF QueueInv
      <4>6. \A k \in Applied : \A m \in request[k].moves : m.pid # p
        BY <4>1 DEF MovedBy
      <4> QED BY <2>2, <2>4, <3>2, <4>1, <4>4, <4>5, <4>6
    <3>3. CASE p \notin MovedBy(h)
      <4>1. default'[p] = default[p] /\ group'[p] = group[p]
        BY <2>6, <3>1, <3>3 DEF found
      <4>2. \A m \in request[h].moves : m.pid # p
        BY <3>3 DEF MovedBy
      <4>3. \A k \in Applied : <<k, p>> \in refused' <=> <<k, p>> \in refused
        BY <1>2, <2>6
      <4> QED BY <2>2, <3>1, <3>3, <4>1, <4>2, <4>3 DEF HeldInv
    <3> QED BY <3>2, <3>3
  <2> QED BY <2>7, <2>8, <2>9, <2>10
<1> QED BY <1>6, <1>7 DEF ServeTune, Remove

LEMMA ServeUntuneInv ==
    ASSUME ClassifierInv, NEW h \in Handle, ServeUntune(h)
    PROVE  ClassifierInv'
<1> USE DEF ClassifierInv
<1>1. /\ queue' = queue \ {Untune(h)}
      /\ UNCHANGED <<alive, execs, socket, mPendingEv, main, last>>
  BY DEF ServeUntune, system, netlink, classifier
<1>2. \A k \in Handle : Tune(k) \in queue' => Tune(k) \in queue
  BY <1>1
<1>3. CASE UNCHANGED <<request, cgroups>>
  <2>1. ShapeInv'
    BY <1>1, <1>3 DEF ShapeInv, cgroups
  <2> QED BY <1>1, <1>2, <1>3, <2>1, UntunesQueuedInv
<1>4. CASE request[h].status = "applied" /\ Remove(h) /\ RemoveProcessFromCGroup(h)
  <2>1. NoRequest.status = "absent" /\ NoRequest.moves = {} /\ NoRequest \in Request
    BY DEF NoRequest, Request, Pid, Status
  <2>2. /\ request' \in [Handle -> Request] /\ request'[h] = NoRequest
        /\ \A k \in Handle \ {h} : request'[k] = request[k]
    BY <1>4, <2>1 DEF ShapeInv, Remove
  <2>3. Applied' = Applied \ {h} /\ h \in Applied
    <3>1. \A k \in Handle : request'[k].status = "applied" <=> request[k].status = "applied" /\ k # h
      BY <2>1, <2>2
    <3> QED BY <1>4, <3>1 DEF Applied, Active
  <2>4. \A k \in Applied' : k \in Applied /\ k # h /\ request'[k] = request[k] /\ MovedBy(k)' = MovedBy(k)
    BY <2>2, <2>3 DEF Applied, Active, MovedBy
  <2>5. PICK shut \in SUBSET MovedBy(h) :
            /\ group' = [p \in Process |->
                            IF p \in MovedBy(h) \ shut /\ p \in alive THEN OriginalCGroup(p) ELSE group[p]]
            /\ default' = [p \in Process |-> IF p \in MovedBy(h) THEN "absent" ELSE default[p]]
            /\ astray' = astray \cup shut
            /\ twice' = twice /\ refused' = refused
    BY <1>4 DEF RemoveProcessFromCGroup
  <2>6. ShapeInv'
    BY <1>1, <2>2, <2>5 DEF ShapeInv, OriginalCGroup, Cgroup
  <2>7. MovesInv'
    BY <2>1, <2>2 DEF MovesInv
  <2>8. QueueInv'
    BY <1>1, <1>2, <2>1, <2>2, <2>5 DEF QueueInv
  <2>9. HeldInv'
    <3> SUFFICES ASSUME NEW p \in alive, p \notin twice, p \notin astray'
                 PROVE  /\ \A k \in Applied' : p \in MovedBy(k) => default'[p] = "home"
                        /\ \A g, k \in Applied' : p \in MovedBy(g) /\ p \in MovedBy(k) => g = k
                        /\ \A k \in Applied' : \A m \in request[k].moves :
                               m.pid = p => group'[p] = IF <<k, p>> \in refused THEN "home" ELSE m.to
                        /\ (\A k \in Applied' : p \notin MovedBy(k)) => group'[p] = "home"
      BY <1>1, <2>4, <2>5 DEF HeldInv
    <3>1. p \in Process /\ p \in alive \ (twice \cup astray)
      BY <2>5 DEF ShapeInv
    <3>2. CASE p \in MovedBy(h)
      <4>1. default[p] = "home" /\ \A k \in Applied : k # h => p \notin MovedBy(k)
        BY <2>3, <3>1, <3>2 DEF HeldInv
      <4>2. group'[p] = "home"
        BY <2>5, <3>1, <3>2, <4>1 DEF OriginalCGroup
      <4>3. \A k \in Applied' : p \notin MovedBy(k) /\ \A m \in request[k].moves : m.pid # p
        BY <2>4, <4>1 DEF MovedBy
      <4> QED BY <4>2, <4>3
    <3>3. CASE p \notin MovedBy(h)
      <4>1. default'[p] = default[p] /\ group'[p] = group[p]
        BY <2>5, <3>1, <3>3
      <4> QED BY <2>3, <3>1, <3>3, <4>1 DEF HeldInv
    <3> QED BY <3>2, <3>3
  <2> QED BY <2>6, <2>7, <2>8, <2>9
<1> QED BY <1>3, <1>4 DEF ServeUntune

----------------------------------------------------------------------------

LEMMA NextClassifier == ClassifierInv /\ [Next]_vars => ClassifierInv'
<1> SUFFICES ASSUME ClassifierInv, [Next]_vars PROVE ClassifierInv'
  OBVIOUS
<1>1. CASE UNCHANGED vars
  <2>1. ShapeInv'
    BY <1>1 DEF ClassifierInv, ShapeInv, vars, system, netlink, classifier, server, cgroups
  <2> QED BY <1>1, <2>1, QuietInv DEF vars, system, netlink, classifier, server
<1>2. CASE Next
  BY <1>2, EventInv, WorkerMovesInv, ExitInv, UntuneInv, TuneIncomingInv, ServeTuneInv, ServeUntuneInv
     DEF Next, Listener, Worker, Consumer
<1> QED BY <1>1, <1>2

\* However events, exits, untunes, timers and the clean-up of dead clients interleave,
\* whatever cgroups the applications name and whichever files do not open: a living
\* process is where the request in effect put it, and in its own cgroup when there is
\* none or its file did not open.  The exceptions are those of MovesInEffect: moved by
\* two requests at a time, named with a cgroup that is not configured, or its own
\* cgroup did not open on the way back.
THEOREM MovesAlwaysInEffect == Spec => []MovesInEffect
<1>1. Spec => []ClassifierInv
  BY InitClassifier, NextClassifier, PTL DEF Spec
<1>2. ClassifierInv => MovesInEffect
  <2> SUFFICES ASSUME ClassifierInv, NEW p \in alive \ (twice \cup astray)
               PROVE  IF MovesOf(p) = {} THEN group[p] = "home"
                      ELSE \E m \in MovesOf(p) : group[p] = m.to
    BY DEF MovesInEffect
  <2> USE DEF ClassifierInv
  <2>1. CASE MovesOf(p) = {}
    <3>1. \A h \in Applied : p \in MovedBy(h) => <<h, p>> \in refused
      BY <2>1 DEF MovesOf, MovedBy
    <3>2. CASE \A h \in Applied : p \notin MovedBy(h)
      BY <2>1, <3>2 DEF HeldInv
    <3>3. CASE \E h \in Applied : p \in MovedBy(h)
      <4>1. PICK h \in Applied : \E m \in request[h].moves : m.pid = p
        BY <3>3 DEF MovedBy
      <4>2. p \in MovedBy(h)
        BY <4>1 DEF MovedBy
      <4> QED BY <2>1, <3>1, <4>1, <4>2 DEF HeldInv
    <3> QED BY <3>2, <3>3
  <2>2. CASE MovesOf(p) # {}
    <3>1. PICK m \in MovesOf(p) : TRUE
      BY <2>2
    <3>2. PICK h \in Applied : m \in request[h].moves /\ m.pid = p /\ <<h, p>> \notin refused
      BY <3>1 DEF MovesOf
    <3>3. group[p] = m.to
      BY <3>2 DEF HeldInv
    <3> QED BY <2>2, <3>1, <3>3
  <2> QED BY <2>1, <2>2
<1> QED BY <1>1, <1>2, PTL
=============================================================================
