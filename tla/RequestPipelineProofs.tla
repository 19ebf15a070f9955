----------------------- MODULE RequestPipelineProofs -----------------------
(***************************************************************************)
(* Proofs about RequestPipeline, for every number of workers, clients and  *)
(* requests, and every capacity and size of the untune cache.              *)
(*                                                                         *)
(* The invariants of the runs are not inductive: they say nothing of the   *)
(* requests the workers hold on the way to the queue.  PipelineInv adds    *)
(* who may hold a Request object at each point of RequestHandler.cpp.      *)
(***************************************************************************)
EXTENDS RequestPipeline, FiniteSetTheorems, TLAPS

Request == [client : Client, body : {o.body : o \in Offered}, prio : 0 .. 3,
            dur : Nat \cup {Infinite}]
Task == [pc : {"admit", "register", "match", "add", "cancel", "lookup", "forward",
               "enqueue"},
         msg : Message, client : Client]

\* The types TypeOK leaves to the reader, and which handles exist.
ShapeInv ==
    /\ request \in [Handle -> Request \cup {NoRequest}]
    /\ worker \in [Worker -> Task \cup {NoTask}]
    /\ \A h \in Handle : h <= last => request[h] \in Request
    /\ \A h \in active \cup freed \cup linked : h <= last
    /\ \A h \in Handle : timer[h] # "none" \/ firing[h] > 0 => h <= last
    /\ cached \subseteq {recency[i] : i \in 1 .. Len(recency)}
    /\ current # 0 <=> consumer = "inserting"

\* Nothing is in the lists but requests that are tracked and completed, or freed.
LinkedInv ==
    \A h \in linked : h \in freed \/ (h \in active /\ "completed" \in status[h])

\* A worker with a tune request on its way is the only one who knows the object;
\* once added, the request is tracked but neither queued nor applied.
TaskInv(t) ==
    /\ t.msg.handle <= last
    /\ t.pc \in {"admit", "register", "match", "add"} => t.msg.type = "tune"
    /\ t.pc \in {"cancel", "lookup", "forward"} => t.msg.type # "tune"
    /\ t.msg.type = "tune" =>
          /\ t.client = request[t.msg.handle].client
          /\ t.pc \in {"match", "add"} => t.client \in clients
          /\ t.msg.handle \notin freed \cup linked
          /\ t.pc # "enqueue" => t.msg.handle \notin active
          /\ t.pc = "enqueue" =>
                /\ t.msg.handle \in active
                /\ "completed" \notin status[t.msg.handle]
                /\ t.msg \notin BagToSet(queue)
                /\ current # t.msg.handle

WorkerInv ==
    /\ \A w \in Worker : worker[w] # NoTask => TaskInv(worker[w])
    /\ \A v, w \in Worker :
          /\ worker[v] # NoTask /\ worker[w] # NoTask
          /\ worker[v].msg.type = "tune" /\ worker[v].msg = worker[w].msg
          => v = w

\* The inductive invariant.
PipelineInv ==
    /\ TypeOK
    /\ ShapeInv
    /\ LinkedInv
    /\ WorkerInv
    /\ BooksAgree
    /\ QueuedTunesAlive

----------------------------------------------------------------------------
(* Messages and bags *)

\* What a member of Message is, by its type.
LEMMA MessageCases ==
    ASSUME NEW m \in Message
    PROVE  /\ m.handle \in Handle
           /\ m.type \in {"tune", "untune", "retune"}
           /\ m.type = "tune" => m = TuneMsg(m.handle)
           /\ m.type = "untune" => m.prio \in 0 .. 3 /\ m = UntuneMsg(m.handle, m.prio)
           /\ m.type = "retune" => m.dur \in RetuneTo
BY DEF Message, TuneMsg, UntuneMsg, RetuneMsg

\* The messages of a handle.
LEMMA MessageOf ==
    ASSUME NEW h \in Handle
    PROVE  /\ TuneMsg(h) \in Message
           /\ TuneMsg(h).type = "tune" /\ TuneMsg(h).handle = h
           /\ \A p \in 0 .. 3 : /\ UntuneMsg(h, p) \in Message
                                /\ UntuneMsg(h, p).type = "untune"
                                /\ UntuneMsg(h, p).handle = h
           /\ \A d \in RetuneTo : /\ RetuneMsg(h, d) \in Message
                                  /\ RetuneMsg(h, d).type = "retune"
                                  /\ RetuneMsg(h, d).handle = h
BY DEF Message, TuneMsg, UntuneMsg, RetuneMsg

\* Adding a message to the queue.
LEMMA BagAdd ==
    ASSUME NEW B, IsABag(B), NEW e, NEW C, C = B (+) SetToBag({e})
    PROVE  /\ IsABag(C)
           /\ BagToSet(C) = BagToSet(B) \cup {e}
           /\ \A x \in BagToSet(B) : x # e => C[x] = B[x]
           /\ e \notin BagToSet(B) => C[e] = 1
BY DEF IsABag, BagToSet, SetToBag, (+)

\* Taking one copy of a message from the queue.
LEMMA BagRemove ==
    ASSUME NEW B, IsABag(B), NEW e \in BagToSet(B), NEW C, C = B (-) SetToBag({e})
    PROVE  /\ IsABag(C)
           /\ BagToSet(C) \subseteq BagToSet(B)
           /\ \A x \in BagToSet(B) : x # e => x \in BagToSet(C) /\ C[x] = B[x]
           /\ B[e] = 1 => e \notin BagToSet(C)
BY DEF IsABag, BagToSet, SetToBag, (-)

LEMMA EmptyQueue == IsABag(EmptyBag) /\ BagToSet(EmptyBag) = {}
BY DEF EmptyBag, IsABag, BagToSet, SetToBag

----------------------------------------------------------------------------
(* Initial states *)

LEMMA InitPipeline == Init => PipelineInv
<1> SUFFICES ASSUME Init PROVE PipelineInv
  OBVIOUS
<1> USE PipelineAssumption DEF Init
<1>1. TypeOK
  BY EmptyQueue DEF TypeOK, Handle, TimerState
<1>2. ShapeInv
  BY DEF ShapeInv, Handle
<1>3. LinkedInv /\ BooksAgree
  BY DEF LinkedInv, BooksAgree
<1>4. WorkerInv
  BY DEF WorkerInv
<1>5. QueuedTunesAlive
  BY EmptyQueue DEF QueuedTunesAlive, Handle
<1> QED BY <1>1, <1>2, <1>3, <1>4, <1>5 DEF PipelineInv

----------------------------------------------------------------------------
(* Steps of clients and workers *)

LEMMA SendTuneInv ==
    ASSUME PipelineInv, NEW w \in Worker, NEW c \in Client, NEW o \in Offered,
           SendTune(w, c, o)
    PROVE  PipelineInv'
<1> USE PipelineAssumption DEF PipelineInv, SendTune, Assign, books, backend
<1>1. last + 1 \in Handle
  BY DEF TypeOK, Handle
<1>2. /\ request'[last + 1] \in Request
      /\ request'[last + 1].client = c
      /\ \A h \in Handle : h # last + 1 => request'[h] = request[h]
  BY <1>1 DEF ShapeInv, Request
<1>3. [pc |-> "admit", msg |-> TuneMsg(last + 1), client |-> c] \in Task
  BY <1>1, MessageOf DEF Task
<1>4. TypeOK'
  BY SMTT(30), <1>1, <1>2, <1>3 DEF TypeOK, Request, Task, Handle, ShapeInv
<1>5. ShapeInv'
  BY SMTT(30), <1>1, <1>2, <1>3 DEF TypeOK, ShapeInv, Handle
<1>6. LinkedInv' /\ QueuedTunesAlive'
  BY DEF LinkedInv, QueuedTunesAlive
<1>7. BooksAgree'
  BY <1>1, <1>2 DEF BooksAgree, ShapeInv, TypeOK, Handle
<1>8. WorkerInv'
  BY SMTT(30), <1>1, <1>2, <1>3, MessageOf, MessageCases DEF WorkerInv, TaskInv, ShapeInv, TypeOK, Handle, Task
<1> QED BY <1>4, <1>5, <1>6, <1>7, <1>8

LEMMA SendFollowUpInv ==
    ASSUME PipelineInv, NEW w \in Worker, NEW c \in Client, NEW m \in Message, NEW pc,
           \/ m.type = "untune" /\ pc = "cancel"
           \/ m.type = "retune" /\ pc = "lookup",
           SendFollowUp(w, c, m, pc)
    PROVE  PipelineInv'
<1> USE PipelineAssumption DEF PipelineInv, SendFollowUp, Assign, books, backend
<1>1. [pc |-> pc, msg |-> m, client |-> c] \in Task
  BY DEF Task
<1>2. TypeOK'
  BY <1>1 DEF TypeOK, Task, ShapeInv
<1>3. ShapeInv'
  BY <1>1 DEF ShapeInv
<1>4. LinkedInv' /\ QueuedTunesAlive' /\ BooksAgree'
  BY DEF LinkedInv, QueuedTunesAlive, BooksAgree
<1>5. WorkerInv'
  BY <1>1, MessageCases DEF WorkerInv, TaskInv, ShapeInv, TypeOK, Task
<1> QED BY <1>2, <1>3, <1>4, <1>5

\* What is known of a worker that is not idle.
LEMMA Busy ==
    ASSUME PipelineInv, NEW w \in Worker, worker[w] # NoTask
    PROVE  /\ worker[w] \in Task
           /\ worker[w].msg \in Message
           /\ worker[w].msg.handle \in Handle
           /\ worker[w].client \in Client
           /\ TaskInv(worker[w])
BY MessageCases DEF PipelineInv, ShapeInv, WorkerInv, Task

\* A worker that only moves on, or drops its message, keeps the invariant.
LEMMA MoveOnInv ==
    ASSUME PipelineInv, NEW w \in Worker, worker[w] # NoTask,
           worker' = [worker EXCEPT ![w] = worker'[w]],
           \/ worker'[w] = NoTask
           \/ worker'[w] \in Task /\ worker'[w].msg = worker[w].msg /\ TaskInv(worker[w])',
           clients \subseteq clients', clients' \subseteq Client,
           UNCHANGED <<last, request, freed, frees, owned, books, backend, followUps>>
    PROVE  PipelineInv'
<1> USE DEF PipelineInv, books, backend
<1>1. TypeOK'
  BY DEF TypeOK, Task, ShapeInv
<1>2. ShapeInv'
  BY DEF ShapeInv
<1>3. LinkedInv' /\ QueuedTunesAlive' /\ BooksAgree'
  BY DEF LinkedInv, QueuedTunesAlive, BooksAgree
<1>4. WorkerInv'
  <2>1. \A v \in Worker : v # w => worker'[v] = worker[v]
    BY DEF ShapeInv
  <2>2. \A v \in Worker : worker'[v] # NoTask => TaskInv(worker[v])'
    BY <2>1 DEF WorkerInv, TaskInv
  <2>3. \A v \in Worker : worker'[v] # NoTask =>
            worker[v] # NoTask /\ worker'[v].msg = worker[v].msg
    BY <2>1
  <2> QED BY <2>2, <2>3 DEF WorkerInv
<1> QED BY <1>1, <1>2, <1>3, <1>4

LEMMA ReturnCounts ==
    ASSUME frees \in [Handle -> Nat], NEW h \in Handle, Return(h)
    PROVE  frees' \in [Handle -> Nat]
BY DEF Return

\* So does one that frees a Request object that was never added.
LEMMA DiscardInv ==
    ASSUME PipelineInv, NEW w \in Worker, worker[w] # NoTask,
           worker[w].pc # "enqueue", Discard(w),
           UNCHANGED <<last, request, clients, owned, books, backend, followUps>>
    PROVE  PipelineInv'
<1>f. frees' \in [Handle -> Nat]
  <2>1. frees \in [Handle -> Nat] /\ worker[w].msg.handle \in Handle
    BY Busy DEF PipelineInv, TypeOK
  <2>2. CASE Return(worker[w].msg.handle)
    BY <2>1, <2>2, ReturnCounts
  <2> QED BY <2>1, <2>2 DEF Discard
<1> USE DEF PipelineInv, books, backend, Discard, Return, Drop
<1>0. /\ worker[w].msg.handle \in Handle /\ worker[w].msg.handle <= last
      /\ worker[w].msg.type = "tune" =>
            /\ worker[w].msg.handle \notin active \cup freed \cup linked
            /\ worker[w].msg = TuneMsg(worker[w].msg.handle)
  BY Busy, MessageCases DEF TaskInv
<1>1. TypeOK'
  BY <1>0, <1>f DEF TypeOK, ShapeInv
<1>2. ShapeInv'
  BY <1>0 DEF ShapeInv
<1>3. LinkedInv' /\ QueuedTunesAlive' /\ BooksAgree'
  BY <1>0 DEF LinkedInv, QueuedTunesAlive, BooksAgree
<1>4. WorkerInv'
  BY <1>0, MessageCases DEF WorkerInv, TaskInv, ShapeInv, TypeOK, Task
<1> QED BY <1>1, <1>2, <1>3, <1>4

LEMMA GotoMoves ==
    ASSUME PipelineInv, NEW w \in Worker, worker[w] # NoTask,
           NEW pc \in {"register", "match", "add", "forward", "enqueue"}, Goto(w, pc)
    PROVE  /\ worker' = [worker EXCEPT ![w] = worker'[w]]
           /\ worker'[w] \in Task /\ worker'[w].pc = pc
           /\ worker'[w].msg = worker[w].msg /\ worker'[w].client = worker[w].client
BY Busy DEF PipelineInv, ShapeInv, Goto, Task

LEMMA DropMoves ==
    ASSUME PipelineInv, NEW w \in Worker, Drop(w)
    PROVE  worker' = [worker EXCEPT ![w] = worker'[w]] /\ worker'[w] = NoTask
BY DEF PipelineInv, ShapeInv, Drop

LEMMA HandOverInv ==
    ASSUME PipelineInv, NEW w \in Worker,
           \/ AdmitTune(w) \/ RegisterClient(w) \/ RateLimit(w)
           \/ ShouldRequestBeAdded(w) \/ LookupClient(w) \/ VerifyHandle(w)
    PROVE  PipelineInv'
<1>0. worker[w] # NoTask
  BY DEF AdmitTune, RegisterClient, RateLimit, ShouldRequestBeAdded, LookupClient,
         VerifyHandle, At
<1> USE <1>0 DEF At
<1>b. /\ clients \subseteq Client
      /\ worker[w] \in Task /\ TaskInv(worker[w]) /\ worker[w].client \in Client
  BY Busy DEF PipelineInv, TypeOK
<1>1. CASE AdmitTune(w)
  <2>1. CASE Discard(w)
    BY <1>1, <2>1, DiscardInv DEF AdmitTune
  <2>2. CASE Goto(w, "register") /\ UNCHANGED <<freed, frees>>
    <3>1. TaskInv(worker[w])'
      BY <1>b, <1>1, <2>2, GotoMoves DEF AdmitTune, TaskInv, books, backend
    <3> QED BY <3>1, <1>b, <1>1, <2>2, GotoMoves, MoveOnInv DEF AdmitTune
  <2> QED BY <1>1, <2>1, <2>2 DEF AdmitTune
<1>2. CASE RegisterClient(w)
  <2>1. CASE Discard(w) /\ UNCHANGED clients
    BY <1>2, <2>1, DiscardInv DEF RegisterClient
  <2>2. CASE clients' = clients \cup {worker[w].client} /\ Goto(w, "match") /\ UNCHANGED <<freed, frees>>
    <3>1. TaskInv(worker[w])'
      BY <1>b, <1>2, <2>2, GotoMoves DEF RegisterClient, TaskInv, books, backend
    <3> QED BY <3>1, <1>b, <1>2, <2>2, GotoMoves, MoveOnInv DEF RegisterClient
  <2> QED BY <1>2, <2>1, <2>2 DEF RegisterClient
<1>3. CASE RateLimit(w)
  BY <1>3, DiscardInv DEF RateLimit
<1>4. CASE ShouldRequestBeAdded(w)
  <2>1. CASE Discard(w)
    BY <1>4, <2>1, DiscardInv DEF ShouldRequestBeAdded
  <2>2. CASE Goto(w, "add") /\ UNCHANGED <<freed, frees>>
    <3>1. TaskInv(worker[w])'
      BY <1>b, <1>4, <2>2, GotoMoves DEF ShouldRequestBeAdded, TaskInv, books, backend
    <3> QED BY <3>1, <1>b, <1>4, <2>2, GotoMoves, MoveOnInv DEF ShouldRequestBeAdded
  <2> QED BY <1>4, <2>1, <2>2 DEF ShouldRequestBeAdded
<1>5. CASE LookupClient(w)
  <2>1. CASE Drop(w)
    BY <1>5, <2>1, <1>b, DropMoves, MoveOnInv DEF LookupClient
  <2>2. CASE Goto(w, "forward")
    <3>1. TaskInv(worker[w])'
      BY <1>b, <1>5, <2>2, GotoMoves DEF LookupClient, TaskInv, books, backend
    <3> QED BY <3>1, <1>b, <1>5, <2>2, GotoMoves, MoveOnInv DEF LookupClient
  <2> QED BY <1>5, <2>1, <2>2 DEF LookupClient
<1>6. CASE VerifyHandle(w)
  <2>1. CASE Drop(w)
    BY <1>6, <2>1, <1>b, DropMoves, MoveOnInv DEF VerifyHandle
  <2>2. CASE Goto(w, "enqueue")
    <3>1. TaskInv(worker[w])'
      BY <1>b, <1>6, <2>2, GotoMoves DEF VerifyHandle, TaskInv, books, backend
    <3> QED BY <3>1, <1>b, <1>6, <2>2, GotoMoves, MoveOnInv DEF VerifyHandle
  <2> QED BY <1>6, <2>1, <2>2 DEF VerifyHandle
<1> QED BY <1>1, <1>2, <1>3, <1>4, <1>5, <1>6

LEMMA AddRequestInv ==
    ASSUME PipelineInv, NEW w \in Worker, AddRequest(w)
    PROVE  PipelineInv'
<1> DEFINE h == worker[w].msg.handle
           c == worker[w].client
<1>0. worker[w] # NoTask /\ worker[w].pc = "add"
  BY DEF AddRequest, At
<1>b. /\ h \in Handle /\ h <= last /\ c \in Client /\ c \in clients
      /\ worker[w].msg = TuneMsg(h) /\ worker[w].msg.type = "tune"
      /\ c = request[h].client /\ h \notin active \cup freed \cup linked
  BY <1>0, Busy, MessageCases DEF TaskInv
<1>1. CASE Discard(w) /\ UNCHANGED <<active, status, owned>>
  BY <1>0, <1>1, DiscardInv DEF AddRequest, books
<1>2. CASE MayAdd(h) /\ ~(Discard(w) /\ UNCHANGED <<active, status, owned>>)
  <2>1. /\ active' = active \cup {h}
        /\ status' = [status EXCEPT ![h] = {}]
        /\ owned' = [owned EXCEPT ![c] = @ \cup {h}]
        /\ Goto(w, "enqueue")
        /\ UNCHANGED <<last, request, freed, frees, clients, cached, recency, backend, followUps>>
    BY <1>2, <1>b DEF AddRequest
  <2> HIDE <1>2
  <2> USE <2>1 DEF PipelineInv, backend
  <2>w. /\ worker' = [worker EXCEPT ![w] = worker'[w]]
        /\ worker'[w] \in Task /\ worker'[w].pc = "enqueue"
        /\ worker'[w].msg = worker[w].msg /\ worker'[w].client = worker[w].client
    BY <1>0, GotoMoves
  <2>2. TypeOK'
    BY <1>b, <2>w DEF TypeOK, ShapeInv, Task
  <2>3. ShapeInv'
    BY <1>b, <2>w DEF ShapeInv
  <2>4. LinkedInv' /\ QueuedTunesAlive'
    BY <1>b DEF LinkedInv, QueuedTunesAlive, TypeOK
  <2>5. BooksAgree'
    BY <1>b DEF BooksAgree, TypeOK
  <2>6. TuneMsg(h) \notin BagToSet(queue) /\ current # h
    BY <1>b DEF QueuedTunesAlive
  <2>7. WorkerInv'
    <3>1. \A v \in Worker : v # w => worker'[v] = worker[v]
      BY <2>w DEF ShapeInv
    <3>2. TaskInv(worker[w])'
      BY <1>b, <2>6, <2>w DEF TaskInv, TypeOK
    <3>3. \A v \in Worker : v # w /\ worker[v] # NoTask => worker[v].msg # worker[w].msg
      BY <1>0, <1>b DEF WorkerInv
    <3>4. ASSUME NEW v \in Worker, v # w, worker[v] # NoTask
          PROVE  TaskInv(worker[v])'
      <4>1. worker[v].msg.type = "tune" => worker[v].msg.handle # h
        BY <3>3, <3>4, <1>b, Busy, MessageCases
      <4>2. TaskInv(worker[v]) /\ worker[v].msg.handle \in Handle
        BY <3>4, Busy
      <4> QED BY <3>1, <3>4, <4>1, <4>2, <1>b DEF TaskInv, TypeOK
    <3> QED BY <3>1, <3>2, <3>4, <2>w, <1>0 DEF WorkerInv
  <2> QED BY <2>2, <2>3, <2>4, <2>5, <2>7
<1> QED BY <1>1, <1>2 DEF AddRequest

\* HandleCache::insert keeps every cached handle in the recency queue, so that a
\* full cache has an oldest handle to evict.
LEMMA CacheInsertInv ==
    ASSUME TypeOK, ShapeInv, NEW h \in Handle, CacheInsert(h)
    PROVE  /\ cached' \subseteq Handle /\ recency' \in Seq(Handle)
           /\ cached' \subseteq {recency'[i] : i \in 1 .. Len(recency')}
<1> DEFINE full == Cardinality(cached) >= CacheSize
<1>1. full => recency # <<>>
  <2>1. full => cached # {}
    BY FS_EmptySet, PipelineAssumption
  <2> QED BY <2>1 DEF ShapeInv
<1>2. CASE full
  <2>1. /\ cached' = (cached \ {Head(recency)}) \cup {h}
        /\ recency' = Append(Tail(recency), h)
    BY <1>2 DEF CacheInsert
  <2>2. recency \in Seq(Handle) /\ recency # <<>> /\ cached \subseteq Handle
    BY <1>1, <1>2 DEF TypeOK
  <2>3. /\ Tail(recency) \in Seq(Handle) /\ Len(Tail(recency)) = Len(recency) - 1
        /\ \A i \in 1 .. Len(recency) - 1 : Tail(recency)[i] = recency[i + 1]
        /\ Head(recency) = recency[1] /\ Len(recency) \in Nat \ {0}
    BY <2>2
  <2>4. /\ recency' \in Seq(Handle) /\ Len(recency') = Len(recency)
        /\ recency'[Len(recency)] = h
        /\ \A i \in 1 .. Len(recency) - 1 : recency'[i] = recency[i + 1]
    BY <2>1, <2>3
  <2>5. ASSUME NEW g \in cached, g # Head(recency)
        PROVE  g \in {recency'[i] : i \in 1 .. Len(recency')}
    <3>1. PICK i \in 1 .. Len(recency) : recency[i] = g
      BY DEF ShapeInv
    <3>2. i # 1 /\ i - 1 \in 1 .. Len(recency) - 1
      BY <2>3, <2>5, <3>1
    <3>3. recency'[i - 1] = g /\ i - 1 \in 1 .. Len(recency')
      BY <2>3, <2>4, <3>1, <3>2
    <3> QED BY <3>3
  <2>6. h \in {recency'[i] : i \in 1 .. Len(recency')}
    BY <2>3, <2>4
  <2> QED BY <2>1, <2>2, <2>4, <2>5, <2>6
<1>3. CASE ~full
  <2>1. cached' = cached \cup {h} /\ recency' = Append(recency, h)
    BY <1>3 DEF CacheInsert
  <2>2. recency \in Seq(Handle) /\ cached \subseteq Handle
    BY DEF TypeOK
  <2>3. /\ recency' \in Seq(Handle) /\ Len(recency') = Len(recency) + 1
        /\ recency'[Len(recency) + 1] = h
        /\ \A i \in 1 .. Len(recency) : recency'[i] = recency[i]
        /\ Len(recency) \in Nat
    BY <2>1, <2>2
  <2> QED BY <2>1, <2>2, <2>3 DEF ShapeInv
<1> QED BY <1>2, <1>3

LEMMA CancelRequestInv ==
    ASSUME PipelineInv, NEW w \in Worker, CancelRequest(w)
    PROVE  PipelineInv'
<1> DEFINE h == worker[w].msg.handle
<1>0. worker[w] # NoTask /\ worker[w].pc = "cancel"
  BY DEF CancelRequest, At
<1>b. /\ h \in Handle /\ h <= last /\ worker[w].msg.type # "tune"
      /\ clients \subseteq Client
  BY <1>0, Busy DEF TaskInv, PipelineInv, TypeOK
<1>1. CASE Drop(w) /\ UNCHANGED books
  BY <1>0, <1>1, <1>b, DropMoves, MoveOnInv DEF CancelRequest
<1>2. CASE CacheInsert(h) /\ Drop(w) /\ UNCHANGED <<active, status>>
  <2> USE DEF PipelineInv, backend
  <2>1. UNCHANGED <<last, request, freed, frees, clients, owned, active, status, backend, followUps>>
    BY <1>2 DEF CancelRequest
  <2>w. worker' = [worker EXCEPT ![w] = NoTask]
    BY <1>2 DEF Drop
  <2>c. /\ cached' \subseteq Handle /\ recency' \in Seq(Handle)
        /\ cached' \subseteq {recency'[i] : i \in 1 .. Len(recency')}
    BY <1>2, <1>b, CacheInsertInv
  <2>2. TypeOK'
    BY <2>1, <2>w, <2>c DEF TypeOK, ShapeInv
  <2>3. ShapeInv'
    BY <2>1, <2>w, <2>c DEF ShapeInv
  <2>4. LinkedInv' /\ QueuedTunesAlive' /\ BooksAgree'
    BY <2>1 DEF LinkedInv, QueuedTunesAlive, BooksAgree
  <2>5. WorkerInv'
    BY <2>1, <2>w DEF WorkerInv, TaskInv, ShapeInv
  <2> QED BY <2>2, <2>3, <2>4, <2>5
<1>3. CASE /\ h \in active
           /\ status' = [status EXCEPT ![h] = @ \cup {"cancelled"}]
           /\ Goto(w, "forward") /\ UNCHANGED <<active, cached, recency>>
  <2> USE DEF PipelineInv, backend
  <2>1. UNCHANGED <<last, request, freed, frees, clients, owned, backend, followUps>>
    BY DEF CancelRequest
  <2>w. /\ worker' = [worker EXCEPT ![w] = worker'[w]]
        /\ worker'[w] \in Task /\ worker'[w].pc = "forward"
        /\ worker'[w].msg = worker[w].msg /\ worker'[w].client = worker[w].client
    BY <1>0, <1>3, GotoMoves
  <2>s. /\ status' \in [Handle -> SUBSET Status]
        /\ \A g \in Handle : "completed" \in status'[g] <=> "completed" \in status[g]
    BY <1>b, <1>3 DEF TypeOK, Status
  <2>m. \A v \in Worker : worker'[v] # NoTask => worker'[v].msg \in Message
    BY <2>w DEF TypeOK, ShapeInv, Task
  <2>2. TypeOK'
    BY <1>3, <2>1, <2>m, <2>s DEF TypeOK
  <2>3. ShapeInv'
    BY <1>3, <2>1, <2>w DEF ShapeInv
  <2>4. LinkedInv' /\ QueuedTunesAlive' /\ BooksAgree'
    BY <1>3, <2>1, <2>s DEF LinkedInv, QueuedTunesAlive, BooksAgree, TypeOK
  <2>5. WorkerInv'
    <3>1. \A v \in Worker : v # w => worker'[v] = worker[v]
      BY <2>w DEF ShapeInv
    <3>2. TaskInv(worker[w])'
      BY <1>b, <2>1, <2>w DEF TaskInv
    <3>3. ASSUME NEW v \in Worker, v # w, worker[v] # NoTask
          PROVE  TaskInv(worker[v])'
      BY <1>3, <2>1, <2>s, <3>1, <3>3, Busy DEF TaskInv
    <3> QED BY <1>0, <1>b, <3>1, <3>2, <3>3, <2>w DEF WorkerInv
  <2> QED BY <2>2, <2>3, <2>4, <2>5
<1> QED BY <1>1, <1>2, <1>3 DEF CancelRequest

\* A message is added to the queue.
LEMMA PutMessage ==
    ASSUME PipelineInv, NEW m, queue' = queue (+) SetToBag({m})
    PROVE  /\ IsABag(queue') /\ BagToSet(queue') = BagToSet(queue) \cup {m}
           /\ \A x \in BagToSet(queue) : x # m => queue'[x] = queue[x]
           /\ m \notin BagToSet(queue) => queue'[m] = 1
<1>1. IsABag(queue)
  BY DEF PipelineInv, TypeOK
<1> QED BY <1>1, BagAdd

LEMMA AddAndWakeupInv ==
    ASSUME PipelineInv, NEW w \in Worker, AddAndWakeup(w)
    PROVE  PipelineInv'
<1> DEFINE m == worker[w].msg
<1>0. worker[w] # NoTask /\ worker[w].pc = "enqueue"
  BY DEF AddAndWakeup, At
<1>b. /\ m \in Message /\ m.handle \in Handle
      /\ m.type = "tune" => m = TuneMsg(m.handle)
      /\ TaskInv(worker[w])
  BY <1>0, Busy, MessageCases
<1>q. /\ IsABag(queue') /\ BagToSet(queue') = BagToSet(queue) \cup {m}
      /\ \A x \in BagToSet(queue) : x # m => queue'[x] = queue[x]
      /\ m \notin BagToSet(queue) => queue'[m] = 1
  BY PutMessage DEF AddAndWakeup
<1>u. /\ worker' = [worker EXCEPT ![w] = NoTask]
      /\ UNCHANGED <<last, request, freed, frees, clients, owned, active, status, cached, recency,
                     consumer, current, linked, timer, firing, followUps>>
  BY DEF AddAndWakeup, Drop, books
<1> USE DEF PipelineInv
<1>1. TypeOK'
  BY <1>b, <1>q, <1>u DEF TypeOK, ShapeInv
<1>2. ShapeInv'
  BY <1>u DEF ShapeInv
<1>3. LinkedInv' /\ BooksAgree'
  BY <1>u DEF LinkedInv, BooksAgree
<1>4. QueuedTunesAlive'
  <2>1. m.type = "tune" =>
            /\ m.handle \in active \ (freed \cup linked)
            /\ "completed" \notin status[m.handle]
            /\ m \notin BagToSet(queue) /\ current # m.handle
    BY <1>0, <1>b DEF TaskInv
  <2>2. \A h \in Handle : TuneMsg(h) = m => m.type = "tune" /\ m.handle = h
    BY MessageOf
  <2> QED BY <1>q, <1>u, <2>1, <2>2 DEF QueuedTunesAlive
<1>5. WorkerInv'
  <2>1. \A v \in Worker : v # w => worker'[v] = worker[v]
    BY <1>u DEF ShapeInv
  <2>2. \A v \in Worker : v # w /\ worker[v] # NoTask /\ worker[v].msg.type = "tune"
            => worker[v].msg # m
    BY <1>0 DEF WorkerInv
  <2>3. \A v \in Worker : worker'[v] # NoTask => v # w /\ worker[v] # NoTask
    BY <1>u, <2>1 DEF ShapeInv
  <2>4. ASSUME NEW v \in Worker, worker'[v] # NoTask
        PROVE  TaskInv(worker[v])'
    BY <1>q, <1>u, <2>1, <2>2, <2>3, <2>4 DEF TaskInv, WorkerInv
  <2> QED BY <2>1, <2>3, <2>4 DEF WorkerInv
<1> QED BY <1>1, <1>2, <1>3, <1>4, <1>5

LEMMA WorkerStepInv ==
    ASSUME PipelineInv, NEW w \in Worker, WorkerStep(w)
    PROVE  PipelineInv'
BY HandOverInv, AddRequestInv, CancelRequestInv, AddAndWakeupInv DEF WorkerStep

----------------------------------------------------------------------------
(* Steps of the consumer *)

\* The consumer takes the message m: what is left, and what was known of m.
LEMMA TakeMessage ==
    ASSUME PipelineInv, NEW m, Top(m), queue' = Without(m)
    PROVE  /\ m \in Message /\ m.handle \in Handle /\ m \in BagToSet(queue)
           /\ current = 0 /\ consumer \in {"idle", "draining"}
           /\ IsABag(queue') /\ BagToSet(queue') \subseteq BagToSet(queue)
           /\ \A x \in BagToSet(queue) : x # m => x \in BagToSet(queue') /\ queue'[x] = queue[x]
           /\ m.type = "tune" => m \notin BagToSet(queue') /\ m = TuneMsg(m.handle)
<1>1. /\ m \in BagToSet(queue) /\ IsABag(queue) /\ m \in Message /\ m.handle \in Handle
      /\ current = 0 /\ consumer \in {"idle", "draining"}
      /\ m.type = "tune" => m = TuneMsg(m.handle)
  BY MessageCases DEF Top, PipelineInv, TypeOK, ShapeInv
<1>2. m.type = "tune" => queue[m] = 1
  BY <1>1 DEF PipelineInv, QueuedTunesAlive, Handle
<1> QED BY <1>1, <1>2, BagRemove DEF Without

\* A tune request that is completed, queued or being inserted has left its worker.
LEMMA NotHeld ==
    ASSUME PipelineInv, NEW h \in active,
           \/ "completed" \in status[h]
           \/ TuneMsg(h) \in BagToSet(queue)
           \/ current = h
    PROVE  \A w \in Worker : worker[w] # NoTask /\ worker[w].msg.type = "tune" =>
               worker[w].msg.handle # h
BY Busy, MessageCases DEF TaskInv

\* A follow-up message that leaves everything as it is.
LEMMA QuietInv ==
    ASSUME PipelineInv, NEW m, Top(m), queue' = Without(m), m.type # "tune",
           consumer' \in {"idle", "draining", "crashed"},
           UNCHANGED <<handler, books, current, linked, timer, firing, followUps>>
    PROVE  PipelineInv'
<1> USE TakeMessage DEF PipelineInv, handler, books
<1>1. TypeOK'
  BY DEF TypeOK
<1>2. ShapeInv'
  BY DEF ShapeInv
<1>3. LinkedInv' /\ BooksAgree'
  BY DEF LinkedInv, BooksAgree
<1>4. WorkerInv'
  BY DEF WorkerInv, TaskInv
<1>5. QueuedTunesAlive'
  BY MessageOf DEF QueuedTunesAlive
<1> QED BY <1>1, <1>2, <1>3, <1>4, <1>5

\* A request that no worker holds leaves the tables and is freed.
LEMMA ReleaseInv ==
    ASSUME PipelineInv, NEW h \in active, Forget(h), Free(h),
           \A w \in Worker : worker[w] # NoTask /\ worker[w].msg.type = "tune" =>
               worker[w].msg.handle # h,
           IsABag(queue'), BagToSet(queue') \subseteq BagToSet(queue),
           \A g \in Handle : TuneMsg(g) \in BagToSet(queue') =>
               g # h /\ queue'[TuneMsg(g)] = queue[TuneMsg(g)],
           current' = 0, current \in {0, h}, consumer' \in {"idle", "draining"},
           linked' \ {h} = linked \ {h}, status' \in [Handle -> SUBSET Status],
           \A g \in Handle : g # h => status'[g] = status[g],
           UNCHANGED <<last, request, worker, clients, cached, recency, firing, followUps>>
    PROVE  PipelineInv'
<1> USE DEF PipelineInv
<1>0. /\ h \in Handle /\ h <= last /\ request[h].client \in Client
      /\ active' = active \ {h} /\ freed' = freed \cup {h}
      /\ owned' = [owned EXCEPT ![request[h].client] = @ \ {h}]
      /\ timer' = [timer EXCEPT ![h] = "none"]
  BY DEF TypeOK, ShapeInv, Forget, Free, Return
<1>f. frees' \in [Handle -> Nat]
  BY <1>0, ReturnCounts DEF TypeOK, Free
<1>1. TypeOK'
  BY <1>0, <1>f DEF TypeOK, TimerState
<1>2. ShapeInv'
  BY <1>0 DEF ShapeInv, TypeOK
<1>3. LinkedInv'
  BY <1>0 DEF LinkedInv, TypeOK
<1>4. BooksAgree'
  BY <1>0 DEF BooksAgree, TypeOK
<1>5. WorkerInv'
  <2>1. ASSUME NEW w \in Worker, worker[w] # NoTask PROVE TaskInv(worker[w])'
    BY <1>0, <2>1, Busy DEF TaskInv, Handle
  <2> QED BY <2>1 DEF WorkerInv
<1>6. QueuedTunesAlive'
  BY <1>0 DEF QueuedTunesAlive, Handle
<1> QED BY <1>1, <1>2, <1>3, <1>4, <1>5, <1>6

LEMMA DropTuneInv ==
    ASSUME PipelineInv, NEW m, DropTune(m)
    PROVE  PipelineInv'
<1> DEFINE h == m.handle
<1>1. /\ m.type = "tune" /\ Top(m) /\ queue' = Without(m) /\ Forget(h) /\ Free(h)
      /\ consumer' \in {"idle", "draining"}
      /\ UNCHANGED <<last, request, worker, clients, status, cached, recency,
                     current, linked, firing, followUps>>
  BY DEF DropTune, Continue
<1>2. /\ m \in Message /\ h \in Handle /\ m \in BagToSet(queue) /\ current = 0
      /\ IsABag(queue') /\ BagToSet(queue') \subseteq BagToSet(queue)
      /\ \A x \in BagToSet(queue) : x # m => queue'[x] = queue[x]
      /\ m \notin BagToSet(queue') /\ m = TuneMsg(h)
  BY <1>1, TakeMessage
<1>3. h \in active /\ status \in [Handle -> SUBSET Status]
  BY <1>2 DEF PipelineInv, QueuedTunesAlive, TypeOK
<1>4. \A w \in Worker : worker[w] # NoTask /\ worker[w].msg.type = "tune" =>
          worker[w].msg.handle # h
  BY <1>2, <1>3, NotHeld
<1> HIDE DEF h
<1> QED BY <1>1, <1>2, <1>3, <1>4, ReleaseInv

LEMMA ServeUntuneInv ==
    ASSUME PipelineInv, NEW m, ServeUntune(m)
    PROVE  PipelineInv'
<1> DEFINE h == m.handle
<1>1. /\ m.type = "untune" /\ Top(m) /\ queue' = Without(m) /\ Forget(h) /\ Free(h)
      /\ h \in active /\ "completed" \in status[h]
      /\ linked' = linked \ {h} /\ consumer' \in {"idle", "draining"}
      /\ UNCHANGED <<last, request, worker, clients, status, cached, recency,
                     current, firing, followUps>>
  BY DEF ServeUntune, Continue
<1>2. /\ m \in Message /\ h \in Handle /\ m \in BagToSet(queue) /\ current = 0
      /\ IsABag(queue') /\ BagToSet(queue') \subseteq BagToSet(queue)
      /\ \A x \in BagToSet(queue) : x # m => queue'[x] = queue[x]
      /\ status \in [Handle -> SUBSET Status]
  BY <1>1, TakeMessage DEF PipelineInv, TypeOK
<1>3. \A w \in Worker : worker[w] # NoTask /\ worker[w].msg.type = "tune" =>
          worker[w].msg.handle # h
  BY <1>1, NotHeld
<1>4. \A g \in Handle : TuneMsg(g) \in BagToSet(queue') =>
          g # h /\ queue'[TuneMsg(g)] = queue[TuneMsg(g)]
  BY <1>1, <1>2, MessageOf DEF PipelineInv, QueuedTunesAlive
<1> HIDE DEF h
<1> QED BY <1>1, <1>2, <1>3, <1>4, ReleaseInv

LEMMA InsertTuneFailsInv ==
    ASSUME PipelineInv, InsertTuneFails
    PROVE  PipelineInv'
<1> DEFINE h == current
<1>1. /\ h \in Handle /\ h # 0 /\ h \in active /\ IsABag(queue)
      /\ TuneMsg(h) \notin BagToSet(queue)
      /\ status \in [Handle -> SUBSET Status]
  BY DEF InsertTuneFails, PipelineInv, ShapeInv, QueuedTunesAlive, TypeOK
<1>2. /\ status' = [status EXCEPT ![h] = @ \cup {"completed"}]
      /\ Forget(h) /\ Free(h) /\ queue' = queue /\ current' = 0
      /\ consumer' \in {"idle", "draining"} /\ linked' \ {h} = linked \ {h}
      /\ UNCHANGED <<last, request, worker, clients, cached, recency, firing, followUps>>
  BY DEF InsertTuneFails, Continue
<1>3. status' \in [Handle -> SUBSET Status] /\ \A g \in Handle : g # h => status'[g] = status[g]
  BY <1>1, <1>2 DEF Status
<1>4. \A w \in Worker : worker[w] # NoTask /\ worker[w].msg.type = "tune" =>
          worker[w].msg.handle # h
  BY <1>1, NotHeld
<1>5. current \in {0, h}
  OBVIOUS
<1> HIDE DEF h
<1> QED BY <1>1, <1>2, <1>3, <1>4, <1>5, ReleaseInv

LEMMA BeginTuneInv ==
    ASSUME PipelineInv, NEW m, BeginTune(m)
    PROVE  PipelineInv'
<1> DEFINE h == m.handle
<1>1. /\ m.type = "tune" /\ Top(m) /\ queue' = Without(m)
      /\ consumer' = "inserting" /\ current' = h
      /\ UNCHANGED <<last, request, freed, frees, worker, clients, owned, active, status, cached,
                     recency, linked, timer, firing, followUps>>
  BY DEF BeginTune, handler, books
<1>2. /\ m \in Message /\ h \in Handle /\ h # 0 /\ m \in BagToSet(queue) /\ current = 0
      /\ IsABag(queue') /\ BagToSet(queue') \subseteq BagToSet(queue)
      /\ \A x \in BagToSet(queue) : x # m => queue'[x] = queue[x]
      /\ m \notin BagToSet(queue') /\ m = TuneMsg(h)
  BY <1>1, TakeMessage DEF Handle
<1>3. \A w \in Worker : worker[w] # NoTask /\ worker[w].msg.type = "tune" =>
          worker[w].msg.handle # h
  BY <1>2, NotHeld DEF PipelineInv, QueuedTunesAlive
<1> USE DEF PipelineInv
<1> HIDE DEF h
<1>4. TypeOK'
  BY <1>1, <1>2 DEF TypeOK
<1>5. ShapeInv' /\ LinkedInv' /\ BooksAgree'
  BY <1>1, <1>2 DEF ShapeInv, LinkedInv, BooksAgree
<1>6. WorkerInv'
  BY <1>1, <1>2, <1>3 DEF WorkerInv, TaskInv
<1>7. QueuedTunesAlive'
  BY <1>1, <1>2 DEF QueuedTunesAlive, Handle
<1> QED BY <1>4, <1>5, <1>6, <1>7

LEMMA InsertTuneInv ==
    ASSUME PipelineInv, InsertTune
    PROVE  PipelineInv'
<1> DEFINE h == current
<1>1. /\ h \in Handle /\ h # 0 /\ h \in active \ freed /\ IsABag(queue) /\ h <= last
      /\ TuneMsg(h) \notin BagToSet(queue)
  BY DEF InsertTune, PipelineInv, ShapeInv, QueuedTunesAlive, TypeOK
<1>2. /\ status' = [status EXCEPT ![h] = @ \cup {"completed"}]
      /\ linked' = linked \cup {h}
      /\ timer' = [timer EXCEPT ![h] = IF request[h].dur = Infinite THEN "none" ELSE "armed"]
      /\ queue' = queue /\ current' = 0 /\ consumer' \in {"idle", "draining"}
      /\ UNCHANGED <<last, request, freed, frees, worker, clients, owned, active, cached, recency,
                     firing, followUps>>
  BY DEF InsertTune, Continue, handler
<1>3. \A w \in Worker : worker[w] # NoTask /\ worker[w].msg.type = "tune" =>
          worker[w].msg.handle # h
  BY <1>1, NotHeld
<1> USE DEF PipelineInv
<1>4. TypeOK'
  BY <1>1, <1>2 DEF TypeOK, Status, TimerState
<1>5. ShapeInv'
  BY <1>1, <1>2 DEF ShapeInv, TypeOK
<1>6. LinkedInv' /\ BooksAgree'
  BY <1>1, <1>2 DEF LinkedInv, BooksAgree, TypeOK
<1>7. WorkerInv'
  <2>1. ASSUME NEW w \in Worker, worker[w] # NoTask PROVE TaskInv(worker[w])'
    BY SMTT(30), <1>1, <1>2, <1>3, <2>1, Busy DEF TaskInv, TypeOK, Handle
  <2> QED BY <1>2, <2>1 DEF WorkerInv
<1>8. QueuedTunesAlive'
  BY <1>1, <1>2 DEF QueuedTunesAlive, TypeOK, Handle
<1> QED BY <1>4, <1>5, <1>6, <1>7, <1>8

\* A retune changes the duration and the timer of a request, and nothing else.
LEMMA RetuneInv ==
    ASSUME PipelineInv, NEW m, Top(m), m.type = "retune", m.handle \in active,
           request' = [request EXCEPT ![m.handle].dur = m.dur],
           timer' \in [Handle -> TimerState],
           \A g \in Handle : g # m.handle => timer'[g] = timer[g],
           Continue(Without(m)),
           UNCHANGED <<last, freed, frees, worker, clients, owned, books,
                       current, linked, firing, followUps>>
    PROVE  PipelineInv'
<1> DEFINE h == m.handle
<1> USE DEF books
<1>1. /\ m \in Message /\ h \in Handle /\ m \in BagToSet(queue) /\ current = 0
      /\ IsABag(queue') /\ BagToSet(queue') \subseteq BagToSet(queue)
      /\ \A x \in BagToSet(queue) : x # m => queue'[x] = queue[x]
      /\ consumer' \in {"idle", "draining"} /\ m.dur \in RetuneTo
  BY TakeMessage, MessageCases DEF Continue
<1>2. h <= last /\ request[h] \in Request /\ m.dur \in Nat \cup {Infinite}
  BY <1>1, PipelineAssumption DEF PipelineInv, ShapeInv
<1>3. /\ request'[h] \in Request
      /\ \A g \in Handle : g # h => request'[g] = request[g]
      /\ \A g \in Handle : g <= last => request'[g].client = request[g].client
      /\ request' \in [Handle -> Request \cup {NoRequest}]
  BY <1>1, <1>2 DEF PipelineInv, ShapeInv, Request
<1> HIDE DEF h
<1> USE DEF PipelineInv
<1>4. TypeOK'
  BY <1>1, <1>2, <1>3 DEF TypeOK, ShapeInv, Request
<1>5. ShapeInv'
  BY <1>1, <1>2, <1>3 DEF ShapeInv, h
<1>6. LinkedInv'
  BY DEF LinkedInv
<1>7. BooksAgree'
  BY <1>3 DEF BooksAgree, ShapeInv, TypeOK
<1>8. WorkerInv'
  <2>1. ASSUME NEW w \in Worker, worker[w] # NoTask PROVE TaskInv(worker[w])'
    BY <1>1, <1>3, <2>1, Busy DEF TaskInv
  <2> QED BY <2>1 DEF WorkerInv
<1>9. QueuedTunesAlive'
  BY <1>1, MessageOf DEF QueuedTunesAlive
<1> QED BY <1>4, <1>5, <1>6, <1>7, <1>8, <1>9

LEMMA ConsumerStepInv ==
    ASSUME PipelineInv, ConsumerStep
    PROVE  PipelineInv'
<1>1. ASSUME NEW m, DropFollowUp(m) \/ RefuseRetune(m) \/ CrashOnRetune(m)
      PROVE  PipelineInv'
  BY <1>1, QuietInv DEF DropFollowUp, RefuseRetune, CrashOnRetune, Continue
<1>2. ASSUME NEW m, ServeEarlyRetune(m) PROVE PipelineInv'
  BY <1>2, RetuneInv DEF ServeEarlyRetune, PipelineInv, TypeOK
<1>3. ASSUME NEW m, ServeRetune(m) PROVE PipelineInv'
  <2>1. m.handle \in Handle /\ timer \in [Handle -> TimerState]
    BY <1>3 DEF ServeRetune, PipelineInv, TypeOK
  <2>2. /\ timer' \in [Handle -> TimerState]
        /\ \A g \in Handle : g # m.handle => timer'[g] = timer[g]
    BY <1>3, <2>1 DEF ServeRetune, TimerAfterRetune, TimerState
  <2> QED BY <1>3, <2>2, RetuneInv DEF ServeRetune
<1> QED BY <1>1, <1>2, <1>3, InsertTuneInv, InsertTuneFailsInv, DropTuneInv, BeginTuneInv,
           ServeUntuneInv DEF ConsumerStep, ServeMessage

----------------------------------------------------------------------------
(* Steps of timers *)

LEMMA TimerStepInv ==
    ASSUME PipelineInv, NEW h \in Handle,
           Expire(h) \/ TimerExpired(h) \/ TimerExpiredFails(h)
    PROVE  PipelineInv'
<1> USE DEF PipelineInv, handler, books
<1>1. CASE Expire(h) \/ TimerExpiredFails(h)
  <2>u. UNCHANGED <<last, request, freed, frees, worker, clients, owned, active, status, cached,
                    recency, queue, consumer, current, linked, followUps>>
    BY <1>1 DEF Expire, TimerExpiredFails
  <2>f. h <= last /\ firing[h] \in Nat
    BY <1>1 DEF Expire, TimerExpiredFails, ShapeInv, TypeOK
  <2>e. \/ timer' = [timer EXCEPT ![h] = "fired"] /\ firing' = [firing EXCEPT ![h] = @ + 1]
        \/ firing[h] > 0 /\ firing' = [firing EXCEPT ![h] = @ - 1] /\ timer' = timer
    BY <1>1 DEF Expire, TimerExpiredFails
  <2>t. firing' \in [Handle -> Nat] /\ timer' \in [Handle -> TimerState]
    <3>1. /\ firing \in [Handle -> Nat] /\ timer \in [Handle -> TimerState]
          /\ "fired" \in TimerState
      BY DEF TypeOK, TimerState
    <3> QED BY <2>f, <2>e, <3>1
  <2>g. \A g \in Handle : g # h => timer'[g] = timer[g] /\ firing'[g] = firing[g]
    BY <2>e DEF TypeOK
  <2>1. TypeOK'
    BY <2>u, <2>t DEF TypeOK
  <2>3. ShapeInv'
    BY <2>u, <2>f, <2>g DEF ShapeInv
  <2>2. LinkedInv' /\ BooksAgree' /\ WorkerInv' /\ QueuedTunesAlive'
    BY <1>1 DEF Expire, TimerExpiredFails, LinkedInv, BooksAgree, WorkerInv, TaskInv,
                QueuedTunesAlive
  <2> QED BY <2>1, <2>2, <2>3
<1>2. CASE TimerExpired(h)
  <2> DEFINE m == UntuneMsg(h, request[h].prio)
  <2>0. request[h].prio \in 0 .. 3
    BY <1>2 DEF TimerExpired, ShapeInv, Request
  <2>m. m \in Message /\ m.type = "untune" /\ m.handle = h
    BY <2>0, MessageOf
  <2> HIDE DEF m
  <2>q. /\ IsABag(queue') /\ BagToSet(queue') = BagToSet(queue) \cup {m}
        /\ \A x \in BagToSet(queue) : x # m => queue'[x] = queue[x]
    BY <1>2, PutMessage DEF TimerExpired, m
  <2>t. firing' \in [Handle -> Nat] /\ h <= last
    BY <1>2 DEF TimerExpired, TypeOK, ShapeInv
  <2>1. TypeOK'
    BY <1>2, <2>m, <2>q, <2>t DEF TimerExpired, TypeOK
  <2>5. ShapeInv'
    BY <1>2, <2>t DEF TimerExpired, ShapeInv, TypeOK
  <2>2. LinkedInv' /\ BooksAgree'
    BY <1>2 DEF TimerExpired, LinkedInv, BooksAgree
  <2>3. WorkerInv'
    BY <1>2, <2>m, <2>q DEF TimerExpired, WorkerInv, TaskInv
  <2>4. QueuedTunesAlive'
    BY ZenonT(60), <1>2, <2>m, <2>q, MessageOf DEF TimerExpired, QueuedTunesAlive
  <2> QED BY <2>1, <2>2, <2>3, <2>4, <2>5
<1> QED BY <1>1, <1>2

----------------------------------------------------------------------------
(* The invariants of the runs *)

LEMMA PipelineStep == PipelineInv /\ [Next]_vars => PipelineInv'
<1> SUFFICES ASSUME PipelineInv, [Next]_vars PROVE PipelineInv'
  OBVIOUS
<1>1. CASE UNCHANGED vars
  <2> USE <1>1 DEF vars, handler, books, backend, PipelineInv
  <2>1. TypeOK'
    BY DEF TypeOK
  <2>2. ShapeInv' /\ LinkedInv'
    BY DEF ShapeInv, LinkedInv
  <2>3. WorkerInv'
    BY DEF WorkerInv, TaskInv
  <2>4. BooksAgree' /\ QueuedTunesAlive'
    BY DEF BooksAgree, QueuedTunesAlive
  <2> QED BY <2>1, <2>2, <2>3, <2>4
<1>2. ASSUME NEW w \in Worker, NEW c \in Client, NEW h \in Handle, SendUntune(w, c, h)
      PROVE  PipelineInv'
  <2> DEFINE m == UntuneMsg(h, 0)
  <2>1. m \in Message /\ m.type = "untune" /\ SendFollowUp(w, c, m, "cancel")
    BY <1>2, MessageOf DEF SendUntune
  <2> HIDE DEF m
  <2> QED BY <2>1, SendFollowUpInv
<1>3. ASSUME NEW w \in Worker, NEW c \in Client, NEW h \in Handle, NEW d \in RetuneTo,
             SendRetune(w, c, h, d)
      PROVE  PipelineInv'
  <2> DEFINE m == RetuneMsg(h, d)
  <2>1. m \in Message /\ m.type = "retune" /\ SendFollowUp(w, c, m, "lookup")
    BY <1>3, MessageOf DEF SendRetune
  <2> HIDE DEF m
  <2> QED BY <2>1, SendFollowUpInv
<1> QED BY <1>1, <1>2, <1>3, SendTuneInv, WorkerStepInv, ConsumerStepInv, TimerStepInv DEF Next

LEMMA PipelineInvariant == Spec => []PipelineInv
BY InitPipeline, PipelineStep, PTL DEF Spec

\* The state keeps its shape, for every number of threads, clients and requests; in
\* particular the untune cache has an oldest handle whenever it must evict one.
THEOREM PipelineTypeCorrect == Spec => []TypeOK
BY PipelineInvariant, PTL DEF PipelineInv

\* The active map and the clients' handle lists agree at every moment and refer to
\* no Request object that was returned to its pool.
THEOREM BooksAlwaysAgree == Spec => []BooksAgree
BY PipelineInvariant, PTL DEF PipelineInv

\* A queued tune request is alive, tracked and queued once, whatever overtakes it.
THEOREM QueuedTunesStayAlive == Spec => []QueuedTunesAlive
BY PipelineInvariant, PTL DEF PipelineInv

\* Only addRequest adds to the active map, and only below the limit.
LEMMA ActiveSteps ==
    ASSUME Next
    PROVE  \/ active' \subseteq active
           \/ \E h \in {worker[w].msg.handle : w \in Worker} :
                 MayAdd(h) /\ active' = active \cup {h}
<1> USE DEF books
<1>1. ASSUME NEW w \in Worker, WorkerStep(w)
      PROVE  \/ active' \subseteq active
             \/ \E h \in {worker[v].msg.handle : v \in Worker} :
                   MayAdd(h) /\ active' = active \cup {h}
  BY <1>1 DEF WorkerStep, AdmitTune, RegisterClient, RateLimit, ShouldRequestBeAdded,
       AddRequest, CancelRequest, LookupClient, VerifyHandle, AddAndWakeup
<1>2. ASSUME ConsumerStep PROVE active' \subseteq active
  BY <1>2 DEF ConsumerStep, ServeMessage, InsertTune, InsertTuneFails, DropTune, BeginTune,
       DropFollowUp, ServeUntune, ServeEarlyRetune, RefuseRetune, ServeRetune, CrashOnRetune,
       Forget
<1> QED BY <1>1, <1>2 DEF Next, SendTune, SendUntune, SendRetune, SendFollowUp, Expire,
           TimerExpired, TimerExpiredFails

\* The limit on concurrent requests holds although it is checked in one critical
\* section and relied on in another: addRequest checks it again.
THEOREM CapacityAlwaysRespected == Spec => []CapacityRespected
<1>1. Init => CapacityRespected
  BY FS_EmptySet, PipelineAssumption DEF Init, CapacityRespected
<1>2. CapacityRespected /\ PipelineInv /\ PipelineInv' /\ [Next]_vars => CapacityRespected'
  <2> SUFFICES ASSUME CapacityRespected, PipelineInv, PipelineInv', [Next]_vars
               PROVE  CapacityRespected'
    OBVIOUS
  <2>1. IsFiniteSet(active) /\ IsFiniteSet(active')
    <3>1. IsFiniteSet(Handle)
      BY FS_Interval, PipelineAssumption DEF Handle
    <3>2. active \in SUBSET Handle /\ active' \in SUBSET Handle
      BY DEF PipelineInv, TypeOK
    <3> QED BY <3>1, <3>2, FS_Subset
  <2>2. Cardinality(active) \in Nat /\ MaxConcurrent \in Nat
    BY <2>1, FS_CardinalityType, PipelineAssumption
  <2>3. CASE active' \subseteq active
    <3>1. Cardinality(active') \in Nat /\ Cardinality(active') <= Cardinality(active)
      BY <2>1, <2>3, FS_Subset, FS_CardinalityType
    <3> QED BY <2>2, <3>1 DEF CapacityRespected
  <2>4. ASSUME NEW h, MayAdd(h), active' = active \cup {h}
        PROVE  CapacityRespected'
    <3>1. Cardinality(active') = Cardinality(active) + 1
      BY <2>1, <2>4, FS_AddElement DEF MayAdd
    <3> QED BY <2>2, <2>4, <3>1 DEF MayAdd, CapacityRespected
  <2> QED BY <2>3, <2>4, ActiveSteps DEF vars, books
<1> QED BY <1>1, <1>2, PipelineInvariant, PTL DEF Spec

----------------------------------------------------------------------------
(* What is in effect, when timers and memory blocks do not run out *)

EffectInv == CachedNeverApplied /\ LinkedAreTracked /\ TimedHaveRemover

\* Steps that touch neither the tables, nor the lists, nor the timers, and leave the
\* untunes of linked requests in the queue.
LEMMA EffectFrame ==
    ASSUME EffectInv, UNCHANGED <<active, status, cached, linked, timer, firing>>,
           freed' \cap active = freed \cap active,
           \A h \in linked : request'[h].dur = request[h].dur,
           \A h \in linked, p \in 0 .. 3 :
               UntuneMsg(h, p) \in BagToSet(queue) => UntuneMsg(h, p) \in BagToSet(queue')
    PROVE  EffectInv'
BY DEF EffectInv, CachedNeverApplied, LinkedAreTracked, TimedHaveRemover

LEMMA SendEffect ==
    ASSUME PipelineInv, EffectInv, NEW w \in Worker, NEW c \in Client,
           \/ \E o \in Offered : SendTune(w, c, o)
           \/ \E h \in Handle : SendUntune(w, c, h)
           \/ \E h \in Handle, d \in RetuneTo : SendRetune(w, c, h, d)
    PROVE  EffectInv'
<1>1. /\ UNCHANGED <<active, status, cached, linked, timer, firing, freed, frees, queue>>
      /\ request' = [request EXCEPT ![last + 1] = request'[last + 1]]
  BY DEF SendTune, SendUntune, SendRetune, SendFollowUp, books, backend, PipelineInv, ShapeInv
<1>2. \A h \in linked : h # last + 1 /\ h \in Handle
  <2>1. last \in Nat /\ \A h \in linked : h \in Handle /\ h <= last
    BY PipelineAssumption DEF PipelineInv, ShapeInv, TypeOK
  <2> QED BY <2>1, PipelineAssumption DEF Handle
<1>3. \A h \in linked : request'[h].dur = request[h].dur
  BY <1>1, <1>2 DEF PipelineInv, ShapeInv
<1> QED BY <1>1, <1>3, EffectFrame

\* Freeing the Request object of a tune request that was never added.
LEMMA DiscardEffect ==
    ASSUME PipelineInv, NEW w \in Worker, worker[w] # NoTask, worker[w].pc # "enqueue",
           Discard(w)
    PROVE  freed' \cap active = freed \cap active
BY Busy DEF Discard, Return, TaskInv

LEMMA WorkerEffect ==
    ASSUME PipelineInv, EffectInv, NEW w \in Worker, WorkerStep(w)
    PROVE  EffectInv'
<1> DEFINE h == worker[w].msg.handle
<1> USE DEF At
<1>1. CASE \/ AdmitTune(w) \/ RegisterClient(w) \/ RateLimit(w)
           \/ ShouldRequestBeAdded(w) \/ LookupClient(w) \/ VerifyHandle(w)
  <2>1. UNCHANGED <<active, status, cached, linked, timer, firing, request, queue>>
    BY <1>1 DEF AdmitTune, RegisterClient, RateLimit, ShouldRequestBeAdded, LookupClient,
                VerifyHandle, books, backend
  <2>2. freed' \cap active = freed \cap active
    BY <1>1, DiscardEffect DEF AdmitTune, RegisterClient, RateLimit, ShouldRequestBeAdded,
                LookupClient, VerifyHandle
  <2> QED BY <2>1, <2>2, EffectFrame
<1>2. CASE AddRequest(w)
  <2>1. /\ worker[w] # NoTask /\ worker[w].pc = "add"
        /\ UNCHANGED <<cached, request, queue, linked, timer, firing>>
    BY <1>2 DEF AddRequest, backend
  <2>2. h \in Handle /\ h \notin active \cup freed \cup linked
    BY <2>1, Busy DEF TaskInv
  <2>3. CASE Discard(w) /\ UNCHANGED <<active, status>>
    BY <2>1, <2>3, DiscardEffect, EffectFrame
  <2>4. CASE /\ MayAdd(h) /\ active' = active \cup {h}
             /\ status' = [status EXCEPT ![h] = {}] /\ UNCHANGED <<freed, frees>>
    <3>1. CachedNeverApplied'
      BY <2>1, <2>2, <2>4 DEF EffectInv, CachedNeverApplied, MayAdd
    <3>2. LinkedAreTracked'
      BY <2>1, <2>2, <2>4 DEF EffectInv, LinkedAreTracked, PipelineInv, TypeOK
    <3>3. TimedHaveRemover'
      BY <2>1 DEF EffectInv, TimedHaveRemover
    <3> QED BY <3>1, <3>2, <3>3 DEF EffectInv
  <2> QED BY <1>2, <2>3, <2>4 DEF AddRequest
<1>3. CASE CancelRequest(w)
  <2>1. /\ worker[w] # NoTask /\ UNCHANGED <<active, freed, frees, request, queue, linked, timer, firing>>
    BY <1>3 DEF CancelRequest, backend, books
  <2>2. h \in Handle
    BY <2>1, Busy
  <2>3. \/ UNCHANGED <<cached, status>>
        \/ h \notin active /\ cached' \subseteq cached \cup {h} /\ UNCHANGED status
        \/ UNCHANGED cached /\ status' = [status EXCEPT ![h] = @ \cup {"cancelled"}]
    BY <1>3 DEF CancelRequest, CacheInsert, books
  <2>4. CachedNeverApplied'
    BY <2>1, <2>3 DEF EffectInv, CachedNeverApplied, LinkedAreTracked
  <2>5. LinkedAreTracked'
    <3>1. \A g \in Handle : "completed" \in status'[g] <=> "completed" \in status[g]
      BY <2>2, <2>3 DEF PipelineInv, TypeOK
    <3> QED BY <2>1, <3>1 DEF EffectInv, LinkedAreTracked, PipelineInv, TypeOK
  <2>6. TimedHaveRemover'
    BY <2>1 DEF EffectInv, TimedHaveRemover
  <2> QED BY <2>4, <2>5, <2>6 DEF EffectInv
<1>4. CASE AddAndWakeup(w)
  <2>1. UNCHANGED <<active, status, cached, linked, timer, firing, request, freed, frees>>
    BY <1>4 DEF AddAndWakeup, books
  <2>2. BagToSet(queue) \subseteq BagToSet(queue')
    BY <1>4, PutMessage DEF AddAndWakeup
  <2> QED BY <2>1, <2>2, EffectFrame
<1> QED BY <1>1, <1>2, <1>3, <1>4 DEF WorkerStep

\* A request that leaves the tables and the lists together.
LEMMA ReleaseEffect ==
    ASSUME PipelineInv, EffectInv, NEW h \in Handle, Forget(h), Free(h),
           linked' = linked \ {h}, UNCHANGED <<status, cached, request, firing>>,
           \A x \in BagToSet(queue) :
               x.type = "untune" /\ x.handle # h => x \in BagToSet(queue')
    PROVE  EffectInv'
<1>1. /\ active' = active \ {h} /\ freed' = freed \cup {h}
      /\ timer' = [timer EXCEPT ![h] = "none"]
  BY DEF Forget, Free, Return
<1>2. CachedNeverApplied'
  BY <1>1 DEF EffectInv, CachedNeverApplied
<1>3. LinkedAreTracked'
  BY <1>1 DEF EffectInv, LinkedAreTracked
<1>4. TimedHaveRemover'
  <2> SUFFICES ASSUME NEW g \in linked, g # h, request[g].dur # Infinite
               PROVE  \/ timer'[g] = "armed" \/ firing[g] > 0
                      \/ \E p \in 0 .. 3 : UntuneMsg(g, p) \in BagToSet(queue')
    BY DEF TimedHaveRemover
  <2>1. g \in Handle /\ timer'[g] = timer[g]
    BY <1>1 DEF PipelineInv, TypeOK
  <2>2. \A p \in 0 .. 3 : UntuneMsg(g, p) \in BagToSet(queue) =>
                           UntuneMsg(g, p) \in BagToSet(queue')
    BY <2>1, MessageOf
  <2> QED BY <2>1, <2>2 DEF EffectInv, TimedHaveRemover
<1> QED BY <1>2, <1>3, <1>4 DEF EffectInv

LEMMA ServeEffect ==
    ASSUME ~Failures, PipelineInv, EffectInv, NEW m, ServeMessage(m)
    PROVE  EffectInv'
<1> DEFINE h == m.handle
<1>0. /\ Top(m) /\ queue' = Without(m)
  BY DEF ServeMessage, DropTune, BeginTune, DropFollowUp, ServeUntune, ServeEarlyRetune,
         RefuseRetune, ServeRetune, CrashOnRetune, Continue
<1>m. /\ m \in Message /\ h \in Handle
      /\ \A x \in BagToSet(queue) : x # m => x \in BagToSet(queue')
      /\ m \in BagToSet(queue)
      /\ m.type = "tune" => m = TuneMsg(h)
  BY <1>0, TakeMessage
<1>u. ASSUME m.type = "untune" => h \notin linked
      PROVE  \A g \in linked, p \in 0 .. 3 : UntuneMsg(g, p) \in BagToSet(queue) =>
                                             UntuneMsg(g, p) \in BagToSet(queue')
  BY <1>m, <1>u, MessageOf DEF PipelineInv, TypeOK
<1> HIDE DEF h
<1>1. CASE BeginTune(m) \/ DropFollowUp(m) \/ RefuseRetune(m) \/ CrashOnRetune(m)
  <2>1. UNCHANGED <<active, status, cached, linked, timer, firing, freed, frees, request>>
    BY <1>1 DEF BeginTune, DropFollowUp, RefuseRetune, CrashOnRetune, handler, books
  <2>2. m.type = "untune" => h \notin linked
    BY <1>1 DEF BeginTune, DropFollowUp, RefuseRetune, CrashOnRetune, EffectInv,
                LinkedAreTracked, h
  <2> QED BY <1>u, <2>1, <2>2, EffectFrame
<1>2. CASE DropTune(m)
  <2>1. m.type = "tune" /\ h \notin linked
    BY <1>2, <1>m DEF DropTune, PipelineInv, QueuedTunesAlive
  <2>2. /\ Forget(h) /\ Free(h) /\ UNCHANGED <<status, cached, request, firing, linked>>
    BY <1>2 DEF DropTune, h
  <2>3. linked' = linked \ {h}
    BY <2>1, <2>2
  <2> QED BY <1>m, <2>1, <2>2, <2>3, ReleaseEffect
<1>3. CASE ServeUntune(m)
  <2>1. /\ Forget(h) /\ Free(h) /\ linked' = linked \ {h}
        /\ UNCHANGED <<status, cached, request, firing>>
    BY <1>3 DEF ServeUntune, h
  <2>2. \A x \in BagToSet(queue) : x.handle # h => x \in BagToSet(queue')
    BY <1>m DEF h
  <2> QED BY <1>m, <2>1, <2>2, ReleaseEffect
<1>4. CASE ServeEarlyRetune(m)
  <2>1. /\ m.type = "retune" /\ h \notin linked
        /\ request' = [request EXCEPT ![h].dur = m.dur]
        /\ UNCHANGED <<active, status, cached, linked, timer, firing, freed, frees>>
    BY <1>4 DEF ServeEarlyRetune, EffectInv, LinkedAreTracked, books, h
  <2>2. \A g \in linked : request'[g].dur = request[g].dur
    BY <2>1 DEF PipelineInv, ShapeInv, TypeOK
  <2> QED BY <1>u, <2>1, <2>2, EffectFrame
<1>5. CASE ServeRetune(m)
  <2>1. /\ m.type = "retune" /\ h \in active
        /\ request' = [request EXCEPT ![h].dur = m.dur]
        /\ timer' = [timer EXCEPT ![h] = IF m.dur = Infinite THEN "stopped" ELSE "armed"]
        /\ UNCHANGED <<active, status, cached, linked, firing, freed, frees>>
    BY <1>5 DEF ServeRetune, TimerAfterRetune, books, h
  <2>2. request[h] \in Request
    BY <1>m, <2>1 DEF PipelineInv, ShapeInv
  <2>3. /\ request'[h].dur = m.dur
        /\ \A g \in Handle : g # h => request'[g] = request[g] /\ timer'[g] = timer[g]
        /\ timer'[h] = IF m.dur = Infinite THEN "stopped" ELSE "armed"
    BY <1>m, <2>1, <2>2 DEF PipelineInv, ShapeInv, TypeOK, Request
  <2>4. CachedNeverApplied' /\ LinkedAreTracked'
    BY <2>1 DEF EffectInv, CachedNeverApplied, LinkedAreTracked
  <2>5. \A g \in linked, p \in 0 .. 3 : UntuneMsg(g, p) \in BagToSet(queue) =>
                                         UntuneMsg(g, p) \in BagToSet(queue')
    BY <1>u, <2>1
  <2>6. TimedHaveRemover'
    BY <2>1, <2>3, <2>5 DEF EffectInv, TimedHaveRemover, PipelineInv, TypeOK
  <2> QED BY <2>4, <2>6 DEF EffectInv
<1> QED BY <1>1, <1>2, <1>3, <1>4, <1>5 DEF ServeMessage

LEMMA InsertEffect ==
    ASSUME PipelineInv, EffectInv, InsertTune
    PROVE  EffectInv'
<1> DEFINE h == current
<1>1. h \in Handle /\ h \in active \ freed
  BY DEF InsertTune, PipelineInv, ShapeInv, QueuedTunesAlive, TypeOK
<1>2. /\ status' = [status EXCEPT ![h] = @ \cup {"completed"}]
      /\ linked' = linked \cup {h}
      /\ timer' = [timer EXCEPT ![h] = IF request[h].dur = Infinite THEN "none" ELSE "armed"]
      /\ queue' = queue
      /\ UNCHANGED <<request, freed, frees, active, cached, firing>>
  BY DEF InsertTune, Continue, handler
<1> HIDE DEF h
<1>3. CachedNeverApplied'
  BY <1>1, <1>2 DEF EffectInv, CachedNeverApplied
<1>4. LinkedAreTracked'
  BY <1>1, <1>2 DEF EffectInv, LinkedAreTracked, PipelineInv, TypeOK
<1>5. TimedHaveRemover'
  BY <1>1, <1>2 DEF EffectInv, TimedHaveRemover, PipelineInv, TypeOK
<1> QED BY <1>3, <1>4, <1>5 DEF EffectInv

LEMMA TimerEffect ==
    ASSUME PipelineInv, EffectInv, NEW h \in Handle, Expire(h) \/ TimerExpired(h)
    PROVE  EffectInv'
<1>1. UNCHANGED <<active, status, cached, linked, freed, frees, request>>
  BY DEF Expire, TimerExpired, handler, books
<1>2. CachedNeverApplied' /\ LinkedAreTracked'
  BY <1>1 DEF EffectInv, CachedNeverApplied, LinkedAreTracked
<1>3. CASE Expire(h)
  <2>1. /\ queue' = queue /\ timer' = [timer EXCEPT ![h] = "fired"]
        /\ firing' = [firing EXCEPT ![h] = @ + 1]
    BY <1>3 DEF Expire
  <2>2. \A g \in Handle : /\ firing[g] > 0 => firing'[g] > 0
                          /\ timer[g] = "armed" => timer'[g] = "armed" \/ firing'[g] > 0
    BY <2>1 DEF PipelineInv, TypeOK
  <2>3. TimedHaveRemover'
    BY <1>1, <2>1, <2>2 DEF EffectInv, TimedHaveRemover, PipelineInv, TypeOK
  <2> QED BY <1>2, <2>3 DEF EffectInv
<1>4. CASE TimerExpired(h)
  <2>1. request[h].prio \in 0 .. 3
    BY <1>4 DEF TimerExpired, PipelineInv, ShapeInv, Request
  <2>2. /\ BagToSet(queue') = BagToSet(queue) \cup {UntuneMsg(h, request[h].prio)}
        /\ timer' = timer /\ firing' = [firing EXCEPT ![h] = @ - 1]
    BY <1>4, PutMessage DEF TimerExpired
  <2>3. \A g \in Handle : g # h => firing'[g] = firing[g]
    BY <2>2 DEF PipelineInv, TypeOK
  <2>4. TimedHaveRemover'
    BY <1>1, <2>1, <2>2, <2>3 DEF EffectInv, TimedHaveRemover, PipelineInv, TypeOK
  <2> QED BY <1>2, <2>4 DEF EffectInv
<1> QED BY <1>3, <1>4

LEMMA EffectInvariant ==
    ASSUME ~Failures
    PROVE  Spec => []EffectInv
<1>1. Init => EffectInv
  BY DEF Init, EffectInv, CachedNeverApplied, LinkedAreTracked, TimedHaveRemover
<1>2. PipelineInv /\ EffectInv /\ [Next]_vars => EffectInv'
  <2> SUFFICES ASSUME PipelineInv, EffectInv, [Next]_vars PROVE EffectInv'
    OBVIOUS
  <2>1. CASE UNCHANGED vars
    BY <2>1, EffectFrame DEF vars, handler, books, backend
  <2>2. ASSUME ConsumerStep PROVE EffectInv'
    BY <2>2, InsertEffect, ServeEffect DEF ConsumerStep, InsertTuneFails
  <2>3. ~ \E h \in Handle : TimerExpiredFails(h)
    BY DEF TimerExpiredFails
  <2> QED BY <2>1, <2>2, <2>3, SendEffect, WorkerEffect, TimerEffect DEF Next
<1> QED BY <1>1, <1>2, PipelineInvariant, PTL DEF Spec

\* A remembered untune wins over its tune request: no cached handle is in the tables
\* or in effect.
THEOREM CachedUntunesWin ==
    ASSUME ~Failures
    PROVE  Spec => []CachedNeverApplied
BY EffectInvariant, PTL DEF EffectInv

\* Exactly the completed requests of the active map have nodes in the lists.
THEOREM ListsAreTracked ==
    ASSUME ~Failures
    PROVE  Spec => []LinkedAreTracked
BY EffectInvariant, PTL DEF EffectInv

\* A timed request in effect has a timer, a timer thread or a queued untune that
\* will remove it.
THEOREM TimedAlwaysHaveRemover ==
    ASSUME ~Failures
    PROVE  Spec => []TimedHaveRemover
BY EffectInvariant, PTL DEF EffectInv

----------------------------------------------------------------------------
(* RequestPipeline implements RequestLifecycle *)

\* Every object that was returned was returned once.
FreesInv == \A h \in Handle : frees[h] = IF h \in freed THEN 1 ELSE 0

\* The stage of a handle read off the tables alone.
Place(h) ==
    IF h > last THEN "unknown"
    ELSE IF h \in freed THEN IF h \in linked THEN "dangling" ELSE "gone"
    ELSE IF h \in linked THEN "applied"
    ELSE IF h \in active THEN "tracked"
    ELSE "offered"

\* No handle is corrupt.
Sound == \A h \in Handle : Stage(h) = Place(h)

\* Nobody is going to deal with a request that was freed or is in the lists.
LEMMA NotInHands ==
    ASSUME PipelineInv, NEW h \in Handle, h \in freed \cup linked
    PROVE  ~InHands(h)
<1>1. ASSUME NEW w \in Worker, worker[w] # NoTask, worker[w].msg = TuneMsg(h)
      PROVE  FALSE
  BY <1>1 DEF PipelineInv, WorkerInv, TaskInv, TuneMsg
<1>2. TuneMsg(h) \notin BagToSet(queue) /\ current # h
  BY DEF PipelineInv, QueuedTunesAlive
<1> QED BY <1>1, <1>2 DEF InHands

LEMMA SoundWhenFreedOnce ==
    ASSUME PipelineInv, FreesInv
    PROVE  Sound
<1> SUFFICES ASSUME NEW h \in Handle PROVE Stage(h) = Place(h)
  BY DEF Sound
<1>1. frees[h] = IF h \in freed THEN 1 ELSE 0
  BY DEF FreesInv
<1>2. h \in linked /\ h \notin freed => h \in active
  BY DEF PipelineInv, LinkedInv
<1>3. h \in freed => h \notin active
  BY DEF PipelineInv, BooksAgree
<1> QED BY <1>1, <1>2, <1>3, NotInHands DEF Stage, Place

\* An object that has not been returned is.
LEMMA ReturnKeepsFrees ==
    ASSUME PipelineInv, FreesInv, NEW h \in Handle, h \notin freed, Return(h)
    PROVE  FreesInv'
BY DEF Return, FreesInv, PipelineInv, TypeOK

LEMMA DiscardKeepsFrees ==
    ASSUME PipelineInv, FreesInv, NEW w \in Worker, worker[w] # NoTask, Discard(w)
    PROVE  FreesInv'
<1>1. CASE worker[w].msg.type = "tune"
  <2>1. worker[w].msg.handle \in Handle /\ worker[w].msg.handle \notin freed
    BY <1>1, Busy DEF TaskInv
  <2> QED BY <1>1, <2>1, ReturnKeepsFrees DEF Discard
<1>2. CASE worker[w].msg.type # "tune"
  BY <1>2 DEF Discard, FreesInv
<1> QED BY <1>1, <1>2

\* Whoever returns a Request object finds it not yet returned: a worker holds its tune
\* request alone, the consumer finds the handle among the active requests.
LEMMA FreesStep ==
    ASSUME PipelineInv, FreesInv, [Next]_vars
    PROVE  FreesInv'
<1>0. ASSUME UNCHANGED <<freed, frees>> PROVE FreesInv'
  BY <1>0 DEF FreesInv
<1>1. CASE UNCHANGED vars
  BY <1>0, <1>1 DEF vars, handler
<1>2. ASSUME NEW w \in Worker, NEW c \in Client, NEW o \in Offered, SendTune(w, c, o)
      PROVE  FreesInv'
  BY <1>0, <1>2 DEF SendTune
<1>3. ASSUME NEW w \in Worker, NEW c \in Client, NEW m, NEW pc, SendFollowUp(w, c, m, pc)
      PROVE  FreesInv'
  BY <1>0, <1>3 DEF SendFollowUp
<1>4. ASSUME NEW w \in Worker, WorkerStep(w)
      PROVE  FreesInv'
  <2>1. worker[w] # NoTask
    BY <1>4 DEF WorkerStep, AdmitTune, RegisterClient, RateLimit, ShouldRequestBeAdded,
                AddRequest, CancelRequest, LookupClient, VerifyHandle, AddAndWakeup, At
  <2>2. Discard(w) \/ UNCHANGED <<freed, frees>>
    BY <1>4 DEF WorkerStep, AdmitTune, RegisterClient, RateLimit, ShouldRequestBeAdded,
                AddRequest, CancelRequest, LookupClient, VerifyHandle, AddAndWakeup
  <2> QED BY <1>0, <2>1, <2>2, DiscardKeepsFrees
<1>5. ASSUME NEW h \in active, Free(h) PROVE FreesInv'
  BY <1>5, ReturnKeepsFrees DEF Free, PipelineInv, BooksAgree, TypeOK
<1>6. CASE ConsumerStep
  <2>1. CASE InsertTune
    BY <1>0, <2>1 DEF InsertTune, handler
  <2>2. CASE InsertTuneFails
    <3>1. current \in active
      BY <2>2 DEF InsertTuneFails, PipelineInv, ShapeInv, TypeOK, QueuedTunesAlive
    <3> QED BY <1>5, <2>2, <3>1 DEF InsertTuneFails
  <2>3. ASSUME NEW m, DropTune(m) \/ ServeUntune(m) PROVE FreesInv'
    <3>1. Top(m) /\ Free(m.handle) /\ (m.type = "tune" \/ m.handle \in active)
      BY <2>3 DEF DropTune, ServeUntune
    <3>2. /\ m.handle \in Handle /\ m \in BagToSet(queue)
          /\ m.type = "tune" => m = TuneMsg(m.handle)
      BY <3>1, MessageCases DEF Top, PipelineInv, TypeOK
    <3>3. m.handle \in active
      BY <3>1, <3>2 DEF PipelineInv, QueuedTunesAlive
    <3> QED BY <1>5, <3>1, <3>3
  <2>4. ASSUME NEW m, \/ BeginTune(m) \/ DropFollowUp(m) \/ ServeEarlyRetune(m)
                      \/ RefuseRetune(m) \/ ServeRetune(m) \/ CrashOnRetune(m)
        PROVE  FreesInv'
    BY <1>0, <2>4 DEF BeginTune, DropFollowUp, ServeEarlyRetune, RefuseRetune, ServeRetune,
                      CrashOnRetune, handler
  <2> QED BY <1>6, <2>1, <2>2, <2>3, <2>4 DEF ConsumerStep, ServeMessage
<1>7. ASSUME NEW h \in Handle, Expire(h) \/ TimerExpired(h) \/ TimerExpiredFails(h)
      PROVE  FreesInv'
  BY <1>0, <1>7 DEF Expire, TimerExpired, TimerExpiredFails, handler
<1> QED BY <1>1, <1>2, <1>3, <1>4, <1>6, <1>7 DEF Next, SendUntune, SendRetune

\* The stage of one request moves and every other request stays where it is.
LEMMA MapsToMove ==
    ASSUME Sound, Sound', NEW h \in Handle, NEW from, NEW to,
           Place(h) \in from, Place(h)' = to,
           \A g \in Handle : g # h => Place(g)' = Place(g)
    PROVE  Lifecycle!Move(h, from, to)
<1> DEFINE stage == [g \in Handle |-> Stage(g)]
<1>0. /\ \A g \in Handle : Stage(g) = Place(g)
      /\ \A g \in Handle : Stage(g)' = Place(g)'
  BY DEF Sound
<1>1. stage' = [stage EXCEPT ![h] = to]
  BY <1>0
<1>2. stage[h] \in from
  BY <1>0
<1> QED BY <1>1, <1>2, Zenon DEF Lifecycle!Move

LEMMA MapsToStutter ==
    ASSUME Sound, Sound', UNCHANGED <<last, freed, linked, active, cached>>
    PROVE  UNCHANGED Lifecycle!lifecycleVars
<1>1. \A g \in Handle : Stage(g)' = Stage(g)
  BY DEF Sound, Place
<1> QED BY <1>1 DEF Lifecycle!lifecycleVars

\* The stage of a request that the step does not concern.
LEMMA PlaceKept ==
    ASSUME NEW g \in Handle, g > last <=> g > last', g \in freed <=> g \in freed',
           g \in linked <=> g \in linked', g \in active <=> g \in active'
    PROVE  Place(g)' = Place(g)
BY DEF Place

\* A discarded tune request was offered and is gone; other messages leave no trace.
LEMMA DiscardMaps ==
    ASSUME PipelineInv, Sound, Sound', NEW w \in Worker, worker[w] # NoTask, worker[w].pc # "enqueue",
           Discard(w), UNCHANGED <<last, linked, active, cached>>
    PROVE  [Lifecycle!Next]_(Lifecycle!lifecycleVars)
<1>1. CASE worker[w].msg.type = "tune"
  <2>1. PICK h \in Handle : h = worker[w].msg.handle
    BY Busy
  <2>2. /\ h <= last /\ h \notin freed \cup linked \cup active
        /\ freed' = freed \cup {h} /\ last \in Int
    BY <1>1, <2>1, Busy, PipelineAssumption
       DEF TaskInv, Discard, Return, PipelineInv, TypeOK
  <2>3. Place(h) = "offered" /\ Place(h)' = "gone"
    BY <2>2, PipelineAssumption DEF Place, Handle
  <2>4. \A g \in Handle : g # h => Place(g)' = Place(g)
    BY <2>2, PlaceKept
  <2>5. Lifecycle!Reject(h)
    BY <2>3, <2>4, MapsToMove DEF Lifecycle!Reject
  <2> QED BY <2>5 DEF Lifecycle!Next
<1>2. CASE worker[w].msg.type # "tune"
  BY <1>2, MapsToStutter DEF Discard
<1> QED BY <1>1, <1>2

LEMMA SendMaps ==
    ASSUME PipelineInv, Sound, Sound', NEW w \in Worker, NEW c \in Client, NEW o \in Offered,
           SendTune(w, c, o)
    PROVE  [Lifecycle!Next]_(Lifecycle!lifecycleVars)
<1>1. PICK h \in Handle : h = last + 1
  BY PipelineAssumption DEF SendTune, PipelineInv, TypeOK, Handle
<1>2. last' = h /\ last \in Int /\ UNCHANGED <<freed, linked, active, cached>>
  BY <1>1, PipelineAssumption DEF SendTune, PipelineInv, TypeOK, books, backend
<1>3. h \in Int /\ h \notin freed \cup linked \cup active
  BY <1>1, <1>2 DEF PipelineInv, ShapeInv, Handle
<1>4. Place(h) = "unknown" /\ Place(h)' = "offered"
  BY <1>1, <1>2, <1>3 DEF Place
<1>5. \A g \in Handle : g # h => Place(g)' = Place(g)
  <2> SUFFICES ASSUME NEW g \in Handle, g # h PROVE Place(g)' = Place(g)
    OBVIOUS
  <2>1. g > last <=> g > last'
    BY <1>1, <1>2, <1>3, PipelineAssumption DEF Handle
  <2> QED BY <1>2, <2>1, PlaceKept
<1>6. Lifecycle!Offer(h)
  BY <1>2, <1>4, <1>5, MapsToMove DEF Lifecycle!Offer
<1> QED BY <1>6 DEF Lifecycle!Next

LEMMA WorkerMaps ==
    ASSUME PipelineInv, Sound, Sound', NEW w \in Worker, WorkerStep(w)
    PROVE  [Lifecycle!Next]_(Lifecycle!lifecycleVars)
<1> USE DEF At
<1>0. worker[w] # NoTask
  BY DEF WorkerStep, AdmitTune, RegisterClient, RateLimit, ShouldRequestBeAdded, AddRequest,
         CancelRequest, LookupClient, VerifyHandle, AddAndWakeup
<1>p. PICK h \in Handle : h = worker[w].msg.handle
  BY <1>0, Busy
<1>1. CASE \/ AdmitTune(w) \/ RegisterClient(w) \/ RateLimit(w)
           \/ ShouldRequestBeAdded(w) \/ LookupClient(w) \/ VerifyHandle(w)
  <2>1. UNCHANGED <<last, linked, active, cached>> /\ worker[w].pc # "enqueue"
    BY <1>1 DEF AdmitTune, RegisterClient, RateLimit, ShouldRequestBeAdded, LookupClient,
                VerifyHandle, books, backend
  <2>2. Discard(w) \/ UNCHANGED freed
    BY <1>1 DEF AdmitTune, RegisterClient, RateLimit, ShouldRequestBeAdded, LookupClient,
                VerifyHandle
  <2> QED BY <1>0, <2>1, <2>2, DiscardMaps, MapsToStutter
<1>2. CASE AddRequest(w)
  <2>1. /\ worker[w].pc = "add" /\ UNCHANGED <<last, linked, cached>>
        /\ \/ Discard(w) /\ UNCHANGED active
           \/ MayAdd(h) /\ active' = active \cup {h} /\ UNCHANGED freed
    BY <1>2, <1>p DEF AddRequest, backend
  <2>2. CASE Discard(w) /\ UNCHANGED active
    BY <1>0, <2>1, <2>2, DiscardMaps
  <2>3. CASE MayAdd(h) /\ active' = active \cup {h} /\ UNCHANGED freed
    <3>1. h <= last /\ last \in Int /\ h \notin freed \cup linked \cup active
      BY <1>0, <1>p, <2>1, Busy, PipelineAssumption DEF TaskInv, PipelineInv, TypeOK
    <3>2. Place(h) = "offered" /\ Place(h)' = "tracked"
      BY <2>1, <2>3, <3>1 DEF Place, Handle
    <3>3. \A g \in Handle : g # h => Place(g)' = Place(g)
      BY <2>1, <2>3, PlaceKept
    <3>4. Lifecycle!Track(h)
      BY <2>1, <2>3, <3>2, <3>3, MapsToMove DEF Lifecycle!Track, MayAdd
    <3> QED BY <3>4 DEF Lifecycle!Next
  <2> QED BY <2>1, <2>2, <2>3
<1>3. CASE CancelRequest(w)
  <2>1. /\ UNCHANGED <<last, linked, freed, active>>
        /\ UNCHANGED cached \/ (h \notin active /\ CacheInsert(h))
    BY <1>3, <1>p DEF CancelRequest, backend, books
  <2>2. CASE UNCHANGED cached
    BY <2>1, <2>2, MapsToStutter
  <2>3. CASE h \notin active /\ CacheInsert(h)
    <3>1. h <= last /\ last \in Int /\ (h \in freed \/ h \notin linked)
      BY <1>0, <1>p, <2>3, Busy, PipelineAssumption
         DEF TaskInv, PipelineInv, TypeOK, LinkedInv
    <3>0. ~(h > last)
      BY <3>1 DEF Handle
    <3>2. Place(h) \in {"offered", "gone", "dangling"}
      BY <2>3, <3>0, <3>1 DEF Place
    <3>3. \/ cached' = cached \cup {h}
          \/ \E g \in cached : cached' = (cached \ {g}) \cup {h}
      BY <2>3 DEF CacheInsert
    <3>4. \A g \in Handle : Stage(g)' = Stage(g)
      BY <2>1, PlaceKept DEF Sound
    <3>5. Lifecycle!Withdraw(h)
      BY <3>2, <3>3, <3>4 DEF Lifecycle!Withdraw, Sound
    <3> QED BY <3>5 DEF Lifecycle!Next
  <2> QED BY <2>1, <2>2, <2>3
<1>4. CASE AddAndWakeup(w)
  BY <1>4, MapsToStutter DEF AddAndWakeup, books
<1> QED BY <1>1, <1>2, <1>3, <1>4 DEF WorkerStep

\* A tracked or applied request is gone; if its nodes stay, it is stranded.
LEMMA ReleaseMaps ==
    ASSUME PipelineInv, Sound, Sound', NEW h \in Handle, h \in active, Forget(h), Free(h),
           linked' \ {h} = linked \ {h}, UNCHANGED <<last, cached>>,
           h \in linked' => Failures /\ h \notin linked
    PROVE  [Lifecycle!Next]_(Lifecycle!lifecycleVars)
<1>1. /\ active' = active \ {h} /\ freed' = freed \cup {h}
      /\ h <= last /\ last \in Int /\ h \notin freed
  BY PipelineAssumption DEF Forget, Free, PipelineInv, ShapeInv, TypeOK, BooksAgree, Return
<1>0. ~(h > last) /\ ~(h > last')
  BY <1>1 DEF Handle
<1>2. \A g \in Handle : g # h => Place(g)' = Place(g)
  BY <1>1, PlaceKept
<1>3. CASE h \notin linked'
  <2>1. Place(h) \in {"tracked", "applied"} /\ Place(h)' = "gone"
    BY <1>0, <1>1, <1>3 DEF Place
  <2>2. Lifecycle!Release(h)
    BY <1>2, <2>1, MapsToMove DEF Lifecycle!Release
  <2> QED BY <2>2 DEF Lifecycle!Next
<1>4. CASE h \in linked'
  <2>1. Place(h) = "tracked" /\ Place(h)' = "dangling"
    BY <1>0, <1>1, <1>4 DEF Place
  <2>2. Lifecycle!Strand(h)
    BY <1>2, <1>4, <2>1, MapsToMove DEF Lifecycle!Strand
  <2> QED BY <2>2 DEF Lifecycle!Next
<1> QED BY <1>3, <1>4

LEMMA ConsumerMaps ==
    ASSUME PipelineInv, Sound, Sound', ConsumerStep
    PROVE  [Lifecycle!Next]_(Lifecycle!lifecycleVars)
<1>1. CASE InsertTune
  <2>1. PICK h \in Handle : h = current
    BY <1>1 DEF InsertTune, PipelineInv, ShapeInv, TypeOK
  <2>2. /\ h \in active \ (freed \cup linked) /\ h <= last /\ last \in Int
        /\ linked' = linked \cup {h} /\ UNCHANGED <<last, freed, active, cached>>
    BY <1>1, <2>1, PipelineAssumption
       DEF InsertTune, PipelineInv, ShapeInv, TypeOK, QueuedTunesAlive, handler
  <2>0. ~(h > last) /\ ~(h > last') /\ h \in linked' /\ h \notin freed'
    BY <2>2 DEF Handle
  <2>3. Place(h) = "tracked" /\ Place(h)' = "applied"
    BY <2>0, <2>2 DEF Place
  <2>4. \A g \in Handle : g # h => Place(g)' = Place(g)
    BY <2>2, PlaceKept
  <2>5. Lifecycle!Apply(h)
    BY <2>2, <2>3, <2>4, MapsToMove DEF Lifecycle!Apply
  <2> QED BY <2>5 DEF Lifecycle!Next
<1>2. CASE InsertTuneFails
  <2>1. PICK h \in Handle : h = current
    BY <1>2 DEF InsertTuneFails, PipelineInv, ShapeInv, TypeOK
  <2>2. /\ h \in active /\ Forget(h) /\ Free(h)
        /\ linked' \ {h} = linked \ {h} /\ UNCHANGED <<last, cached>>
        /\ Failures /\ h \notin linked
    BY <1>2, <2>1 DEF InsertTuneFails, PipelineInv, QueuedTunesAlive
  <2> QED BY <2>2, ReleaseMaps
<1>3. ASSUME NEW m, DropTune(m) \/ ServeUntune(m)
      PROVE  [Lifecycle!Next]_(Lifecycle!lifecycleVars)
  <2>1. /\ Top(m) /\ queue' = Without(m)
        /\ Forget(m.handle) /\ Free(m.handle) /\ UNCHANGED <<last, cached>>
        /\ linked' \ {m.handle} = linked \ {m.handle}
        /\ \/ m.type = "tune" /\ UNCHANGED linked
           \/ m.handle \in active /\ m.handle \notin linked'
    BY <1>3 DEF DropTune, ServeUntune, Continue
  <2>2. /\ m.handle \in Handle /\ m \in BagToSet(queue)
        /\ m.type = "tune" => m = TuneMsg(m.handle)
    BY <2>1, TakeMessage
  <2>3. m.handle \in active /\ m.handle \notin linked'
    BY <2>1, <2>2 DEF PipelineInv, QueuedTunesAlive
  <2> QED BY <2>1, <2>2, <2>3, ReleaseMaps
<1>4. ASSUME NEW m, \/ BeginTune(m) \/ DropFollowUp(m) \/ ServeEarlyRetune(m)
                    \/ RefuseRetune(m) \/ ServeRetune(m) \/ CrashOnRetune(m)
      PROVE  [Lifecycle!Next]_(Lifecycle!lifecycleVars)
  <2>1. UNCHANGED <<last, freed, linked, active, cached>>
    BY <1>4 DEF BeginTune, DropFollowUp, ServeEarlyRetune, RefuseRetune, ServeRetune,
                CrashOnRetune, handler, books
  <2> QED BY <2>1, MapsToStutter
<1> QED BY <1>1, <1>2, <1>3, <1>4 DEF ConsumerStep, ServeMessage

\* Every step of workers, consumer and timers is a step in the life of one request
\* or invisible: a request is tracked, applied and returned to the memory pool at most
\* once and in this order, never while somebody is still to deal with it, and a
\* remembered withdrawal keeps it from being tracked.  When timers and memory blocks
\* run out this still holds, but a request may then be returned with its nodes left
\* in the lists.
THEOREM PipelineImplementsLifecycle == Spec => LifecycleSpec
<1>1. Init => Lifecycle!Init
  <2>1. ASSUME Init, NEW h \in Handle PROVE Stage(h) = "unknown"
    BY <2>1 DEF Init, Stage, Handle
  <2> QED BY <2>1 DEF Init, Lifecycle!Init
<1>2. Init => FreesInv
  BY DEF Init, FreesInv
<1>3. PipelineInv /\ FreesInv /\ [Next]_vars => FreesInv'
  BY FreesStep
<1>4. PipelineInv /\ FreesInv /\ PipelineInv' /\ FreesInv' /\ [Next]_vars
          => [Lifecycle!Next]_(Lifecycle!lifecycleVars)
  <2> SUFFICES ASSUME PipelineInv, FreesInv, PipelineInv', FreesInv', [Next]_vars
               PROVE  [Lifecycle!Next]_(Lifecycle!lifecycleVars)
    OBVIOUS
  <2>0. PipelineInv /\ FreesInv => Sound
    BY SoundWhenFreedOnce
  <2>s. Sound /\ Sound'
    BY <2>0, SoundWhenFreedOnce, PTL
  <2>1. CASE UNCHANGED vars
    BY <2>s, <2>1, MapsToStutter DEF vars, handler, books, backend
  <2>2. ASSUME NEW w \in Worker, NEW c \in Client, NEW m, NEW pc, SendFollowUp(w, c, m, pc)
        PROVE  [Lifecycle!Next]_(Lifecycle!lifecycleVars)
    BY <2>s, <2>2, MapsToStutter DEF SendFollowUp, books, backend
  <2>3. ASSUME NEW h \in Handle, Expire(h) \/ TimerExpired(h) \/ TimerExpiredFails(h)
        PROVE  [Lifecycle!Next]_(Lifecycle!lifecycleVars)
    BY <2>s, <2>3, MapsToStutter DEF Expire, TimerExpired, TimerExpiredFails, handler, books
  <2> QED BY <2>s, <2>1, <2>2, <2>3, SendMaps, WorkerMaps, ConsumerMaps
          DEF Next, SendUntune, SendRetune
<1> QED BY <1>1, <1>2, <1>3, <1>4, PipelineInvariant, PTL DEF Spec, LifecycleSpec, Lifecycle!Spec
============================================================================
