----------------------- MODULE ClientLifecycleProofs -----------------------
(***************************************************************************)
(* Proofs about ClientLifecycle, for any processes, threads and workers,   *)
(* any caps, any number of requests and any choice of mishaps.             *)
(*                                                                         *)
(* The argument is about who may delete.  Pulse monitor and collector only *)
(* ever hold dead processes and their threads (DaemonInv), so whatever a   *)
(* worker has found or created for a living client stays (LiveInv).  As    *)
(* long as no process exits with a request in flight, no worker brings a   *)
(* dead client back: every thread is queued for collection at most once    *)
(* and with its data (OwnerInv, DataInv, CondemnedInv).  If nothing else goes wrong either, a   *)
(* thread leaves the lists only for the queue of the collector (ReachInv). *)
(***************************************************************************)
EXTENDS ClientLifecycle, SequenceTheorems, TLAPS

Level == {"none", "unknown", "known"}
TaskPC == {"exists", "create", "limit", "verify", "match", "add", "enqueue"}
Task == [pc : TaskPC, handle : Handle]
Past == {"limit", "verify", "match", "add"}     \* past createNewClient

\* The parts of TypeOK, and that handles in use have been sent.
ShapeInv ==
    /\ alive \subseteq Process /\ last \in 0 .. MaxHandle
    /\ sender \in [Handle -> [thread : Thread \cup {None}, dur : {"timed", "infinite"}]]
    /\ worker \in [Worker -> Task \cup {None}]
    /\ repo \in [Process -> [threads : Seq(Thread), level : Level]]
    /\ entry \in [Thread -> {"absent", "null", "present"}]
    /\ handles \in [Thread -> SUBSET Handle]
    /\ active \subseteq 1 .. last /\ completed \subseteq Handle
    /\ queue \subseteq {Tune(h) : h \in Handle} \cup {Untune(h) : h \in Handle}
    /\ draining \in BOOLEAN /\ crashed \in BOOLEAN
    /\ pulse \in [todo : SUBSET Process, victim : Process \cup {None}]
    /\ gcQueue \in Seq(Thread)
    /\ gc \in [pc : {"idle", "loop", "delete", "untune"}, count : 0 .. BatchSize,
               thread : Thread \cup {None}, todo : SUBSET Handle]
    /\ mishaps \subseteq {"abrupt", "alloc", "cap"}

\* Requests that were sent have a sender, and workers handle such requests.
SentInv ==
    /\ \A h \in 1 .. last : sender[h].thread \in Thread
    /\ \A w \in Worker : worker[w] # None => worker[w].handle \in 1 .. last

\* The lists of a process hold its own threads, up to the cap.
ListInv ==
    \A p \in Process :
        /\ Len(repo[p].threads) <= ThreadCap
        /\ \A t \in ToSet(repo[p].threads) : ProcessOf[t] = p
        /\ repo[p].level = "none" => repo[p].threads = <<>>

\* Pulse monitor and collector hold dead processes and their threads.
DaemonInv ==
    /\ pulse.victim \notin alive
    /\ \A t \in ToSet(gcQueue) : ProcessOf[t] \notin alive
    /\ gc.pc \in {"delete", "untune"} =>
          /\ gc.count < BatchSize
          /\ gc.thread \in Thread
          /\ ProcessOf[gc.thread] \notin alive

Registered(t) == repo[ProcessOf[t]].level # "none" /\ entry[t] = "present"

\* What a living client was given stays (with LiveClientsKept).
LiveInv ==
    /\ \A t \in Thread : ProcessOf[t] \in alive => entry[t] # "null"
    /\ \A w \in Worker :
          (worker[w] # None /\ worker[w].pc \in Past /\ ProcessOf[ThreadOf(w)] \in alive) =>
              Registered(ThreadOf(w))

\* Thread t is on its way through the collector.
Condemned(t) == t \in ToSet(gcQueue) \/ Collected(t)

\* As long as no process exited with a request in flight: requests on their way are
\* those of living processes, ...
OwnerInv ==
    "abrupt" \notin mishaps =>
        /\ \A w \in Worker : worker[w] # None => ProcessOf[ThreadOf(w)] \in alive
        /\ \A h \in 1 .. last : Tune(h) \in queue => Owner(h) \in alive

\* ... threads are listed once and with their data ...
DataInv ==
    "abrupt" \notin mishaps =>
        /\ \A t \in Thread : entry[t] # "null"
        /\ \A p \in Process : p # pulse.victim =>
              \A t \in ToSet(repo[p].threads) : entry[t] = "present"
        /\ \A p \in Process : IsInjective(repo[p].threads)

\* ... and queued once and with their data, when their process is on its way out.
CondemnedInv ==
    "abrupt" \notin mishaps =>
        /\ IsInjective(gcQueue)
        /\ \A t \in ToSet(gcQueue) : entry[t] = "present" /\ ~Collected(t)
        /\ \A t \in Thread : Condemned(t) =>
              ProcessOf[t] = pulse.victim \/ repo[ProcessOf[t]].level = "none"

\* As long as nothing went wrong at all, present data can be reached, and those of a
\* process about to be deleted are with the collector.
ReachInv ==
    /\ EntriesReachable
    /\ mishaps = {} => \A t \in Thread :
          entry[t] = "present" /\ ProcessOf[t] = pulse.victim => Condemned(t)

\* The inductive invariant.
ClientInv ==
    /\ ShapeInv /\ SentInv /\ ListInv /\ DaemonInv /\ LiveInv /\ LiveClientsKept
    /\ OwnerInv /\ DataInv /\ CondemnedInv /\ ReachInv
    /\ SurvivesOrderlyClients

----------------------------------------------------------------------------
(* Sequences without duplicates *)

LEMMA SetOfSmall ==
    /\ ToSet(<<>>) = {} /\ IsInjective(<<>>)
    /\ \A x : ToSet(<<x>>) = {x} /\ IsInjective(<<x>>)
  BY DEF ToSet, IsInjective

LEMMA SetOfAppend ==
    ASSUME NEW S, NEW s \in Seq(S), NEW x \in S
    PROVE  /\ ToSet(Append(s, x)) = ToSet(s) \cup {x}
           /\ IsInjective(s) /\ x \notin ToSet(s) => IsInjective(Append(s, x))
<1>1. /\ DOMAIN s = 1 .. Len(s) /\ DOMAIN Append(s, x) = 1 .. Len(s) + 1
      /\ \A i \in 1 .. Len(s) : Append(s, x)[i] = s[i]
      /\ Append(s, x)[Len(s) + 1] = x /\ Len(s) \in Nat
  OBVIOUS
<1>2. ToSet(Append(s, x)) = ToSet(s) \cup {x}
  BY <1>1 DEF ToSet
<1>3. IsInjective(s) /\ x \notin ToSet(s) => IsInjective(Append(s, x))
  BY <1>1 DEF ToSet, IsInjective
<1> QED BY <1>2, <1>3

LEMMA SetOfConcat ==
    ASSUME NEW S, NEW s \in Seq(S), NEW r \in Seq(S)
    PROVE  /\ ToSet(s \o r) = ToSet(s) \cup ToSet(r)
           /\ IsInjective(s) /\ IsInjective(r) /\ ToSet(s) \cap ToSet(r) = {} =>
                 IsInjective(s \o r)
<1> DEFINE n == Len(s)
           m == Len(r)
           c == s \o r
<1>1. /\ n \in Nat /\ m \in Nat
      /\ DOMAIN s = 1 .. n /\ DOMAIN r = 1 .. m /\ DOMAIN c = 1 .. n + m
      /\ \A i \in 1 .. n : c[i] = s[i]
      /\ \A i \in 1 .. m : c[n + i] = r[i]
      /\ \A i \in 1 .. n + m : i > n => i - n \in 1 .. m /\ c[i] = r[i - n]
  BY ConcatProperties, LenProperties
<1> HIDE DEF n, m, c
<1>2. ToSet(c) = ToSet(s) \cup ToSet(r)
  <2>1. ASSUME NEW i \in 1 .. n + m PROVE c[i] \in ToSet(s) \cup ToSet(r)
    BY <1>1 DEF ToSet
  <2>2. \A i \in 1 .. n : i \in 1 .. n + m
    BY <1>1
  <2>3. \A i \in 1 .. m : n + i \in 1 .. n + m
    BY <1>1
  <2>4. ToSet(s) \subseteq ToSet(c)
    BY <1>1, <2>2 DEF ToSet
  <2>5. ToSet(r) \subseteq ToSet(c)
    BY <1>1, <2>3 DEF ToSet
  <2>6. ToSet(c) \subseteq ToSet(s) \cup ToSet(r)
    BY <1>1, <2>1 DEF ToSet
  <2> QED BY <2>4, <2>5, <2>6
<1>3. ASSUME IsInjective(s), IsInjective(r), ToSet(s) \cap ToSet(r) = {}
      PROVE  IsInjective(c)
  <2>1. \A i \in 1 .. n, j \in 1 .. m : s[i] # r[j]
    BY <1>1, <1>3 DEF ToSet
  <2> SUFFICES ASSUME NEW i \in 1 .. n + m, NEW j \in 1 .. n + m, c[i] = c[j]
               PROVE  i = j
    BY <1>1 DEF IsInjective
  <2>2. CASE i <= n /\ j <= n
    BY <1>1, <1>3, <2>2 DEF IsInjective
  <2>3. CASE i > n /\ j > n
    <3>1. i - n = j - n
      BY <1>1, <1>3, <2>3 DEF IsInjective
    <3> QED BY <1>1, <3>1
  <2>4. CASE i <= n /\ j > n
    BY <1>1, <2>1, <2>4
  <2>5. CASE i > n /\ j <= n
    BY <1>1, <2>1, <2>5
  <2> QED BY <1>1, <2>2, <2>3, <2>4, <2>5
<1> QED BY <1>2, <1>3 DEF c

LEMMA SetOfTail ==
    ASSUME NEW S, NEW s \in Seq(S), s # <<>>
    PROVE  /\ Head(s) \in S /\ Tail(s) \in Seq(S)
           /\ ToSet(s) = {Head(s)} \cup ToSet(Tail(s))
           /\ IsInjective(s) => IsInjective(Tail(s)) /\ Head(s) \notin ToSet(Tail(s))
<1> DEFINE n == Len(s)
           r == Tail(s)
<1>0. Head(s) = s[1] /\ Head(s) \in S /\ r \in Seq(S)
  BY HeadTailProperties
<1>1. /\ n \in Nat \ {0} /\ DOMAIN s = 1 .. n /\ DOMAIN r = 1 .. n - 1
      /\ \A i \in 1 .. n - 1 : r[i] = s[i + 1]
  BY HeadTailProperties, LenProperties, EmptySeq
<1> HIDE DEF n, r
<1>4. \A i \in DOMAIN r : i + 1 \in DOMAIN s /\ i + 1 # 1 /\ r[i] = s[i + 1]
  BY <1>1
<1>5. \A i \in DOMAIN s : i # 1 => i - 1 \in DOMAIN r /\ r[i - 1] = s[i]
  BY <1>1
<1>6. 1 \in DOMAIN s
  BY <1>1
<1>2. ToSet(s) = {s[1]} \cup ToSet(r)
  <2>3. \A x \in ToSet(s) : x = s[1] \/ x \in ToSet(r)
    BY <1>5 DEF ToSet
  <2>4. \A x \in ToSet(r) : x \in ToSet(s)
    BY <1>4 DEF ToSet
  <2>5. s[1] \in ToSet(s)
    BY <1>6 DEF ToSet
  <2> QED BY <2>3, <2>4, <2>5
<1>3. ASSUME IsInjective(s) PROVE IsInjective(r) /\ s[1] \notin ToSet(r)
  <2>1. s[1] \notin ToSet(r)
    BY <1>3, <1>4, <1>6 DEF IsInjective, ToSet
  <2>2. ASSUME NEW i \in DOMAIN r, NEW j \in DOMAIN r, r[i] = r[j] PROVE i = j
    <3>1. i + 1 = j + 1
      BY <1>3, <1>4, <2>2 DEF IsInjective
    <3> QED BY <1>1, <3>1
  <2> QED BY <2>1, <2>2 DEF IsInjective
<1> QED BY <1>0, <1>2, <1>3 DEF r

\* The elements of a sequence are in its set.
LEMMA SetOfSeq ==
    ASSUME NEW S, NEW s \in Seq(S)
    PROVE  ToSet(s) \subseteq S
  BY DEF ToSet

----------------------------------------------------------------------------
(* Workers *)

\* A worker handles a request that was sent.
LEMMA WorkerTask ==
    ASSUME ShapeInv, SentInv, NEW w \in Worker, worker[w] # None
    PROVE  /\ worker[w] \in Task /\ worker[w].handle \in Handle /\ worker[w].handle \in 1 .. last
           /\ ThreadOf(w) \in Thread /\ ProcessOf[ThreadOf(w)] \in Process
           /\ ThreadOf(w) = sender[worker[w].handle].thread
           /\ Owner(worker[w].handle) = ProcessOf[ThreadOf(w)]
<1>1. worker[w] \in Task
  BY DEF ShapeInv
<1> QED BY <1>1, ClientAssumption DEF ShapeInv, SentInv, ThreadOf, Owner, Task

\* So is an active request.
LEMMA ActiveSender ==
    ASSUME ShapeInv, SentInv, NEW h \in active
    PROVE  /\ h \in Handle /\ h \in 1 .. last /\ sender[h].thread \in Thread
           /\ Owner(h) = ProcessOf[sender[h].thread] /\ Owner(h) \in Process
  BY ClientAssumption DEF ShapeInv, SentInv, Owner, Handle

LEMMA GotoMoves ==
    ASSUME ShapeInv, NEW w \in Worker, worker[w] # None, NEW pc \in TaskPC, Goto(w, pc)
    PROVE  /\ worker' \in [Worker -> Task \cup {None}]
           /\ worker'[w].pc = pc /\ worker'[w].handle = worker[w].handle
           /\ \A v \in Worker \ {w} : worker'[v] = worker[v]
           /\ sender' = sender => \A v \in Worker : worker'[v] # None => ThreadOf(v)' = ThreadOf(v)
<1>1. worker[w] \in Task
  BY DEF ShapeInv
<1> QED BY <1>1 DEF ShapeInv, Goto, Task, ThreadOf

LEMMA DropMoves ==
    ASSUME ShapeInv, NEW w \in Worker, Drop(w)
    PROVE  /\ worker' \in [Worker -> Task \cup {None}]
           /\ worker'[w] = None
           /\ \A v \in Worker \ {w} : worker'[v] = worker[v]
           /\ sender' = sender => \A v \in Worker : worker'[v] # None => ThreadOf(v)' = ThreadOf(v)
  BY DEF ShapeInv, Drop, ThreadOf

----------------------------------------------------------------------------
(* One lemma per operation *)

LEMMA InitClient == Init => ClientInv
<1> SUFFICES ASSUME Init PROVE ClientInv
  OBVIOUS
<1> USE ClientAssumption, SetOfSmall DEF Init, NoClient, NoSender, GcIdle
<1>1. ShapeInv
  <2>1. repo \in [Process -> [threads : Seq(Thread), level : Level]]
    BY DEF Level
  <2>2. sender \in [Handle -> [thread : Thread \cup {None}, dur : {"timed", "infinite"}]]
    OBVIOUS
  <2>3. gc \in [pc : {"idle", "loop", "delete", "untune"}, count : 0 .. BatchSize,
               thread : Thread \cup {None}, todo : SUBSET Handle]
    OBVIOUS
  <2>4. pulse \in [todo : SUBSET Process, victim : Process \cup {None}] /\ last \in 0 .. MaxHandle
    OBVIOUS
  <2>5. gcQueue \in Seq(Thread) /\ worker \in [Worker -> Task \cup {None}]
    OBVIOUS
  <2> QED BY <2>1, <2>2, <2>3, <2>4, <2>5 DEF ShapeInv
<1>2. SentInv
  BY DEF SentInv, ShapeInv, Handle
<1>3. ListInv
  BY DEF ListInv, ShapeInv
<1>4. DaemonInv
  BY DEF DaemonInv, ShapeInv
<1>5. LiveInv
  BY DEF LiveInv, Registered, ThreadOf, ShapeInv, SentInv, Handle
<1>6. LiveClientsKept
  BY DEF LiveClientsKept, Owner, ShapeInv, SentInv, Handle
<1>7. OwnerInv
  BY DEF OwnerInv, Owner, ThreadOf, ShapeInv, SentInv, Handle
<1>8. DataInv
  BY DEF DataInv, ShapeInv
<1>9. CondemnedInv
  BY DEF CondemnedInv, Condemned, Collected, ShapeInv
<1>10. ReachInv
  BY DEF ReachInv, EntriesReachable, Condemned, Collected, ShapeInv
<1>11. SurvivesOrderlyClients
  BY DEF SurvivesOrderlyClients
<1> QED BY <1>1, <1>2, <1>3, <1>4, <1>5, <1>6, <1>7, <1>8, <1>9, <1>10, <1>11 DEF ClientInv

\* A thread sends a tune request.
LEMMA SendTuneInv ==
    ASSUME ClientInv, ~crashed, NEW w \in Worker, NEW t \in Thread, NEW d \in Durations,
           SendTune(w, t, d)
    PROVE  ClientInv'
<1> USE ClientAssumption DEF ClientInv, clientSide, tables, server, daemons
<1> DEFINE h == last + 1
<1>e. UNCHANGED <<alive, tables, server, daemons, crashed, mishaps>> /\ ProcessOf[t] \in alive
  BY DEF SendTune
<1>a. /\ h \in Handle /\ last' = h /\ h \in 0 .. MaxHandle
      /\ \A g : g \in 1 .. h <=> g \in 1 .. last \/ g = h
      /\ h \notin 1 .. last
      /\ \A g \in 1 .. last : g \in Handle
  BY DEF SendTune, ShapeInv, Handle
<1>b. /\ worker' \in [Worker -> Task \cup {None}]
      /\ worker'[w].pc = "exists" /\ worker'[w].handle = h
      /\ \A v \in Worker \ {w} : worker'[v] = worker[v]
  BY <1>a DEF SendTune, ShapeInv, Task, TaskPC
<1>c. /\ sender' \in [Handle -> [thread : Thread \cup {None}, dur : {"timed", "infinite"}]]
      /\ sender'[h].thread = t
      /\ \A g \in 1 .. last : sender'[g] = sender[g]
  BY <1>a DEF SendTune, ShapeInv
<1>d. /\ ThreadOf(w)' = t
      /\ \A v \in Worker \ {w} : worker[v] # None => ThreadOf(v)' = ThreadOf(v)
  BY <1>b, <1>c DEF ThreadOf, SentInv
<1> HIDE DEF h
<1>1. ShapeInv'
  <2>1. active' \subseteq 1 .. last'
    BY <1>a, <1>e DEF ShapeInv
  <2> QED BY <1>a, <1>b, <1>c, <1>e, <2>1 DEF ShapeInv
<1>2. SentInv'
  BY <1>a, <1>b, <1>c, <1>e DEF SentInv, ShapeInv, Handle
<1>3. ListInv'
  BY <1>a, <1>b, <1>c, <1>e DEF ListInv, ShapeInv
<1>4. DaemonInv'
  BY <1>a, <1>b, <1>c, <1>e DEF DaemonInv, ShapeInv
<1>5. LiveInv'
  BY <1>b, <1>d, <1>e DEF LiveInv, Registered, Past
<1>6. LiveClientsKept'
  BY <1>a, <1>b, <1>c, <1>e DEF LiveClientsKept, Owner, ShapeInv, SentInv, Handle
<1>7. OwnerInv'
  BY ZenonT(60), <1>a, <1>b, <1>c, <1>d, <1>e DEF OwnerInv, Owner, ShapeInv
<1>8. DataInv'
  BY <1>a, <1>b, <1>c, <1>e DEF DataInv, ShapeInv
<1>9. CondemnedInv'
  BY <1>a, <1>b, <1>c, <1>e DEF CondemnedInv, Condemned, Collected, ShapeInv
<1>10. ReachInv'
  BY <1>a, <1>b, <1>c, <1>e DEF ReachInv, EntriesReachable, Condemned, Collected, ShapeInv
<1>11. SurvivesOrderlyClients'
  BY <1>a, <1>b, <1>c, <1>e DEF SurvivesOrderlyClients
<1> QED BY <1>1, <1>2, <1>3, <1>4, <1>5, <1>6, <1>7, <1>8, <1>9, <1>10, <1>11 DEF ClientInv

\* A process exits.
LEMMA ExitInv ==
    ASSUME ClientInv, ~crashed, NEW p \in Process, Exit(p)
    PROVE  ClientInv'
<1> USE ClientAssumption DEF ClientInv, Exit, InFlight, clientSide, tables, server, daemons
<1>1. ShapeInv'
  BY DEF ShapeInv, Handle
<1>2. SentInv'
  BY DEF SentInv, ShapeInv, Handle
<1>3. ListInv'
  BY DEF ListInv, ShapeInv
<1>4. DaemonInv'
  BY DEF DaemonInv, ShapeInv
<1>5. LiveInv'
  BY DEF LiveInv, Registered, ThreadOf, ShapeInv, SentInv, Handle
<1>6. LiveClientsKept'
  BY DEF LiveClientsKept, Owner, ShapeInv, SentInv, Handle
<1>7. OwnerInv'
  BY DEF OwnerInv, Owner, ThreadOf, ShapeInv, SentInv, Handle
<1>8. DataInv'
  BY DEF DataInv, ShapeInv
<1>9. CondemnedInv'
  BY DEF CondemnedInv, Condemned, Collected, ShapeInv
<1>10. ReachInv'
  BY DEF ReachInv, EntriesReachable, Condemned, Collected, ShapeInv
<1>11. SurvivesOrderlyClients'
  BY DEF SurvivesOrderlyClients
<1> QED BY <1>1, <1>2, <1>3, <1>4, <1>5, <1>6, <1>7, <1>8, <1>9, <1>10, <1>11 DEF ClientInv

\* A worker goes on without touching tables, queue or daemons.
LEMMA MoveInv ==
    ASSUME ClientInv, NEW w \in Worker, worker[w] # None,
           worker' \in [Worker -> Task \cup {None}],
           \A v \in Worker \ {w} : worker'[v] = worker[v],
           worker'[w] # None =>
               /\ worker'[w].handle = worker[w].handle
               /\ worker'[w].pc \in Past /\ ProcessOf[ThreadOf(w)] \in alive =>
                     Registered(ThreadOf(w)),
           crashed' \in BOOLEAN, crashed' => "abrupt" \in mishaps,
           UNCHANGED <<clientSide, tables, server, daemons, mishaps>>
    PROVE  ClientInv'
<1> USE ClientAssumption DEF ClientInv, clientSide, tables, server, daemons
<1>0. /\ worker[w].handle \in Handle
      /\ \A v \in Worker : worker'[v] # None => ThreadOf(v)' = ThreadOf(v)
  BY WorkerTask DEF ThreadOf
<1>1. ShapeInv'
  BY <1>0 DEF ShapeInv, Handle
<1>2. SentInv'
  BY <1>0 DEF SentInv, ShapeInv, Handle
<1>3. ListInv'
  BY <1>0 DEF ListInv, ShapeInv
<1>4. DaemonInv'
  BY <1>0 DEF DaemonInv, ShapeInv
<1>5. LiveInv'
  <2>1. ASSUME NEW v \in Worker, worker'[v] # None, worker'[v].pc \in Past,
               ProcessOf[ThreadOf(v)'] \in alive'
        PROVE  Registered(ThreadOf(v))'
    <3>1. worker[v] # None /\ ThreadOf(v)' = ThreadOf(v)
      BY <1>0, <2>1
    <3>2. ThreadOf(v) \in Thread
      BY <3>1, WorkerTask
    <3>3. Registered(ThreadOf(v))
      BY <1>0, <2>1, <3>1, <3>2 DEF LiveInv
    <3> QED BY <3>1, <3>2, <3>3 DEF Registered
  <2> QED BY <2>1 DEF LiveInv
<1>6. LiveClientsKept'
  BY <1>0 DEF LiveClientsKept, Owner, ShapeInv, SentInv, Handle
<1>7. OwnerInv'
  BY <1>0 DEF OwnerInv, Owner, ShapeInv, SentInv, Handle
<1>8. DataInv'
  BY <1>0 DEF DataInv, ShapeInv
<1>9. CondemnedInv'
  BY <1>0 DEF CondemnedInv, Condemned, Collected, ShapeInv
<1>10. ReachInv'
  BY <1>0 DEF ReachInv, EntriesReachable, Condemned, Collected, ShapeInv
<1>11. SurvivesOrderlyClients'
  BY <1>0 DEF SurvivesOrderlyClients
<1> QED BY <1>1, <1>2, <1>3, <1>4, <1>5, <1>6, <1>7, <1>8, <1>9, <1>10, <1>11 DEF ClientInv

\* A worker looks for the client.
LEMMA ClientExistsInv ==
    ASSUME ClientInv, ~crashed, NEW w \in Worker, ClientExists(w)
    PROVE  ClientInv'
<1> USE DEF ClientInv
<1> DEFINE t == ThreadOf(w)
<1>1. /\ worker[w] # None /\ crashed' = FALSE
      /\ UNCHANGED <<clientSide, tables, server, daemons, mishaps>>
  BY DEF ClientExists, At, ShapeInv
<1>2. PICK pc \in {"limit", "create"} : Goto(w, pc) /\ (pc = "limit" => Known(t))
  BY DEF ClientExists
<1>3. /\ worker' \in [Worker -> Task \cup {None}]
      /\ worker'[w].pc = pc /\ worker'[w].handle = worker[w].handle
      /\ \A v \in Worker \ {w} : worker'[v] = worker[v]
  BY <1>1, <1>2, GotoMoves DEF TaskPC
<1>4. ASSUME pc \in Past, ProcessOf[t] \in alive PROVE Registered(t)
  <2>1. t \in Thread /\ ProcessOf[t] \in alive
    BY <1>1, <1>4, WorkerTask
  <2> QED BY <1>2, <1>4, <2>1 DEF Past, Known, LiveInv, Registered, ShapeInv
<1> QED BY <1>1, <1>3, <1>4, MoveInv

\* The rate limiter looks at the client.
LEMMA RateLimitInv ==
    ASSUME ClientInv, ~crashed, NEW w \in Worker, RateLimit(w)
    PROVE  ClientInv'
<1> USE DEF ClientInv
<1> DEFINE t == ThreadOf(w)
<1>1. /\ worker[w] # None /\ worker[w].pc = "limit"
      /\ crashed' \in BOOLEAN /\ (crashed' => entry[t] = "null")
      /\ UNCHANGED <<clientSide, tables, server, daemons, mishaps>>
      /\ Goto(w, "verify") \/ Drop(w)
  BY DEF RateLimit, At
<1>2. t \in Thread /\ Owner(worker[w].handle) = ProcessOf[t]
  BY <1>1, WorkerTask
<1>3. crashed' => "abrupt" \in mishaps
  BY <1>1, <1>2 DEF DataInv
<1>4. ProcessOf[t] \in alive => Registered(t)
  BY <1>1 DEF LiveInv, Past
<1>5. CASE Goto(w, "verify")
  <2>1. /\ worker' \in [Worker -> Task \cup {None}]
        /\ worker'[w].handle = worker[w].handle
        /\ \A v \in Worker \ {w} : worker'[v] = worker[v]
    BY <1>1, <1>5, GotoMoves DEF TaskPC
  <2> QED BY <1>1, <1>3, <1>4, <2>1, MoveInv
<1>6. CASE Drop(w)
  BY <1>1, <1>3, <1>6, DropMoves, MoveInv
<1> QED BY <1>1, <1>5, <1>6

\* The level of the process is looked up.
LEMMA VerifyInv ==
    ASSUME ClientInv, ~crashed, NEW w \in Worker, Verify(w)
    PROVE  ClientInv'
<1> USE DEF ClientInv
<1>1. /\ worker[w] # None /\ worker[w].pc = "verify" /\ crashed' = FALSE
      /\ UNCHANGED <<clientSide, tables, server, daemons, mishaps>>
      /\ Goto(w, "match") \/ Drop(w)
  BY DEF Verify, At, ShapeInv
<1>4. ProcessOf[ThreadOf(w)] \in alive => Registered(ThreadOf(w))
  BY <1>1 DEF LiveInv, Past
<1>5. CASE Goto(w, "match")
  <2>1. /\ worker' \in [Worker -> Task \cup {None}]
        /\ worker'[w].handle = worker[w].handle
        /\ \A v \in Worker \ {w} : worker'[v] = worker[v]
    BY <1>1, <1>5, GotoMoves DEF TaskPC
  <2> QED BY <1>1, <1>4, <2>1, MoveInv
<1>6. CASE Drop(w)
  BY <1>1, <1>6, DropMoves, MoveInv
<1> QED BY <1>1, <1>5, <1>6

\* operator[] on the thread table.
LEMMA TouchFacts ==
    ASSUME NEW u \in Thread, entry \in [Thread -> {"absent", "null", "present"}], Touch(u)
    PROVE  /\ entry' \in [Thread -> {"absent", "null", "present"}]
           /\ \A v \in Thread : entry'[v] \in {entry[v], IF v = u THEN "null" ELSE entry[v]}
           /\ \A v \in Thread : entry'[v] = "present" <=> entry[v] = "present"
           /\ \A v \in Thread : v # u => entry'[v] = entry[v]
BY DEF Touch

\* requestMatch looks the handles up.
LEMMA MatchInv ==
    ASSUME ClientInv, ~crashed, NEW w \in Worker, Match(w)
    PROVE  ClientInv'
<1> USE ClientAssumption DEF ClientInv, clientSide, tables, server, daemons
<1>0. /\ At(w, "match") /\ Touch(ThreadOf(w)) /\ Goto(w, "add")
      /\ UNCHANGED <<clientSide, repo, handles, server, daemons, crashed, mishaps>>
  BY DEF Match
<1> DEFINE t == ThreadOf(w)
           h == worker[w].handle
<1>a. worker[w] # None /\ worker[w].pc = "match"
  BY <1>0 DEF At
<1>b. /\ h \in Handle /\ h \in 1 .. last /\ t \in Thread /\ ProcessOf[t] \in Process
      /\ t = sender[h].thread /\ Owner(h) = ProcessOf[t]
  BY <1>a, WorkerTask
<1>c. ProcessOf[t] \in alive => Registered(t)
  BY <1>a, <1>b DEF LiveInv, Past
<1>d. /\ worker' \in [Worker -> Task \cup {None}]
      /\ worker'[w].pc = "add" /\ worker'[w].handle = h
      /\ \A v \in Worker \ {w} : worker'[v] = worker[v]
      /\ \A v \in Worker : worker'[v] # None => ThreadOf(v)' = ThreadOf(v)
  BY <1>a, <1>0, GotoMoves DEF TaskPC
<1>e. /\ entry' \in [Thread -> {"absent", "null", "present"}]
      /\ \A u \in Thread : entry'[u] \in {entry[u], IF u = t THEN "null" ELSE entry[u]}
      /\ \A u \in Thread : entry'[u] = "present" <=> entry[u] = "present"
      /\ \A u \in Thread : ProcessOf[u] \in alive => entry'[u] = entry[u]
      /\ "abrupt" \notin mishaps => entry' = entry
  <2>1. ASSUME ProcessOf[t] \in alive PROVE entry' = entry
    BY <1>0, <1>b, <1>c, <2>1 DEF ShapeInv, Registered, Touch
  <2>2. "abrupt" \notin mishaps => ProcessOf[t] \in alive
    BY <1>a, <1>b DEF OwnerInv
  <2>3. entry \in [Thread -> {"absent", "null", "present"}] /\ Touch(t)
    BY <1>0 DEF ShapeInv
  <2> HIDE DEF t
  <2>4. /\ entry' \in [Thread -> {"absent", "null", "present"}]
        /\ \A u \in Thread : entry'[u] \in {entry[u], IF u = t THEN "null" ELSE entry[u]}
        /\ \A u \in Thread : entry'[u] = "present" <=> entry[u] = "present"
        /\ \A u \in Thread : u # t => entry'[u] = entry[u]
    BY <1>b, <2>3, TouchFacts
  <2>5. \A u \in Thread : ProcessOf[u] \in alive => entry'[u] = entry[u]
    BY <2>1, <2>4
  <2> QED BY <2>1, <2>2, <2>4, <2>5
<1> HIDE DEF t, h
<1>1. ShapeInv'
  BY <1>0, <1>a, <1>b, <1>c, <1>d, <1>e DEF ShapeInv, Handle
<1>2. SentInv'
  BY ZenonT(60), <1>0, <1>a, <1>b, <1>c, <1>d, <1>e DEF SentInv, ShapeInv, Handle
<1>3. ListInv'
  BY <1>0, <1>a, <1>b, <1>c, <1>d, <1>e DEF ListInv, ShapeInv
<1>4. DaemonInv'
  BY <1>0, <1>a, <1>b, <1>c, <1>d, <1>e DEF DaemonInv, ShapeInv
<1>5. LiveInv'
  <2>1. ASSUME NEW v \in Worker, worker'[v] # None, worker'[v].pc \in Past,
               ProcessOf[ThreadOf(v)'] \in alive'
        PROVE  Registered(ThreadOf(v))'
    <3>1. worker[v] # None /\ ThreadOf(v)' = ThreadOf(v)
      BY <1>a, <1>d, <2>1
    <3>2. ThreadOf(v) \in Thread
      BY <3>1, WorkerTask
    <3>3. Registered(ThreadOf(v))
      BY <1>0, <1>a, <1>c, <1>d, <2>1, <3>1, <3>2 DEF LiveInv, t
    <3> QED BY <1>0, <1>e, <3>1, <3>2, <3>3 DEF Registered
  <2> QED BY <1>0, <1>e, <2>1 DEF LiveInv
<1>6. LiveClientsKept'
  BY <1>0, <1>a, <1>b, <1>c, <1>d, <1>e DEF LiveClientsKept, Owner, ShapeInv, SentInv, Handle
<1>7. OwnerInv'
  BY <1>0, <1>a, <1>b, <1>c, <1>d, <1>e DEF OwnerInv, Owner, ShapeInv, Handle
<1>8. DataInv'
  BY <1>0, <1>a, <1>b, <1>c, <1>d, <1>e DEF DataInv, ShapeInv
<1>9. CondemnedInv'
  BY <1>0, <1>a, <1>b, <1>c, <1>d, <1>e DEF CondemnedInv, Condemned, Collected, ShapeInv
<1>10. ReachInv'
  BY <1>0, <1>a, <1>b, <1>c, <1>d, <1>e
     DEF ReachInv, EntriesReachable, Condemned, Collected, ShapeInv
<1>11. SurvivesOrderlyClients'
  BY <1>0, <1>a, <1>b, <1>c, <1>d, <1>e DEF SurvivesOrderlyClients
<1> QED BY <1>1, <1>2, <1>3, <1>4, <1>5, <1>6, <1>7, <1>8, <1>9, <1>10, <1>11 DEF ClientInv

\* The request becomes active.
LEMMA AddRequestInv ==
    ASSUME ClientInv, ~crashed, NEW w \in Worker, AddRequest(w)
    PROVE  ClientInv'
<1> USE ClientAssumption DEF ClientInv, clientSide, tables, server, daemons
<1>0. /\ At(w, "add") /\ Touch(ThreadOf(w)) /\ Goto(w, "enqueue")
      /\ active' = active \cup {worker[w].handle}
      /\ UNCHANGED <<clientSide, repo, completed, queue, draining, daemons, crashed, mishaps>>
  BY DEF AddRequest
<1> DEFINE t == ThreadOf(w)
           h == worker[w].handle
<1>a. worker[w] # None /\ worker[w].pc = "add"
  BY <1>0 DEF At
<1>b. /\ h \in Handle /\ h \in 1 .. last /\ t \in Thread /\ ProcessOf[t] \in Process
      /\ t = sender[h].thread /\ Owner(h) = ProcessOf[t]
  BY <1>a, WorkerTask
<1>c. ProcessOf[t] \in alive => Registered(t)
  BY <1>a, <1>b DEF LiveInv, Past
<1>d. /\ worker' \in [Worker -> Task \cup {None}]
      /\ worker'[w].pc = "enqueue" /\ worker'[w].handle = h
      /\ \A v \in Worker \ {w} : worker'[v] = worker[v]
      /\ \A v \in Worker : worker'[v] # None => ThreadOf(v)' = ThreadOf(v)
  BY <1>a, <1>0, GotoMoves DEF TaskPC
<1>e. /\ entry' \in [Thread -> {"absent", "null", "present"}]
      /\ \A u \in Thread : entry'[u] \in {entry[u], IF u = t THEN "null" ELSE entry[u]}
      /\ \A u \in Thread : entry'[u] = "present" <=> entry[u] = "present"
      /\ \A u \in Thread : ProcessOf[u] \in alive => entry'[u] = entry[u]
      /\ "abrupt" \notin mishaps => entry' = entry
  <2>1. ASSUME ProcessOf[t] \in alive PROVE entry' = entry
    BY <1>0, <1>b, <1>c, <2>1 DEF ShapeInv, Registered, Touch
  <2>2. "abrupt" \notin mishaps => ProcessOf[t] \in alive
    BY <1>a, <1>b DEF OwnerInv
  <2>3. entry \in [Thread -> {"absent", "null", "present"}] /\ Touch(t)
    BY <1>0 DEF ShapeInv
  <2> HIDE DEF t
  <2>4. /\ entry' \in [Thread -> {"absent", "null", "present"}]
        /\ \A u \in Thread : entry'[u] \in {entry[u], IF u = t THEN "null" ELSE entry[u]}
        /\ \A u \in Thread : entry'[u] = "present" <=> entry[u] = "present"
        /\ \A u \in Thread : u # t => entry'[u] = entry[u]
    BY <1>b, <2>3, TouchFacts
  <2>5. \A u \in Thread : ProcessOf[u] \in alive => entry'[u] = entry[u]
    BY <2>1, <2>4
  <2> QED BY <2>1, <2>2, <2>4, <2>5
<1>f. /\ handles' \in [Thread -> SUBSET Handle]
      /\ \A u \in Thread : handles[u] \subseteq handles'[u]
      /\ entry[t] = "present" => h \in handles'[t]
  <2>1. handles' = IF entry[t] = "present" THEN [handles EXCEPT ![t] = @ \cup {h}] ELSE handles
    BY DEF AddRequest
  <2>2. handles \in [Thread -> SUBSET Handle]
    BY DEF ShapeInv
  <2> HIDE DEF t, h
  <2> QED BY <1>b, <2>1, <2>2
<1> HIDE DEF t, h
<1>1. ShapeInv'
  <2>1. active' \subseteq 1 .. last'
    BY <1>0, <1>b DEF ShapeInv, h
  <2> QED BY <1>0, <1>d, <1>e, <1>f, <2>1 DEF ShapeInv
<1>2. SentInv'
  BY ZenonT(60), <1>0, <1>a, <1>b, <1>c, <1>d, <1>e, <1>f DEF SentInv, ShapeInv, Handle
<1>3. ListInv'
  BY <1>0, <1>a, <1>b, <1>c, <1>d, <1>e, <1>f DEF ListInv, ShapeInv
<1>4. DaemonInv'
  BY <1>0, <1>a, <1>b, <1>c, <1>d, <1>e, <1>f DEF DaemonInv, ShapeInv
<1>5. LiveInv'
  <2>1. ASSUME NEW v \in Worker, worker'[v] # None, worker'[v].pc \in Past,
               ProcessOf[ThreadOf(v)'] \in alive'
        PROVE  Registered(ThreadOf(v))'
    <3>1. worker[v] # None /\ ThreadOf(v)' = ThreadOf(v)
      BY <1>a, <1>d, <2>1
    <3>2. ThreadOf(v) \in Thread
      BY <3>1, WorkerTask
    <3>3. Registered(ThreadOf(v))
      BY <1>0, <1>a, <1>c, <1>d, <2>1, <3>1, <3>2 DEF LiveInv, t
    <3> QED BY <1>0, <1>e, <3>1, <3>2, <3>3 DEF Registered
  <2> QED BY <1>0, <1>e, <2>1 DEF LiveInv
<1>6. LiveClientsKept'
  <2>1. ASSUME NEW g \in active', ProcessOf[sender[g].thread] \in alive
        PROVE  /\ entry'[sender[g].thread] = "present"
               /\ g \in handles'[sender[g].thread]
               /\ repo[ProcessOf[sender[g].thread]].level # "none"
    <3>1. CASE g = h
      BY <1>b, <1>c, <1>e, <1>f, <2>1, <3>1 DEF Registered
    <3>2. CASE g \in active
      <4>1. sender[g].thread \in Thread
        BY <3>2, ActiveSender
      <4> QED BY <1>e, <1>f, <2>1, <3>2, <4>1 DEF LiveClientsKept, Owner
    <3> QED BY <1>0, <2>1, <3>1, <3>2 DEF h
  <2> QED BY <1>0, <2>1 DEF LiveClientsKept, Owner
<1>7. OwnerInv'
  BY <1>0, <1>a, <1>b, <1>c, <1>d, <1>e DEF OwnerInv, Owner, ShapeInv, Handle
<1>8. DataInv'
  BY <1>0, <1>a, <1>b, <1>c, <1>d, <1>e, <1>f DEF DataInv, ShapeInv
<1>9. CondemnedInv'
  BY <1>0, <1>a, <1>b, <1>c, <1>d, <1>e, <1>f DEF CondemnedInv, Condemned, Collected, ShapeInv
<1>10. ReachInv'
  BY <1>0, <1>a, <1>b, <1>c, <1>d, <1>e, <1>f
     DEF ReachInv, EntriesReachable, Condemned, Collected, ShapeInv
<1>11. SurvivesOrderlyClients'
  BY <1>0, <1>a, <1>b, <1>c, <1>d, <1>e, <1>f DEF SurvivesOrderlyClients
<1> QED BY <1>1, <1>2, <1>3, <1>4, <1>5, <1>6, <1>7, <1>8, <1>9, <1>10, <1>11 DEF ClientInv

\* The request is enqueued.
LEMMA EnqueueInv ==
    ASSUME ClientInv, ~crashed, NEW w \in Worker, Enqueue(w)
    PROVE  ClientInv'
<1> USE ClientAssumption DEF ClientInv, Enqueue, At, clientSide, tables, server, daemons
<1> DEFINE h == worker[w].handle
<1>b. h \in Handle /\ h \in 1 .. last /\ ("abrupt" \notin mishaps => Owner(h) \in alive)
  BY WorkerTask DEF OwnerInv
<1>d. /\ worker' \in [Worker -> Task \cup {None}]
      /\ worker'[w] = None
      /\ \A v \in Worker \ {w} : worker'[v] = worker[v]
      /\ \A v \in Worker : worker'[v] # None => ThreadOf(v)' = ThreadOf(v)
  BY DropMoves
<1>e. /\ queue' \subseteq {Tune(g) : g \in Handle} \cup {Untune(g) : g \in Handle}
      /\ \A g \in Handle : Tune(g) \in queue' => Tune(g) \in queue \/ g = h
  BY <1>b DEF ShapeInv, Tune
<1> HIDE DEF h
<1>1. ShapeInv'
  BY <1>b, <1>d, <1>e DEF ShapeInv, Handle
<1>2. SentInv'
  BY <1>b, <1>d, <1>e DEF SentInv, ShapeInv, Handle
<1>3. ListInv'
  BY <1>b, <1>d, <1>e DEF ListInv, ShapeInv
<1>4. DaemonInv'
  BY <1>b, <1>d, <1>e DEF DaemonInv, ShapeInv
<1>5. LiveInv'
  <2>1. ASSUME NEW v \in Worker, worker'[v] # None, worker'[v].pc \in Past,
               ProcessOf[ThreadOf(v)'] \in alive'
        PROVE  Registered(ThreadOf(v))'
    <3>1. worker[v] # None /\ ThreadOf(v)' = ThreadOf(v)
      BY <1>d, <2>1
    <3>2. ThreadOf(v) \in Thread
      BY <3>1, WorkerTask
    <3>3. Registered(ThreadOf(v))
      BY <1>d, <2>1, <3>1, <3>2 DEF LiveInv
    <3> QED BY <3>1, <3>2, <3>3 DEF Registered
  <2> QED BY <2>1 DEF LiveInv
<1>6. LiveClientsKept'
  BY <1>b, <1>d, <1>e DEF LiveClientsKept, Owner, ShapeInv, SentInv, Handle
<1>7. OwnerInv'
  BY <1>b, <1>d, <1>e DEF OwnerInv, Owner, ShapeInv, Handle
<1>8. DataInv'
  BY <1>b, <1>d, <1>e DEF DataInv, ShapeInv
<1>9. CondemnedInv'
  BY <1>b, <1>d, <1>e DEF CondemnedInv, Condemned, Collected, ShapeInv
<1>10. ReachInv'
  BY <1>b, <1>d, <1>e DEF ReachInv, EntriesReachable, Condemned, Collected, ShapeInv
<1>11. SurvivesOrderlyClients'
  BY <1>b, <1>d, <1>e DEF SurvivesOrderlyClients
<1> QED BY <1>1, <1>2, <1>3, <1>4, <1>5, <1>6, <1>7, <1>8, <1>9, <1>10, <1>11 DEF ClientInv

\* The consumer takes a tune request.
LEMMA ServeTuneInv ==
    ASSUME ClientInv, ~crashed, NEW h \in Handle, ServeTune(h)
    PROVE  ClientInv'
<1> USE ClientAssumption DEF ClientInv, ServeTune, Take, clientSide, tables, server, daemons
<1>1. ShapeInv'
  BY DEF ShapeInv, Handle
<1>2. SentInv'
  BY DEF SentInv, ShapeInv, Handle
<1>3. ListInv'
  BY DEF ListInv, ShapeInv
<1>4. DaemonInv'
  BY DEF DaemonInv, ShapeInv
<1>5. LiveInv'
  BY DEF LiveInv, Registered, ThreadOf, ShapeInv, SentInv, Handle
<1>6. LiveClientsKept'
  BY DEF LiveClientsKept, Owner, ShapeInv, SentInv, Handle
<1>7. OwnerInv'
  BY DEF OwnerInv, Owner, ThreadOf, ShapeInv, SentInv, Handle
<1>8. DataInv'
  BY DEF DataInv, ShapeInv
<1>9. CondemnedInv'
  BY DEF CondemnedInv, Condemned, Collected, ShapeInv
<1>10. ReachInv'
  BY DEF ReachInv, EntriesReachable, Condemned, Collected, ShapeInv
<1>11. SurvivesOrderlyClients'
  BY DEF SurvivesOrderlyClients
<1> QED BY <1>1, <1>2, <1>3, <1>4, <1>5, <1>6, <1>7, <1>8, <1>9, <1>10, <1>11 DEF ClientInv

\* The consumer drops an untune.
LEMMA DropUntuneInv ==
    ASSUME ClientInv, ~crashed, NEW h \in Handle, DropUntune(h)
    PROVE  ClientInv'
<1> USE ClientAssumption DEF ClientInv, DropUntune, Take, clientSide, tables, server, daemons
<1>1. ShapeInv'
  BY DEF ShapeInv, Handle
<1>2. SentInv'
  BY DEF SentInv, ShapeInv, Handle
<1>3. ListInv'
  BY DEF ListInv, ShapeInv
<1>4. DaemonInv'
  BY DEF DaemonInv, ShapeInv
<1>5. LiveInv'
  BY DEF LiveInv, Registered, ThreadOf, ShapeInv, SentInv, Handle
<1>6. LiveClientsKept'
  BY DEF LiveClientsKept, Owner, ShapeInv, SentInv, Handle
<1>7. OwnerInv'
  BY DEF OwnerInv, Owner, ThreadOf, ShapeInv, SentInv, Handle
<1>8. DataInv'
  BY DEF DataInv, ShapeInv
<1>9. CondemnedInv'
  BY DEF CondemnedInv, Condemned, Collected, ShapeInv
<1>10. ReachInv'
  BY DEF ReachInv, EntriesReachable, Condemned, Collected, ShapeInv
<1>11. SurvivesOrderlyClients'
  BY DEF SurvivesOrderlyClients
<1> QED BY <1>1, <1>2, <1>3, <1>4, <1>5, <1>6, <1>7, <1>8, <1>9, <1>10, <1>11 DEF ClientInv

\* The consumer removes a request.
LEMMA ServeUntuneInv ==
    ASSUME ClientInv, ~crashed, NEW h \in Handle, ServeUntune(h)
    PROVE  ClientInv'
<1> USE ClientAssumption DEF ClientInv, ServeUntune, Take, clientSide, tables, server, daemons
<1>a. sender[h].thread \in Thread
  BY DEF ShapeInv, SentInv
<1>b. crashed' => "abrupt" \in mishaps
  BY <1>a DEF DataInv
<1>1. ShapeInv'
  BY <1>a, <1>b DEF ShapeInv, Handle
<1>2. SentInv'
  BY <1>a, <1>b DEF SentInv, ShapeInv, Handle
<1>3. ListInv'
  BY <1>a, <1>b DEF ListInv, ShapeInv
<1>4. DaemonInv'
  BY <1>a, <1>b DEF DaemonInv, ShapeInv
<1>5. LiveInv'
  BY <1>a, <1>b DEF LiveInv, Registered, ThreadOf, ShapeInv, SentInv, Handle
<1>6. LiveClientsKept'
  BY <1>a, <1>b DEF LiveClientsKept, Owner, ShapeInv, SentInv, Handle
<1>7. OwnerInv'
  BY <1>a, <1>b DEF OwnerInv, Owner, ThreadOf, ShapeInv, SentInv, Handle
<1>8. DataInv'
  BY <1>a, <1>b DEF DataInv, ShapeInv
<1>9. CondemnedInv'
  BY <1>a, <1>b DEF CondemnedInv, Condemned, Collected, ShapeInv
<1>10. ReachInv'
  BY <1>a, <1>b DEF ReachInv, EntriesReachable, Condemned, Collected, ShapeInv
<1>11. SurvivesOrderlyClients'
  BY <1>a, <1>b DEF SurvivesOrderlyClients
<1> QED BY <1>1, <1>2, <1>3, <1>4, <1>5, <1>6, <1>7, <1>8, <1>9, <1>10, <1>11 DEF ClientInv

\* The timer of a request expires.
LEMMA ExpireInv ==
    ASSUME ClientInv, ~crashed, NEW h \in Handle, Expire(h)
    PROVE  ClientInv'
<1> USE ClientAssumption DEF ClientInv, Expire, clientSide, tables, server, daemons
<1>a. /\ queue' \subseteq {Tune(g) : g \in Handle} \cup {Untune(g) : g \in Handle}
      /\ \A g \in Handle : Tune(g) \in queue' => Tune(g) \in queue
  BY DEF ShapeInv, Tune, Untune
<1>1. ShapeInv'
  BY <1>a DEF ShapeInv, Handle
<1>2. SentInv'
  BY <1>a DEF SentInv, ShapeInv, Handle
<1>3. ListInv'
  BY <1>a DEF ListInv, ShapeInv
<1>4. DaemonInv'
  BY <1>a DEF DaemonInv, ShapeInv
<1>5. LiveInv'
  BY <1>a DEF LiveInv, Registered, ThreadOf, ShapeInv, SentInv, Handle
<1>6. LiveClientsKept'
  BY <1>a DEF LiveClientsKept, Owner, ShapeInv, SentInv, Handle
<1>7. OwnerInv'
  BY <1>a DEF OwnerInv, Owner, ThreadOf, ShapeInv, SentInv, Handle
<1>8. DataInv'
  BY <1>a DEF DataInv, ShapeInv
<1>9. CondemnedInv'
  BY <1>a DEF CondemnedInv, Condemned, Collected, ShapeInv
<1>10. ReachInv'
  BY <1>a DEF ReachInv, EntriesReachable, Condemned, Collected, ShapeInv
<1>11. SurvivesOrderlyClients'
  BY <1>a DEF SurvivesOrderlyClients
<1> QED BY <1>1, <1>2, <1>3, <1>4, <1>5, <1>6, <1>7, <1>8, <1>9, <1>10, <1>11 DEF ClientInv

\* The pulse monitor begins or passes over a living process.
LEMMA PulseWalkInv ==
    ASSUME ClientInv, ~crashed, PulseStart \/ \E p \in Process : SkipLive(p)
    PROVE  ClientInv'
<1> USE ClientAssumption DEF ClientInv
<1>a. /\ UNCHANGED <<clientSide, worker, tables, server, gcQueue, gc, crashed, mishaps>>
      /\ pulse' \in [todo : SUBSET Process, victim : Process \cup {None}]
      /\ pulse'.victim = pulse.victim
  <2>1. CASE PulseStart
    BY <2>1 DEF PulseStart
  <2>2. ASSUME NEW p \in Process, SkipLive(p) 
         PROVE  /\ UNCHANGED <<clientSide, worker, tables, server, gcQueue, gc, crashed, mishaps>>
                /\ pulse' \in [todo : SUBSET Process, victim : Process \cup {None}]
                /\ pulse'.victim = pulse.victim
    BY <2>2 DEF SkipLive, ShapeInv
  <2> QED BY <2>1, <2>2
<1> USE DEF clientSide, tables, server
<1>1. ShapeInv'
  BY <1>a DEF ShapeInv, Handle
<1>2. SentInv'
  BY <1>a DEF SentInv, ShapeInv, Handle
<1>3. ListInv'
  BY <1>a DEF ListInv, ShapeInv
<1>4. DaemonInv'
  BY <1>a DEF DaemonInv, ShapeInv
<1>5. LiveInv'
  BY <1>a DEF LiveInv, Registered, ThreadOf, ShapeInv, SentInv, Handle
<1>6. LiveClientsKept'
  BY <1>a DEF LiveClientsKept, Owner, ShapeInv, SentInv, Handle
<1>7. OwnerInv'
  BY <1>a DEF OwnerInv, Owner, ThreadOf, ShapeInv, SentInv, Handle
<1>8. DataInv'
  BY <1>a DEF DataInv, ShapeInv
<1>9. CondemnedInv'
  BY <1>a DEF CondemnedInv, Condemned, Collected, ShapeInv
<1>10. ReachInv'
  BY <1>a DEF ReachInv, EntriesReachable, Condemned, Collected, ShapeInv
<1>11. SurvivesOrderlyClients'
  BY <1>a DEF SurvivesOrderlyClients
<1> QED BY <1>1, <1>2, <1>3, <1>4, <1>5, <1>6, <1>7, <1>8, <1>9, <1>10, <1>11 DEF ClientInv

\* The threads of a dead process are queued.
LEMMA SubmitDeadInv ==
    ASSUME ClientInv, ~crashed, NEW p \in Process, SubmitDead(p)
    PROVE  ClientInv'
<1> USE ClientAssumption DEF ClientInv, clientSide, tables, server
<1> DEFINE ts == repo[p].threads
<1>a. /\ UNCHANGED <<clientSide, worker, tables, server, gc, crashed, mishaps>>
      /\ gc.pc = "idle" /\ p \notin alive /\ gcQueue' = gcQueue \o ts
      /\ pulse.victim = None
      /\ pulse' \in [todo : SUBSET Process, victim : Process \cup {None}] /\ pulse'.victim = p
  BY DEF SubmitDead, ShapeInv
<1>b. ts \in Seq(Thread) /\ gcQueue \in Seq(Thread) /\ gcQueue' \in Seq(Thread)
  BY <1>a, ConcatProperties DEF ShapeInv
<1>c. ToSet(gcQueue') = ToSet(gcQueue) \cup ToSet(ts) /\ ToSet(gcQueue) \subseteq Thread
  BY <1>a, <1>b, SetOfConcat, SetOfSeq
<1>d. \A t \in ToSet(ts) : t \in Thread /\ ProcessOf[t] = p
  BY <1>b, SetOfSeq DEF ListInv
<1>e. "abrupt" \notin mishaps => ToSet(gcQueue) \cap ToSet(ts) = {}
  <2> SUFFICES ASSUME "abrupt" \notin mishaps, NEW t \in ToSet(gcQueue), t \in ToSet(ts)
               PROVE  FALSE
    OBVIOUS
  <2>1. repo[p].level = "none"
    BY <1>a, <1>c, <1>d DEF CondemnedInv, Condemned
  <2> QED BY <2>1, SetOfSmall DEF ListInv
<1>f. "abrupt" \notin mishaps => IsInjective(gcQueue')
  BY <1>a, <1>b, <1>e, SetOfConcat DEF CondemnedInv, DataInv
<1>g. \A t \in ToSet(ts) : "abrupt" \notin mishaps => entry[t] = "present"
  BY <1>a DEF DataInv
<1>h. \A t \in Thread : ~Collected(t) /\ ~Collected(t)'
  BY <1>a DEF Collected
<1> HIDE DEF ts
<1>1. ShapeInv'
  BY <1>a, <1>b, <1>c, <1>d DEF ShapeInv, Handle
<1>2. SentInv'
  BY <1>a, <1>b, <1>c, <1>d DEF SentInv, ShapeInv, Handle
<1>3. ListInv'
  BY <1>a, <1>b, <1>c, <1>d DEF ListInv, ShapeInv
<1>4. DaemonInv'
  BY <1>a, <1>b, <1>c, <1>d DEF DaemonInv, ShapeInv
<1>5. LiveInv'
  BY <1>a, <1>b, <1>c, <1>d DEF LiveInv, Registered, ThreadOf, ShapeInv, SentInv, Handle
<1>6. LiveClientsKept'
  BY <1>a, <1>b, <1>c, <1>d DEF LiveClientsKept, Owner, ShapeInv, SentInv, Handle
<1>7. OwnerInv'
  BY <1>a, <1>b, <1>c, <1>d DEF OwnerInv, Owner, ThreadOf, ShapeInv, SentInv, Handle
<1>8. DataInv'
  BY ZenonT(60), <1>a, <1>b, <1>c, <1>d DEF DataInv, ShapeInv
<1>9. CondemnedInv'
  BY <1>a, <1>b, <1>c, <1>d, <1>f, <1>g, <1>h DEF CondemnedInv, Condemned
<1>10. ReachInv'
  BY <1>a, <1>c, <1>h DEF ReachInv, EntriesReachable, Condemned, ts
<1>11. SurvivesOrderlyClients'
  BY <1>a, <1>b, <1>c, <1>d DEF SurvivesOrderlyClients
<1> QED BY <1>1, <1>2, <1>3, <1>4, <1>5, <1>6, <1>7, <1>8, <1>9, <1>10, <1>11 DEF ClientInv

\* The entry of a dead process is deleted.
LEMMA DeleteClientPIDInv ==
    ASSUME ClientInv, ~crashed, DeleteClientPID
    PROVE  ClientInv'
<1> USE ClientAssumption DEF ClientInv, clientSide, server, Level
<1> DEFINE v == pulse.victim
<1>a. /\ UNCHANGED <<clientSide, worker, entry, handles, server, gcQueue, gc, crashed, mishaps>>
      /\ v \in Process /\ v \notin alive
      /\ pulse' \in [todo : SUBSET Process, victim : Process \cup {None}] /\ pulse'.victim = None
  BY DEF DeleteClientPID, ShapeInv, DaemonInv
<1>b. /\ repo' \in [Process -> [threads : Seq(Thread), level : Level]]
      /\ repo'[v].threads = <<>> /\ repo'[v].level = "none"
      /\ \A p \in Process \ {v} : repo'[p] = repo[p]
  BY <1>a DEF DeleteClientPID, NoClient, ShapeInv
<1>c. Len(<<>>) = 0
  OBVIOUS
<1> HIDE DEF v
<1>1. ShapeInv'
  BY <1>a, <1>b, <1>c, SetOfSmall DEF ShapeInv, Handle
<1>2. SentInv'
  BY <1>a, <1>b, <1>c, SetOfSmall DEF SentInv, ShapeInv, Handle
<1>3. ListInv'
  <2>1. ASSUME NEW p \in Process
        PROVE  /\ Len(repo'[p].threads) <= ThreadCap
               /\ \A t \in ToSet(repo'[p].threads) : ProcessOf[t] = p
               /\ repo'[p].level = "none" => repo'[p].threads = <<>>
    <3>1. CASE p = v
      BY <1>b, <1>c, <3>1, SetOfSmall
    <3>2. CASE p # v
      BY <1>b, <3>2 DEF ListInv
    <3> QED BY <3>1, <3>2
  <2> QED BY <2>1 DEF ListInv
<1>4. DaemonInv'
  BY <1>a, <1>b, <1>c, SetOfSmall DEF DaemonInv, ShapeInv
<1>5. LiveInv'
  <2>1. ASSUME NEW x \in Worker, worker'[x] # None, worker'[x].pc \in Past,
               ProcessOf[ThreadOf(x)'] \in alive'
        PROVE  Registered(ThreadOf(x))'
    <3>1. worker[x] # None /\ ThreadOf(x)' = ThreadOf(x)
      BY <1>a, <2>1 DEF ThreadOf
    <3>2. ThreadOf(x) \in Thread /\ ProcessOf[ThreadOf(x)] \in Process
      BY <3>1, WorkerTask
    <3>3. Registered(ThreadOf(x))
      BY <1>a, <2>1, <3>1, <3>2 DEF LiveInv
    <3> QED BY SMTT(30), <1>a, <1>b, <2>1, <3>1, <3>2, <3>3 DEF Registered
  <2> QED BY <1>a, <1>b, <2>1 DEF LiveInv
<1>6. LiveClientsKept'
  <2>1. ASSUME NEW g \in active, Owner(g) \in alive
        PROVE  /\ entry'[sender[g].thread] = "present"
               /\ g \in handles'[sender[g].thread]
               /\ repo'[Owner(g)].level # "none"
    BY <1>a, <1>b, <2>1, ActiveSender DEF LiveClientsKept
  <2> QED BY <1>a, <2>1 DEF LiveClientsKept, Owner
<1>7. OwnerInv'
  BY <1>a, <1>b, <1>c, SetOfSmall DEF OwnerInv, Owner, ThreadOf, ShapeInv, SentInv, Handle
<1>8. DataInv'
  <2>1. ASSUME NEW p \in Process, "abrupt" \notin mishaps
        PROVE  IsInjective(repo'[p].threads) /\ \A t \in ToSet(repo'[p].threads) : entry[t] = "present"
    <3>1. CASE p = v
      BY <1>b, <3>1, SetOfSmall
    <3>2. CASE p # v
      BY <1>b, <2>1, <3>2 DEF DataInv, v
    <3> QED BY <3>1, <3>2
  <2> QED BY <1>a, <2>1 DEF DataInv
<1>9. CondemnedInv'
  BY <1>a, <1>b DEF CondemnedInv, Condemned, Collected, v
<1>10. ReachInv'
  BY <1>a, <1>b DEF ReachInv, EntriesReachable, Condemned, Collected, v
<1>11. SurvivesOrderlyClients'
  BY <1>a, <1>b, <1>c, SetOfSmall DEF SurvivesOrderlyClients
<1> QED BY <1>1, <1>2, <1>3, <1>4, <1>5, <1>6, <1>7, <1>8, <1>9, <1>10, <1>11 DEF ClientInv

\* The collector takes a thread from its queue.
LEMMA GcCopyInv ==
    ASSUME ClientInv, ~crashed, GcCopy
    PROVE  ClientInv'
<1> USE ClientAssumption DEF ClientInv, clientSide, server
<1> DEFINE t == Head(gcQueue)
<1>a. /\ UNCHANGED <<clientSide, worker, repo, handles, server, pulse, mishaps>>
      /\ gc.pc = "loop" /\ gc.count < BatchSize /\ gcQueue' = Tail(gcQueue)
      /\ gcQueue # <<>> /\ gcQueue \in Seq(Thread)
      /\ crashed' \in BOOLEAN /\ (crashed' => entry[t] # "present")
      /\ Touch(t)
  BY DEF GcCopy, GcMore, ShapeInv
<1>b. /\ t \in Thread /\ gcQueue' \in Seq(Thread) /\ ToSet(gcQueue) \subseteq Thread
      /\ ToSet(gcQueue) = {t} \cup ToSet(gcQueue')
      /\ IsInjective(gcQueue) => IsInjective(gcQueue') /\ t \notin ToSet(gcQueue')
  BY <1>a, SetOfTail, SetOfSeq
<1>c. /\ gc' \in [pc : {"idle", "loop", "delete", "untune"}, count : 0 .. BatchSize,
                  thread : Thread \cup {None}, todo : SUBSET Handle]
      /\ gc'.pc = "delete" /\ gc'.thread = t /\ gc'.count = gc.count
  BY <1>b DEF GcCopy, ShapeInv
<1>d. /\ entry' \in [Thread -> {"absent", "null", "present"}]
      /\ \A u \in Thread : entry'[u] = "present" <=> entry[u] = "present"
      /\ \A u \in Thread \ {t} : entry'[u] = entry[u]
      /\ entry[t] = "present" => entry' = entry
  BY <1>a, <1>b DEF Touch, ShapeInv
<1>e. ProcessOf[t] \notin alive /\ ("abrupt" \notin mishaps => entry[t] = "present")
  BY <1>b DEF DaemonInv, CondemnedInv
<1>f. \A u \in Thread : ~Collected(u) /\ (Collected(u)' <=> u = t)
  BY <1>a, <1>c DEF Collected
<1> HIDE DEF t
<1>1. ShapeInv'
  BY <1>a, <1>b, <1>c, <1>d, <1>e DEF ShapeInv, Handle
<1>2. SentInv'
  BY <1>a, <1>b, <1>c, <1>d, <1>e DEF SentInv, ShapeInv, Handle
<1>3. ListInv'
  BY <1>a, <1>b, <1>c, <1>d, <1>e DEF ListInv, ShapeInv
<1>4. DaemonInv'
  BY <1>a, <1>b, <1>c, <1>d, <1>e DEF DaemonInv, ShapeInv
<1>5. LiveInv'
  BY <1>a, <1>b, <1>c, <1>d, <1>e DEF LiveInv, Registered, ThreadOf, ShapeInv, SentInv, Handle
<1>6. LiveClientsKept'
  BY <1>a, <1>b, <1>c, <1>d, <1>e DEF LiveClientsKept, Owner, ShapeInv, SentInv, Handle
<1>7. OwnerInv'
  BY <1>a, <1>b, <1>c, <1>d, <1>e DEF OwnerInv, Owner, ThreadOf, ShapeInv, SentInv, Handle
<1>8. DataInv'
  BY <1>a, <1>b, <1>c, <1>d, <1>e DEF DataInv, ShapeInv
<1>9. CondemnedInv'
  BY <1>a, <1>b, <1>d, <1>e, <1>f DEF CondemnedInv, Condemned
<1>10. ReachInv'
  BY <1>a, <1>b, <1>d, <1>f DEF ReachInv, EntriesReachable, Condemned
<1>11. SurvivesOrderlyClients'
  BY <1>a, <1>b, <1>c, <1>d, <1>e DEF SurvivesOrderlyClients
<1> QED BY <1>1, <1>2, <1>3, <1>4, <1>5, <1>6, <1>7, <1>8, <1>9, <1>10, <1>11 DEF ClientInv

\* The collector deletes the data of a thread.
LEMMA GcDeleteInv ==
    ASSUME ClientInv, ~crashed, GcDelete
    PROVE  ClientInv'
<1> USE ClientAssumption DEF ClientInv, clientSide, server
<1> DEFINE t == gc.thread
<1>a. /\ UNCHANGED <<clientSide, worker, repo, server, pulse, gcQueue, crashed, mishaps>>
      /\ gc.pc = "delete" /\ t \in Thread /\ ProcessOf[t] \notin alive /\ gc.count < BatchSize
  BY DEF GcDelete, DaemonInv
<1>b. /\ entry' \in [Thread -> {"absent", "null", "present"}] /\ entry'[t] = "absent"
      /\ \A u \in Thread \ {t} : entry'[u] = entry[u]
      /\ handles' \in [Thread -> SUBSET Handle]
      /\ \A u \in Thread \ {t} : handles'[u] = handles[u]
  BY <1>a DEF GcDelete, ShapeInv
<1>c. /\ gc' \in [pc : {"idle", "loop", "delete", "untune"}, count : 0 .. BatchSize,
                  thread : Thread \cup {None}, todo : SUBSET Handle]
      /\ gc'.pc = "untune" /\ gc'.thread = t /\ gc'.count = gc.count
  BY DEF GcDelete, ShapeInv
<1>d. ToSet(gcQueue) \subseteq Thread /\ \A p \in Process : ToSet(repo[p].threads) \subseteq Thread
  BY SetOfSeq DEF ShapeInv
<1>e. \A u \in Thread : (Collected(u) <=> u = t) /\ ~Collected(u)'
  BY <1>a, <1>c DEF Collected
<1>f. "abrupt" \notin mishaps =>
          /\ t \notin ToSet(gcQueue)
          /\ \A p \in Process : p # pulse.victim => t \notin ToSet(repo[p].threads)
  <2> SUFFICES ASSUME "abrupt" \notin mishaps
               PROVE  /\ t \notin ToSet(gcQueue)
                      /\ \A p \in Process : p # pulse.victim => t \notin ToSet(repo[p].threads)
    OBVIOUS
  <2>1. t \notin ToSet(gcQueue)
    BY <1>a, <1>e DEF CondemnedInv
  <2>2. ProcessOf[t] = pulse.victim \/ repo[ProcessOf[t]].level = "none"
    BY <1>a, <1>e DEF CondemnedInv, Condemned
  <2>3. ASSUME NEW p \in Process, p # pulse.victim, t \in ToSet(repo[p].threads) PROVE FALSE
    <3>1. ProcessOf[t] = p
      BY <2>3 DEF ListInv
    <3>2. repo[p].threads = <<>>
      BY <2>2, <2>3, <3>1 DEF ListInv
    <3> QED BY <2>3, <3>2, SetOfSmall
  <2> QED BY <2>1, <2>3
<1> HIDE DEF t
<1>1. ShapeInv'
  BY <1>a, <1>b, <1>c, <1>d, <1>f DEF ShapeInv, Handle
<1>2. SentInv'
  BY <1>a, <1>b, <1>c, <1>d, <1>f DEF SentInv, ShapeInv, Handle
<1>3. ListInv'
  BY <1>a, <1>b, <1>c, <1>d, <1>f DEF ListInv, ShapeInv
<1>4. DaemonInv'
  BY <1>a, <1>b, <1>c, <1>d, <1>f DEF DaemonInv, ShapeInv
<1>5. LiveInv'
  BY SMTT(30), <1>a, <1>b, <1>c, <1>d, <1>f DEF LiveInv, Registered, ThreadOf, ShapeInv, SentInv, Handle
<1>6. LiveClientsKept'
  <2>1. ASSUME NEW g \in active, Owner(g) \in alive
        PROVE  /\ entry'[sender[g].thread] = "present"
               /\ g \in handles'[sender[g].thread]
               /\ repo'[Owner(g)].level # "none"
    BY <1>a, <1>b, <2>1, ActiveSender DEF LiveClientsKept
  <2> QED BY <1>a, <2>1 DEF LiveClientsKept, Owner
<1>7. OwnerInv'
  BY <1>a, <1>b, <1>c, <1>d, <1>f DEF OwnerInv, Owner, ThreadOf, ShapeInv, SentInv, Handle
<1>8. DataInv'
  BY <1>a, <1>b, <1>c, <1>d, <1>f DEF DataInv, ShapeInv
<1>9. CondemnedInv'
  BY <1>a, <1>b, <1>d, <1>e, <1>f DEF CondemnedInv, Condemned
<1>10. ReachInv'
  BY <1>a, <1>b, <1>e DEF ReachInv, EntriesReachable, Condemned
<1>11. SurvivesOrderlyClients'
  BY <1>a, <1>b, <1>c, <1>d, <1>f DEF SurvivesOrderlyClients
<1> QED BY <1>1, <1>2, <1>3, <1>4, <1>5, <1>6, <1>7, <1>8, <1>9, <1>10, <1>11 DEF ClientInv

\* The collector untunes a request.
LEMMA GcUntuneInv ==
    ASSUME ClientInv, ~crashed, NEW h \in Handle, GcUntune(h) \/ GcUntuneFails(h)
    PROVE  ClientInv'
<1> USE ClientAssumption DEF ClientInv, clientSide, tables, server
<1>a. /\ UNCHANGED <<clientSide, worker, tables, active, completed, draining, pulse, gcQueue, crashed>>
      /\ gc.pc = "untune" /\ queue' \in {queue, queue \cup {Untune(h)}}
      /\ mishaps' \in {mishaps, mishaps \cup {"alloc"}}
      /\ gc' = [gc EXCEPT !.todo = @ \ {h}]
  BY DEF GcUntune, GcUntuneFails
<1>b. /\ queue' \subseteq {Tune(g) : g \in Handle} \cup {Untune(g) : g \in Handle}
      /\ \A g \in Handle : Tune(g) \in queue' => Tune(g) \in queue
  BY <1>a DEF ShapeInv, Tune, Untune
<1>c. /\ gc' \in [pc : {"idle", "loop", "delete", "untune"}, count : 0 .. BatchSize,
                  thread : Thread \cup {None}, todo : SUBSET Handle]
      /\ gc'.pc = gc.pc /\ gc'.thread = gc.thread /\ gc'.count = gc.count
  BY <1>a DEF ShapeInv
<1>1. ShapeInv'
  BY <1>a, <1>b, <1>c DEF ShapeInv, Handle
<1>2. SentInv'
  BY <1>a, <1>b, <1>c DEF SentInv, ShapeInv, Handle
<1>3. ListInv'
  BY <1>a, <1>b, <1>c DEF ListInv, ShapeInv
<1>4. DaemonInv'
  BY <1>a, <1>b, <1>c DEF DaemonInv, ShapeInv
<1>5. LiveInv'
  BY <1>a, <1>b, <1>c DEF LiveInv, Registered, ThreadOf, ShapeInv, SentInv, Handle
<1>6. LiveClientsKept'
  BY <1>a, <1>b, <1>c DEF LiveClientsKept, Owner, ShapeInv, SentInv, Handle
<1>7. OwnerInv'
  BY <1>a, <1>b, <1>c DEF OwnerInv, Owner, ThreadOf, ShapeInv, SentInv, Handle
<1>8. DataInv'
  BY <1>a, <1>b, <1>c DEF DataInv, ShapeInv
<1>9. CondemnedInv'
  BY <1>a, <1>b, <1>c DEF CondemnedInv, Condemned, Collected, ShapeInv
<1>10. ReachInv'
  BY <1>a, <1>b, <1>c DEF ReachInv, EntriesReachable, Condemned, Collected, ShapeInv
<1>11. SurvivesOrderlyClients'
  BY <1>a, <1>b, <1>c DEF SurvivesOrderlyClients
<1> QED BY <1>1, <1>2, <1>3, <1>4, <1>5, <1>6, <1>7, <1>8, <1>9, <1>10, <1>11 DEF ClientInv

\* The loop of the collector begins, goes on or ends.
LEMMA GcTurnInv ==
    ASSUME ClientInv, ~crashed, GcStart \/ GcNext \/ GcEnd
    PROVE  ClientInv'
<1> USE ClientAssumption DEF ClientInv, clientSide, tables, server
<1>a. /\ UNCHANGED <<clientSide, worker, tables, server, pulse, gcQueue, crashed, mishaps>>
      /\ gc.pc # "delete"
      /\ gc' \in [pc : {"idle", "loop", "delete", "untune"}, count : 0 .. BatchSize,
                  thread : Thread \cup {None}, todo : SUBSET Handle]
      /\ gc'.pc \in {"idle", "loop"}
  <2>1. CASE GcStart \/ GcEnd
    BY <2>1 DEF GcStart, GcEnd, GcIdle
  <2>2. CASE GcNext
    <3>1. gc.count + 1 \in 0 .. BatchSize
      BY <2>2 DEF GcNext, DaemonInv, ShapeInv
    <3> QED BY <2>2, <3>1 DEF GcNext, ShapeInv
  <2> QED BY <2>1, <2>2
<1>1. ShapeInv'
  BY <1>a DEF ShapeInv, Handle
<1>2. SentInv'
  BY <1>a DEF SentInv, ShapeInv, Handle
<1>3. ListInv'
  BY <1>a DEF ListInv, ShapeInv
<1>4. DaemonInv'
  BY <1>a DEF DaemonInv, ShapeInv
<1>5. LiveInv'
  BY <1>a DEF LiveInv, Registered, ThreadOf, ShapeInv, SentInv, Handle
<1>6. LiveClientsKept'
  BY <1>a DEF LiveClientsKept, Owner, ShapeInv, SentInv, Handle
<1>7. OwnerInv'
  BY <1>a DEF OwnerInv, Owner, ThreadOf, ShapeInv, SentInv, Handle
<1>8. DataInv'
  BY <1>a DEF DataInv, ShapeInv
<1>9. CondemnedInv'
  BY <1>a DEF CondemnedInv, Condemned, Collected, ShapeInv
<1>10. ReachInv'
  BY <1>a DEF ReachInv, EntriesReachable, Condemned, Collected, ShapeInv
<1>11. SurvivesOrderlyClients'
  BY <1>a DEF SurvivesOrderlyClients
<1> QED BY <1>1, <1>2, <1>3, <1>4, <1>5, <1>6, <1>7, <1>8, <1>9, <1>10, <1>11 DEF ClientInv

\* createNewClient for a client that is not known: data for the thread or not, listed
\* with its process or not.
LEMMA CreateStep ==
    ASSUME ClientInv, ~crashed, NEW w \in Worker, worker[w] # None, worker[w].pc = "create",
           NEW t \in Thread, t = ThreadOf(w), ~Known(t),
           NEW p \in Process, p = ProcessOf[t],
           UNCHANGED <<clientSide, server, daemons, crashed>>,
           FreshEntry(t) \/ UNCHANGED <<entry, handles>>,
           repo' \in [Process -> [threads : Seq(Thread), level : Level]],
           \A q \in Process \ {p} : repo'[q] = repo[q],
           \/ repo'[p] = repo[p]
           \/ /\ repo'[p].level # "none" /\ entry'[t] = "present"
              /\ Len(repo'[p].threads) <= ThreadCap
              /\ ToSet(repo'[p].threads) = ToSet(repo[p].threads) \cup {t}
              /\ IsInjective(repo[p].threads) /\ t \notin ToSet(repo[p].threads) =>
                    IsInjective(repo'[p].threads),
           mishaps' \in {mishaps, mishaps \cup {"alloc"}, mishaps \cup {"cap"}},
           mishaps' = {} => t \in ToSet(repo'[p].threads),
           worker' \in [Worker -> Task \cup {None}],
           \A v \in Worker \ {w} : worker'[v] = worker[v],
           worker'[w] # None =>
               /\ worker'[w].handle = worker[w].handle
               /\ repo'[p].level # "none" /\ entry'[t] = "present"
    PROVE  ClientInv'
<1> USE ClientAssumption DEF ClientInv
<1>a. /\ worker[w].handle \in Handle /\ worker[w].handle \in 1 .. last
      /\ \A v \in Worker : worker'[v] # None => worker[v] # None /\ ThreadOf(v)' = ThreadOf(v)
  BY WorkerTask DEF ThreadOf, clientSide
<1>b. /\ entry' \in [Thread -> {"absent", "null", "present"}]
      /\ handles' \in [Thread -> SUBSET Handle]
      /\ \A u \in Thread : entry'[u] = entry[u] \/ entry'[u] = "present"
      /\ \A u \in Thread \ {t} : entry'[u] = entry[u] /\ handles'[u] = handles[u]
  <2>1. CASE UNCHANGED <<entry, handles>>
    BY <2>1 DEF ShapeInv
  <2>2. CASE FreshEntry(t)
    BY <2>2 DEF FreshEntry, ShapeInv
  <2> QED BY <2>1, <2>2
<1>c. \A q \in Process : repo[q].level # "none" => repo'[q].level # "none"
  OBVIOUS
<1>d. \A u \in Thread : Registered(u) => u # t /\ Registered(u)'
  BY <1>b, <1>c DEF Registered, Known
<1>e. "abrupt" \in mishaps' <=> "abrupt" \in mishaps
  OBVIOUS
<1>f. "abrupt" \notin mishaps => p \in alive /\ p # pulse.victim
  BY DEF OwnerInv, DaemonInv
<1>g. "abrupt" \notin mishaps => t \notin ToSet(repo[p].threads)
  <2>1. CASE repo[p].level = "none"
    BY <2>1, SetOfSmall DEF ListInv
  <2>2. CASE entry[t] = "absent"
    BY <1>f, <2>2 DEF DataInv
  <2> QED BY <2>1, <2>2 DEF Known
<1>h. \A u \in ToSet(gcQueue) : u \in Thread
  BY SetOfSeq DEF ShapeInv
<1>i. /\ \A u \in Thread : Condemned(u) => ProcessOf[u] \notin alive
      /\ \A u \in Thread : (Condemned(u)' <=> Condemned(u)) /\ (Collected(u)' <=> Collected(u))
  BY DEF Condemned, Collected, DaemonInv, daemons
<1>j. /\ UNCHANGED <<alive, last, sender, active, completed, queue, draining>>
      /\ UNCHANGED <<pulse, gcQueue, gc, crashed>>
  BY DEF clientSide, server, daemons
<1>1. ShapeInv'
  BY <1>b, <1>j DEF ShapeInv
<1>2. SentInv'
  BY <1>a, <1>j DEF SentInv
<1>3. ListInv'
  <2>1. ASSUME NEW q \in Process
        PROVE  /\ Len(repo'[q].threads) <= ThreadCap
               /\ \A u \in ToSet(repo'[q].threads) : ProcessOf[u] = q
               /\ repo'[q].level = "none" => repo'[q].threads = <<>>
    <3>1. CASE repo'[q] = repo[q]
      BY <3>1 DEF ListInv
    <3>2. CASE repo'[q] # repo[q]
      BY <3>2 DEF ListInv
    <3> QED BY <3>1, <3>2
  <2> QED BY <2>1 DEF ListInv
<1>4. DaemonInv'
  BY <1>j DEF DaemonInv
<1>5. LiveInv'
  <2>1. ASSUME NEW v \in Worker, worker'[v] # None, worker'[v].pc \in Past,
               ProcessOf[ThreadOf(v)'] \in alive'
        PROVE  Registered(ThreadOf(v))'
    <3>1. CASE v = w
      BY <1>a, <2>1, <3>1 DEF Registered
    <3>2. CASE v # w
      <4>1. worker[v] # None /\ ThreadOf(v) \in Thread /\ ThreadOf(v)' = ThreadOf(v)
        BY <1>a, <2>1, WorkerTask
      <4>2. Registered(ThreadOf(v))
        BY <1>j, <2>1, <3>2, <4>1 DEF LiveInv
      <4> QED BY <1>d, <4>1, <4>2 DEF Registered
    <3> QED BY <3>1, <3>2
  <2>2. \A u \in Thread : ProcessOf[u] \in alive => entry'[u] # "null"
    <3>1. \A u \in Thread : ProcessOf[u] \in alive => entry[u] # "null"
      BY DEF LiveInv
    <3> QED BY <1>b, <3>1
  <2> QED BY <1>j, <2>1, <2>2 DEF LiveInv
<1>6. LiveClientsKept'
  <2>1. ASSUME NEW h \in active, Owner(h) \in alive
        PROVE  /\ entry'[sender[h].thread] = "present"
               /\ h \in handles'[sender[h].thread]
               /\ repo'[Owner(h)].level # "none"
    <3>1. /\ sender[h].thread \in Thread /\ Owner(h) = ProcessOf[sender[h].thread]
          /\ h \in handles[sender[h].thread] /\ Registered(sender[h].thread)
      BY <2>1, ActiveSender DEF LiveClientsKept, Registered
    <3> QED BY <1>b, <1>d, <3>1 DEF Registered
  <2> QED BY <1>j, <2>1 DEF LiveClientsKept, Owner
<1>7. OwnerInv'
  BY <1>a, <1>e, <1>j DEF OwnerInv, Owner
<1>8. DataInv'
  <2> SUFFICES ASSUME "abrupt" \notin mishaps
               PROVE  /\ \A u \in Thread : entry'[u] # "null"
                      /\ \A q \in Process : q # pulse.victim =>
                            \A u \in ToSet(repo'[q].threads) : entry'[u] = "present"
                      /\ \A q \in Process : IsInjective(repo'[q].threads)
    BY <1>e, <1>j DEF DataInv
  <2>1. \A u \in Thread : entry'[u] # "null"
    BY <1>b DEF DataInv
  <2>2. ASSUME NEW q \in Process, q # pulse.victim, NEW u \in ToSet(repo'[q].threads)
        PROVE  entry'[u] = "present"
    <3>1. CASE u \in ToSet(repo[q].threads)
      <4>1. u \in Thread /\ entry[u] = "present"
        BY <2>2, <3>1, SetOfSeq DEF DataInv, ShapeInv
      <4> QED BY <1>b, <4>1
    <3>2. CASE u \notin ToSet(repo[q].threads)
      <4>1. q = p /\ repo'[p] # repo[p]
        BY <2>2, <3>2
      <4>2. entry'[t] = "present" /\ ToSet(repo'[p].threads) = ToSet(repo[p].threads) \cup {t}
        BY <4>1
      <4> QED BY <2>2, <3>2, <4>1, <4>2
    <3> QED BY <3>1, <3>2
  <2>3. \A q \in Process : IsInjective(repo'[q].threads)
    BY <1>g DEF DataInv
  <2> QED BY <2>1, <2>2, <2>3
<1>9. CondemnedInv'
  <2> SUFFICES ASSUME "abrupt" \notin mishaps
               PROVE  /\ IsInjective(gcQueue)
                      /\ \A u \in ToSet(gcQueue) : entry'[u] = "present" /\ ~Collected(u)
                      /\ \A u \in Thread : Condemned(u) =>
                            ProcessOf[u] = pulse.victim \/ repo'[ProcessOf[u]].level = "none"
    BY <1>e, <1>h, <1>i, <1>j DEF CondemnedInv
  <2>1. \A u \in ToSet(gcQueue) : entry'[u] = "present"
    BY ZenonT(60), <1>b, <1>h DEF CondemnedInv
  <2>2. ASSUME NEW u \in Thread, Condemned(u)
        PROVE  ProcessOf[u] = pulse.victim \/ repo'[ProcessOf[u]].level = "none"
    <3>1. ProcessOf[u] \in Process /\ ProcessOf[u] # p
      BY <1>f, <1>i, <2>2
    <3> QED BY <2>2, <3>1 DEF CondemnedInv
  <2> QED BY <2>1, <2>2 DEF CondemnedInv
<1>10. ReachInv'
  <2> SUFFICES ASSUME mishaps' = {}, NEW u \in Thread, entry'[u] = "present"
               PROVE  /\ u \in ToSet(repo'[ProcessOf[u]].threads) \/ Condemned(u)
                      /\ ProcessOf[u] = pulse.victim => Condemned(u)
    BY <1>i, <1>j DEF ReachInv, EntriesReachable, Condemned
  <2>1. mishaps = {}
    OBVIOUS
  <2>2. CASE u = t
    BY <1>f, <2>1, <2>2
  <2>3. CASE u # t
    <3>1. entry[u] = "present" /\ ProcessOf[u] \in Process
      BY <1>b, <2>3
    <3>2. u \in ToSet(repo[ProcessOf[u]].threads) \/ Condemned(u)
      BY <2>1, <3>1 DEF ReachInv, EntriesReachable, Condemned
    <3> QED BY <2>1, <3>1, <3>2 DEF ReachInv
  <2> QED BY <2>2, <2>3
<1>11. SurvivesOrderlyClients'
  BY <1>j DEF SurvivesOrderlyClients
<1> QED BY <1>1, <1>2, <1>3, <1>4, <1>5, <1>6, <1>7, <1>8, <1>9, <1>10, <1>11 DEF ClientInv

\* createNewClient, whether the client is known by now or not.
LEMMA CreateNewClientInv ==
    ASSUME ClientInv, ~crashed, NEW w \in Worker, CreateNewClient(w)
    PROVE  ClientInv'
<1> USE ClientAssumption DEF ClientInv
<1>1. PICK t \in Thread, p \in Process : t = ThreadOf(w) /\ p = ProcessOf[t]
  BY WorkerTask DEF CreateNewClient, At
<1>2. /\ worker[w] # None /\ worker[w].pc = "create"
      /\ UNCHANGED <<clientSide, server, daemons, crashed>>
  BY DEF CreateNewClient, At
<1>3. Goto(w, "limit") =>
          /\ worker' \in [Worker -> Task \cup {None}]
          /\ worker'[w].handle = worker[w].handle
          /\ \A v \in Worker \ {w} : worker'[v] = worker[v]
  BY <1>2, GotoMoves DEF TaskPC
<1>4. CASE Known(t)
  <2>1. Goto(w, "limit") /\ UNCHANGED <<tables, mishaps>>
    BY <1>1, <1>4 DEF CreateNewClient
  <2>2. p \in alive => Registered(t)
    BY <1>1, <1>4 DEF Known, LiveInv, Registered, ShapeInv
  <2>3. crashed' \in BOOLEAN /\ ~crashed'
    BY <1>2 DEF ShapeInv
  <2> QED BY <1>1, <1>2, <1>3, <2>1, <2>2, <2>3, MoveInv
<1>5. CASE ~Known(t)
  <2>1. FreshEntry(t) /\ ListThread(w, t, p)
    BY <1>1, <1>5 DEF CreateNewClient
  <2>2. entry'[t] = "present"
    BY <2>1 DEF FreshEntry, ShapeInv
  <2>3. repo[p] \in [threads : Seq(Thread), level : Level]
    BY DEF ShapeInv
  <2>4. CASE repo[p].level = "none"
    <3>1. PICK l \in {"known", "unknown"} :
              repo' = [repo EXCEPT ![p] = [threads |-> <<t>>, level |-> l]]
      BY <2>1, <2>4 DEF ListThread
    <3>2. Goto(w, "limit") /\ UNCHANGED mishaps
      BY <2>1, <2>4 DEF ListThread
    <3>3. <<t>> \in Seq(Thread) /\ Len(<<t>>) = 1 /\ ToSet(<<t>>) = {t} /\ IsInjective(<<t>>)
      BY SetOfSmall
    <3>4. /\ repo' \in [Process -> [threads : Seq(Thread), level : Level]]
          /\ repo'[p].threads = <<t>> /\ repo'[p].level # "none"
          /\ \A q \in Process \ {p} : repo'[q] = repo[q]
      BY <3>1, <3>3 DEF ShapeInv, Level
    <3>5. ToSet(repo[p].threads) = {}
      BY <2>4, SetOfSmall DEF ListInv
    <3>7. /\ Len(repo'[p].threads) <= ThreadCap
          /\ ToSet(repo'[p].threads) = ToSet(repo[p].threads) \cup {t}
          /\ IsInjective(repo'[p].threads)
      BY <3>3, <3>4, <3>5
    <3>8. t \in ToSet(repo'[p].threads)
      BY <3>7
    <3>9. /\ worker' \in [Worker -> Task \cup {None}]
          /\ worker'[w].handle = worker[w].handle
          /\ \A v \in Worker \ {w} : worker'[v] = worker[v]
      BY <1>3, <3>2
    <3>10. mishaps' \in {mishaps, mishaps \cup {"alloc"}, mishaps \cup {"cap"}}
      BY <3>2
    <3> QED BY ZenonT(60), <1>1, <1>2, <1>5, <2>1, <2>2, <3>4, <3>7, <3>8, <3>9, <3>10, CreateStep
  <2>5. CASE repo[p].level # "none" /\ Len(repo[p].threads) < ThreadCap
    <3> DEFINE s == Append(repo[p].threads, t)
    <3>1. /\ repo' = [repo EXCEPT ![p].threads = s]
          /\ Goto(w, "limit") /\ UNCHANGED mishaps
      BY <2>1, <2>5 DEF ListThread, ShapeInv
    <3>2. s \in Seq(Thread) /\ Len(s) <= ThreadCap
      BY <2>3, <2>5
    <3>3. /\ ToSet(s) = ToSet(repo[p].threads) \cup {t}
          /\ IsInjective(repo[p].threads) /\ t \notin ToSet(repo[p].threads) => IsInjective(s)
      BY <2>3, SetOfAppend
    <3> HIDE DEF s
    <3>4. /\ repo' \in [Process -> [threads : Seq(Thread), level : Level]]
          /\ repo'[p].threads = s /\ repo'[p].level # "none"
          /\ \A q \in Process \ {p} : repo'[q] = repo[q]
      <4>1. repo'[p] = [repo[p] EXCEPT !.threads = s]
        BY <3>1 DEF ShapeInv
      <4>2. repo'[p] \in [threads : Seq(Thread), level : Level]
        BY <2>3, <3>2, <4>1
      <4>3. repo'[p].threads = s /\ repo'[p].level = repo[p].level
        BY <2>3, <4>1
      <4> QED BY <2>5, <3>1, <4>2, <4>3 DEF ShapeInv
    <3>7. /\ Len(repo'[p].threads) <= ThreadCap
          /\ ToSet(repo'[p].threads) = ToSet(repo[p].threads) \cup {t}
          /\ IsInjective(repo[p].threads) /\ t \notin ToSet(repo[p].threads) =>
                IsInjective(repo'[p].threads)
      BY <3>2, <3>3, <3>4
    <3>8. t \in ToSet(repo'[p].threads)
      BY <3>7
    <3>9. /\ worker' \in [Worker -> Task \cup {None}]
          /\ worker'[w].handle = worker[w].handle
          /\ \A v \in Worker \ {w} : worker'[v] = worker[v]
      BY <1>3, <3>1
    <3>10. mishaps' \in {mishaps, mishaps \cup {"alloc"}, mishaps \cup {"cap"}}
      BY <3>1
    <3> QED BY ZenonT(60), <1>1, <1>2, <1>5, <2>1, <2>2, <3>4, <3>7, <3>8, <3>9, <3>10, CreateStep
  <2>6. CASE repo[p].level # "none" /\ ~(Len(repo[p].threads) < ThreadCap)
    <3>1. Drop(w) /\ repo' = repo /\ mishaps' = mishaps \cup {"cap"}
      BY <2>1, <2>6 DEF ListThread
    <3>2. /\ worker' \in [Worker -> Task \cup {None}] /\ worker'[w] = None
          /\ \A v \in Worker \ {w} : worker'[v] = worker[v]
      BY <3>1, DropMoves
    <3>3. repo' \in [Process -> [threads : Seq(Thread), level : Level]]
      BY <3>1 DEF ShapeInv
    <3> QED BY <1>1, <1>2, <1>5, <2>1, <3>1, <3>2, <3>3, CreateStep
  <2> QED BY <2>4, <2>5, <2>6
<1> QED BY <1>4, <1>5

\* createNewClient runs out of memory.
LEMMA CreateFailsInv ==
    ASSUME ClientInv, ~crashed, NEW w \in Worker, CreateFails(w)
    PROVE  ClientInv'
<1> USE ClientAssumption DEF ClientInv
<1>1. PICK t \in Thread, p \in Process : t = ThreadOf(w) /\ p = ProcessOf[t]
  BY WorkerTask DEF CreateFails, At
<1>2. /\ worker[w] # None /\ worker[w].pc = "create" /\ ~Known(t)
      /\ UNCHANGED <<clientSide, repo, server, daemons, crashed>>
      /\ Drop(w) /\ mishaps' = mishaps \cup {"alloc"}
  BY <1>1 DEF CreateFails, At
<1>3. /\ worker' \in [Worker -> Task \cup {None}] /\ worker'[w] = None
      /\ \A v \in Worker \ {w} : worker'[v] = worker[v]
  BY <1>2, DropMoves
<1>4. FreshEntry(t) \/ UNCHANGED <<entry, handles>>
  BY <1>1 DEF CreateFails
<1>5. repo' \in [Process -> [threads : Seq(Thread), level : Level]]
  BY <1>2 DEF ShapeInv
<1> QED BY <1>1, <1>2, <1>3, <1>4, <1>5, CreateStep

----------------------------------------------------------------------------

LEMMA NextClient == ClientInv /\ [Next]_vars => ClientInv'
<1> SUFFICES ASSUME ClientInv, [Next]_vars PROVE ClientInv'
  OBVIOUS
<1>1. CASE UNCHANGED vars
  <2>1. UNCHANGED <<alive, last, sender, worker, repo, entry, handles, active, completed, queue,
                    draining, pulse, gcQueue, gc, crashed, mishaps>>
    BY <1>1 DEF vars, clientSide, tables, server, daemons
  <2> QED BY ZenonT(60), <2>1 DEF ClientInv, ShapeInv, SentInv, ListInv, DaemonInv, LiveInv, LiveClientsKept,
        OwnerInv, DataInv, CondemnedInv, ReachInv, EntriesReachable, SurvivesOrderlyClients,
        Registered, Condemned, Collected, ThreadOf, Owner
<1>2. CASE Next
  <2> ~crashed
    BY <1>2 DEF Next
  <2>1. CASE \E w \in Worker, t \in Thread, d \in Durations : SendTune(w, t, d)
    BY <2>1, SendTuneInv
  <2>2. CASE \E p \in Process : Exit(p)
    BY <2>2, ExitInv
  <2>3. ASSUME NEW w \in Worker, WorkerStep(w) PROVE ClientInv'
    BY <2>3, ClientExistsInv, CreateNewClientInv, CreateFailsInv, RateLimitInv, VerifyInv,
       MatchInv, AddRequestInv, EnqueueInv DEF WorkerStep
  <2>4. CASE ConsumerStep
    BY <2>4, ServeTuneInv, DropUntuneInv, ServeUntuneInv DEF ConsumerStep
  <2>5. CASE \E h \in Handle : Expire(h)
    BY <2>5, ExpireInv
  <2>6. CASE PulseStep
    BY <2>6, PulseWalkInv, SubmitDeadInv, DeleteClientPIDInv DEF PulseStep
  <2>7. CASE GcStep
    BY <2>7, GcTurnInv, GcCopyInv, GcDeleteInv, GcUntuneInv DEF GcStep
  <2> QED BY <1>2, <2>1, <2>2, <2>3, <2>4, <2>5, <2>6, <2>7 DEF Next
<1> QED BY <1>1, <1>2

\* The inductive invariant holds throughout.
LEMMA ClientInvariant == Spec => []ClientInv
  BY InitClient, NextClient, PTL DEF Spec

\* The tables, the queues and the state of the two daemons keep their shape, whatever
\* the clients do: no worker handles a request that was not sent, no process lists more
\* than PER_CLIENT_TID_CAP threads, and performCleanup stays within its batch.
THEOREM ClientTypeCorrect == Spec => []TypeOK
<1>1. ClientInv => TypeOK
  <2> SUFFICES ASSUME ClientInv PROVE TypeOK
    OBVIOUS
  <2>1. \A p \in Process :
           /\ repo[p].threads \in Seq(Thread) /\ Len(repo[p].threads) <= ThreadCap
           /\ repo[p].level \in {"none", "unknown", "known"}
    BY DEF ClientInv, ShapeInv, ListInv, Level
  <2>2. active \subseteq Handle
    BY ActiveSender DEF ClientInv
  <2> QED BY <2>1, <2>2 DEF ClientInv, ShapeInv, SentInv, TypeOK
<1> QED BY <1>1, ClientInvariant, PTL

\* Whatever happens to other clients, however requests of one thread meet in
\* createNewClient and whatever memory runs out: the requests of a living process stay
\* in its client entry.
THEOREM LiveClientsAlwaysKept == Spec => []LiveClientsKept
<1>1. ClientInv => LiveClientsKept
  BY DEF ClientInv
<1> QED BY <1>1, ClientInvariant, PTL

\* Workers, consumer and collector follow no null pointer in the client tables as long
\* as no process exits while a tune request of it is on its way.
THEOREM OrderlyClientsSurvived == Spec => []SurvivesOrderlyClients
<1>1. ClientInv => SurvivesOrderlyClients
  BY DEF ClientInv
<1> QED BY <1>1, ClientInvariant, PTL

\* As long as nothing goes wrong, the data of every thread are listed with its process,
\* queued for the collector or in its hands.
THEOREM EntriesAlwaysReachable == Spec => []EntriesReachable
<1>1. ClientInv => EntriesReachable
  BY DEF ClientInv, ReachInv
<1> QED BY <1>1, ClientInvariant, PTL
============================================================================
