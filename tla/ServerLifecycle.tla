-------------------------- MODULE ServerLifecycle --------------------------
(***************************************************************************)
(* The urm process from main to exit (urm.cpp, init/RestuneInit.cpp): the  *)
(* initialisation steps of the resource-tuner and classifier modules, the  *)
(* threads they leave running, the tear-down in its order, SIGTERM and     *)
(* SIGINT, a crash or SIGKILL at any step, and the next start by systemd.  *)
(*                                                                         *)
(* What the threads do is reduced to its effect on sysfs nodes: a request  *)
(* reaches the consumer through the listener and the request pool, or      *)
(* straight from the classifier, tunes one node and may arm a timer whose  *)
(* expiry resets the node.  The configuration files are what ConfigParser  *)
(* is about; here a fetch step succeeds or fails.                          *)
(***************************************************************************)
EXTENDS Naturals, FiniteSets

CONSTANTS
    Node,       \* paths of sysfs nodes
    Value,      \* what requests write to them
    Original,   \* what they hold before the first start of the server
    None,       \* no value
    Faults,     \* what may go wrong: "init", "listener", "crash"
    MaxStarts,  \* bound: starts of the process
    MaxSent     \* bound: requests sent to one process

ASSUME ServerAssumption ==
    /\ None \notin Value \cup Node /\ Original # None
    /\ MaxStarts \in Nat /\ MaxSent \in Nat

VARIABLES
    phase,      \* where main is, "off" without a process
    proc,       \* the threads and the memory of the process
    file,       \* file[n]: what sysfs node n holds
    persisted,  \* mPersistenceFile: the nodes and values it lists
    found,      \* what the nodes held when the process started
    starts      \* starts so far

vars == <<phase, proc, file, persisted, found, starts>>

NoValues == [n \in Node |-> None]

\* online: the serverOnlineStatus; signalled: terminateServer; listener (reading
\* while it waits for what an accepted client sends), consumer, classifier: the
\* threads; pools: thread pools that exist; daemons: timer threads of pulse monitor
\* and garbage collector, stopping once killTimer was called for them; tasks:
\* requests in the request pool; queue: messages of the request queue; timers: nodes
\* with a running request timer; defaults: mDefaultValueStore.
NewProcess ==
    [online |-> TRUE, signalled |-> FALSE, listener |-> "none", consumer |-> "none",
     classifier |-> "none", pools |-> {}, daemons |-> {}, stopping |-> FALSE,
     tasks |-> {}, queue |-> {}, timers |-> {}, defaults |-> NoValues, sent |-> 0]

Tune(n, v, timed) == [node |-> n, val |-> v, timed |-> timed]
Untune(n) == Tune(n, None, FALSE)
Cleanup == Tune(None, None, FALSE)

Init ==
    /\ phase = "off"
    /\ proc = NewProcess
    /\ file = [n \in Node |-> Original]
    /\ persisted = NoValues
    /\ found = file
    /\ starts = 0

\* A step of main that leaves the process in state p.
Main(from, to, p) ==
    /\ phase = from /\ phase' = to /\ proc' = p
    /\ UNCHANGED <<persisted, found, starts>>

\* A step of another thread.
Thread(p) ==
    /\ phase # "off" /\ proc' = p
    /\ UNCHANGED <<phase, persisted, found, starts>>

----------------------------------------------------------------------------
(* Initialisation: main, then init of RestuneInit.cpp step by step. *)

\* The process starts; it is online before the first step.
Start ==
    /\ phase \in {"off", "exited"} /\ starts < MaxStarts
    /\ phase' = "restoreToSafeState"
    /\ proc' = NewProcess
    /\ found' = file
    /\ starts' = starts + 1
    /\ UNCHANGED <<file, persisted>>

\* writeSysFsDefaults: what the nodes hold once file lines p were written back.
WriteSysFsDefaults(p) == [n \in Node |-> IF p[n] # None THEN p[n] ELSE file[n]]

RestoreToSafeState ==
    /\ phase = "restoreToSafeState" /\ phase' = "fetchProperties"
    /\ file' = WriteSysFsDefaults(persisted)
    /\ persisted' = NoValues
    /\ UNCHANGED <<proc, found, starts>>

\* The steps that parse configuration, a common file and then a custom one.
Fetch(from, to) == Main(from, to, proc) /\ UNCHANGED file

FetchProperties        == Fetch("fetchProperties", "preAllocateWorkers")
FetchTargetInfo        == Fetch("fetchTargetInfo", "fetchInitInfo")
FetchInitInfo          == Fetch("fetchInitInfo", "fetchResources")
FetchSignals           == Fetch("fetchSignals", "fetchPerAppConfigs")
FetchPerAppConfigs     == Fetch("fetchPerAppConfigs", "fetchExtFeatureConfigs")
FetchExtFeatureConfigs == Fetch("fetchExtFeatureConfigs", "restuneThread")

PreAllocateWorkers ==
    /\ Main("preAllocateWorkers", "fetchTargetInfo", [proc EXCEPT !.pools = {"requests", "timers"}])
    /\ UNCHANGED file

\* fetchAndStoreDefaults: the nodes are read when their resource is registered;
\* addDefaultValue no longer writes the persistence file.
FetchAndStoreDefaults(S) == [n \in Node |-> IF n \in S THEN file[n] ELSE None]

\* The parser registers the resources of the nodes S and ends or meets an error.
FetchResources ==
    /\ \E S \in SUBSET Node :
         /\ S # Node => "init" \in Faults
         /\ Main("fetchResources", IF S = Node THEN "fetchSignals" ELSE "serverCleanup",
                 [proc EXCEPT !.defaults = FetchAndStoreDefaults(S)])
    /\ UNCHANGED file

StartConsumer ==
    /\ Main("restuneThread", "pulseMonitor", [proc EXCEPT !.consumer = "test"])
    /\ UNCHANGED file

StartDaemon(d, to) ==
    /\ Main(d, to, [proc EXCEPT !.daemons = @ \cup {d}])
    /\ UNCHANGED file

StartListener ==
    /\ Main("listener", "classifier", [proc EXCEPT !.listener = "up"])
    /\ UNCHANGED file

\* A classifier library that is absent counts as success.
StartClassifier ==
    /\ \E c \in {"none", "up"} : Main("classifier", "serve", [proc EXCEPT !.classifier = c])
    /\ UNCHANGED file

CanFail ==
    {"fetchProperties", "preAllocateWorkers", "fetchTargetInfo", "fetchInitInfo", "fetchSignals",
     "fetchPerAppConfigs", "fetchExtFeatureConfigs", "restuneThread", "pulseMonitor",
     "garbageCollector", "listener", "classifier"}

\* A step reports an error: main skips the rest and cleans up.  bad_alloc in
\* preAllocateWorkers may leave the first pool, cc_init a worker thread that
\* no event will ever reach.
InitFails ==
    /\ "init" \in Faults /\ phase \in CanFail
    /\ \E left \in {{}, {"requests"}} :
         Main(phase, "serverCleanup",
              [proc EXCEPT !.pools = IF phase = "preAllocateWorkers" THEN left ELSE @,
                           !.classifier = IF phase = "classifier" THEN "idle" ELSE @])
    /\ UNCHANGED file

----------------------------------------------------------------------------
(* The threads of the server. *)

\* The queue's mutex is free: the consumer is not in its hook.
Unlocked == proc.consumer # "hook"

\* The listener is in epoll_wait or in recv.
Listening == proc.listener \in {"up", "reading"}

\* The listener accepts connections until there is none left, and looks at the
\* online flag between two rounds of epoll_wait only.  The accepted socket is a
\* blocking one: the listener reads it until the client sends or closes.
Accept ==
    /\ proc.listener = "up"
    /\ Thread([proc EXCEPT !.listener = "reading"])
    /\ UNCHANGED file

\* The client's message is handed to the pool.
Receive ==
    /\ proc.listener = "reading" /\ proc.sent < MaxSent
    /\ \E n \in Node, v \in Value, timed \in BOOLEAN :
         Thread([proc EXCEPT !.listener = "up",
                             !.tasks = @ \cup {Tune(n, v, timed)}, !.sent = @ + 1])
    /\ UNCHANGED file

\* The client closes without a message, or no block was left for one.
HangUp ==
    /\ proc.listener = "reading"
    /\ Thread([proc EXCEPT !.listener = "up"])
    /\ UNCHANGED file

\* The listener sees the server offline and returns.
ListenerEnds ==
    /\ proc.listener = "up" /\ ~proc.online
    /\ Thread([proc EXCEPT !.listener = "done"])
    /\ UNCHANGED file

\* accept or recv fails: the listener returns.
ListenerFails ==
    /\ "listener" \in Faults /\ Listening
    /\ Thread([proc EXCEPT !.listener = "done"])
    /\ UNCHANGED file

\* A thread of the request pool runs a task: the message enters the queue.
RunTask(m) ==
    /\ m \in proc.tasks /\ Unlocked
    /\ Thread([proc EXCEPT !.tasks = @ \ {m}, !.queue = @ \cup {m}])
    /\ UNCHANGED file

\* The classifier submits requests from a thread of its own.
ClassifierSubmits ==
    /\ proc.classifier = "up" /\ Unlocked /\ proc.sent < MaxSent
    /\ \E n \in Node, v \in Value :
         Thread([proc EXCEPT !.queue = @ \cup {Tune(n, v, FALSE)}, !.sent = @ + 1])
    /\ UNCHANGED file

\* A timer of the timer pool expires and enqueues the untune request.
TimerExpires(n) ==
    /\ n \in proc.timers /\ Unlocked
    /\ Thread([proc EXCEPT !.timers = @ \ {n}, !.queue = @ \cup {Untune(n)}])
    /\ UNCHANGED file

DaemonEnds ==
    /\ proc.stopping
    /\ \E d \in proc.daemons : Thread([proc EXCEPT !.daemons = @ \ {d}])
    /\ UNCHANGED file

\* The loop of restuneThreadStart and the wait of OrderedQueue.
ConsumerTests ==
    /\ proc.consumer = "test"
    /\ Thread([proc EXCEPT !.consumer = IF proc.online THEN "wait" ELSE "done"])
    /\ UNCHANGED file

ConsumerWakes ==
    /\ proc.consumer = "wait" /\ proc.queue # {}
    /\ Thread([proc EXCEPT !.consumer = "hook"])
    /\ UNCHANGED file

\* One message of orderedQueueConsumerHook.  The clean-up message has the
\* highest priority and ends the hook, whatever else the queue holds.
ConsumerServes(m) ==
    /\ proc.consumer = "hook" /\ m \in proc.queue
    /\ Cleanup \in proc.queue => m = Cleanup
    /\ Thread([proc EXCEPT
                 !.queue = @ \ {m},
                 !.consumer = IF m = Cleanup \/ proc.queue = {m} THEN "test" ELSE @,
                 !.timers = IF m.timed THEN @ \cup {m.node} ELSE @])
    /\ file' = IF m = Cleanup THEN file
               ELSE [file EXCEPT ![m.node] = IF m.val = None THEN proc.defaults[m.node] ELSE m.val]

----------------------------------------------------------------------------
(* The end of main and tear of RestuneInit.cpp. *)

\* SIGTERM or SIGINT.
Signal ==
    /\ phase # "exited" /\ ~proc.signalled
    /\ Thread([proc EXCEPT !.signalled = TRUE])
    /\ UNCHANGED file

EndOfLoop == proc.signalled /\ Main("serve", "serverCleanup", proc) /\ UNCHANGED file

ServerCleanup ==
    Main("serverCleanup", "joinListener", [proc EXCEPT !.online = FALSE]) /\ UNCHANGED file

\* Fault: the listener is not waited for.
LeaveListener == Main("joinListener", "forcefulAwake", proc) /\ UNCHANGED file

JoinListener ==
    ~Listening /\ Main("joinListener", "forcefulAwake", proc) /\ UNCHANGED file

\* Fault: the consumer is joined without being woken.
JoinOnly == Main("forcefulAwake", "joinConsumer", proc) /\ UNCHANGED file

\* If the consumer was started, the clean-up message wakes it.
ForcefulAwake ==
    /\ Unlocked
    /\ Main("forcefulAwake", "joinConsumer",
            [proc EXCEPT !.queue = IF proc.consumer = "none" THEN @ ELSE @ \cup {Cleanup}])
    /\ UNCHANGED file

JoinConsumer ==
    /\ proc.consumer \in {"none", "done"}
    /\ Main("joinConsumer", "restoreDefaults", proc)
    /\ UNCHANGED file

\* Fault: nodes with a running timer are left to it, though its untune request
\* will find no consumer.
RestoreUntimed ==
    /\ Main("restoreDefaults", "stopDaemons", proc)
    /\ file' = [n \in Node |-> IF proc.defaults[n] = None \/ n \in proc.timers
                              THEN file[n] ELSE proc.defaults[n]]

\* Fault: every node is written, also those without a stored default.
RestoreAll == Main("restoreDefaults", "stopDaemons", proc) /\ file' = proc.defaults

RestoreDefaults ==
    /\ Main("restoreDefaults", "stopDaemons", proc)
    /\ file' = [n \in Node |-> IF proc.defaults[n] = None THEN file[n] ELSE proc.defaults[n]]

StopDaemons ==
    Main("stopDaemons", "deleteRequests", [proc EXCEPT !.stopping = TRUE]) /\ UNCHANGED file

\* ~ThreadPool: running tasks are joined, tasks still queued are dropped.
DeleteRequestPool ==
    /\ Main("deleteRequests", "deleteTimers", [proc EXCEPT !.pools = @ \ {"requests"}, !.tasks = {}])
    /\ UNCHANGED file

\* ~ThreadPool: request timers nobody kills run to their end first.
DeleteTimerPool ==
    /\ proc.daemons = {} /\ proc.timers = {}
    /\ Main("deleteTimers", "terminateClassifier", [proc EXCEPT !.pools = @ \ {"timers"}])
    /\ UNCHANGED file

\* mNeedExit is set; the netlink thread leaves recv, which closing the socket
\* does not interrupt, once the kernel has another process event for it.
ClassifierEnds ==
    /\ phase = "terminateClassifier" /\ proc.classifier = "up"
    /\ Thread([proc EXCEPT !.classifier = "idle"])
    /\ UNCHANGED file

\* The persistence file is deleted, the classifier's threads are joined, main
\* returns.
TerminateClassifier ==
    /\ phase = "terminateClassifier" /\ phase' = "exited"
    /\ proc.classifier # "up"
    /\ proc' = [proc EXCEPT !.classifier = "none"]
    /\ persisted' = NoValues
    /\ UNCHANGED <<file, found, starts>>

\* A crash, or SIGKILL by systemd when stopping takes longer than
\* TimeoutStopSec.
Crash ==
    /\ "crash" \in Faults /\ phase \notin {"off", "exited"}
    /\ phase' = "off" /\ proc' = NewProcess
    /\ UNCHANGED <<file, persisted, found, starts>>

----------------------------------------------------------------------------

MainStep ==
    \/ RestoreToSafeState \/ FetchProperties \/ PreAllocateWorkers \/ FetchTargetInfo
    \/ FetchInitInfo \/ FetchResources \/ FetchSignals \/ FetchPerAppConfigs
    \/ FetchExtFeatureConfigs \/ StartConsumer
    \/ StartDaemon("pulseMonitor", "garbageCollector") \/ StartDaemon("garbageCollector", "listener")
    \/ StartListener \/ StartClassifier
    \/ EndOfLoop \/ ServerCleanup \/ JoinListener \/ ForcefulAwake \/ JoinConsumer
    \/ RestoreDefaults \/ StopDaemons \/ DeleteRequestPool \/ DeleteTimerPool \/ TerminateClassifier

Messages == {Cleanup} \cup {Tune(n, v, timed) : n \in Node, v \in Value \cup {None}, timed \in BOOLEAN}
Consumer == ConsumerTests \/ ConsumerWakes \/ \E m \in Messages : ConsumerServes(m)

Next ==
    \/ MainStep \/ Consumer
    \/ Accept \/ Receive \/ HangUp \/ ListenerEnds \/ ListenerFails
    \/ ClassifierSubmits \/ ClassifierEnds \/ DaemonEnds
    \/ \E m \in Messages : RunTask(m)
    \/ \E n \in Node : TimerExpires(n)
    \/ Start \/ InitFails \/ Signal \/ Crash

\* Main, the consumer, the listener's round of epoll_wait with its one second
\* limit, the timers and the threads of the daemons run.  Nothing makes a client
\* connect, or send or close once it is connected, a step fail, systemd start or
\* stop the server, or the kernel report a process.
Fairness ==
    /\ WF_vars(MainStep)
    /\ WF_vars(Consumer)
    /\ WF_vars(ListenerEnds)
    /\ WF_vars(DaemonEnds)
    /\ \A n \in Node : WF_vars(TimerExpires(n))

Spec == Init /\ [][Next]_vars /\ Fairness

----------------------------------------------------------------------------
(* Properties. *)

TypeOK ==
    /\ file \in [Node -> Value \cup {Original}]
    /\ proc.defaults \in [Node -> Value \cup {Original, None}]
    /\ proc.queue \subseteq Messages /\ proc.tasks \subseteq Messages
    /\ proc.consumer \in {"none", "test", "wait", "hook", "done"}
    /\ starts \in 0 .. MaxStarts

\* tear, "Restore all the Resources to Original Values": when main returns,
\* every node holds what it held when the process started, whichever step of
\* init failed and whatever requests, timers and classifier events came
\* between the signal and the end of the last thread.
RestoredAtExit == phase = "exited" => file = found

\* No thread is left that could touch a thread pool which tear has deleted:
\* the listener submits tasks, the consumer starts timers, timers use theirs.
PoolsOutliveUsers ==
    /\ Listening => "requests" \in proc.pools
    /\ proc.tasks # {} => "requests" \in proc.pools
    /\ proc.consumer \notin {"none", "done"} => "timers" \in proc.pools
    /\ proc.daemons \cup proc.timers # {} => "timers" \in proc.pools

\* Somebody outside the process decides when the join returns: a client whose
\* connection the listener reads and who neither sends nor closes (or one client
\* after the other, without a pause), or the kernel, with no process event to end
\* the recv of the netlink thread.
HeldUp ==
    \/ phase = "joinListener" /\ proc.listener = "reading"
    \/ phase = "terminateClassifier" /\ proc.classifier = "up"

\* Once signalled, and after a failed initialisation, the process ends unless it is
\* held up, again and again: the consumer does not sleep through the end, and every
\* join but those two returns.
StopFinishes ==
    (proc.signalled \/ phase = "serverCleanup") /\ phase # "off" ~>
        phase \in {"exited", "off"} \/ HeldUp

\* docs/README.md 7.11, "In case of server crash, URM ensures that all the
\* resource sysfs nodes are restored to a sane state": a server that is about
\* to take requests again finds the original values in the nodes.
SaneAfterCrash == phase = "fetchProperties" => file = [n \in Node |-> Original]
============================================================================
