----------------------- MODULE ServerLifecycleProofs -----------------------
(***************************************************************************)
(* Proofs about ServerLifecycle, for any nodes and values, any number of   *)
(* starts and requests, and any choice of faults.                          *)
(*                                                                         *)
(* ServerInv says which threads, pools and stored defaults there are in    *)
(* each phase of main.  The file part rests on two facts: nothing but the  *)
(* consumer writes nodes, and there is no consumer unless the default of   *)
(* every node has been stored.                                             *)
(***************************************************************************)
EXTENDS ServerLifecycle, TLAPS

\* Phases by what has been started and what has ended.
Booting == {"restoreToSafeState", "fetchProperties", "preAllocateWorkers", "fetchTargetInfo",
            "fetchInitInfo", "fetchResources", "fetchSignals", "fetchPerAppConfigs",
            "fetchExtFeatureConfigs", "restuneThread"}
Pooled == {"fetchTargetInfo", "fetchInitInfo", "fetchResources", "fetchSignals",
           "fetchPerAppConfigs", "fetchExtFeatureConfigs", "restuneThread", "pulseMonitor",
           "garbageCollector", "listener", "classifier", "serve"}
Stored == {"fetchSignals", "fetchPerAppConfigs", "fetchExtFeatureConfigs", "restuneThread"}
Unheard == Booting \cup {"off", "pulseMonitor", "garbageCollector", "listener"}
Restored == {"stopDaemons", "deleteRequests", "deleteTimers", "terminateClassifier", "exited"}
Settled == Restored \cup {"restoreDefaults"}
Deaf == Settled \cup {"forcefulAwake", "joinConsumer"}
Phase == Booting \cup Pooled \cup Deaf \cup {"off", "serverCleanup", "joinListener"}

Process ==
    [online : BOOLEAN, signalled : BOOLEAN, listener : {"none", "up", "reading", "done"},
     consumer : {"none", "test", "wait", "hook", "done"}, classifier : {"none", "up", "idle"},
     pools : SUBSET {"requests", "timers"}, daemons : SUBSET {"pulseMonitor", "garbageCollector"},
     stopping : BOOLEAN, tasks : SUBSET Messages, queue : SUBSET Messages, timers : SUBSET Node,
     defaults : [Node -> Value \cup {Original, None}], sent : Nat]

ShapeInv ==
    /\ phase \in Phase /\ proc \in Process
    /\ file \in [Node -> Value \cup {Original}] /\ found \in [Node -> Value \cup {Original}]
    /\ persisted = NoValues
    /\ starts \in 0 .. MaxStarts

\* Threads and pools by phase.
ThreadInv ==
    /\ phase \in Booting \cup {"off"} =>
          proc.consumer = "none" /\ proc.daemons = {} /\ proc.timers = {}
    /\ phase \in Unheard => proc.listener = "none" /\ proc.tasks = {}
    /\ phase \in Pooled => proc.pools = {"requests", "timers"}
    /\ phase \in Deaf => ~Listening
    /\ phase \in Settled => proc.consumer \in {"none", "done"}
    /\ PoolsOutliveUsers

\* Contents of the nodes.
FileInv ==
    /\ \A n \in Node : proc.defaults[n] \in {None, found[n]}
    /\ phase \in Stored \/ proc.consumer # "none" => proc.defaults = found
    /\ phase # "off" /\ proc.consumer = "none" => file = found
    /\ phase \in Restored => file = found

\* The inductive invariant.
ServerInv == ShapeInv /\ ThreadInv /\ FileInv

----------------------------------------------------------------------------

LEMMA InitServer == Init => ServerInv
<1> SUFFICES ASSUME Init PROVE ServerInv
  OBVIOUS
<1> USE ServerAssumption DEF Init, NewProcess, NoValues
<1>1. ShapeInv
  BY DEF ShapeInv, Process, Phase
<1>2. ThreadInv
  BY DEF ThreadInv, PoolsOutliveUsers, Listening, Pooled, Deaf, Settled, Restored
<1>3. FileInv
  BY DEF FileInv, Stored, Restored
<1> QED BY <1>1, <1>2, <1>3 DEF ServerInv

\* Messages other than the clean-up message name a node.
LEMMA MessageFields ==
    ASSUME NEW m \in Messages
    PROVE  /\ m.timed \in BOOLEAN
           /\ m.timed => m.node \in Node
           /\ m # Cleanup => m.node \in Node /\ m.val \in Value \cup {None}
<1>1. CASE m = Cleanup
  BY <1>1 DEF Cleanup, Tune
<1>2. CASE m # Cleanup
  <2>1. PICK n \in Node, v \in Value \cup {None}, timed \in BOOLEAN : m = Tune(n, v, timed)
    BY <1>2 DEF Messages
  <2>2. m.node = n /\ m.val = v /\ m.timed = timed
    BY <2>1 DEF Tune
  <2> QED BY <1>2, <2>2
<1> QED BY <1>1, <1>2

\* A step of main that only moves on, before the first thread is started.
LEMMA FetchInv ==
    ASSUME ServerInv, NEW from, NEW to, Fetch(from, to),
           <<from, to>> \in {<<"fetchProperties", "preAllocateWorkers">>,
                             <<"fetchTargetInfo", "fetchInitInfo">>,
                             <<"fetchInitInfo", "fetchResources">>,
                             <<"fetchSignals", "fetchPerAppConfigs">>,
                             <<"fetchPerAppConfigs", "fetchExtFeatureConfigs">>,
                             <<"fetchExtFeatureConfigs", "restuneThread">>}
    PROVE  ServerInv'
<1> USE DEF ServerInv, Fetch, Main
<1>1. ShapeInv'
  BY DEF ShapeInv, Phase, Booting
<1>2. ThreadInv'
  BY DEF ThreadInv, PoolsOutliveUsers, Listening, Booting, Unheard, Pooled, Deaf, Settled, Restored
<1>3. FileInv'
  BY DEF FileInv, Stored, Restored
<1> QED BY <1>1, <1>2, <1>3

\* The other steps of main up to the loop of main.
LEMMA BootInv ==
    ASSUME ServerInv,
           \/ RestoreToSafeState \/ PreAllocateWorkers \/ FetchResources \/ StartConsumer
           \/ StartDaemon("pulseMonitor", "garbageCollector")
           \/ StartDaemon("garbageCollector", "listener")
           \/ StartListener \/ StartClassifier
    PROVE  ServerInv'
<1> USE DEF ServerInv, Main
<1>1. CASE RestoreToSafeState
  <2>1. file' = file
    BY <1>1 DEF RestoreToSafeState, WriteSysFsDefaults, ShapeInv, NoValues
  <2>2. ShapeInv'
    BY <1>1, <2>1 DEF RestoreToSafeState, ShapeInv, Phase, Booting
  <2>3. ThreadInv'
    BY <1>1 DEF RestoreToSafeState, ThreadInv, PoolsOutliveUsers, Listening, Booting, Unheard, Pooled,
                Deaf, Settled, Restored
  <2>4. FileInv'
    BY <1>1, <2>1 DEF RestoreToSafeState, FileInv, Stored, Restored
  <2> QED BY <2>2, <2>3, <2>4
<1>2. CASE PreAllocateWorkers
  <2>1. ShapeInv'
    BY <1>2 DEF PreAllocateWorkers, ShapeInv, Phase, Pooled, Process
  <2>2. ThreadInv'
    BY <1>2 DEF PreAllocateWorkers, ThreadInv, PoolsOutliveUsers, Listening, Booting, Unheard, Pooled,
                Deaf, Settled, Restored, ShapeInv, Process
  <2>3. FileInv'
    BY <1>2 DEF PreAllocateWorkers, FileInv, Stored, Restored, ShapeInv, Process
  <2> QED BY <2>1, <2>2, <2>3
<1>3. CASE FetchResources
  <2>1. PICK S \in SUBSET Node :
            /\ phase = "fetchResources"
            /\ phase' = IF S = Node THEN "fetchSignals" ELSE "serverCleanup"
            /\ proc' = [proc EXCEPT !.defaults = FetchAndStoreDefaults(S)]
            /\ UNCHANGED <<file, persisted, found, starts>>
    BY <1>3 DEF FetchResources
  <2>2. /\ FetchAndStoreDefaults(S) \in [Node -> Value \cup {Original, None}]
        /\ \A n \in Node : FetchAndStoreDefaults(S)[n] = IF n \in S THEN file[n] ELSE None
    BY DEF FetchAndStoreDefaults, ShapeInv
  <2>3. file = found /\ proc.consumer = "none"
    BY <2>1 DEF FileInv, ThreadInv, Booting
  <2>4. ShapeInv'
    BY <2>1, <2>2 DEF ShapeInv, Phase, Pooled, Process
  <2>5. ThreadInv'
    BY <2>1 DEF ThreadInv, PoolsOutliveUsers, Listening, Booting, Unheard, Pooled,
                Deaf, Settled, Restored, ShapeInv, Process
  <2>6. FileInv'
    <3>1. proc'.defaults = FetchAndStoreDefaults(S) /\ proc'.consumer = "none"
      BY <2>1, <2>3 DEF ShapeInv, Process
    <3>2. S = Node => FetchAndStoreDefaults(S) = found
      BY <2>2, <2>3 DEF ShapeInv, FetchAndStoreDefaults
    <3> QED BY <2>1, <2>2, <2>3, <3>1, <3>2 DEF FileInv, Stored, Restored
  <2> QED BY <2>4, <2>5, <2>6
<1>4. CASE StartConsumer
  <2>1. ShapeInv'
    BY <1>4 DEF StartConsumer, ShapeInv, Phase, Pooled, Process
  <2>2. ThreadInv'
    BY <1>4 DEF StartConsumer, ThreadInv, PoolsOutliveUsers, Listening, Booting, Unheard, Pooled,
                Deaf, Settled, Restored, ShapeInv, Process
  <2>3. FileInv'
    BY <1>4 DEF StartConsumer, FileInv, Stored, Restored, ShapeInv, Process
  <2> QED BY <2>1, <2>2, <2>3
<1>5. ASSUME NEW d \in {"pulseMonitor", "garbageCollector"}, NEW to, StartDaemon(d, to),
             d = "pulseMonitor" => to = "garbageCollector",
             d = "garbageCollector" => to = "listener"
      PROVE  ServerInv'
  <2>1. ShapeInv'
    BY <1>5 DEF StartDaemon, ShapeInv, Phase, Pooled, Process
  <2>2. ThreadInv'
    BY <1>5 DEF StartDaemon, ThreadInv, PoolsOutliveUsers, Listening, Booting, Unheard, Pooled,
                Deaf, Settled, Restored, ShapeInv, Process
  <2>3. FileInv'
    BY <1>5 DEF StartDaemon, FileInv, Stored, Restored, ShapeInv, Process
  <2> QED BY <2>1, <2>2, <2>3
<1>6. CASE StartListener \/ StartClassifier
  <2>1. ShapeInv'
    BY <1>6 DEF StartListener, StartClassifier, ShapeInv, Phase, Pooled, Process
  <2>2. ThreadInv'
    BY <1>6 DEF StartListener, StartClassifier, ThreadInv, PoolsOutliveUsers, Listening, Booting, Unheard,
                Pooled, Deaf, Settled, Restored, ShapeInv, Process
  <2>3. FileInv'
    BY <1>6 DEF StartListener, StartClassifier, FileInv, Stored, Restored, ShapeInv, Process
  <2> QED BY <2>1, <2>2, <2>3
<1> QED BY <1>1, <1>2, <1>3, <1>4, <1>5, <1>6

\* A step of init fails.
LEMMA InitFailsInv ==
    ASSUME ServerInv, InitFails
    PROVE  ServerInv'
<1>1. PICK left \in {{}, {"requests"}} :
          /\ phase \in CanFail /\ phase' = "serverCleanup"
          /\ proc' = [proc EXCEPT !.pools = IF phase = "preAllocateWorkers" THEN left ELSE @,
                                  !.classifier = IF phase = "classifier" THEN "idle" ELSE @]
          /\ UNCHANGED <<file, persisted, found, starts>>
  BY DEF InitFails, Main
<1>2. /\ proc' \in Process
      /\ proc'.pools = IF phase = "preAllocateWorkers" THEN left ELSE proc.pools
      /\ UNCHANGED <<proc.listener, proc.consumer, proc.daemons, proc.timers, proc.tasks,
                     proc.defaults>>
  BY <1>1 DEF ServerInv, ShapeInv, Process
<1>3. ShapeInv'
  BY <1>1, <1>2 DEF ServerInv, ShapeInv, Phase
<1>4. ThreadInv'
  BY <1>1, <1>2 DEF ServerInv, ThreadInv, PoolsOutliveUsers, Listening, Booting, Unheard, Pooled, Deaf,
                    Settled, Restored
<1>5. FileInv'
  BY <1>1, <1>2 DEF ServerInv, FileInv, CanFail, Stored, Restored
<1> QED BY <1>3, <1>4, <1>5 DEF ServerInv

\* The end of main.
LEMMA TearInv ==
    ASSUME ServerInv,
           \/ EndOfLoop \/ ServerCleanup \/ JoinListener \/ ForcefulAwake \/ JoinConsumer
           \/ RestoreDefaults \/ StopDaemons \/ DeleteRequestPool \/ DeleteTimerPool
           \/ TerminateClassifier
    PROVE  ServerInv'
<1> USE DEF ServerInv, Main
<1>1. CASE EndOfLoop \/ JoinListener \/ JoinConsumer
  <2>1. ShapeInv'
    BY <1>1 DEF EndOfLoop, JoinListener, JoinConsumer, ShapeInv, Phase, Deaf, Settled
  <2>2. ThreadInv'
    BY <1>1 DEF EndOfLoop, JoinListener, JoinConsumer, ThreadInv, PoolsOutliveUsers, Listening, Booting,
                Unheard, Pooled, Deaf, Settled, Restored
  <2>3. FileInv'
    BY <1>1 DEF EndOfLoop, JoinListener, JoinConsumer, FileInv, Stored, Restored
  <2> QED BY <2>1, <2>2, <2>3
<1>2. CASE ServerCleanup \/ ForcefulAwake \/ StopDaemons
  <2>1. proc' \in Process
    <3>1. CASE ServerCleanup
      BY <3>1 DEF ServerCleanup, ShapeInv, Process
    <3>3. CASE StopDaemons
      BY <3>3 DEF StopDaemons, ShapeInv, Process
    <3>2. CASE ForcefulAwake
      <4> DEFINE q == IF proc.consumer = "none" THEN proc.queue ELSE proc.queue \cup {Cleanup}
      <4>1. q \subseteq Messages
        <5>1. Cleanup \in Messages
          BY DEF Messages
        <5>2. proc.queue \subseteq Messages
          BY DEF ShapeInv, Process
        <5> QED BY <5>1, <5>2
      <4>2. proc' = [proc EXCEPT !.queue = q]
        BY <3>2 DEF ForcefulAwake
      <4> HIDE DEF q
      <4> QED BY <4>1, <4>2 DEF ShapeInv, Process
    <3> QED BY <1>2, <3>1, <3>2, <3>3
  <2>2. ShapeInv'
    BY <1>2, <2>1 DEF ServerCleanup, ForcefulAwake, StopDaemons, ShapeInv, Phase, Deaf, Settled,
                      Restored
  <2>3. ThreadInv'
    BY <1>2 DEF ServerCleanup, ForcefulAwake, StopDaemons, ThreadInv, PoolsOutliveUsers, Listening, Booting,
                Unheard, Pooled, Deaf, Settled, Restored, ShapeInv, Process
  <2>4. FileInv'
    BY <1>2 DEF ServerCleanup, ForcefulAwake, StopDaemons, FileInv, Stored, Restored,
                ShapeInv, Process
  <2> QED BY <2>2, <2>3, <2>4
<1>3. CASE RestoreDefaults
  <2>1. /\ phase = "restoreDefaults" /\ phase' = "stopDaemons"
        /\ UNCHANGED <<proc, persisted, found, starts>>
        /\ file' = [n \in Node |-> IF proc.defaults[n] = None THEN file[n] ELSE proc.defaults[n]]
    BY <1>3 DEF RestoreDefaults
  <2>2. file' = found
    <3>1. CASE proc.consumer = "none"
      BY <2>1, <3>1 DEF FileInv, ShapeInv
    <3>2. CASE proc.consumer # "none"
      BY <2>1, <3>2, ServerAssumption DEF FileInv, ShapeInv
    <3> QED BY <3>1, <3>2
  <2>3. ShapeInv'
    BY <2>1, <2>2 DEF ShapeInv, Phase, Deaf, Settled, Restored
  <2>4. ThreadInv'
    BY <2>1 DEF ThreadInv, PoolsOutliveUsers, Listening, Booting, Unheard, Pooled, Deaf, Settled, Restored
  <2>5. FileInv'
    BY <2>1, <2>2 DEF FileInv, Stored
  <2> QED BY <2>3, <2>4, <2>5
<1>4. CASE DeleteRequestPool \/ DeleteTimerPool
  <2>0. /\ proc' \in Process
        /\ UNCHANGED <<proc.listener, proc.consumer, proc.daemons, proc.timers>>
    <3>1. CASE DeleteRequestPool
      BY <3>1 DEF DeleteRequestPool, ShapeInv, Process
    <3>2. CASE DeleteTimerPool
      BY <3>2 DEF DeleteTimerPool, ShapeInv, Process
    <3> QED BY <1>4, <3>1, <3>2
  <2>1. ShapeInv'
    BY <1>4, <2>0 DEF DeleteRequestPool, DeleteTimerPool, ShapeInv, Phase, Deaf, Settled, Restored
  <2>4. \/ proc'.tasks = {} /\ proc'.pools = proc.pools \ {"requests"}
        \/ /\ proc'.tasks = proc.tasks /\ proc'.pools = proc.pools \ {"timers"}
           /\ proc.daemons = {} /\ proc.timers = {}
    BY <1>4 DEF DeleteRequestPool, DeleteTimerPool, ShapeInv, Process
  <2>5. phase \in Settled /\ phase' \in Settled
    BY <1>4 DEF DeleteRequestPool, DeleteTimerPool, Settled, Restored
  <2>6. PoolsOutliveUsers'
    BY <2>0, <2>4, <2>5 DEF PoolsOutliveUsers, Listening, ThreadInv, Deaf
  <2>2. ThreadInv'
    BY <2>0, <2>5, <2>6 DEF ThreadInv, Booting, Unheard, Pooled, Deaf, Listening, Settled, Restored
  <2>3. FileInv'
    BY <1>4 DEF DeleteRequestPool, DeleteTimerPool, FileInv, Stored, Restored, ShapeInv, Process
  <2> QED BY <2>1, <2>2, <2>3
<1>5. CASE TerminateClassifier
  <2>1. ShapeInv'
    BY <1>5 DEF TerminateClassifier, ShapeInv, Phase, Deaf, Settled, Restored, Process
  <2>2. ThreadInv'
    BY <1>5 DEF TerminateClassifier, ThreadInv, PoolsOutliveUsers, Listening, Booting,
                Unheard, Pooled, Deaf, Settled, Restored, ShapeInv, Process
  <2>3. FileInv'
    BY <1>5 DEF TerminateClassifier, FileInv, Stored, Restored, ShapeInv, Process
  <2> QED BY <2>1, <2>2, <2>3
<1> QED BY <1>1, <1>2, <1>3, <1>4, <1>5

\* The process starts or dies.
LEMMA StartInv ==
    ASSUME ServerInv, Start \/ Crash
    PROVE  ServerInv'
<1> USE DEF ServerInv
<1>1. /\ proc' = NewProcess /\ phase' \in {"off", "restoreToSafeState"}
      /\ phase' # "off" => found' = file
      /\ found' \in {found, file}
      /\ starts' \in 0 .. MaxStarts
      /\ UNCHANGED <<file, persisted>>
  BY ServerAssumption DEF Start, Crash, ShapeInv
<1>2. ShapeInv'
  BY <1>1 DEF ShapeInv, Phase, Booting, Process, NewProcess, NoValues
<1>3. ThreadInv'
  BY <1>1 DEF ThreadInv, PoolsOutliveUsers, Listening, Pooled, Deaf, Settled, Restored, NewProcess
<1>4. FileInv'
  BY <1>1 DEF FileInv, Stored, Restored, NewProcess, NoValues
<1> QED BY <1>2, <1>3, <1>4

\* A step of the listener, the pools, the classifier or a daemon.
LEMMA ThreadStepInv ==
    ASSUME ServerInv,
           \/ Accept \/ Receive \/ HangUp \/ ListenerEnds \/ ListenerFails
           \/ ClassifierSubmits \/ ClassifierEnds \/ DaemonEnds
           \/ \E m \in Messages : RunTask(m)
           \/ \E n \in Node : TimerExpires(n)
           \/ Signal \/ ConsumerTests \/ ConsumerWakes
    PROVE  ServerInv'
<1> USE DEF ServerInv, Thread
<1>0. \A n \in Node, v \in Value \cup {None}, t \in BOOLEAN : Tune(n, v, t) \in Messages
  BY DEF Messages
<1>1. CASE Receive
  <2>0. PICK n \in Node, v \in Value, t \in BOOLEAN :
            proc' = [proc EXCEPT !.listener = "up", !.tasks = @ \cup {Tune(n, v, t)},
                                 !.sent = @ + 1]
    BY <1>1 DEF Receive
  <2>1. ShapeInv'
    <3>1. proc' \in Process
      <4>1. proc.tasks \cup {Tune(n, v, t)} \in SUBSET Messages /\ proc.sent + 1 \in Nat
        BY <1>0 DEF ShapeInv, Process
      <4> QED BY <2>0, <4>1 DEF ShapeInv, Process
    <3> QED BY <1>1, <3>1 DEF Receive, ShapeInv
  <2>2. ThreadInv'
    BY ZenonT(60), <1>1 DEF Receive, ThreadInv, PoolsOutliveUsers, Listening, Unheard, ShapeInv, Process
  <2>3. FileInv'
    BY ZenonT(60), <1>1 DEF Receive, FileInv, ShapeInv, Process
  <2> QED BY <2>1, <2>2, <2>3
<1>2. CASE \/ Accept \/ HangUp \/ ListenerEnds \/ ListenerFails
           \/ DaemonEnds \/ ClassifierEnds \/ Signal
  <2>1. ShapeInv'
    <3>1. CASE Accept \/ HangUp \/ ListenerEnds \/ ListenerFails
      BY <3>1 DEF Accept, HangUp, ListenerEnds, ListenerFails, ShapeInv, Process
    <3>2. CASE DaemonEnds
      BY <3>2 DEF DaemonEnds, ShapeInv, Process
    <3>3. CASE ClassifierEnds
      BY <3>3 DEF ClassifierEnds, ShapeInv, Process
    <3>4. CASE Signal
      BY <3>4 DEF Signal, ShapeInv, Process
    <3> QED BY <1>2, <3>1, <3>2, <3>3, <3>4
  <2>2. ThreadInv'
    BY <1>2 DEF Accept, HangUp, ListenerEnds, ListenerFails, DaemonEnds, ClassifierEnds, Signal,
                ThreadInv, PoolsOutliveUsers, Listening, ShapeInv, Process
  <2>3. FileInv'
    BY <1>2 DEF Accept, HangUp, ListenerEnds, ListenerFails, DaemonEnds, ClassifierEnds, Signal,
                FileInv, ShapeInv, Process
  <2> QED BY <2>1, <2>2, <2>3
<1>3. CASE ClassifierSubmits
  <2>0. \A n \in Node, v \in Value : Tune(n, v, FALSE) \in Messages
    BY <1>0, Zenon
  <2>m. PICK m \in Messages : proc' = [proc EXCEPT !.queue = @ \cup {m}, !.sent = @ + 1]
    BY <1>3, <2>0, Zenon DEF ClassifierSubmits
  <2>1. ShapeInv'
    <3>1. proc' \in Process
      <4>1. proc.queue \cup {m} \in SUBSET Messages /\ proc.sent + 1 \in Nat
        BY DEF ShapeInv, Process
      <4> QED BY <2>m, <4>1 DEF ShapeInv, Process
    <3> QED BY <1>3, <3>1 DEF ClassifierSubmits, ShapeInv
  <2>2. ThreadInv'
    BY ZenonT(60), <1>3 DEF ClassifierSubmits, ThreadInv, PoolsOutliveUsers, Listening, ShapeInv, Process
  <2>3. FileInv'
    BY ZenonT(60), <1>3 DEF ClassifierSubmits, FileInv, ShapeInv, Process
  <2> QED BY <2>1, <2>2, <2>3
<1>4. ASSUME NEW m \in Messages, RunTask(m) PROVE ServerInv'
  <2>1. ShapeInv'
    BY <1>4 DEF RunTask, ShapeInv, Process
  <2>2. ThreadInv'
    BY <1>4 DEF RunTask, ThreadInv, PoolsOutliveUsers, Listening, ShapeInv, Process
  <2>3. FileInv'
    BY <1>4 DEF RunTask, FileInv, ShapeInv, Process
  <2> QED BY <2>1, <2>2, <2>3
<1>5. ASSUME NEW n \in Node, TimerExpires(n) PROVE ServerInv'
  <2>1. ShapeInv'
    <3>1. Untune(n) \in Messages
      BY <1>0 DEF Untune
    <3> QED BY <1>5, <3>1 DEF TimerExpires, ShapeInv, Process
  <2>2. ThreadInv'
    BY <1>5 DEF TimerExpires, ThreadInv, PoolsOutliveUsers, Listening, ShapeInv, Process
  <2>3. FileInv'
    BY <1>5 DEF TimerExpires, FileInv, ShapeInv, Process
  <2> QED BY <2>1, <2>2, <2>3
<1>6. CASE ConsumerTests \/ ConsumerWakes
  <2>1. ShapeInv'
    BY <1>6 DEF ConsumerTests, ConsumerWakes, ShapeInv, Process
  <2>2. ThreadInv'
    BY <1>6 DEF ConsumerTests, ConsumerWakes, ThreadInv, PoolsOutliveUsers, Listening, ShapeInv, Process
  <2>3. FileInv'
    BY <1>6 DEF ConsumerTests, ConsumerWakes, FileInv, ShapeInv, Process
  <2> QED BY <2>1, <2>2, <2>3
<1> QED BY <1>1, <1>2, <1>3, <1>4, <1>5, <1>6

\* The consumer serves a message; only now may a node change.
LEMMA ConsumerServesInv ==
    ASSUME ServerInv, NEW m \in Messages, ConsumerServes(m)
    PROVE  ServerInv'
<1>1. /\ proc.consumer = "hook" /\ proc.defaults = found
      /\ phase \notin Settled /\ "timers" \in proc.pools
      /\ phase \notin Booting \cup {"off"}
  BY DEF ConsumerServes, ServerInv, FileInv, ThreadInv, PoolsOutliveUsers
<1>2. /\ proc' = [proc EXCEPT
                    !.queue = @ \ {m},
                    !.consumer = IF m = Cleanup \/ proc.queue = {m} THEN "test" ELSE @,
                    !.timers = IF m.timed THEN @ \cup {m.node} ELSE @]
      /\ UNCHANGED <<phase, persisted, found, starts>>
      /\ file' = IF m = Cleanup THEN file
                 ELSE [file EXCEPT ![m.node] = IF m.val = None THEN proc.defaults[m.node] ELSE m.val]
  BY DEF ConsumerServes, Thread
<1>3. /\ proc' \in Process /\ proc'.consumer \in {"hook", "test"}
      /\ UNCHANGED <<proc.listener, proc.daemons, proc.pools, proc.tasks, proc.defaults>>
  BY ZenonT(60), <1>1, <1>2, MessageFields DEF ServerInv, ShapeInv, Process
<1>4. file' \in [Node -> Value \cup {Original}]
  BY <1>1, <1>2, MessageFields DEF ServerInv, ShapeInv
<1>5. ShapeInv'
  BY <1>2, <1>3, <1>4 DEF ServerInv, ShapeInv
<1>6. ThreadInv'
  BY <1>1, <1>2, <1>3 DEF ServerInv, ThreadInv, PoolsOutliveUsers, Listening
<1>7. FileInv'
  BY <1>1, <1>2, <1>3 DEF ServerInv, FileInv, Settled
<1> QED BY <1>5, <1>6, <1>7 DEF ServerInv

LEMMA ServerStep == ServerInv /\ [Next]_vars => ServerInv'
<1> SUFFICES ASSUME ServerInv, [Next]_vars PROVE ServerInv'
  OBVIOUS
<1>1. CASE UNCHANGED vars
  BY <1>1 DEF vars, ServerInv, ShapeInv, ThreadInv, FileInv, PoolsOutliveUsers, Listening
<1>2. CASE MainStep
  <2>1. CASE \/ FetchProperties \/ FetchTargetInfo \/ FetchInitInfo \/ FetchSignals
             \/ FetchPerAppConfigs \/ FetchExtFeatureConfigs
    BY <2>1, FetchInv DEF FetchProperties, FetchTargetInfo, FetchInitInfo, FetchSignals,
                          FetchPerAppConfigs, FetchExtFeatureConfigs
  <2> QED BY <1>2, <2>1, BootInv, TearInv DEF MainStep
<1> QED BY <1>1, <1>2, InitFailsInv, StartInv, ThreadStepInv, ConsumerServesInv DEF Next, Consumer

LEMMA ServerInvariant == Spec => []ServerInv
BY InitServer, ServerStep, PTL DEF Spec

\* The state keeps its shape; in particular no node is ever given the value that
\* stands for a missing default.
THEOREM ServerTypeCorrect == Spec => []TypeOK
<1>1. ServerInv => TypeOK
  BY DEF ServerInv, ShapeInv, Process, TypeOK
<1> QED BY <1>1, ServerInvariant, PTL

\* When main returns, every node holds what it held when the process started,
\* whatever step of the initialisation failed and whatever the threads did between
\* the signal and their end.
THEOREM AlwaysRestoredAtExit == Spec => []RestoredAtExit
<1>1. ServerInv => RestoredAtExit
  BY DEF ServerInv, FileInv, Restored, RestoredAtExit
<1> QED BY <1>1, ServerInvariant, PTL

\* No thread that uses a pool outlives it.
THEOREM PoolsAlwaysOutliveUsers == Spec => []PoolsOutliveUsers
<1>1. ServerInv => PoolsOutliveUsers
  BY DEF ServerInv, ThreadInv
<1> QED BY <1>1, ServerInvariant, PTL
============================================================================
