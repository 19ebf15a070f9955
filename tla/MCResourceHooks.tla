-------------------------- MODULE MCResourceHooks --------------------------
(* Instances of ResourceHooks: machines with two clusters, and requests for  *)
(* every resource.                                                           *)
EXTENDS ResourceHooks

Machine(cpufreq, policies, cluster, capacity) ==
    [cpufreq |-> cpufreq, policies |-> policies, cluster |-> cluster, capacity |-> capacity,
     online |-> <<<<0, Cardinality(DOMAIN cluster) - 1>>>>]

Policy0(cpus) == [id |-> 0, cpus |-> cpus]

FourCpus == [c \in 0 .. 3 |-> IF c < 2 THEN 0 ELSE 2]

\* Little cores first, the big core first, equal clusters known by cluster_id
\* only, and a machine without cpufreq.
MCMachines ==
    {Machine(TRUE, {Policy0(<<0, 1>>), [id |-> 2, cpus |-> <<2, 3>>]}, FourCpus, [c \in 0 .. 3 |-> 1 + c \div 2]),
     Machine(TRUE, {Policy0(<<0>>), [id |-> 1, cpus |-> <<2, 1>>]}, [c \in 0 .. 2 |-> IF c = 0 THEN 0 ELSE 1],
             [c \in 0 .. 2 |-> IF c = 0 THEN 2 ELSE 1]),
     Machine(TRUE, {}, FourCpus, [c \in 0 .. 3 |-> 1]),
     Machine(FALSE, {}, FourCpus, [c \in 0 .. 3 |-> 1])}

Req(id, res, cluster, core, vals) ==
    [id |-> id, res |-> res, cluster |-> cluster, core |-> core, vals |-> vals, level |-> "system"]

MCRequests ==
    {Req(1, "dma_latency", 0, 0, <<5>>), Req(2, "dma_latency", 0, 0, <<4>>),
     Req(3, "energy_aware", 0, 0, <<1>>),
     Req(4, "max_freq", 0, 0, <<7>>), Req(5, "max_freq", 0, 0, <<8>>), Req(6, "max_freq", 1, 0, <<7>>),
     Req(7, "pm_qos", 0, 0, <<3>>), Req(8, "pm_qos", 1, 0, <<2>>),
     Req(9, "pm_qos_core", 0, 0, <<6>>), Req(10, "pm_qos_core", 1, 0, <<7>>),
     Req(11, "pm_qos_core", 0, 2, <<5>>), Req(12, "pm_qos_core", 1, 1, <<4>>),
     Req(13, "move_pid", 0, 0, <<1, 11>>), Req(14, "move_pid", 0, 0, <<2, 11, 12>>),
     Req(15, "move_tid", 0, 0, <<1, 21>>),
     Req(16, "run_cores", 0, 0, <<1, 0, 1>>), Req(17, "run_cores_excl", 0, 0, <<1, 1>>),
     Req(18, "run_cores_excl", 0, 0, <<2, 1>>),
     Req(19, "limit_cpu_time", 0, 0, <<1, 50, 100>>), Req(20, "limit_cpu_time", 0, 0, <<1, 60, 100>>),
     Req(21, "cpu_weight", 0, 0, <<1, 9>>), Req(22, "cpu_weight", 0, 0, <<8, 3>>),
     [Req(23, "cpu_weight", 0, 0, <<1, 7>>) EXCEPT !.level = "third_party"]}

Requests(ids) == {r \in MCRequests : r.id \in ids}

Group(reqs, separate, a, b, c) ==
    [requests |-> reqs, separate |-> separate, home |-> (11 :> a @@ 12 :> b @@ 21 :> c)]

\* Clients that keep apart, and clients that share the nodes of cores, of
\* cgroups, or processes.  Cgroup 0 is the root, 7 is not the server's.
MCClients ==
    {Group(MCRequests, TRUE, 0, 7, 7)} \cup
    {Group(Requests(ids), FALSE, 0, 7, 7) :
        ids \in {7 .. 12, {13, 14}, {16, 17, 21, 22, 23}, {3, 4, 5, 15, 19}}} \cup
    {Group(Requests({13, 14}), TRUE, 7, 0, 0)}

\* The loops over the processes of a move, iteration by iteration.
MoveLoop(c, s) ==
    FoldLeft(LAMBDA t, pid :
                LET p == Path(c.res, pid)
                    seen == p \in DOMAIN t.file /\ t.file[p] # <<Root>>
                    u == [t EXCEPT !.defaults = [q \in DOMAIN @ \cup (IF seen THEN {p} ELSE {}) |->
                                                    IF q = p /\ seen THEN t.file[p] ELSE @[q]]]
                IN  Write(u, {p}, <<c.vals[1]>>),
             s, Tail(c.vals))

ReturnLoop(c, s) ==
    FoldLeft(LAMBDA t, pid :
                LET p == Path(c.res, pid)
                    home == GetDefaultValue(t, p)
                    u == Write(t, {p}, IF home = Empty THEN <<Root>> ELSE home)
                IN  [u EXCEPT !.defaults = [q \in DOMAIN @ \ {p} |-> @[q]]],
             s, Tail(c.vals))

\* Moved and Returned are what the loops leave, for moves of up to three
\* processes, repeated ones and one that does not exist among them.
LoopStates ==
    LET pids == {Path("move_pid", q) : q \in {11, 12}}
    IN  {[file |-> f, defaults |-> d, server |-> "up"] :
            f \in [pids -> {<<0>>, <<7>>}], d \in UNION {[q -> {<<7>>, <<2>>}] : q \in SUBSET pids}}
ASSUME LoopsAssumption ==
    \A n \in 0 .. 3 : \A pids \in [1 .. n -> {11, 12, 13}] :
        LET c == Req(1, "move_pid", 0, 0, <<1>> \o pids)
        IN  \A s \in LoopStates : Moved(c, s) = MoveLoop(c, s) /\ Returned(c, s) = ReturnLoop(c, s)
============================================================================
