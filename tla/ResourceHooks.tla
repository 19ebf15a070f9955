---------------------------- MODULE ResourceHooks ----------------------------
(***************************************************************************)
(* What a granted configuration does to the files of the machine: the      *)
(* logical to physical translation of the request handler, the lists of    *)
(* the coordinator per core, cluster and cgroup, and the callbacks of      *)
(* ResourceHooks.cpp that write and reset nodes, with the defaults the     *)
(* resource registry keeps.                                                *)
(*                                                                         *)
(* Requests have one configuration and one priority; CocoTable has the     *)
(* other levels.  A file is named by its kind and its core, cluster or     *)
(* cgroup and holds a sequence of numbers or words; the cgroup of a        *)
(* process or thread, which the kernel shows in /proc, counts as a file.   *)
(***************************************************************************)
EXTENDS TargetRegistry

CONSTANTS
    Machines,   \* the machines the server may start on
    CGroups,    \* ids of the cgroups of InitConfig.yaml
    Processes, Threads,
    Clients,    \* groups of clients: the configurations they may ask for, the
                \* cgroups their processes and threads are in, and whether they
                \* keep off each other's nodes
    MaxGranted  \* bound: configurations granted at a time

ASSUME HooksAssumption ==
    /\ CGroups \subseteq Nat \ {0} /\ CGroups # {}
    /\ MaxGranted \in Nat

VARIABLES
    machine,    \* the machine
    reg,        \* the target registry
    sys,        \* files, mDefaultValueStore and the state of the server
    lists,      \* lists[<<r, i>>]: the list of resource r for core, ... i
    granted,    \* translated configurations in effect or in a list
    clients     \* the group of clients

vars == <<machine, reg, sys, lists, granted, clients>>

Root == 0
Empty == <<>>

\* Resources of ResourcesConfig.yaml: one per default callback, and those with
\* callbacks of their own.
Conf ==
    LET conf(type, policy, system, unit) ==
            [type |-> type, policy |-> policy, system |-> system, unit |-> unit]
    IN  [dma_latency     |-> conf("global",  "lower_is_better",  FALSE, 1),
         energy_aware    |-> conf("global",  "pass_through",     FALSE, 1),
         max_freq        |-> conf("cluster", "higher_is_better", FALSE, 1000),
         pm_qos          |-> conf("cluster", "lower_is_better",  FALSE, 1),
         pm_qos_core     |-> conf("core",    "lower_is_better",  FALSE, 1),
         move_pid        |-> conf("cgroup",  "pass_through",     TRUE, 1),
         move_tid        |-> conf("cgroup",  "pass_through",     TRUE, 1),
         run_cores       |-> conf("cgroup",  "instant_apply",    TRUE, 1),
         run_cores_excl  |-> conf("cgroup",  "instant_apply",    TRUE, 1),
         limit_cpu_time  |-> conf("cgroup",  "higher_is_better", TRUE, 1),
         cpu_weight      |-> conf("cgroup",  "instant_apply",    TRUE, 1)]

Type(c) == Conf[c.res].type
Policy(c) == Conf[c.res].policy

\* A request for one resource.  A cgroup resource has the cgroup as its first
\* value.
Request == [id : Nat, res : DOMAIN Conf, cluster : Int, core : Int, vals : Seq(Int) \ {<<>>},
            level : {"system", "third_party"}]

\* Requests as the documentation of the resources asks for them: as many values
\* as the resource takes, and processes of a configured cgroup, each once.
WellFormed(r) ==
    /\ Type(r) # "cgroup" => Len(r.vals) = 1
    /\ r.res = "cpu_weight" => Len(r.vals) = 2
    /\ r.res = "limit_cpu_time" => Len(r.vals) = 3
    /\ r.res \in {"run_cores", "run_cores_excl"} => Len(r.vals) >= 2
    /\ r.res \in {"move_pid", "move_tid"} =>
          r.vals[1] \in CGroups /\ \A i, j \in 2 .. Len(r.vals) : r.vals[i] = r.vals[j] => i = j

\* Every CPU of a machine is among those its online ranges count; clients that
\* keep off each other's nodes send well-formed requests.
ASSUME MachinesAssumption == \A m \in Machines : CpusOf(m) \subseteq 0 .. OnlineCpuCount(m) - 1
ASSUME ClientsAssumption ==
    \A k \in Clients : /\ k.requests \subseteq Request
                       /\ k.separate \in BOOLEAN
                       /\ k.separate => \A r \in k.requests : WellFormed(r)

\* mResourcePath of a resource, with the placeholder filled in.
Path(r, u) ==
    CASE r \in {"pm_qos", "pm_qos_core"} -> <<"pm_qos_resume_latency_us", u>>
      [] r = "run_cores"                 -> <<"cpuset.cpus", u>>
      [] r = "run_cores_excl"            -> <<"cpuset.cpus.partition", u>>
      [] r = "move_pid"                  -> <<"pid", u>>
      [] r = "move_tid"                  -> <<"tid", u>>
      [] OTHER                           -> <<r, u>>

\* The files there are.
Files(m) ==
    {Path(r, 0) : r \in {"dma_latency", "energy_aware"}}
    \cup {Path("max_freq", p.id) : p \in m.policies}
    \cup {Path("pm_qos_core", c) : c \in CpusOf(m)}
    \cup {Path(r, g) : r \in {"run_cores", "run_cores_excl", "limit_cpu_time", "cpu_weight"}, g \in CGroups}

InProc(p) == p[1] \in {"pid", "tid"}

\* The paths whose content fetchAndStoreDefaults keeps for resource r.
StoredFor(m, rg, r) ==
    CASE Conf[r].type = "global"  -> {Path(r, 0)}
      [] Conf[r].type = "cluster" -> {Path(r, k) : k \in ToSet(rg.logical)}
      [] Conf[r].type = "core"    -> {Path(r, c) : c \in 0 .. OnlineCpuCount(m) - 1}
      [] r \in {"move_pid", "move_tid"} -> {}
      [] OTHER                    -> {Path(r, g) : g \in CGroups}

----------------------------------------------------------------------------
(* Callbacks.  Each maps the state s of files and defaults to the set of    *)
(* states it may leave.                                                     *)

\* A file that does not exist cannot be opened and is not written.
Write(s, paths, val) ==
    [s EXCEPT !.file = [p \in DOMAIN @ |-> IF p \in paths THEN val ELSE @[p]]]

GetDefaultValue(s, p) == IF p \in DOMAIN s.defaults THEN s.defaults[p] ELSE Empty

Reset(s, paths) ==
    [s EXCEPT !.file = [p \in DOMAIN @ |-> IF p \in paths THEN GetDefaultValue(s, p) ELSE @[p]]]

Scaled(c, v) == v * Conf[c.res].unit

\* The nodes of a cluster, core or global resource.
UnitPaths(c) ==
    CASE c.res = "pm_qos"     -> {Path(c.res, k) : k \in CpusIn(reg, c.cluster)}
      [] c.res # "pm_qos" /\ Type(c) = "cluster" -> {Path(c.res, c.cluster)}
      [] Type(c) = "core"     -> {Path(c.res, k) : k \in IF c.core = 0 THEN CpusIn(reg, c.cluster) ELSE {c.core}}
      [] Type(c) = "global"   -> {Path(c.res, 0)}

\* defaultGlobalLevelApplierCb leaves the unit out; no global resource has one.
DefaultApplier(c, s) == {Write(s, UnitPaths(c), <<Scaled(c, c.vals[1])>>)}
DefaultTear(c, s) == {Reset(s, UnitPaths(c))}

\* Every cgroup callback ends early for an id that is not configured.
Known(c) == c.vals[1] \in CGroups
CGroupPath(c) == Path(c.res, c.vals[1])

CGroupApplier(c, s) ==
    {IF Len(c.vals) = 2 /\ Known(c) THEN Write(s, {CGroupPath(c)}, <<Scaled(c, c.vals[2])>>) ELSE s}
CGroupTear(c, s) == {IF Known(c) THEN Reset(s, {CGroupPath(c)}) ELSE s}

SetRunOnCores(c, s) ==
    {IF Len(c.vals) >= 2 /\ Known(c) THEN Write(s, {CGroupPath(c)}, Tail(c.vals)) ELSE s}

SetRunOnCoresExclusively(c, s) ==
    {IF Len(c.vals) >= 2 /\ Known(c)
     THEN Write(Write(s, {Path("run_cores", c.vals[1])}, Tail(c.vals)), {CGroupPath(c)}, <<"isolated">>)
     ELSE s}

ResetRunOnCoresExclusively(c, s) ==
    {IF Len(c.vals) >= 2 /\ Known(c) THEN Reset(s, {Path("run_cores", c.vals[1]), CGroupPath(c)}) ELSE s}

LimitCpuTime(c, s) ==
    {IF Len(c.vals) = 3 /\ Known(c) THEN Write(s, {CGroupPath(c)}, Tail(c.vals)) ELSE s}

\* The processes or threads of a move, and those it names more than once.
Named(c) == {Path(c.res, c.vals[i]) : i \in 2 .. Len(c.vals)}
Repeated(c) ==
    {Path(c.res, c.vals[i]) : i \in {j \in 2 .. Len(c.vals) : \E k \in 2 .. j - 1 : c.vals[k] = c.vals[j]}}

\* Process by process, the cgroup it is in becomes its default, unless there is
\* no such process or it is in the root group, whose path in /proc/<pid>/cgroup
\* is too short to count.  Named again, it is already in the new group.
Moved(c, s) ==
    LET remembered == {p \in Named(c) \cap DOMAIN s.file : p \in Repeated(c) \/ s.file[p] # <<Root>>}
        Home(p) == IF p \in Repeated(c) THEN <<c.vals[1]>> ELSE s.file[p]
    IN  [Write(s, Named(c), <<c.vals[1]>>) EXCEPT !.defaults =
            [p \in DOMAIN @ \cup remembered |-> IF p \in remembered THEN Home(p) ELSE @[p]]]

MoveProcessToCGroup(c, s) == {IF Len(c.vals) >= 2 /\ Known(c) THEN Moved(c, s) ELSE s}

\* Fault: a process always goes back to the root group.
ProcessToRoot(c, s) == {Write(s, Named(c), <<Root>>)}

\* Process by process, back to its default, which is forgotten, or to the root
\* group without one, as when it is named again.
Returned(c, s) ==
    LET Home(p) == IF p \in Repeated(c) \/ GetDefaultValue(s, p) = Empty THEN <<Root>>
                   ELSE GetDefaultValue(s, p)
    IN  [s EXCEPT !.file = [p \in DOMAIN @ |-> IF p \in Named(c) THEN Home(p) ELSE @[p]],
                  !.defaults = [p \in DOMAIN @ \ Named(c) |-> @[p]]]

RemoveProcessFromCGroup(c, s) == {Returned(c, s)}

MoveThreadToCGroup(c, s) ==
    {IF Len(c.vals) >= 2 /\ Known(c) THEN Write(s, Named(c), <<c.vals[1]>>) ELSE s}

\* Thread by thread, the path of the group is computed from the string under
\* construction: it may be the root group, a file that does not exist, or the
\* end of the server.
RemoveThreadFromCGroup(c, s) ==
    LET moved == {Write(s, paths, <<Root>>) : paths \in SUBSET Named(c)}
    IN  moved \cup {[t EXCEPT !.server = "crashed"] : t \in IF Len(c.vals) < 2 THEN {} ELSE moved}

\* Callbacks of setLifeCycleCallbacks, replaced by pluginModifications for the
\* resources that ResourceHooks.cpp registers.
Applied(c, s) ==
    CASE c.res = "move_pid"       -> MoveProcessToCGroup(c, s)
      [] c.res = "move_tid"       -> MoveThreadToCGroup(c, s)
      [] c.res = "run_cores"      -> SetRunOnCores(c, s)
      [] c.res = "run_cores_excl" -> SetRunOnCoresExclusively(c, s)
      [] c.res = "limit_cpu_time" -> LimitCpuTime(c, s)
      [] c.res = "cpu_weight"     -> CGroupApplier(c, s)
      [] OTHER                    -> DefaultApplier(c, s)

Torn(c, s) ==
    CASE c.res = "move_pid"       -> RemoveProcessFromCGroup(c, s)
      [] c.res = "move_tid"       -> RemoveThreadFromCGroup(c, s)
      [] c.res = "run_cores_excl" -> ResetRunOnCoresExclusively(c, s)
      [] OTHER -> IF Type(c) = "cgroup" THEN CGroupTear(c, s) ELSE DefaultTear(c, s)

----------------------------------------------------------------------------
(* The lists, as in CocoTable with one priority. *)

\* getCocoTableSecondaryIndex.  Core 0 is also the index of "all cores", and a
\* cgroup that is not configured gets the index of the first one.
Index(c) ==
    CASE Type(c) = "core"    -> c.core
      [] Type(c) = "cluster" -> c.cluster
      [] Type(c) = "cgroup"  -> IF Known(c) THEN c.vals[1] ELSE Min(CGroups)
      [] OTHER               -> 0

\* Lists exist for the cores counted online.
InTable(c) == Type(c) = "core" => c.core < OnlineCpuCount(machine)

At(c) == <<c.res, Index(c)>>
ListAt(k) == IF k \in DOMAIN lists THEN lists[k] ELSE <<>>
WithList(k, l) ==
    [j \in (DOMAIN lists \ {k}) \cup (IF l = <<>> THEN {} ELSE {k}) |-> IF j = k THEN l ELSE lists[j]]

\* comparHBetter, comparLBetter: the first value, or the second of several.
Rank(c) == IF Len(c.vals) = 1 THEN c.vals[1] ELSE c.vals[2]
Better(c, d) ==
    CASE Policy(c) = "instant_apply"    -> TRUE
      [] Policy(c) = "higher_is_better" -> Rank(c) > Rank(d)
      [] Policy(c) = "lower_is_better"  -> Rank(c) < Rank(d)

Placed(l, c) ==
    LET i == SelectInSeq(l, LAMBDA d : Better(c, d))
    IN  InsertAt(l, IF i = 0 THEN Len(l) + 1 ELSE i, c)

\* The nodes a translated configuration writes.
Nodes(c) ==
    CASE c.res \in {"move_pid", "move_tid"} ->
            IF Known(c) THEN Named(c) ELSE {}
      [] c.res = "run_cores_excl" ->
            IF Known(c) THEN {CGroupPath(c), Path("run_cores", c.vals[1])} ELSE {}
      [] OTHER ->
            IF Type(c) # "cgroup" THEN UnitPaths(c) ELSE IF Known(c) THEN {CGroupPath(c)} ELSE {}

\* c shares no node with a configuration of another list, and all or no nodes
\* with those of its own.
KeepsApart(c) ==
    \A d \in granted :
        IF At(c) = At(d) /\ Policy(c) # "pass_through" THEN Nodes(c) = Nodes(d)
        ELSE Nodes(c) \cap Nodes(d) = {}

----------------------------------------------------------------------------

\* Content of the files before the server writes any.
OriginalOf(p) == <<"original", p[1], p[2], 0>>

Init ==
    /\ machine \in Machines
    /\ reg \in ReadTargetInfo(machine)
    /\ clients \in Clients
    /\ LET file == [p \in Files(machine) |-> OriginalOf(p)]
           proc == [p \in ({Path("move_pid", q) : q \in Processes} \cup
                           {Path("move_tid", q) : q \in Threads}) |-> <<clients.home[p[2]]>>]
           all == [p \in DOMAIN file \cup DOMAIN proc |-> IF InProc(p) THEN proc[p] ELSE file[p]]
           stored == UNION {StoredFor(machine, reg, r) : r \in DOMAIN Conf}
       IN  sys = [file |-> all, original |-> all, server |-> "up",
                  defaults |-> [p \in stored |-> IF p \in DOMAIN all THEN all[p] ELSE Empty]]
    /\ lists = <<>>
    /\ granted = {}

\* VerifyIncomingRequest and the insertion of the one configuration.
VerifyIncomingRequest(r) ==
    IF Conf[r.res].system /\ r.level # "system" THEN {}
    ELSE TranslateToPhysicalIDs(reg, Conf[r.res].type, r)

Insert(r) ==
    /\ sys.server = "up" /\ Cardinality(granted) < MaxGranted
    /\ \A d \in granted : d.id # r.id
    /\ \E c \in VerifyIncomingRequest(r) :
         /\ InTable(c) /\ (clients.separate => KeepsApart(c))
         /\ granted' = granted \cup {c}
         /\ IF Policy(c) = "pass_through"
            THEN sys' \in Applied(c, sys) /\ UNCHANGED lists
            ELSE /\ lists' = WithList(At(c), Placed(ListAt(At(c)), c))
                 /\ IF Head(lists'[At(c)]) = c THEN sys' \in Applied(c, sys) ELSE UNCHANGED sys
    /\ UNCHANGED <<machine, reg, clients>>

\* Fault: the node is reset although others wait.
ResetFirst(c) ==
    LET l == ListAt(At(c)) IN sys' \in Torn(c, sys) /\ lists' = WithList(At(c), RemoveFirst(l, c))

\* The list without the configuration; its nodes are reset when it was the last,
\* and given to the next when it was the head.
Unlist(c) ==
    LET l == ListAt(At(c))
        rest == RemoveFirst(l, c)
    IN  /\ lists' = WithList(At(c), rest)
        /\ CASE rest = <<>>  -> sys' \in Torn(c, sys)
             [] rest # <<>> /\ Head(l) = c -> sys' \in Applied(Head(rest), sys)
             [] OTHER        -> UNCHANGED sys

Withdraw(c) ==
    /\ sys.server = "up" /\ c \in granted
    /\ granted' = granted \ {c}
    /\ IF Policy(c) = "pass_through" THEN sys' \in Torn(c, sys) /\ UNCHANGED lists ELSE Unlist(c)
    /\ UNCHANGED <<machine, reg, clients>>

\* Fault: only nodes that are configured at the moment are restored.
RestoreGranted(s) == Reset(s, UNION {Nodes(c) : c \in granted} \cap DOMAIN s.defaults)

\* restoreResourcesToDefaultValues; /proc/<pid>/cgroup cannot be written.
RestoreResourcesToDefaultValues(s) == Reset(s, {p \in DOMAIN s.defaults : ~InProc(p)})

Stop ==
    /\ sys.server = "up"
    /\ sys' = [RestoreResourcesToDefaultValues(sys) EXCEPT !.server = "stopped"]
    /\ UNCHANGED <<machine, reg, lists, granted, clients>>

Next == (\E r \in clients.requests : Insert(r)) \/ (\E c \in granted : Withdraw(c)) \/ Stop

Spec == Init /\ [][Next]_vars

----------------------------------------------------------------------------
(* Properties. *)

\* Paths resolve: the policy directory that a logical cluster is translated to
\* exists and has the CPUs the registry says; the logical cores of all clusters
\* are the CPUs of the machine, each once; clusters come in the order of their
\* capacities.
MappingSound ==
    LET clusters == 0 .. Len(reg.logical) - 1
        Core(l, n) == GetPhysicalCoreId(reg, l, n)
        Physical(l) == GetPhysicalClusterId(reg, l)
        slots == {s \in clusters \X (1 .. Cardinality(CpusOf(machine))) : Core(s[1], s[2]) # Unmapped}
    IN  clusters # {} =>
        /\ \A l \in clusters : machine.policies # {} =>
              \E p \in machine.policies : p.id = Physical(l) /\ ToSet(p.cpus) = CpusIn(reg, Physical(l))
        /\ {Core(s[1], s[2]) : s \in slots} = CpusOf(machine)
        /\ Cardinality(slots) = Cardinality(CpusOf(machine))
        /\ \A l \in clusters \ {0} :
              machine.capacity[Core(l - 1, 1)] <= machine.capacity[Core(l, 1)]

\* What configuration c leaves in node p when it takes effect.
Effect(c, p) ==
    IF c.res = "run_cores_excl" /\ p = CGroupPath(c) THEN <<"isolated">>
    ELSE IF c.res \in {"run_cores", "run_cores_excl", "limit_cpu_time"} THEN Tail(c.vals)
    ELSE IF InProc(p) THEN <<c.vals[1]>>
    ELSE <<Scaled(c, Rank(c))>>

InEffect(c) == \A p \in Nodes(c) \cap DOMAIN sys.file : sys.file[p] = Effect(c, p)

\* docs/README.md, "Once a request reaches the head of the resource level linked
\* list, it is applied": the heads of all lists and the moved processes are in
\* effect, as long as clients keep off each other's nodes.
HeadsInEffect ==
    clients.separate /\ sys.server = "up" =>
        \A c \in granted : (Policy(c) = "pass_through" \/ c = Head(ListAt(At(c)))) => InEffect(c)

\* With clients that keep off each other's nodes, a node no granted
\* configuration names, and a process none has moved, is back where it was.
SeparateRestored ==
    clients.separate /\ sys.server = "up" =>
        \A p \in DOMAIN sys.file :
            p[1] # "tid" /\ (\A c \in granted : p \notin Nodes(c)) => sys.file[p] = sys.original[p]

\* tear, "Restore all the Resources to Original Values": whatever clients share,
\* an orderly stop leaves the original value in every node.
StopRestores ==
    sys.server = "stopped" => \A p \in DOMAIN sys.file : ~InProc(p) => sys.file[p] = sys.original[p]
============================================================================
