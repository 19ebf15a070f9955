--------------------------- MODULE TargetRegistry ---------------------------
(***************************************************************************)
(* How the server learns the CPUs of its machine (TargetRegistry.cpp) and  *)
(* turns the logical clusters and cores of a request into physical ones.   *)
(*                                                                         *)
(* A machine m has                                                         *)
(*   m.cpufreq   whether /sys/devices/system/cpu/cpufreq exists,           *)
(*   m.policies  its policy directories: a number, the related CPUs,       *)
(*   m.cluster   topology/cluster_id of every CPU,                         *)
(*   m.capacity  cpu_capacity of every CPU,                                *)
(*   m.online    the ranges <<first, last>> of cpu/online.                 *)
(* A registry has mPhysicalClusters (clusters) and the logical to physical *)
(* mapping (logical, a sequence: logical cluster 0 is its first element).  *)
(***************************************************************************)
EXTENDS Integers, Sequences, SequencesExt, FiniteSetsExt

CpusOf(m) == DOMAIN m.cluster

\* stoi on the tokens between dashes: a range that is a single CPU is lost
\* behind the comma, unless it is the first.
OnlineCpuCount(m) ==
    1 + Max({m.online[1][1]} \cup
            {m.online[i][2] : i \in {j \in DOMAIN m.online : m.online[j][1] < m.online[j][2]}})

\* Directory names are sorted as strings: policy10 precedes policy4.
DirBefore(p, q) ==
    LET digits(n) == IF n < 10 THEN <<n, -1>> ELSE <<n \div 10, n % 10>>
        a == digits(p.id)
        b == digits(q.id)
    IN  a[1] < b[1] \/ (a[1] = b[1] /\ a[2] < b[2])

\* mStartCpu and mNumCpus for a set of CPUs.
ClusterInfo(cpus) == [start |-> Min(cpus), num |-> Cardinality(cpus)]

\* Fault: clusters are numbered in the order of their directories.
PositionIsId(dirs, i) == i - 1

\* The physical id of a cluster: the number of CPUs in the directories before.
PhysicalId(dirs, i) == FoldLeft(LAMBDA n, d : n + Len(d.cpus), 0, SubSeq(dirs, 1, i - 1))

\* By capacity of the first CPU listed, then by physical id.
GeneratePolicyBasedMapping(m) ==
    LET dirs == SetToSortSeq(m.policies, DirBefore)
        Id(i) == PhysicalId(dirs, i)
        Capacity(i) == m.capacity[dirs[i].cpus[1]]
        order == SetToSortSeq(DOMAIN dirs, LAMBDA i, j :
                     Capacity(i) < Capacity(j) \/ (Capacity(i) = Capacity(j) /\ Id(i) < Id(j)))
    IN  [clusters |-> [k \in {Id(i) : i \in DOMAIN dirs} |->
                          ClusterInfo(ToSet(dirs[CHOOSE i \in DOMAIN dirs : Id(i) = k].cpus))],
         logical |-> [n \in DOMAIN order |-> Id(order[n])]]

\* By capacity of the first CPU; clusters that tie are in the order of their
\* pointers, which may be any.
ClusterIdBasedMappings(m) ==
    LET ids == Range(m.cluster)
        info == [k \in ids |-> ClusterInfo({c \in CpusOf(m) : m.cluster[c] = k})]
        sorted == {s \in SetToSeqs(ids) :
                     \A i, j \in DOMAIN s :
                        i < j => m.capacity[info[s[i]].start] <= m.capacity[info[s[j]].start]}
    IN  {[clusters |-> info, logical |-> s] : s \in sorted}

\* readTargetInfo: the registries it may end with.  The fall-back to cluster_id
\* is for an empty cpufreq directory; without the directory nothing is read.
ReadTargetInfo(m) ==
    IF ~m.cpufreq THEN {[clusters |-> <<>>, logical |-> <<>>]}
    ELSE IF m.policies # {} THEN {GeneratePolicyBasedMapping(m)}
    ELSE ClusterIdBasedMappings(m)

Unmapped == -1

GetPhysicalClusterId(reg, cluster) ==
    IF cluster + 1 \in DOMAIN reg.logical THEN reg.logical[cluster + 1] ELSE Unmapped

\* The n-th core of a logical cluster.
GetPhysicalCoreId(reg, cluster, n) ==
    LET physical == GetPhysicalClusterId(reg, cluster)
    IN  IF DOMAIN reg.clusters = {} THEN n
        ELSE IF physical = Unmapped \/ n \notin 1 .. reg.clusters[physical].num THEN Unmapped
        ELSE reg.clusters[physical].start + n - 1

\* The CPUs mStartCpu, ... of a physical cluster.
CpusIn(reg, physical) ==
    LET info == reg.clusters[physical] IN info.start .. info.start + info.num - 1

\* performPhysicalMapping: the set holds the physical core and cluster, or
\* nothing if the request is refused.  Core 0 stands for all cores.
PerformPhysicalMapping(reg, core, cluster) ==
    LET physical == GetPhysicalClusterId(reg, cluster)
        cpu == IF core = 0 THEN 0 ELSE GetPhysicalCoreId(reg, cluster, core)
    IN  IF Unmapped \in {physical, cpu} THEN {} ELSE {<<cpu, physical>>}

\* TranslateToPhysicalIDs for a configuration of a resource of the given
\* ApplyType.
TranslateToPhysicalIDs(reg, type, c) ==
    CASE type = "core" /\ c.core >= 0 /\ c.cluster >= 0 ->
            {[c EXCEPT !.core = p[1], !.cluster = p[2]] :
                p \in PerformPhysicalMapping(reg, c.core, c.cluster)}
      [] type = "cluster" /\ GetPhysicalClusterId(reg, c.cluster) # Unmapped ->
            {[c EXCEPT !.cluster = GetPhysicalClusterId(reg, c.cluster)]}
      [] type \in {"cgroup", "global"} -> {c}
      [] OTHER -> {}
============================================================================
