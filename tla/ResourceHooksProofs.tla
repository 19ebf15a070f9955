------------------------- MODULE ResourceHooksProofs -------------------------
(***************************************************************************)
(* StopRestores, HeadsInEffect and SeparateRestored for every machine,     *)
(* every set of cgroups and all requests.                                  *)
(*                                                                         *)
(* IInv holds whatever clients do.  Its core is DefaultsOK: the default of *)
(* a file is its original content, and a file without one was never        *)
(* written, since a granted configuration only writes files that           *)
(* fetchAndStoreDefaults has read (NodeIsStored).  Hence the stop restores *)
(* all of them.                                                            *)
(*                                                                         *)
(* SeparateInv holds while the server is up and its clients keep off each  *)
(* other's nodes.  Two granted configurations have the same nodes when     *)
(* they wait in one list and none in common otherwise, so that the         *)
(* callback of one leaves what another put in effect; a process that is    *)
(* moved has the cgroup it came from as its default, or none if that was   *)
(* the root group.                                                         *)
(***************************************************************************)
EXTENDS ResourceHooks, TLAPS, WellFoundedInduction

\* The resources of ResourcesConfig.yaml that the model has.
LEMMA ConfDomain ==
    DOMAIN Conf = {"dma_latency", "energy_aware", "max_freq", "pm_qos", "pm_qos_core", "move_pid",
                   "move_tid", "run_cores", "run_cores_excl", "limit_cpu_time", "cpu_weight"}
BY DEF Conf

\* Where each resource applies.
LEMMA ConfTypes ==
    /\ Conf["dma_latency"].type = "global" /\ Conf["energy_aware"].type = "global"
    /\ Conf["max_freq"].type = "cluster" /\ Conf["pm_qos"].type = "cluster"
    /\ Conf["pm_qos_core"].type = "core"
    /\ \A r \in {"move_pid", "move_tid", "run_cores", "run_cores_excl", "limit_cpu_time", "cpu_weight"} :
          Conf[r].type = "cgroup"
BY DEF Conf

\* The resources whose configurations never queue in a list.
LEMMA ConfPolicies ==
    /\ \A r \in {"energy_aware", "move_pid", "move_tid"} : Conf[r].policy = "pass_through"
    /\ \A r \in DOMAIN Conf \ {"energy_aware", "move_pid", "move_tid"} : Conf[r].policy # "pass_through"
BY DEF Conf

\* Only a move names a process or a thread.
LEMMA PathShape ==
    ASSUME NEW r \in DOMAIN Conf, NEW u
    PROVE  /\ r = "move_pid" => Path(r, u) = <<"pid", u>>
           /\ r = "move_tid" => Path(r, u) = <<"tid", u>>
           /\ r \notin {"move_pid", "move_tid"} => ~InProc(Path(r, u))
BY ConfDomain DEF Path, InProc

----------------------------------------------------------------------------
(* What the callbacks do to files and defaults. *)

IsSys(s) == DOMAIN s = {"file", "original", "server", "defaults"}

IsConfig(c) == c.res \in DOMAIN Conf /\ c.vals \in Seq(Int) /\ c.vals # <<>>

\* t differs from s in the content of the files P at most, and in the defaults.
SameBut(s, t, P) ==
    /\ IsSys(t)
    /\ t.original = s.original
    /\ DOMAIN t.file = DOMAIN s.file
    /\ \A p \in DOMAIN s.file : p \notin P => t.file[p] = s.file[p]

\* s and t have the same default, or none, for path p.
SameDefault(s, t, p) ==
    /\ p \in DOMAIN t.defaults <=> p \in DOMAIN s.defaults
    /\ p \in DOMAIN s.defaults => t.defaults[p] = s.defaults[p]

\* Writing a value: the named files that exist hold it, nothing else changes.
LEMMA WriteFacts ==
    ASSUME NEW s, NEW P, NEW v, IsSys(s)
    PROVE  /\ SameBut(s, Write(s, P, v), P)
           /\ Write(s, P, v).server = s.server
           /\ Write(s, P, v).defaults = s.defaults
           /\ \A p \in DOMAIN s.file : p \in P => Write(s, P, v).file[p] = v
BY DEF IsSys, SameBut, Write

\* Writing defaults back: the named files hold theirs, nothing else changes.
LEMMA ResetFacts ==
    ASSUME NEW s, NEW P, IsSys(s)
    PROVE  /\ SameBut(s, Reset(s, P), P)
           /\ Reset(s, P).server = s.server
           /\ Reset(s, P).defaults = s.defaults
           /\ \A p \in DOMAIN s.file : p \in P => Reset(s, P).file[p] = GetDefaultValue(s, p)
<1> DEFINE G(p) == GetDefaultValue(s, p)
<1> HIDE DEF G
<1>1. Reset(s, P) = [s EXCEPT !.file = [p \in DOMAIN s.file |-> IF p \in P THEN G(p) ELSE s.file[p]]]
  BY DEF Reset, G
<1>2. /\ SameBut(s, Reset(s, P), P)
      /\ Reset(s, P).server = s.server
      /\ Reset(s, P).defaults = s.defaults
      /\ \A p \in DOMAIN s.file : p \in P => Reset(s, P).file[p] = G(p)
  BY <1>1 DEF IsSys, SameBut
<1> QED BY <1>2 DEF G

\* moveProcessToCGroup: the named processes are in the group, and the group one was
\* in is its default unless that was the root group.
LEMMA MovedFacts ==
    ASSUME NEW s, NEW c, IsSys(s)
    PROVE  /\ SameBut(s, Moved(c, s), Named(c))
           /\ Moved(c, s).server = s.server
           /\ \A p \in DOMAIN s.file : p \in Named(c) => Moved(c, s).file[p] = <<c.vals[1]>>
           /\ \A p : p \notin Named(c) => SameDefault(s, Moved(c, s), p)
           /\ Repeated(c) = {} =>
                \A p \in DOMAIN s.file : p \in Named(c) =>
                    IF s.file[p] = <<Root>> THEN SameDefault(s, Moved(c, s), p)
                    ELSE p \in DOMAIN Moved(c, s).defaults /\ Moved(c, s).defaults[p] = s.file[p]
<1> DEFINE w == Write(s, Named(c), <<c.vals[1]>>)
           D == {p \in Named(c) \cap DOMAIN s.file : p \in Repeated(c) \/ s.file[p] # <<Root>>}
           H(p) == IF p \in Repeated(c) THEN <<c.vals[1]>> ELSE s.file[p]
<1>1. Moved(c, s) = [w EXCEPT !.defaults = [p \in DOMAIN w.defaults \cup D |-> IF p \in D THEN H(p) ELSE w.defaults[p]]]
  BY DEF Moved
<1>2. /\ IsSys(w) /\ w.server = s.server /\ w.defaults = s.defaults
      /\ SameBut(s, w, Named(c))
      /\ \A p \in DOMAIN s.file : p \in Named(c) => w.file[p] = <<c.vals[1]>>
  BY WriteFacts DEF SameBut
<1> HIDE DEF w, H
<1>3. /\ IsSys(Moved(c, s)) /\ Moved(c, s).file = w.file /\ Moved(c, s).server = w.server
      /\ Moved(c, s).original = w.original
      /\ Moved(c, s).defaults = [p \in DOMAIN s.defaults \cup D |-> IF p \in D THEN H(p) ELSE s.defaults[p]]
  BY <1>1, <1>2 DEF IsSys
<1>4. \A p : p \notin Named(c) => SameDefault(s, Moved(c, s), p)
  BY <1>3 DEF SameDefault
<1>5. ASSUME Repeated(c) = {}, NEW p \in DOMAIN s.file, p \in Named(c)
      PROVE  IF s.file[p] = <<Root>> THEN SameDefault(s, Moved(c, s), p)
             ELSE p \in DOMAIN Moved(c, s).defaults /\ Moved(c, s).defaults[p] = s.file[p]
  <2>1. p \in D <=> s.file[p] # <<Root>>
    BY <1>5
  <2>2. H(p) = s.file[p]
    BY <1>5 DEF H
  <2> HIDE DEF D
  <2> QED BY <2>1, <2>2, <1>3 DEF SameDefault
<1> QED BY <1>2, <1>3, <1>4, <1>5 DEF SameBut

\* removeProcessFromCGroup: the named processes are where their defaults say, in the
\* root group without one, and have no default any more.
LEMMA ReturnedFacts ==
    ASSUME NEW s, NEW c, IsSys(s)
    PROVE  /\ SameBut(s, Returned(c, s), Named(c))
           /\ Returned(c, s).server = s.server
           /\ \A p : p \notin Named(c) => SameDefault(s, Returned(c, s), p)
           /\ \A p : p \in Named(c) => p \notin DOMAIN Returned(c, s).defaults
           /\ Repeated(c) = {} =>
                \A p \in DOMAIN s.file : p \in Named(c) =>
                    Returned(c, s).file[p] = IF GetDefaultValue(s, p) = Empty THEN <<Root>>
                                             ELSE GetDefaultValue(s, p)
<1> DEFINE H(p) == IF p \in Repeated(c) \/ GetDefaultValue(s, p) = Empty THEN <<Root>>
                   ELSE GetDefaultValue(s, p)
<1> HIDE DEF H
<1>1. Returned(c, s) = [s EXCEPT !.file = [p \in DOMAIN s.file |-> IF p \in Named(c) THEN H(p) ELSE s.file[p]],
                                 !.defaults = [p \in DOMAIN s.defaults \ Named(c) |-> s.defaults[p]]]
  BY DEF Returned, H
<1>2. /\ IsSys(Returned(c, s)) /\ Returned(c, s).server = s.server
      /\ Returned(c, s).original = s.original
      /\ Returned(c, s).file = [p \in DOMAIN s.file |-> IF p \in Named(c) THEN H(p) ELSE s.file[p]]
      /\ Returned(c, s).defaults = [p \in DOMAIN s.defaults \ Named(c) |-> s.defaults[p]]
  BY <1>1 DEF IsSys
<1>3. Repeated(c) = {} => \A p : H(p) = IF GetDefaultValue(s, p) = Empty THEN <<Root>>
                                        ELSE GetDefaultValue(s, p)
  BY DEF H
<1> QED BY <1>2, <1>3 DEF SameBut, SameDefault

UnitRes == {"dma_latency", "energy_aware", "max_freq", "pm_qos", "pm_qos_core"}
MoveRes == {"move_pid", "move_tid"}
GroupRes == {"run_cores", "limit_cpu_time", "cpu_weight"}

\* The kinds of resources: per core, cluster or machine, moves, and files of a cgroup.
LEMMA ResCases ==
    ASSUME NEW c, IsConfig(c)
    PROVE  /\ c.res \in UnitRes \cup MoveRes \cup GroupRes \cup {"run_cores_excl"}
           /\ c.res \in UnitRes <=> Type(c) # "cgroup"
BY ConfDomain, ConfTypes DEF IsConfig, UnitRes, MoveRes, GroupRes, Type

\* The nodes of a configuration by the kind of its resource.
LEMMA NodesOf ==
    ASSUME NEW c, IsConfig(c)
    PROVE  /\ c.res \in UnitRes => Nodes(c) = UnitPaths(c)
           /\ c.res \in MoveRes => Nodes(c) = IF Known(c) THEN Named(c) ELSE {}
           /\ c.res \in GroupRes => Nodes(c) = IF Known(c) THEN {CGroupPath(c)} ELSE {}
           /\ c.res = "run_cores_excl" =>
                Nodes(c) = IF Known(c) THEN {CGroupPath(c), Path("run_cores", c.vals[1])} ELSE {}
<1>1. c.res \in UnitRes => Nodes(c) = UnitPaths(c)
  BY ResCases DEF UnitRes, Nodes
<1>2. c.res \in MoveRes => Nodes(c) = IF Known(c) THEN Named(c) ELSE {}
  BY DEF MoveRes, Nodes
<1>3. c.res \in GroupRes => Nodes(c) = IF Known(c) THEN {CGroupPath(c)} ELSE {}
  BY ResCases DEF GroupRes, UnitRes, Nodes
<1>4. c.res = "run_cores_excl" =>
                Nodes(c) = IF Known(c) THEN {CGroupPath(c), Path("run_cores", c.vals[1])} ELSE {}
  BY DEF Nodes
<1> QED BY <1>1, <1>2, <1>3, <1>4

\* A node of a core, cluster or global resource is a path of that resource.
LEMMA UnitPathsShape ==
    ASSUME NEW c, IsConfig(c), c.res \in UnitRes, NEW p \in UnitPaths(c)
    PROVE  \E u : p = Path(c.res, u)
<1>1. Type(c) \in {"global", "cluster", "core"}
  BY ConfTypes DEF UnitRes, Type
<1>2. CASE c.res = "pm_qos"
  BY <1>2 DEF UnitPaths
<1>3. CASE c.res # "pm_qos" /\ Type(c) = "cluster"
  BY <1>3 DEF UnitPaths
<1>4. CASE Type(c) = "core"
  <2>1. c.res # "pm_qos"
    BY <1>4, ConfTypes DEF Type
  <2> QED BY <1>4, <2>1 DEF UnitPaths
<1>5. CASE Type(c) = "global"
  <2>1. c.res # "pm_qos"
    BY <1>5, ConfTypes DEF Type
  <2> QED BY <1>5, <2>1 DEF UnitPaths
<1> QED BY <1>1, <1>2, <1>3, <1>4, <1>5

\* Only moves have processes and threads as nodes.
LEMMA NodesKind ==
    ASSUME NEW c, IsConfig(c), NEW p \in Nodes(c)
    PROVE  /\ c.res = "move_pid" => p[1] = "pid"
           /\ c.res = "move_tid" => p[1] = "tid"
           /\ c.res \notin MoveRes => ~InProc(p)
<1>1. CASE c.res \in UnitRes
  <2>1. PICK u : p = Path(c.res, u)
    BY <1>1, NodesOf, UnitPathsShape
  <2>2. c.res \notin MoveRes /\ c.res \in DOMAIN Conf
    BY <1>1 DEF UnitRes, MoveRes, IsConfig
  <2> QED BY <2>1, <2>2, PathShape DEF MoveRes
<1>2. CASE c.res \in MoveRes
  <2>1. PICK u : p = Path(c.res, u)
    BY <1>2, NodesOf DEF Named
  <2> QED BY <2>1, <1>2, PathShape DEF MoveRes, IsConfig
<1>3. CASE c.res \in GroupRes
  <2>1. PICK u : p = Path(c.res, u)
    BY <1>3, NodesOf DEF CGroupPath
  <2> QED BY <2>1, <1>3, PathShape DEF MoveRes, GroupRes, IsConfig
<1>4. CASE c.res = "run_cores_excl"
  <2>1. PICK r \in {"run_cores", "run_cores_excl"} : \E u : p = Path(r, u)
    BY <1>4, NodesOf DEF CGroupPath
  <2> QED BY <2>1, <1>4, PathShape, ConfDomain DEF MoveRes
<1> QED BY <1>1, <1>2, <1>3, <1>4, ResCases

\* A well-formed move is to a configured cgroup and names nothing twice.
LEMMA WellFormedNamesOnce ==
    ASSUME NEW c, IsConfig(c), WellFormed(c), c.res \in MoveRes
    PROVE  Repeated(c) = {} /\ Known(c)
<1>1. Len(c.vals) \in Nat
  BY DEF IsConfig
<1> QED BY <1>1 DEF WellFormed, MoveRes, Repeated, Known

\* Any apply callback: it touches the nodes of its configuration only, leaves the
\* defaults of files alone, and puts the value asked for in every node when the
\* request is well-formed.
LEMMA AppliedFacts ==
    ASSUME NEW s, NEW c, IsSys(s), IsConfig(c), NEW t \in Applied(c, s)
    PROVE  /\ SameBut(s, t, Nodes(c))
           /\ t.server = s.server
           /\ \A p : (c.res = "move_pid" /\ p \in Nodes(c)) \/ SameDefault(s, t, p)
           /\ WellFormed(c) => \A p \in DOMAIN s.file : p \in Nodes(c) => t.file[p] = Effect(c, p)
           /\ WellFormed(c) /\ c.res = "move_pid" =>
                \A p \in DOMAIN s.file : p \in Nodes(c) =>
                    IF s.file[p] = <<Root>> THEN SameDefault(s, t, p)
                    ELSE p \in DOMAIN t.defaults /\ t.defaults[p] = s.file[p]
<1>0. /\ Len(c.vals) \in Nat /\ c.res \in DOMAIN Conf
      /\ SameBut(s, s, Nodes(c)) /\ \A p : SameDefault(s, s, p)
  BY DEF IsConfig, SameBut, SameDefault
<1>1. CASE c.res \in UnitRes
  <2>1. t = Write(s, Nodes(c), <<Scaled(c, c.vals[1])>>)
    BY <1>1, NodesOf DEF Applied, UnitRes, DefaultApplier
  <2>2. WellFormed(c) => \A p \in Nodes(c) : Effect(c, p) = <<Scaled(c, c.vals[1])>>
    <3>1. WellFormed(c) => Len(c.vals) = 1
      BY <1>1, ResCases DEF WellFormed
    <3>2. WellFormed(c) => Rank(c) = c.vals[1]
      BY <3>1 DEF Rank
    <3>3. \A p \in Nodes(c) : ~InProc(p)
      BY NodesKind, <1>1 DEF UnitRes, MoveRes
    <3> QED BY <3>2, <3>3, <1>1 DEF Effect, UnitRes
  <2>3. c.res # "move_pid"
    BY <1>1 DEF UnitRes
  <2> QED BY <2>1, <2>2, <2>3, WriteFacts DEF SameDefault
<1>2. CASE c.res = "move_pid"
  <2>0. c.res \in MoveRes
    BY <1>2 DEF MoveRes
  <2>1. t = IF Len(c.vals) >= 2 /\ Known(c) THEN Moved(c, s) ELSE s
    BY <1>2 DEF Applied, MoveProcessToCGroup
  <2>2. Nodes(c) = IF Known(c) THEN Named(c) ELSE {}
    BY <2>0, NodesOf
  <2>3. CASE Len(c.vals) >= 2 /\ Known(c)
    <3>1. t = Moved(c, s) /\ Nodes(c) = Named(c)
      BY <2>1, <2>2, <2>3
    <3>2. \A p \in Nodes(c) : Effect(c, p) = <<c.vals[1]>>
      BY NodesKind, <1>2 DEF Effect, InProc
    <3>3. WellFormed(c) => Repeated(c) = {}
      BY <2>0, WellFormedNamesOnce
    <3>4. /\ SameBut(s, t, Nodes(c)) /\ t.server = s.server
          /\ \A p \in DOMAIN s.file : p \in Nodes(c) => t.file[p] = <<c.vals[1]>>
          /\ \A p : p \notin Nodes(c) => SameDefault(s, t, p)
      BY <3>1, MovedFacts
    <3>5. WellFormed(c) =>
            \A p \in DOMAIN s.file : p \in Nodes(c) =>
                IF s.file[p] = <<Root>> THEN SameDefault(s, t, p)
                ELSE p \in DOMAIN t.defaults /\ t.defaults[p] = s.file[p]
      BY <3>1, <3>3, MovedFacts
    <3> QED BY <3>2, <3>4, <3>5, <1>2
  <2>4. CASE ~(Len(c.vals) >= 2 /\ Known(c))
    <3>1. t = s
      BY <2>1, <2>4
    <3>2. Nodes(c) = {}
      BY <2>2, <2>4, <1>0 DEF Named
    <3> QED BY <3>1, <3>2, <1>0
  <2> QED BY <2>3, <2>4
<1>3. CASE c.res = "move_tid"
  <2>0. c.res \in MoveRes /\ c.res # "move_pid"
    BY <1>3 DEF MoveRes
  <2>1. t = IF Len(c.vals) >= 2 /\ Known(c) THEN Write(s, Named(c), <<c.vals[1]>>) ELSE s
    BY <1>3 DEF Applied, MoveThreadToCGroup
  <2>2. Nodes(c) = IF Known(c) THEN Named(c) ELSE {}
    BY <2>0, NodesOf
  <2>3. CASE Len(c.vals) >= 2 /\ Known(c)
    <3>1. t = Write(s, Nodes(c), <<c.vals[1]>>)
      BY <2>1, <2>2, <2>3
    <3>2. \A p \in Nodes(c) : Effect(c, p) = <<c.vals[1]>>
      BY NodesKind, <1>3 DEF Effect, InProc
    <3> QED BY <3>1, <3>2, <2>0, WriteFacts DEF SameDefault
  <2>4. CASE ~(Len(c.vals) >= 2 /\ Known(c))
    <3>1. t = s
      BY <2>1, <2>4
    <3>2. Nodes(c) = {}
      BY <2>2, <2>4, <1>0 DEF Named
    <3> QED BY <3>1, <3>2, <2>0, <1>0
  <2> QED BY <2>3, <2>4
<1>4. CASE c.res \in GroupRes
  <2>0. c.res # "move_pid"
    BY <1>4 DEF GroupRes
  <2> DEFINE Writes(v) == Known(c) /\ t = Write(s, {CGroupPath(c)}, v)
             Leaves == t = s /\ ~(WellFormed(c) /\ Known(c))
  <2>1. PICK v : /\ Writes(v) \/ Leaves
                 /\ WellFormed(c) => \A p : ~InProc(p) => Effect(c, p) = v
    <3>1. CASE c.res = "run_cores"
      <4>1. t = IF Len(c.vals) >= 2 /\ Known(c) THEN Write(s, {CGroupPath(c)}, Tail(c.vals)) ELSE s
        BY <3>1 DEF Applied, SetRunOnCores
      <4>2. WellFormed(c) => Len(c.vals) >= 2
        BY <3>1 DEF WellFormed
      <4>3. \A p : Effect(c, p) = Tail(c.vals)
        BY <3>1 DEF Effect
      <4> QED BY <4>1, <4>2, <4>3
    <3>2. CASE c.res = "limit_cpu_time"
      <4>1. t = IF Len(c.vals) = 3 /\ Known(c) THEN Write(s, {CGroupPath(c)}, Tail(c.vals)) ELSE s
        BY <3>2 DEF Applied, LimitCpuTime
      <4>2. WellFormed(c) => Len(c.vals) = 3
        BY <3>2 DEF WellFormed
      <4>3. \A p : Effect(c, p) = Tail(c.vals)
        BY <3>2 DEF Effect
      <4> QED BY <4>1, <4>2, <4>3
    <3>3. CASE c.res = "cpu_weight"
      <4>1. t = IF Len(c.vals) = 2 /\ Known(c)
                THEN Write(s, {CGroupPath(c)}, <<Scaled(c, c.vals[2])>>) ELSE s
        BY <3>3 DEF Applied, CGroupApplier
      <4>2. WellFormed(c) => Len(c.vals) = 2
        BY <3>3 DEF WellFormed
      <4>3. WellFormed(c) => \A p : ~InProc(p) => Effect(c, p) = <<Scaled(c, c.vals[2])>>
        BY <3>3, <4>2 DEF Effect, Rank
      <4> QED BY <4>1, <4>2, <4>3
    <3> QED BY <1>4, <3>1, <3>2, <3>3 DEF GroupRes
  <2>2. Nodes(c) = IF Known(c) THEN {CGroupPath(c)} ELSE {}
    BY <1>4, NodesOf
  <2>3. \A p \in Nodes(c) : ~InProc(p)
    BY <1>4, NodesKind DEF GroupRes, MoveRes
  <2>4. CASE Writes(v)
    <3>1. t = Write(s, Nodes(c), v)
      BY <2>2, <2>4
    <3>2. /\ SameBut(s, t, Nodes(c)) /\ t.server = s.server /\ t.defaults = s.defaults
          /\ \A p \in DOMAIN s.file : p \in Nodes(c) => t.file[p] = v
      BY <3>1, WriteFacts
    <3> QED BY <3>2, <2>0, <2>1, <2>3 DEF SameDefault
  <2>5. CASE Leaves
    BY <2>5, <2>0, <2>2, <1>0
  <2> QED BY <2>1, <2>4, <2>5
<1>5. CASE c.res = "run_cores_excl"
  <2> DEFINE k == Path("run_cores", c.vals[1])
             w == Write(s, {k}, Tail(c.vals))
  <2>1. t = IF Len(c.vals) >= 2 /\ Known(c) THEN Write(w, {CGroupPath(c)}, <<"isolated">>) ELSE s
    BY <1>5 DEF Applied, SetRunOnCoresExclusively
  <2>2. Nodes(c) = IF Known(c) THEN {CGroupPath(c), k} ELSE {}
    BY <1>5, NodesOf
  <2>3. \A p : Effect(c, p) = IF p = CGroupPath(c) THEN <<"isolated">> ELSE Tail(c.vals)
    BY <1>5 DEF Effect
  <2>4. WellFormed(c) => Len(c.vals) >= 2
    BY <1>5 DEF WellFormed
  <2>5. /\ SameBut(s, w, {k}) /\ w.server = s.server /\ w.defaults = s.defaults
        /\ \A p \in DOMAIN s.file : p = k => w.file[p] = Tail(c.vals)
    BY WriteFacts
  <2> HIDE DEF w, k
  <2>6. CASE Len(c.vals) >= 2 /\ Known(c)
    <3>1. t = Write(w, {CGroupPath(c)}, <<"isolated">>) /\ Nodes(c) = {CGroupPath(c), k}
      BY <2>1, <2>2, <2>6
    <3>2. /\ SameBut(w, t, {CGroupPath(c)}) /\ t.server = w.server /\ t.defaults = w.defaults
          /\ \A p \in DOMAIN w.file : p = CGroupPath(c) => t.file[p] = <<"isolated">>
      BY <3>1, <2>5, WriteFacts DEF SameBut
    <3>3. SameBut(s, t, Nodes(c)) /\ t.server = s.server /\ \A p : SameDefault(s, t, p)
      BY <3>1, <3>2, <2>5 DEF SameBut, SameDefault
    <3>4. ASSUME NEW p \in DOMAIN s.file, p \in Nodes(c)
          PROVE  t.file[p] = Effect(c, p)
      BY <3>1, <3>2, <3>4, <2>3, <2>5 DEF SameBut
    <3> QED BY <3>3, <3>4, <1>5
  <2>7. CASE ~(Len(c.vals) >= 2 /\ Known(c))
    <3>1. t = s
      BY <2>1, <2>7
    <3> QED BY <3>1, <2>7, <2>2, <2>4, <1>0, <1>5
  <2> QED BY <2>6, <2>7
<1> QED BY <1>1, <1>2, <1>3, <1>4, <1>5, ResCases DEF MoveRes

\* What a move names is a process or a thread, known cgroup or not.
LEMMA NamedInProc ==
    ASSUME NEW c, IsConfig(c), c.res \in MoveRes, NEW p \in Named(c)
    PROVE  InProc(p)
<1>1. PICK u : p = Path(c.res, u)
  BY DEF Named
<1> QED BY <1>1, PathShape DEF MoveRes, IsConfig, InProc

\* Any tear callback: files other than its nodes stay, and its nodes get their
\* defaults.  A move to a cgroup that is not configured still moves its processes;
\* a callback that ends early for its number of values leaves its nodes alone.
LEMMA TornFacts ==
    ASSUME NEW s, NEW c, IsSys(s), IsConfig(c), NEW t \in Torn(c, s)
    PROVE  /\ SameBut(s, t, Nodes(c) \cup {p \in DOMAIN s.file : InProc(p)})
           /\ WellFormed(c) => SameBut(s, t, Nodes(c))
           /\ t.server \in {s.server, "crashed"}
           /\ \A p : (c.res = "move_pid" /\ p \in Named(c)) \/ SameDefault(s, t, p)
           /\ \A p \in DOMAIN s.file : p \in Nodes(c) /\ ~InProc(p) =>
                \/ t.file[p] = GetDefaultValue(s, p)
                \/ ~WellFormed(c) /\ t.file[p] = s.file[p]
           /\ WellFormed(c) /\ c.res = "move_pid" =>
                \A p \in DOMAIN s.file : p \in Nodes(c) =>
                    /\ p \notin DOMAIN t.defaults
                    /\ t.file[p] = IF GetDefaultValue(s, p) = Empty THEN <<Root>>
                                   ELSE GetDefaultValue(s, p)
<1> DEFINE procs == {p \in DOMAIN s.file : InProc(p)}
<1>0. /\ Len(c.vals) \in Nat /\ c.res \in DOMAIN Conf
      /\ \A P : SameBut(s, s, P)
      /\ \A p : SameDefault(s, s, p)
      /\ \A P, Q, u : SameBut(s, u, P) /\ P \cap DOMAIN s.file \subseteq Q => SameBut(s, u, Q)
  BY DEF IsConfig, SameBut, SameDefault
<1>1. CASE c.res \in UnitRes
  <2>1. t = Reset(s, Nodes(c))
    BY <1>1, NodesOf, ResCases DEF Torn, UnitRes, DefaultTear
  <2>2. /\ SameBut(s, t, Nodes(c)) /\ t.server = s.server /\ t.defaults = s.defaults
        /\ \A p \in DOMAIN s.file : p \in Nodes(c) => t.file[p] = GetDefaultValue(s, p)
    BY <2>1, ResetFacts
  <2>3. c.res # "move_pid"
    BY <1>1 DEF UnitRes
  <2>4. SameBut(s, t, Nodes(c) \cup procs)
    BY <1>0, <2>2
  <2> QED BY <2>2, <2>3, <2>4 DEF SameDefault
<1>2. CASE c.res = "move_pid"
  <2>0. c.res \in MoveRes
    BY <1>2 DEF MoveRes
  <2>1. t = Returned(c, s)
    BY <1>2 DEF Torn, RemoveProcessFromCGroup
  <2>2. Nodes(c) = IF Known(c) THEN Named(c) ELSE {}
    BY <2>0, NodesOf
  <2>3. WellFormed(c) => Repeated(c) = {} /\ Nodes(c) = Named(c)
    BY <2>0, <2>2, WellFormedNamesOnce
  <2>4. /\ SameBut(s, t, Named(c)) /\ t.server = s.server
        /\ \A p : p \notin Named(c) => SameDefault(s, t, p)
        /\ \A p : p \in Named(c) => p \notin DOMAIN t.defaults
    BY <2>1, ReturnedFacts
  <2>5. WellFormed(c) =>
          \A p \in DOMAIN s.file : p \in Named(c) =>
             t.file[p] = IF GetDefaultValue(s, p) = Empty THEN <<Root>> ELSE GetDefaultValue(s, p)
    BY <2>1, <2>3, ReturnedFacts
  <2>6. \A p \in Named(c) : InProc(p)
    BY <2>0, NamedInProc
  <2>7. \A p \in Nodes(c) : InProc(p)
    BY <2>2, <2>6
  <2>8. SameBut(s, t, Nodes(c) \cup procs)
    <3>1. Named(c) \cap DOMAIN s.file \subseteq Nodes(c) \cup procs
      BY <2>6
    <3> QED BY <3>1, <2>4, <1>0
  <2>9. WellFormed(c) => SameBut(s, t, Nodes(c))
    BY <2>3, <2>4
  <2>10. \A p : (c.res = "move_pid" /\ p \in Named(c)) \/ SameDefault(s, t, p)
    BY <2>4, <1>2
  <2>11. WellFormed(c) =>
           \A p \in DOMAIN s.file : p \in Nodes(c) =>
                    /\ p \notin DOMAIN t.defaults
                    /\ t.file[p] = IF GetDefaultValue(s, p) = Empty THEN <<Root>>
                                   ELSE GetDefaultValue(s, p)
    BY <2>3, <2>4, <2>5
  <2> QED BY <2>4, <2>7, <2>8, <2>9, <2>10, <2>11
<1>3. CASE c.res = "move_tid"
  <2>0. c.res \in MoveRes /\ c.res # "move_pid"
    BY <1>3 DEF MoveRes
  <2>1. PICK paths \in SUBSET Named(c) :
           \/ t = Write(s, paths, <<Root>>)
           \/ t = [Write(s, paths, <<Root>>) EXCEPT !.server = "crashed"]
    BY <1>3 DEF Torn, RemoveThreadFromCGroup
  <2>2. SameBut(s, t, Named(c)) /\ t.server \in {s.server, "crashed"} /\ t.defaults = s.defaults
    <3>1. PICK w : w = Write(s, paths, <<Root>>)
      OBVIOUS
    <3>2. SameBut(s, w, paths) /\ w.server = s.server /\ w.defaults = s.defaults
      BY <3>1, WriteFacts
    <3>3. SameBut(s, w, Named(c))
      BY <1>0, <3>2
    <3>4. CASE t = w
      BY <3>2, <3>3, <3>4
    <3>5. CASE t = [w EXCEPT !.server = "crashed"]
      <4>1. /\ IsSys(t) /\ t.file = w.file /\ t.original = w.original /\ t.defaults = w.defaults
            /\ t.server = "crashed"
        BY <3>2, <3>5 DEF IsSys, SameBut
      <4> QED BY <3>2, <3>3, <4>1 DEF SameBut
    <3> QED BY <2>1, <3>1, <3>4, <3>5
  <2>3. Nodes(c) = IF Known(c) THEN Named(c) ELSE {}
    BY <2>0, NodesOf
  <2>4. WellFormed(c) => Nodes(c) = Named(c)
    BY <2>0, <2>3, WellFormedNamesOnce
  <2>6. \A p \in Named(c) : InProc(p)
    BY <2>0, NamedInProc
  <2>7. \A p \in Nodes(c) : InProc(p)
    BY <2>3, <2>6
  <2>8. SameBut(s, t, Nodes(c) \cup procs)
    <3>1. Named(c) \cap DOMAIN s.file \subseteq Nodes(c) \cup procs
      BY <2>6
    <3> QED BY <3>1, <2>2, <1>0
  <2> QED BY <2>0, <2>2, <2>4, <2>7, <2>8 DEF SameDefault
<1>4. CASE c.res \in GroupRes
  <2>0. c.res # "move_pid"
    BY <1>4 DEF GroupRes
  <2>1. t = IF Known(c) THEN Reset(s, {CGroupPath(c)}) ELSE s
    BY <1>4, ResCases DEF Torn, GroupRes, UnitRes, CGroupTear
  <2>2. Nodes(c) = IF Known(c) THEN {CGroupPath(c)} ELSE {}
    BY <1>4, NodesOf
  <2>3. /\ SameBut(s, t, Nodes(c)) /\ t.server = s.server /\ t.defaults = s.defaults
        /\ \A p \in DOMAIN s.file : p \in Nodes(c) => t.file[p] = GetDefaultValue(s, p)
    <3>1. CASE Known(c)
      BY <2>1, <2>2, <3>1, ResetFacts
    <3>2. CASE ~Known(c)
      BY <2>1, <2>2, <3>2, <1>0
    <3> QED BY <3>1, <3>2
  <2>4. SameBut(s, t, Nodes(c) \cup procs)
    BY <1>0, <2>3
  <2> QED BY <2>0, <2>3, <2>4 DEF SameDefault
<1>5. CASE c.res = "run_cores_excl"
  <2>1. t = IF Len(c.vals) >= 2 /\ Known(c)
            THEN Reset(s, {Path("run_cores", c.vals[1]), CGroupPath(c)}) ELSE s
    BY <1>5 DEF Torn, ResetRunOnCoresExclusively
  <2>2. Nodes(c) = IF Known(c) THEN {Path("run_cores", c.vals[1]), CGroupPath(c)} ELSE {}
    BY <1>5, NodesOf
  <2>3. WellFormed(c) => Len(c.vals) >= 2
    BY <1>5 DEF WellFormed
  <2>4. /\ SameBut(s, t, Nodes(c)) /\ t.server = s.server /\ t.defaults = s.defaults
        /\ \A p \in DOMAIN s.file : p \in Nodes(c) =>
              t.file[p] = GetDefaultValue(s, p) \/ (~WellFormed(c) /\ t.file[p] = s.file[p])
    <3>1. CASE Len(c.vals) >= 2 /\ Known(c)
      <4>1. t = Reset(s, Nodes(c))
        BY <2>1, <2>2, <3>1
      <4> QED BY <4>1, ResetFacts
    <3>2. CASE ~Known(c)
      BY <2>1, <2>2, <3>2, <1>0
    <3>3. CASE ~(Len(c.vals) >= 2)
      BY <2>1, <2>3, <3>3, <1>0
    <3> QED BY <3>1, <3>2, <3>3
  <2>5. SameBut(s, t, Nodes(c) \cup procs)
    BY <1>0, <2>4
  <2> QED BY <1>5, <2>4, <2>5 DEF SameDefault
<1> QED BY <1>1, <1>2, <1>3, <1>4, <1>5, ResCases DEF MoveRes
----------------------------------------------------------------------------
(* Lists. *)

\* A non-empty set of naturals has a least element.
LEMMA LeastElement ==
    ASSUME NEW S \in SUBSET Nat, S # {}
    PROVE  \E i \in S : \A j \in S : i <= j
<1>1. PICK i \in S : \A j \in S : ~(<<j, i>> \in OpToRel(<, Nat))
  BY NatLessThanWellFounded, WFMin
<1>2. ASSUME NEW j \in S PROVE i <= j
  <2>1. <<j, i>> \in {ss \in Nat \X Nat : ss[1] < ss[2]} <=> j < i
    OBVIOUS
  <2> QED BY <1>1, <2>1 DEF OpToRel
<1> QED BY <1>2

\* Elements of a concatenation.
LEMMA ConcatFacts ==
    ASSUME NEW T, NEW s \in Seq(T), NEW t \in Seq(T)
    PROVE  /\ s \o t \in Seq(T)
           /\ Len(s \o t) = Len(s) + Len(t)
           /\ \A i \in 1 .. Len(s) + Len(t) :
                 (s \o t)[i] = IF i <= Len(s) THEN s[i] ELSE t[i - Len(s)]
OBVIOUS

\* t is s with n at position k, and what was there and behind it one place further.
IsInserted(T, s, k, n, t) ==
    /\ t \in Seq(T)
    /\ Len(t) = Len(s) + 1
    /\ \A j \in 1 .. Len(s) + 1 : t[j] = IF j < k THEN s[j] ELSE IF j = k THEN n ELSE s[j - 1]

\* The elements of a list after insertAt.
LEMMA InsertAtFacts ==
    ASSUME NEW T, NEW s \in Seq(T), NEW n \in T, NEW k \in 1 .. Len(s) + 1
    PROVE  IsInserted(T, s, k, n, InsertAt(s, k, n))
<1> DEFINE a == SubSeq(s, 1, k - 1)
           c == SubSeq(s, k, Len(s))
           b == a \o <<n>>
<1>1. a \in Seq(T) /\ Len(a) = k - 1 /\ \A j \in 1 .. k - 1 : a[j] = s[j]
  OBVIOUS
<1>2. c \in Seq(T) /\ Len(c) = Len(s) - k + 1
      /\ \A j \in 1 .. Len(s) - k + 1 : c[j] = s[j + k - 1]
  OBVIOUS
<1>3. b \in Seq(T) /\ Len(b) = k /\ b[k] = n /\ \A j \in 1 .. k - 1 : b[j] = s[j]
  BY <1>1
<1>4. /\ b \o c \in Seq(T)
      /\ Len(b \o c) = Len(s) + 1
      /\ \A j \in 1 .. Len(s) + 1 : (b \o c)[j] = IF j <= k THEN b[j] ELSE c[j - k]
  <2> HIDE DEF b, c
  <2>1. b \in Seq(T) /\ c \in Seq(T)
    BY <1>2, <1>3
  <2>2. /\ b \o c \in Seq(T)
        /\ Len(b \o c) = Len(b) + Len(c)
        /\ \A i \in 1 .. Len(b) + Len(c) :
              (b \o c)[i] = IF i <= Len(b) THEN b[i] ELSE c[i - Len(b)]
    BY <2>1, ConcatFacts
  <2>3. Len(b) = k /\ Len(c) = Len(s) - k + 1
    BY <1>2, <1>3
  <2> QED BY <2>2, <2>3
<1>5. InsertAt(s, k, n) = b \o c
  BY DEF InsertAt
<1> HIDE DEF a, b, c
<1> QED
  <2>1. ASSUME NEW j \in 1 .. Len(s) + 1
        PROVE  (b \o c)[j] = IF j < k THEN s[j] ELSE IF j = k THEN n ELSE s[j - 1]
    <3>1. CASE j <= k
      BY <3>1, <1>3, <1>4
    <3>0. j <= k \/ j > k
      OBVIOUS
    <3>2. CASE j > k
      <4>1. j - k \in 1 .. Len(s) - k + 1
        BY <3>2
      <4>2. c[j - k] = s[j - k + k - 1]
        BY <1>2, <4>1
      <4>3. j - k + k - 1 = j - 1
        OBVIOUS
      <4>4. c[j - k] = s[j - 1]
        BY <4>2, <4>3
      <4>5. (b \o c)[j] = c[j - k]
        BY <3>2, <1>4
      <4> QED BY <3>2, <4>4, <4>5
    <3> QED BY <3>0, <3>1, <3>2
  <2> QED BY <1>4, <1>5, <2>1 DEF IsInserted

\* The elements of a list after a node at position k was taken out.
LEMMA RemoveAtFacts ==
    ASSUME NEW T, NEW s \in Seq(T), NEW k \in 1 .. Len(s)
    PROVE  /\ RemoveAt(s, k) \in Seq(T)
           /\ Len(RemoveAt(s, k)) = Len(s) - 1
           /\ \A j \in 1 .. Len(s) - 1 : RemoveAt(s, k)[j] =
                IF j < k THEN s[j] ELSE s[j + 1]
<1> DEFINE a == SubSeq(s, 1, k - 1)
           c == SubSeq(s, k + 1, Len(s))
<1>1. a \in Seq(T) /\ Len(a) = k - 1 /\ \A j \in 1 .. k - 1 : a[j] = s[j]
  OBVIOUS
<1>2. c \in Seq(T) /\ Len(c) = Len(s) - k
      /\ \A j \in 1 .. Len(s) - k : c[j] = s[j + k]
  OBVIOUS
<1>3. /\ a \o c \in Seq(T)
      /\ Len(a \o c) = Len(s) - 1
      /\ \A j \in 1 .. Len(s) - 1 :
            (a \o c)[j] = IF j < k THEN a[j] ELSE c[j - (k - 1)]
  <2> HIDE DEF a, c
  <2>1. a \in Seq(T) /\ c \in Seq(T)
    BY <1>1, <1>2
  <2>2. /\ a \o c \in Seq(T)
        /\ Len(a \o c) = Len(a) + Len(c)
        /\ \A i \in 1 .. Len(a) + Len(c) :
              (a \o c)[i] = IF i <= Len(a) THEN a[i] ELSE c[i - Len(a)]
    BY <2>1, ConcatFacts
  <2>3. Len(a) = k - 1 /\ Len(c) = Len(s) - k
    BY <1>1, <1>2
  <2>4. Len(s) \in Nat /\ Len(a) + Len(c) = Len(s) - 1
    BY <2>3
  <2>5. \A j \in 1 .. Len(s) - 1 : (a \o c)[j] = IF j < k THEN a[j] ELSE c[j - (k - 1)]
    <3> SUFFICES ASSUME NEW j \in 1 .. Len(s) - 1
                 PROVE  (a \o c)[j] = IF j < k THEN a[j] ELSE c[j - (k - 1)]
      OBVIOUS
    <3>1. j <= k - 1 <=> j < k
      OBVIOUS
    <3> QED BY <2>2, <2>3, <2>4, <3>1
  <2> QED BY <2>2, <2>4, <2>5
<1>4. RemoveAt(s, k) = a \o c
  BY DEF RemoveAt
<1> HIDE DEF a, c
<1> QED
  <2>1. ASSUME NEW j \in 1 .. Len(s) - 1
        PROVE  (a \o c)[j] = IF j < k THEN s[j] ELSE s[j + 1]
    <3>1. CASE j < k
      BY <3>1, <1>1, <1>3
    <3>0. j < k \/ j >= k
      OBVIOUS
    <3>2. CASE j >= k
      <4>1. j - (k - 1) \in 1 .. Len(s) - k
        BY <3>2
      <4>2. c[j - (k - 1)] = s[j - (k - 1) + k]
        BY <1>2, <4>1
      <4>3. j - (k - 1) + k = j + 1
        OBVIOUS
      <4>4. c[j - (k - 1)] = s[j + 1]
        BY <4>2, <4>3
      <4>5. (a \o c)[j] = c[j - (k - 1)]
        BY <3>2, <1>3
      <4> QED BY <3>2, <4>4, <4>5
    <3> QED BY <3>0, <3>1, <3>2
  <2> QED BY <1>3, <1>4, <2>1

\* An insertion keeps what was in the list and adds an element; the head is the
\* element or stays what it was.
LEMMA InsertedFacts ==
    ASSUME NEW T, NEW s \in Seq(T), NEW n \in T, NEW k \in 1 .. Len(s) + 1
    PROVE  /\ InsertAt(s, k, n) \in Seq(T)
           /\ InsertAt(s, k, n) # <<>>
           /\ ToSet(InsertAt(s, k, n)) = ToSet(s) \cup {n}
           /\ Head(InsertAt(s, k, n)) # n => s # <<>> /\ Head(InsertAt(s, k, n)) = Head(s)
           /\ n \notin ToSet(s) /\ IsInjective(s) => IsInjective(InsertAt(s, k, n))
<1> DEFINE t == InsertAt(s, k, n)
<1>1. k \in 1 .. Len(s) + 1 /\ IsInserted(T, s, k, n, t)
  BY InsertAtFacts
<1>3. InsertAt(s, k, n) = t
  OBVIOUS
<1> HIDE DEF t
<1>2. /\ t \in Seq(T)
      /\ Len(t) = Len(s) + 1
      /\ \A j \in 1 .. Len(s) + 1 : t[j] = IF j < k THEN s[j] ELSE IF j = k THEN n ELSE s[j - 1]
  BY <1>1 DEF IsInserted
<1>4. Len(s) \in Nat /\ DOMAIN s = 1 .. Len(s) /\ DOMAIN t = 1 .. Len(s) + 1
  BY <1>2
<1>5. t # <<>>
  BY <1>2, <1>4
<1>6. ToSet(t) = ToSet(s) \cup {n}
  <2>1. ASSUME NEW j \in 1 .. Len(s) + 1 PROVE t[j] \in ToSet(s) \cup {n}
    <3>1. CASE j = k
      BY <3>1, <1>2
    <3>2. CASE j < k
      <4>1. j \in DOMAIN s /\ t[j] = s[j]
        BY <3>2, <1>1, <1>2, <1>4
      <4> QED BY <4>1 DEF ToSet
    <3>3. CASE j > k
      <4>1. j - 1 \in DOMAIN s /\ t[j] = s[j - 1]
        BY <3>3, <1>1, <1>2, <1>4
      <4> QED BY <4>1 DEF ToSet
    <3>4. j < k \/ j = k \/ j > k
      BY <1>1, <1>4
    <3> QED BY <3>1, <3>2, <3>3, <3>4
  <2>2. n \in ToSet(t)
    BY <1>1, <1>2, <1>4 DEF ToSet
  <2>3. ASSUME NEW i \in 1 .. Len(s) PROVE s[i] \in ToSet(t)
    <3>0. i < k \/ i >= k
      BY <1>1, <1>4
    <3>1. CASE i < k
      <4>1. i \in DOMAIN t /\ t[i] = s[i]
        BY <3>1, <1>1, <1>2, <1>4
      <4> QED BY <4>1 DEF ToSet
    <3>2. CASE i >= k
      <4>1. t[i + 1] = s[i + 1 - 1]
        BY <3>2, <1>1, <1>2, <1>4
      <4>2. i + 1 - 1 = i /\ i + 1 \in DOMAIN t
        BY <1>4
      <4> QED BY <4>1, <4>2 DEF ToSet
    <3> QED BY <3>0, <3>1, <3>2
  <2>4. ToSet(t) \subseteq ToSet(s) \cup {n}
    BY <2>1, <1>4 DEF ToSet
  <2>5. ToSet(s) \subseteq ToSet(t)
    BY <2>3, <1>4 DEF ToSet
  <2> QED BY <2>2, <2>4, <2>5
<1>7. Head(t) # n => s # <<>> /\ Head(t) = Head(s)
  <2>1. Head(t) = t[1]
    BY <1>2, <1>5
  <2>2. CASE k = 1
    BY <2>1, <2>2, <1>2, <1>4
  <2>3. CASE k # 1
    <3>1. 1 < k /\ Len(s) >= 1
      BY <2>3, <1>1, <1>4
    <3>2. t[1] = s[1]
      BY <3>1, <1>2, <1>4
    <3>3. s # <<>> /\ Head(s) = s[1]
      BY <3>1
    <3> QED BY <2>1, <3>2, <3>3
  <2> QED BY <2>2, <2>3
<1>8. ASSUME n \notin ToSet(s), IsInjective(s) PROVE IsInjective(t)
  <2> DEFINE old(j) == IF j < k THEN j ELSE j - 1
  <2>1. ASSUME NEW j \in 1 .. Len(s) + 1, j # k
        PROVE  old(j) \in 1 .. Len(s) /\ t[j] = s[old(j)]
    <3>1. old(j) \in 1 .. Len(s)
      BY <2>1, <1>1, <1>4
    <3>2. t[j] = s[old(j)]
      BY <2>1, <1>1, <1>2, <1>4
    <3> QED BY <3>1, <3>2
  <2>2. \A i \in 1 .. Len(s) : s[i] # n
    BY <1>8, <1>4 DEF ToSet
  <2>3. t[k] = n
    BY <1>1, <1>2, <1>4
  <2>4. \A i, j \in 1 .. Len(s) + 1 : i # k /\ j # k /\ old(i) = old(j) => i = j
    BY <1>1, <1>4
  <2>5. \A i, j \in 1 .. Len(s) : s[i] = s[j] => i = j
    BY <1>8, <1>4 DEF IsInjective
  <2> HIDE DEF old
  <2>6. ASSUME NEW i \in 1 .. Len(s) + 1, NEW j \in 1 .. Len(s) + 1, t[i] = t[j]
        PROVE  i = j
    <3>1. CASE i = k /\ j = k
      BY <3>1
    <3>2. CASE i # k /\ j = k
      BY <3>2, <2>1, <2>2, <2>3, <2>6
    <3>3. CASE i = k /\ j # k
      BY <3>3, <2>1, <2>2, <2>3, <2>6
    <3>4. CASE i # k /\ j # k
      BY <3>4, <2>1, <2>4, <2>5, <2>6
    <3> QED BY <3>1, <3>2, <3>3, <3>4
  <2> QED BY <2>6, <1>4 DEF IsInjective
<1> QED BY <1>2, <1>3, <1>5, <1>6, <1>7, <1>8

\* A removal takes the element out and nothing else; another head stays the head.
LEMMA RemovedFacts ==
    ASSUME NEW T, NEW s \in Seq(T), NEW n \in ToSet(s), IsInjective(s)
    PROVE  /\ RemoveFirst(s, n) \in Seq(T)
           /\ ToSet(RemoveFirst(s, n)) = ToSet(s) \ {n}
           /\ IsInjective(RemoveFirst(s, n))
           /\ Head(s) # n => RemoveFirst(s, n) # <<>> /\ Head(RemoveFirst(s, n)) = Head(s)
<1> DEFINE found == {i \in 1 .. Len(s) : s[i] = n}
           k == SelectInSeq(s, LAMBDA v : v = n)
           t == RemoveAt(s, k)
<1>0. Len(s) \in Nat /\ DOMAIN s = 1 .. Len(s)
  OBVIOUS
<1>1. k \in 1 .. Len(s) /\ s[k] = n
  <2>1. found # {} /\ found \in SUBSET Nat
    BY <1>0 DEF ToSet
  <2>2. k = CHOOSE i \in found : \A j \in found : i <= j
    BY <2>1 DEF SelectInSeq, Min
  <2>3. k \in found
    <3> HIDE DEF found, k
    <3>1. \E i \in found : \A j \in found : i <= j
      BY <2>1, LeastElement
    <3> QED BY <2>2, <3>1
  <2> QED BY <2>3
<1>2. /\ t \in Seq(T)
      /\ Len(t) = Len(s) - 1
      /\ \A j \in 1 .. Len(s) - 1 : t[j] = IF j < k THEN s[j] ELSE s[j + 1]
  BY <1>1, RemoveAtFacts
<1>3. RemoveFirst(s, n) = t
  BY <1>0 DEF RemoveFirst, ToSet
<1>4. DOMAIN t = 1 .. Len(s) - 1
  BY <1>2
<1>5. \A i, j \in 1 .. Len(s) : s[i] = s[j] => i = j
  BY <1>0 DEF IsInjective
<1> HIDE DEF t, k
<1> DEFINE new(j) == IF j < k THEN j ELSE j + 1
<1>6. ASSUME NEW j \in 1 .. Len(s) - 1
      PROVE  new(j) \in 1 .. Len(s) /\ new(j) # k /\ t[j] = s[new(j)]
  <2>1. new(j) \in 1 .. Len(s) /\ new(j) # k
    BY <1>0, <1>1
  <2>2. t[j] = s[new(j)]
    BY <1>0, <1>1, <1>2
  <2> QED BY <2>1, <2>2
<1>7. \A i, j \in 1 .. Len(s) - 1 : new(i) = new(j) => i = j
  BY <1>0, <1>1
<1>8. \A i \in 1 .. Len(s) : i # k => \E j \in 1 .. Len(s) - 1 : new(j) = i
  <2> SUFFICES ASSUME NEW i \in 1 .. Len(s), i # k
               PROVE  \E j \in 1 .. Len(s) - 1 : new(j) = i
    OBVIOUS
  <2>0. i < k \/ i > k
    BY <1>0, <1>1
  <2>1. CASE i < k
    <3>1. i \in 1 .. Len(s) - 1 /\ new(i) = i
      BY <2>1, <1>0, <1>1
    <3> QED BY <3>1
  <2>2. CASE i > k
    <3>1. i - 1 \in 1 .. Len(s) - 1 /\ new(i - 1) = i
      BY <2>2, <1>0, <1>1
    <3> QED BY <3>1
  <2> QED BY <2>0, <2>1, <2>2
<1>9. Head(s) # n => t # <<>> /\ Head(t) = Head(s)
  <2> SUFFICES ASSUME Head(s) # n PROVE t # <<>> /\ Head(t) = Head(s)
    OBVIOUS
  <2>1. Head(s) = s[1]
    BY <1>0, <1>1
  <2>2. k # 1
    BY <2>1, <1>1
  <2>3. Len(t) >= 1 /\ 1 < k
    BY <2>2, <1>0, <1>1, <1>2
  <2>4. t[1] = s[1]
    BY <2>3, <1>0, <1>2
  <2>5. t # <<>> /\ Head(t) = t[1]
    BY <2>3, <1>2
  <2> QED BY <2>1, <2>4, <2>5
<1> HIDE DEF new
<1>10. ToSet(t) = ToSet(s) \ {n}
  <2>1. ASSUME NEW j \in 1 .. Len(s) - 1 PROVE t[j] \in ToSet(s) /\ t[j] # n
    BY <1>0, <1>1, <1>5, <1>6 DEF ToSet
  <2>2. ASSUME NEW i \in 1 .. Len(s), s[i] # n PROVE s[i] \in ToSet(t)
    <3>1. i # k
      BY <2>2, <1>1
    <3>2. PICK j \in 1 .. Len(s) - 1 : new(j) = i
      BY <3>1, <1>8
    <3> QED BY <3>2, <1>4, <1>6 DEF ToSet
  <2>3. ToSet(t) \subseteq ToSet(s) \ {n}
    BY <2>1, <1>4 DEF ToSet
  <2>4. ToSet(s) \ {n} \subseteq ToSet(t)
    BY <2>2, <1>0 DEF ToSet
  <2> QED BY <2>3, <2>4
<1>11. IsInjective(t)
  <2>1. ASSUME NEW i \in 1 .. Len(s) - 1, NEW j \in 1 .. Len(s) - 1, t[i] = t[j]
        PROVE  i = j
    BY <2>1, <1>5, <1>6, <1>7
  <2> QED BY <2>1, <1>4 DEF IsInjective
<1> QED BY <1>2, <1>3, <1>9, <1>10, <1>11

\* Where the policy puts a configuration in a list.
LEMMA PlacedFacts ==
    ASSUME NEW T, NEW s \in Seq(T), NEW n \in T
    PROVE  /\ Placed(s, n) \in Seq(T)
           /\ Placed(s, n) # <<>>
           /\ ToSet(Placed(s, n)) = ToSet(s) \cup {n}
           /\ Head(Placed(s, n)) # n => s # <<>> /\ Head(Placed(s, n)) = Head(s)
           /\ n \notin ToSet(s) /\ IsInjective(s) => IsInjective(Placed(s, n))
<1> DEFINE after == {i \in 1 .. Len(s) : Better(n, s[i])}
           i == SelectInSeq(s, LAMBDA d : Better(n, d))
<1>0. Len(s) \in Nat
  OBVIOUS
<1>1. i \in 0 .. Len(s)
  <2>1. CASE after = {}
    BY <1>0, <2>1 DEF SelectInSeq
  <2>2. CASE after # {}
    <3>1. after \in SUBSET Nat
      BY <1>0
    <3>2. i = CHOOSE x \in after : \A y \in after : x <= y
      BY <2>2 DEF SelectInSeq, Min
    <3>3. i \in after
      <4> HIDE DEF after, i
      <4>1. \E x \in after : \A y \in after : x <= y
        BY <2>2, <3>1, LeastElement
      <4> QED BY <3>2, <4>1
    <3> QED BY <3>3
  <2> QED BY <2>1, <2>2
<1>2. Placed(s, n) = InsertAt(s, IF i = 0 THEN Len(s) + 1 ELSE i, n)
  BY DEF Placed
<1> HIDE DEF after, i
<1>3. PICK k : k = IF i = 0 THEN Len(s) + 1 ELSE i
  OBVIOUS
<1>4. k \in 1 .. Len(s) + 1
  BY <1>0, <1>1, <1>3
<1>5. Placed(s, n) = InsertAt(s, k, n)
  BY <1>2, <1>3
<1>6. /\ InsertAt(s, k, n) \in Seq(T)
      /\ InsertAt(s, k, n) # <<>>
      /\ ToSet(InsertAt(s, k, n)) = ToSet(s) \cup {n}
      /\ Head(InsertAt(s, k, n)) # n => s # <<>> /\ Head(InsertAt(s, k, n)) = Head(s)
      /\ n \notin ToSet(s) /\ IsInjective(s) => IsInjective(InsertAt(s, k, n))
  BY <1>4, InsertedFacts
<1> QED BY <1>5, <1>6

----------------------------------------------------------------------------
(* The inductive invariant. *)

\* Granted configurations are translated requests.
GrantedOK ==
    \A c \in granted :
        /\ IsConfig(c)
        /\ Type(c) = "cluster" => c.cluster \in ToSet(reg.logical)
        /\ clients.separate => WellFormed(c)

\* The lists hold the granted configurations that are not passed through, each
\* once, in the list of its unit.
ListsOK ==
    /\ \A k \in DOMAIN lists :
         /\ lists[k] \in Seq(granted) /\ lists[k] # <<>> /\ IsInjective(lists[k])
         /\ \A c \in ToSet(lists[k]) : At(c) = k /\ Policy(c) # "pass_through"
    /\ \A c \in granted : Policy(c) # "pass_through" =>
         At(c) \in DOMAIN lists /\ c \in ToSet(lists[At(c)])

\* The default stored for a file is its original content; a file without one has
\* never been written.  The paths stored at the start stay stored.
Pristine(s, p) ==
    IF p \in DOMAIN s.defaults THEN s.defaults[p] = s.original[p] ELSE s.file[p] = s.original[p]

DefaultsOK ==
    /\ IsSys(sys)
    /\ DOMAIN sys.file = DOMAIN sys.original
    /\ \A p \in DOMAIN sys.original : ~InProc(p) => p \in Files(machine) /\ Pristine(sys, p)
    /\ \A r \in DOMAIN Conf : StoredFor(machine, reg, r) \subseteq DOMAIN sys.defaults

StartOK == machine \in Machines /\ clients \in Clients

IInv == StartOK /\ GrantedOK /\ ListsOK /\ DefaultsOK /\ StopRestores

\* Two granted configurations share all nodes if one list holds both, else none.
Apart(c, d) ==
    IF At(c) = At(d) /\ Policy(c) # "pass_through" THEN Nodes(c) = Nodes(d)
    ELSE Nodes(c) \cap Nodes(d) = {}

ApartOK == \A c, d \in granted : c # d => Apart(c, d)

IsNamed(p) == \E c \in granted : p \in Nodes(c)

\* A process that a granted configuration has moved has its original cgroup as
\* default unless that is the root group; other processes have no default.
HomesOK ==
    \A p \in DOMAIN sys.original : p[1] = "pid" =>
        /\ sys.original[p] # Empty
        /\ IF IsNamed(p) /\ sys.original[p] # <<Root>>
           THEN p \in DOMAIN sys.defaults /\ sys.defaults[p] = sys.original[p]
           ELSE p \notin DOMAIN sys.defaults

SeparateInv ==
    clients.separate /\ sys.server = "up" => ApartOK /\ HomesOK /\ HeadsInEffect /\ SeparateRestored

----------------------------------------------------------------------------
(* Paths, stored defaults and translated requests. *)

\* The files of the machine are no processes, and the latency files belong to CPUs
\* there are.
LEMMA FilesKind ==
    ASSUME NEW m, NEW p \in Files(m)
    PROVE  /\ ~InProc(p)
           /\ p[1] = "pm_qos_resume_latency_us" => \E c \in CpusOf(m) : p = Path("pm_qos_core", c)
<1>1. CASE \E r \in {"dma_latency", "energy_aware", "max_freq", "run_cores", "run_cores_excl",
                     "limit_cpu_time", "cpu_weight"} : \E u : p = Path(r, u)
  BY <1>1 DEF Path, InProc
<1>2. CASE \E c \in CpusOf(m) : p = Path("pm_qos_core", c)
  BY <1>2 DEF Path, InProc
<1>3. \/ \E r \in {"dma_latency", "energy_aware"} : p = Path(r, 0)
      \/ \E q \in m.policies : p = Path("max_freq", q.id)
      \/ \E c \in CpusOf(m) : p = Path("pm_qos_core", c)
      \/ \E r \in {"run_cores", "run_cores_excl", "limit_cpu_time", "cpu_weight"} :
            \E g \in CGroups : p = Path(r, g)
  BY DEF Files
<1> QED BY <1>1, <1>2, <1>3

\* What is stored for a resource, by its type.
LEMMA StoredCases ==
    ASSUME NEW m, NEW rg
    PROVE  /\ \A r \in {"dma_latency", "energy_aware"} : StoredFor(m, rg, r) = {Path(r, 0)}
           /\ \A r \in {"max_freq", "pm_qos"} : StoredFor(m, rg, r) = {Path(r, k) : k \in ToSet(rg.logical)}
           /\ StoredFor(m, rg, "pm_qos_core") = {Path("pm_qos_core", c) : c \in 0 .. OnlineCpuCount(m) - 1}
           /\ \A r \in MoveRes : StoredFor(m, rg, r) = {}
           /\ \A r \in GroupRes \cup {"run_cores_excl"} : StoredFor(m, rg, r) = {Path(r, g) : g \in CGroups}
<1>1. \A r \in {"dma_latency", "energy_aware"} : StoredFor(m, rg, r) = {Path(r, 0)}
  BY ConfTypes DEF StoredFor
<1>2. \A r \in {"max_freq", "pm_qos"} : StoredFor(m, rg, r) = {Path(r, k) : k \in ToSet(rg.logical)}
  BY ConfTypes DEF StoredFor
<1>3. StoredFor(m, rg, "pm_qos_core") = {Path("pm_qos_core", c) : c \in 0 .. OnlineCpuCount(m) - 1}
  BY ConfTypes DEF StoredFor
<1>4. \A r \in MoveRes : StoredFor(m, rg, r) = {}
  BY ConfTypes DEF StoredFor, MoveRes
<1>5. \A r \in GroupRes \cup {"run_cores_excl"} : StoredFor(m, rg, r) = {Path(r, g) : g \in CGroups}
  BY ConfTypes DEF StoredFor, GroupRes
<1> QED BY <1>1, <1>2, <1>3, <1>4, <1>5

\* fetchAndStoreDefaults keeps nothing of processes and threads.
LEMMA StoredKind ==
    ASSUME NEW m, NEW rg, NEW r \in DOMAIN Conf, NEW p \in StoredFor(m, rg, r)
    PROVE  ~InProc(p)
<1>1. r \notin MoveRes
  BY StoredCases
<1>2. \E u : p = Path(r, u)
  BY StoredCases, ConfDomain, <1>1 DEF MoveRes, GroupRes
<1> QED BY <1>1, <1>2, PathShape DEF MoveRes

\* The files that a granted configuration writes have a stored default.
LEMMA NodeIsStored ==
    ASSUME StartOK, DefaultsOK, NEW c, IsConfig(c),
           Type(c) = "cluster" => c.cluster \in ToSet(reg.logical),
           NEW p \in Nodes(c), ~InProc(p), p \in DOMAIN sys.original
    PROVE  p \in DOMAIN sys.defaults
<1>1. /\ machine \in Machines /\ p \in Files(machine)
      /\ \A r \in DOMAIN Conf : StoredFor(machine, reg, r) \subseteq DOMAIN sys.defaults
  BY DEF StartOK, DefaultsOK
<1>2. SUFFICES \E r \in DOMAIN Conf : p \in StoredFor(machine, reg, r)
  BY <1>1
<1>3. CASE c.res \in {"dma_latency", "energy_aware"}
  <2>1. p = Path(c.res, 0)
    BY <1>3, NodesOf, ConfTypes DEF UnitRes, UnitPaths, Type
  <2> QED BY <1>3, <2>1, StoredCases, ConfDomain
<1>4. CASE c.res = "max_freq"
  <2>1. p = Path("max_freq", c.cluster) /\ Type(c) = "cluster"
    BY <1>4, NodesOf, ConfTypes DEF UnitRes, UnitPaths, Type
  <2> QED BY <2>1, StoredCases, ConfDomain
<1>5. CASE c.res \in {"pm_qos", "pm_qos_core"}
  <2>1. p \in UnitPaths(c)
    BY <1>5, NodesOf DEF UnitRes
  <2>2. PICK u : p = Path(c.res, u)
    BY <1>5, <2>1, UnitPathsShape DEF UnitRes
  <2>3. p[1] = "pm_qos_resume_latency_us"
    BY <1>5, <2>2 DEF Path
  <2>4. PICK k \in CpusOf(machine) : p = Path("pm_qos_core", k)
    BY <1>1, <2>3, FilesKind
  <2>5. k \in 0 .. OnlineCpuCount(machine) - 1
    BY <1>1, MachinesAssumption
  <2> QED BY <2>4, <2>5, StoredCases, ConfDomain
<1>6. CASE c.res \in GroupRes \cup {"run_cores_excl"}
  <2>1. PICK r \in GroupRes \cup {"run_cores_excl"}, g \in CGroups : p = Path(r, g)
    BY <1>6, NodesOf DEF GroupRes, CGroupPath, Known
  <2> QED BY <2>1, StoredCases, ConfDomain DEF GroupRes
<1>7. CASE c.res \in MoveRes
  BY <1>7, NodesKind DEF InProc, MoveRes
<1> QED BY <1>3, <1>4, <1>5, <1>6, <1>7, ResCases DEF UnitRes

\* Translation changes the core and the cluster only; the cluster is one the
\* registry knows.
LEMMA TranslatedFacts ==
    ASSUME NEW r \in Request, NEW c \in VerifyIncomingRequest(r)
    PROVE  /\ c.id = r.id /\ c.res = r.res /\ c.vals = r.vals
           /\ IsConfig(c)
           /\ Type(c) = "cluster" => c.cluster \in ToSet(reg.logical)
<1> DEFINE type == Conf[r.res].type
<1>0. c \in TranslateToPhysicalIDs(reg, type, r)
  BY DEF VerifyIncomingRequest
<1>1. r.res \in DOMAIN Conf /\ r.vals \in Seq(Int) /\ r.vals # <<>>
  BY DEF Request
<1>2. type \in {"global", "cluster", "core", "cgroup"}
  BY <1>1, ConfTypes, ConfDomain
<1>3. CASE type = "cluster"
  <2>1. GetPhysicalClusterId(reg, r.cluster) # Unmapped
        /\ c = [r EXCEPT !.cluster = GetPhysicalClusterId(reg, r.cluster)]
    BY <1>0, <1>3 DEF TranslateToPhysicalIDs
  <2>2. GetPhysicalClusterId(reg, r.cluster) \in ToSet(reg.logical)
    BY <2>1 DEF GetPhysicalClusterId, ToSet
  <2>3. c.id = r.id /\ c.res = r.res /\ c.vals = r.vals /\ c.cluster \in ToSet(reg.logical)
    BY <2>1, <2>2 DEF Request
  <2> QED BY <1>1, <2>3 DEF IsConfig
<1>4. CASE type = "core"
  <2>1. PICK q : c = [r EXCEPT !.core = q[1], !.cluster = q[2]]
    BY <1>0, <1>4 DEF TranslateToPhysicalIDs
  <2>2. c.id = r.id /\ c.res = r.res /\ c.vals = r.vals
    BY <2>1 DEF Request
  <2> QED BY <1>1, <1>4, <2>2 DEF IsConfig, Type
<1>5. CASE type \in {"cgroup", "global"}
  <2>1. c = r
    BY <1>0, <1>5 DEF TranslateToPhysicalIDs
  <2> QED BY <1>1, <1>5, <2>1 DEF IsConfig, Type
<1> QED BY <1>2, <1>3, <1>4, <1>5

\* The invariants hold once the defaults are stored and nothing is granted.
LEMMA InitInv ==
    ASSUME Init
    PROVE  IInv /\ SeparateInv
<1> DEFINE F == [p \in Files(machine) |-> OriginalOf(p)]
           P == {Path("move_pid", q) : q \in Processes} \cup {Path("move_tid", q) : q \in Threads}
           proc == [p \in P |-> <<clients.home[p[2]]>>]
           all == [p \in DOMAIN F \cup DOMAIN proc |-> IF InProc(p) THEN proc[p] ELSE F[p]]
           stored == UNION {StoredFor(machine, reg, r) : r \in DOMAIN Conf}
           kept == [p \in stored |-> IF p \in DOMAIN all THEN all[p] ELSE Empty]
<1>1. /\ sys = [file |-> all, original |-> all, server |-> "up", defaults |-> kept]
      /\ lists = <<>> /\ granted = {} /\ machine \in Machines /\ clients \in Clients
  BY DEF Init
<1>2. DOMAIN all = Files(machine) \cup P /\ DOMAIN kept = stored
  OBVIOUS
<1>3. \A p \in P : InProc(p)
  BY PathShape, ConfDomain DEF InProc
<1>4. \A p \in Files(machine) : ~InProc(p)
  BY FilesKind
<1>5. \A p \in stored : ~InProc(p)
  BY StoredKind
<1>6. \A p \in DOMAIN all : InProc(p) => all[p] # Empty
  <2> SUFFICES ASSUME NEW p \in DOMAIN all, InProc(p) PROVE all[p] # Empty
    OBVIOUS
  <2>1. p \in P
    BY <1>2, <1>4
  <2>2. all[p] = <<clients.home[p[2]]>>
    BY <2>1
  <2> HIDE DEF all
  <2>3. PICK h : h = clients.home[p[2]]
    OBVIOUS
  <2>4. <<h>> # <<>>
    OBVIOUS
  <2> QED BY <2>2, <2>3, <2>4 DEF Empty
<1>7. \A p \in stored : p \in DOMAIN all => kept[p] = all[p]
  OBVIOUS
<1>8. \A r \in DOMAIN Conf : StoredFor(machine, reg, r) \subseteq stored
  OBVIOUS
<1> HIDE DEF all, kept, stored, P
<1>9. /\ sys.file = all /\ sys.original = all /\ sys.defaults = kept /\ sys.server = "up"
      /\ IsSys(sys)
  BY <1>1 DEF IsSys
<1>10. StartOK /\ GrantedOK /\ StopRestores
  BY <1>1, <1>9 DEF StartOK, GrantedOK, StopRestores
<1>11. ListsOK
  BY <1>1 DEF ListsOK
<1>12. DefaultsOK
  BY <1>2, <1>3, <1>7, <1>8, <1>9 DEF DefaultsOK, Pristine
<1>13. ApartOK /\ HeadsInEffect /\ SeparateRestored
  BY <1>1, <1>9 DEF ApartOK, HeadsInEffect, SeparateRestored
<1>14. HomesOK
  <2>1. \A p : ~IsNamed(p)
    BY <1>1 DEF IsNamed
  <2> QED BY <2>1, <1>2, <1>5, <1>6, <1>9 DEF HomesOK, InProc
<1> QED BY <1>10, <1>11, <1>12, <1>13, <1>14 DEF IInv, SeparateInv

----------------------------------------------------------------------------
(* The steps. *)

\* The machine and what its files are called do not change.
LEMMA SameNodes ==
    ASSUME UNCHANGED <<machine, reg>>, NEW c
    PROVE  Nodes(c)' = Nodes(c)
<1>1. UnitPaths(c)' = UnitPaths(c)
  BY DEF UnitPaths, CpusIn
<1> QED BY <1>1 DEF Nodes

\* A step that leaves the defaults of files alone and writes no file without one.
LEMMA DefaultsStep ==
    ASSUME DefaultsOK, UNCHANGED <<machine, reg>>,
           IsSys(sys'), sys'.original = sys.original, DOMAIN sys'.file = DOMAIN sys.file,
           \A p : ~InProc(p) => SameDefault(sys, sys', p),
           \A p \in DOMAIN sys.file :
              ~InProc(p) /\ p \notin DOMAIN sys.defaults => sys'.file[p] = sys.file[p]
    PROVE  DefaultsOK'
<1>1. /\ DOMAIN sys.file = DOMAIN sys.original
      /\ \A p \in DOMAIN sys.original : ~InProc(p) => p \in Files(machine) /\ Pristine(sys, p)
      /\ \A r \in DOMAIN Conf : StoredFor(machine, reg, r) \subseteq DOMAIN sys.defaults
  BY DEF DefaultsOK
<1>2. ASSUME NEW p \in DOMAIN sys.original, ~InProc(p)
      PROVE  Pristine(sys', p)
  BY <1>1, <1>2 DEF Pristine, SameDefault
<1>3. ASSUME NEW r \in DOMAIN Conf
      PROVE  StoredFor(machine, reg, r) \subseteq DOMAIN sys'.defaults
  BY <1>1, <1>3, StoredKind DEF SameDefault
<1> QED BY <1>1, <1>2, <1>3 DEF DefaultsOK

\* A callback of a granted configuration is such a step.
LEMMA AppliedStep ==
    ASSUME StartOK, DefaultsOK, UNCHANGED <<machine, reg>>, NEW c, IsConfig(c),
           Type(c) = "cluster" => c.cluster \in ToSet(reg.logical), sys' \in Applied(c, sys)
    PROVE  DefaultsOK' /\ sys'.server = sys.server
<1>1. IsSys(sys) /\ DOMAIN sys.file = DOMAIN sys.original
  BY DEF DefaultsOK
<1>2. /\ SameBut(sys, sys', Nodes(c)) /\ sys'.server = sys.server
      /\ \A p : (c.res = "move_pid" /\ p \in Nodes(c)) \/ SameDefault(sys, sys', p)
  BY <1>1, AppliedFacts
<1>3. \A p : ~InProc(p) => SameDefault(sys, sys', p)
  BY <1>2, NodesKind DEF InProc
<1>4. \A p \in DOMAIN sys.file : ~InProc(p) /\ p \notin DOMAIN sys.defaults => sys'.file[p] = sys.file[p]
  BY <1>1, <1>2, NodeIsStored DEF SameBut
<1> QED BY <1>2, <1>3, <1>4, DefaultsStep DEF SameBut

\* A tear callback of a granted configuration is such a step.
LEMMA TornStep ==
    ASSUME StartOK, DefaultsOK, UNCHANGED <<machine, reg>>, NEW c, IsConfig(c),
           Type(c) = "cluster" => c.cluster \in ToSet(reg.logical), sys' \in Torn(c, sys)
    PROVE  DefaultsOK' /\ sys'.server \in {sys.server, "crashed"}
<1>1. IsSys(sys) /\ DOMAIN sys.file = DOMAIN sys.original
  BY DEF DefaultsOK
<1>2. /\ SameBut(sys, sys', Nodes(c) \cup {p \in DOMAIN sys.file : InProc(p)})
      /\ sys'.server \in {sys.server, "crashed"}
      /\ \A p : (c.res = "move_pid" /\ p \in Named(c)) \/ SameDefault(sys, sys', p)
  BY <1>1, TornFacts
<1>3. \A p : ~InProc(p) => SameDefault(sys, sys', p)
  BY <1>2, NamedInProc DEF MoveRes
<1>4. \A p \in DOMAIN sys.file : ~InProc(p) /\ p \notin DOMAIN sys.defaults => sys'.file[p] = sys.file[p]
  BY <1>1, <1>2, NodeIsStored DEF SameBut
<1> QED BY <1>2, <1>3, <1>4, DefaultsStep DEF SameBut

IsHead(c) == c = Head(ListAt(At(c)))

\* A sequence is one over any set that has its elements.
LEMMA SubSeqSet ==
    ASSUME NEW S, NEW T, NEW s \in Seq(S), ToSet(s) \subseteq T
    PROVE  s \in Seq(T)
<1>1. Len(s) \in Nat /\ DOMAIN s = 1 .. Len(s) /\ s \in [1 .. Len(s) -> S]
  OBVIOUS
<1>2. \A i \in 1 .. Len(s) : s[i] \in T
  BY <1>1 DEF ToSet
<1>3. s \in [1 .. Len(s) -> T]
  BY <1>1, <1>2
<1> QED BY <1>1, <1>3

\* Replacing the list of one unit.
LEMMA WithListStep ==
    ASSUME ListsOK, NEW k, NEW l, lists' = WithList(k, l),
           l \in Seq(granted'), IsInjective(l),
           \A c \in ToSet(l) : At(c) = k /\ Policy(c) # "pass_through",
           \A j \in DOMAIN lists \ {k} : ToSet(lists[j]) \subseteq granted',
           \A c \in granted' : Policy(c) # "pass_through" =>
              IF At(c) = k THEN c \in ToSet(l) ELSE c \in granted
    PROVE  /\ ListsOK'
           /\ ListAt(k)' = l
           /\ \A j : j # k => ListAt(j)' = ListAt(j)
<1> DEFINE D == (DOMAIN lists \ {k}) \cup (IF l = <<>> THEN {} ELSE {k})
<1>1. DOMAIN lists' = D /\ \A j \in D : lists'[j] = IF j = k THEN l ELSE lists[j]
  BY DEF WithList
<1>2. \A j \in D : /\ lists'[j] \in Seq(granted') /\ lists'[j] # <<>> /\ IsInjective(lists'[j])
                   /\ \A c \in ToSet(lists'[j]) : At(c) = j /\ Policy(c) # "pass_through"
  <2> SUFFICES ASSUME NEW j \in D
               PROVE  /\ lists'[j] \in Seq(granted') /\ lists'[j] # <<>> /\ IsInjective(lists'[j])
                      /\ \A c \in ToSet(lists'[j]) : At(c) = j /\ Policy(c) # "pass_through"
    OBVIOUS
  <2>1. CASE j = k
    BY <1>1, <2>1
  <2>2. CASE j # k
    <3>1. j \in DOMAIN lists /\ lists'[j] = lists[j]
      BY <1>1, <2>2
    <3>2. /\ lists[j] \in Seq(granted) /\ lists[j] # <<>> /\ IsInjective(lists[j])
          /\ \A c \in ToSet(lists[j]) : At(c) = j /\ Policy(c) # "pass_through"
      BY <3>1 DEF ListsOK
    <3>3. PICK S, T, s : S = granted /\ T = granted' /\ s = lists[j]
      OBVIOUS
    <3>4. s \in Seq(T)
      BY <3>1, <3>2, <3>3, <2>2, SubSeqSet
    <3> QED BY <3>1, <3>2, <3>3, <3>4
  <2> QED BY <2>1, <2>2
<1>3. ASSUME NEW c \in granted', Policy(c) # "pass_through"
      PROVE  At(c) \in D /\ c \in ToSet(lists'[At(c)])
  <2>1. CASE At(c) = k
    <3>1. c \in ToSet(l)
      BY <1>3, <2>1
    <3>2. l # <<>>
      BY <3>1 DEF ToSet
    <3> QED BY <1>1, <2>1, <3>1, <3>2
  <2>2. CASE At(c) # k
    <3>1. c \in granted
      BY <1>3, <2>2
    <3>2. At(c) \in DOMAIN lists /\ c \in ToSet(lists[At(c)])
      BY <3>1, <1>3 DEF ListsOK
    <3> QED BY <1>1, <2>2, <3>2
  <2> QED BY <2>1, <2>2
<1> HIDE DEF D
<1>4. ListsOK'
  BY <1>1, <1>2, <1>3 DEF ListsOK
<1>5. ListAt(k)' = l /\ \A j : j # k => ListAt(j)' = ListAt(j)
  BY <1>1 DEF ListAt, D
<1> QED BY <1>4, <1>5

\* The list of a unit, the empty one included: granted configurations of that unit,
\* each once.
LEMMA ListAtFacts ==
    ASSUME ListsOK, NEW k
    PROVE  /\ ListAt(k) \in Seq(granted) /\ IsInjective(ListAt(k))
           /\ \A c \in ToSet(ListAt(k)) : c \in granted /\ At(c) = k /\ Policy(c) # "pass_through"
           /\ \A c \in granted : Policy(c) # "pass_through" /\ At(c) = k => c \in ToSet(ListAt(k))
<1>1. CASE k \in DOMAIN lists
  <2>1. ListAt(k) = lists[k]
    BY <1>1 DEF ListAt
  <2>2. lists[k] \in Seq(granted) /\ IsInjective(lists[k])
    BY <1>1 DEF ListsOK
  <2>3. \A c \in ToSet(lists[k]) : c \in granted
    BY <2>2 DEF ToSet
  <2> QED BY <1>1, <2>1, <2>2, <2>3 DEF ListsOK
<1>2. CASE k \notin DOMAIN lists
  <2>1. ListAt(k) = <<>>
    BY <1>2 DEF ListAt
  <2>2. <<>> \in Seq(granted) /\ DOMAIN <<>> = {}
    OBVIOUS
  <2>3. IsInjective(<<>>) /\ ToSet(<<>>) = {}
    BY <2>2 DEF IsInjective, ToSet
  <2> QED BY <1>2, <2>1, <2>2, <2>3 DEF ListsOK
<1> QED BY <1>1, <1>2

\* The list of another unit stays.
LEMMA OtherLists ==
    ASSUME ListsOK, NEW j \in DOMAIN lists
    PROVE  ToSet(lists[j]) \subseteq granted /\ \A c \in ToSet(lists[j]) : At(c) = j
<1>1. lists[j] \in Seq(granted)
  BY DEF ListsOK
<1> QED BY <1>1 DEF ListsOK, ToSet

\* A new configuration joins the list of its unit: it becomes the head, or the
\* head stays.
LEMMA InsertLists ==
    ASSUME ListsOK, NEW c, c \notin granted, granted' = granted \cup {c},
           Policy(c) # "pass_through", lists' = WithList(At(c), Placed(ListAt(At(c)), c))
    PROVE  /\ ListsOK'
           /\ lists'[At(c)] = ListAt(At(c))'
           /\ \A d \in granted : Policy(d) # "pass_through" /\ IsHead(d)' => IsHead(d)
<1>1. PICK k, l, G, t : k = At(c) /\ l = ListAt(k) /\ G = granted \cup {c} /\ t = Placed(l, c)
  OBVIOUS
<1>2. /\ l \in Seq(granted) /\ IsInjective(l)
      /\ \A d \in ToSet(l) : d \in granted /\ At(d) = k /\ Policy(d) # "pass_through"
      /\ \A d \in granted : Policy(d) # "pass_through" /\ At(d) = k => d \in ToSet(l)
  BY <1>1, ListAtFacts
<1>3. l \in Seq(G)
  BY <1>1, <1>2
<1>4. /\ t \in Seq(G) /\ t # <<>> /\ ToSet(t) = ToSet(l) \cup {c} /\ IsInjective(t)
      /\ Head(t) # c => l # <<>> /\ Head(t) = Head(l)
  <2>1. c \in G /\ c \notin ToSet(l)
    BY <1>1, <1>2
  <2>2. /\ Placed(l, c) \in Seq(G) /\ Placed(l, c) # <<>>
        /\ ToSet(Placed(l, c)) = ToSet(l) \cup {c}
        /\ Head(Placed(l, c)) # c => l # <<>> /\ Head(Placed(l, c)) = Head(l)
        /\ c \notin ToSet(l) /\ IsInjective(l) => IsInjective(Placed(l, c))
    <3>1. Placed(l, c) \in Seq(G) /\ Placed(l, c) # <<>>
      BY <1>3, <2>1, PlacedFacts
    <3>2. ToSet(Placed(l, c)) = ToSet(l) \cup {c}
      BY <1>3, <2>1, PlacedFacts
    <3>3. Head(Placed(l, c)) # c => l # <<>> /\ Head(Placed(l, c)) = Head(l)
      BY <1>3, <2>1, PlacedFacts
    <3>4. c \notin ToSet(l) /\ IsInjective(l) => IsInjective(Placed(l, c))
      BY <1>3, <2>1, PlacedFacts
    <3> QED BY <3>1, <3>2, <3>3, <3>4
  <2> QED BY <1>1, <1>2, <2>1, <2>2
<1>5. \A j \in DOMAIN lists \ {k} : ToSet(lists[j]) \subseteq granted'
  BY OtherLists
<1>6. /\ ListsOK' /\ ListAt(k)' = t /\ \A j : j # k => ListAt(j)' = ListAt(j)
  <2>1. t \in Seq(granted') /\ lists' = WithList(k, t)
    BY <1>1, <1>4
  <2>2. \A d \in ToSet(t) : At(d) = k /\ Policy(d) # "pass_through"
    BY <1>1, <1>2, <1>4
  <2>3. \A d \in granted' : Policy(d) # "pass_through" =>
          IF At(d) = k THEN d \in ToSet(t) ELSE d \in granted
    BY <1>1, <1>2, <1>4
  <2> QED BY <1>4, <1>5, <2>1, <2>2, <2>3, WithListStep
<1>7. lists'[k] = t
  BY <1>1, <1>4 DEF WithList
<1>8. ASSUME NEW d \in granted, Policy(d) # "pass_through", d = Head(ListAt(At(d))')
      PROVE  d = Head(ListAt(At(d)))
  <2>1. CASE At(d) = k
    BY <1>1, <1>4, <1>6, <1>8, <2>1
  <2>2. CASE At(d) # k
    BY <1>6, <1>8, <2>2
  <2> QED BY <2>1, <2>2
<1> QED BY <1>1, <1>6, <1>7, <1>8 DEF IsHead

\* A configuration leaves the list of its unit: the others stay, and so does the
\* head unless it was the one.
LEMMA WithdrawLists ==
    ASSUME ListsOK, NEW c \in granted, granted' = granted \ {c}, Policy(c) # "pass_through",
           NEW k, k = At(c), NEW l, l = ListAt(k), NEW rest, rest = RemoveFirst(l, c),
           lists' = WithList(k, rest)
    PROVE  /\ ListsOK'
           /\ rest = <<>> => \A d \in granted' : Policy(d) # "pass_through" => At(d) # k
           /\ rest # <<>> => /\ Head(rest) \in granted' /\ At(Head(rest)) = k
                             /\ Policy(Head(rest)) # "pass_through"
           /\ Head(l) # c => rest # <<>> /\ Head(rest) = Head(l)
           /\ \A d \in granted' : Policy(d) # "pass_through" /\ IsHead(d)' =>
                 IF At(d) = k THEN d = Head(rest) ELSE IsHead(d)
<1>1. /\ l \in Seq(granted) /\ IsInjective(l)
      /\ \A d \in ToSet(l) : d \in granted /\ At(d) = k /\ Policy(d) # "pass_through"
      /\ \A d \in granted : Policy(d) # "pass_through" /\ At(d) = k => d \in ToSet(l)
  BY ListAtFacts
<1>2. c \in ToSet(l)
  BY <1>1
<1>3. PICK G : G = granted
  OBVIOUS
<1>4. /\ rest \in Seq(G) /\ ToSet(rest) = ToSet(l) \ {c} /\ IsInjective(rest)
      /\ Head(l) # c => rest # <<>> /\ Head(rest) = Head(l)
  BY <1>1, <1>2, <1>3, RemovedFacts
<1>5. ToSet(rest) \subseteq granted'
  BY <1>1, <1>4
<1>6. rest \in Seq(granted')
  <2>1. PICK T : T = granted'
    OBVIOUS
  <2>2. rest \in Seq(T)
    BY <1>4, <1>5, <2>1, SubSeqSet
  <2> QED BY <2>1, <2>2
<1>7. \A j \in DOMAIN lists \ {k} : ToSet(lists[j]) \subseteq granted'
  BY OtherLists
<1>8. /\ ListsOK' /\ ListAt(k)' = rest /\ \A j : j # k => ListAt(j)' = ListAt(j)
  <2>1. \A d \in ToSet(rest) : At(d) = k /\ Policy(d) # "pass_through"
    BY <1>1, <1>4
  <2>2. \A d \in granted' : Policy(d) # "pass_through" =>
          IF At(d) = k THEN d \in ToSet(rest) ELSE d \in granted
    BY <1>1, <1>4
  <2> QED BY <1>4, <1>6, <1>7, <2>1, <2>2, WithListStep
<1>9. rest = <<>> => \A d \in granted' : Policy(d) # "pass_through" => At(d) # k
  <2>1. rest = <<>> => ToSet(rest) = {}
    BY DEF ToSet
  <2> QED BY <1>1, <1>4, <2>1
<1>10. rest # <<>> => Head(rest) \in ToSet(rest)
  <2> SUFFICES ASSUME rest # <<>> PROVE Head(rest) \in ToSet(rest)
    OBVIOUS
  <2>1. Head(rest) = rest[1] /\ 1 \in DOMAIN rest
    BY <1>4
  <2> QED BY <2>1 DEF ToSet
<1>11. ASSUME NEW d \in granted', d = Head(ListAt(At(d))')
       PROVE  IF At(d) = k THEN d = Head(rest) ELSE d = Head(ListAt(At(d)))
  BY <1>8, <1>11
<1> QED BY <1>1, <1>4, <1>5, <1>8, <1>9, <1>10, <1>11 DEF IsHead

\* What an insertion does, once the request is verified and translated to c.
Joins(c) ==
    /\ sys.server = "up" /\ c \notin granted /\ granted' = granted \cup {c}
    /\ IsConfig(c) /\ (Type(c) = "cluster" => c.cluster \in ToSet(reg.logical))
    /\ clients.separate => WellFormed(c) /\ KeepsApart(c)
    /\ IF Policy(c) = "pass_through"
       THEN sys' \in Applied(c, sys) /\ lists' = lists
       ELSE /\ lists' = WithList(At(c), Placed(ListAt(At(c)), c))
            /\ IF Head(lists'[At(c)]) = c THEN sys' \in Applied(c, sys) ELSE sys' = sys
    /\ UNCHANGED <<machine, reg, clients>>

\* An insertion adds one translated configuration, not granted before.
LEMMA InsertJoins ==
    ASSUME IInv, NEW r \in clients.requests, Insert(r)
    PROVE  \E c : Joins(c)
<1>1. /\ r \in Request
      /\ clients.separate => WellFormed(r)
  BY ClientsAssumption DEF IInv, StartOK
<1>2. PICK c \in VerifyIncomingRequest(r) :
         /\ clients.separate => KeepsApart(c)
         /\ granted' = granted \cup {c}
         /\ IF Policy(c) = "pass_through"
            THEN sys' \in Applied(c, sys) /\ UNCHANGED lists
            ELSE /\ lists' = WithList(At(c), Placed(ListAt(At(c)), c))
                 /\ IF Head(lists'[At(c)]) = c THEN sys' \in Applied(c, sys) ELSE UNCHANGED sys
  BY DEF Insert
<1>3. /\ c.id = r.id /\ c.res = r.res /\ c.vals = r.vals /\ IsConfig(c)
      /\ Type(c) = "cluster" => c.cluster \in ToSet(reg.logical)
  BY <1>1, <1>2, TranslatedFacts
<1>4. c \notin granted
  BY <1>3 DEF Insert
<1>5. WellFormed(r) => WellFormed(c)
  BY <1>3 DEF WellFormed, Type
<1>6. sys.server = "up" /\ UNCHANGED <<machine, reg, clients>>
  BY DEF Insert
<1> QED BY <1>1, <1>2, <1>3, <1>4, <1>5, <1>6 DEF Joins

\* An insertion keeps IInv.
LEMMA JoinsInv ==
    ASSUME IInv, NEW c, Joins(c)
    PROVE  IInv'
<1>1. /\ sys.server = "up" /\ c \notin granted /\ granted' = granted \cup {c}
      /\ IsConfig(c) /\ (Type(c) = "cluster" => c.cluster \in ToSet(reg.logical))
      /\ clients.separate => WellFormed(c) /\ KeepsApart(c)
      /\ machine' = machine /\ reg' = reg /\ clients' = clients
  BY DEF Joins
<1>2. StartOK /\ GrantedOK /\ ListsOK /\ DefaultsOK
  BY DEF IInv
<1>3. StartOK'
  BY <1>1, <1>2 DEF StartOK
<1>4. GrantedOK'
  BY <1>1, <1>2 DEF GrantedOK
<1>5. ListsOK'
  <2>1. CASE Policy(c) = "pass_through"
    <3>1. lists' = lists
      BY <2>1 DEF Joins
    <3>2. \A k \in DOMAIN lists : lists[k] \in Seq(granted')
      <4> SUFFICES ASSUME NEW k \in DOMAIN lists PROVE lists[k] \in Seq(granted')
        OBVIOUS
      <4>1. lists[k] \in Seq(granted)
        BY <1>2 DEF ListsOK
      <4> QED BY <1>1, <4>1
    <3> QED BY <1>1, <1>2, <2>1, <3>1, <3>2 DEF ListsOK
  <2>2. CASE Policy(c) # "pass_through"
    BY <1>1, <1>2, <2>2, InsertLists DEF Joins
  <2> QED BY <2>1, <2>2
<1>6. DefaultsOK' /\ sys'.server = sys.server
  <2>1. CASE sys' \in Applied(c, sys)
    BY <1>1, <1>2, <2>1, AppliedStep
  <2>2. CASE sys' = sys
    BY <1>1, <1>2, <2>2 DEF DefaultsOK
  <2> QED BY <2>1, <2>2 DEF Joins
<1>7. StopRestores'
  BY <1>1, <1>6 DEF StopRestores
<1> QED BY <1>3, <1>4, <1>5, <1>6, <1>7 DEF IInv

\* removeRequestFromTable keeps IInv.
LEMMA WithdrawInv ==
    ASSUME IInv, NEW c \in granted, Withdraw(c)
    PROVE  IInv'
<1>1. /\ sys.server = "up" /\ granted' = granted \ {c}
      /\ machine' = machine /\ reg' = reg /\ clients' = clients
  BY DEF Withdraw
<1>2. StartOK /\ GrantedOK /\ ListsOK /\ DefaultsOK
  BY DEF IInv
<1>3. StartOK' /\ GrantedOK'
  BY <1>1, <1>2 DEF StartOK, GrantedOK
<1>4. \A d \in granted : IsConfig(d) /\ (Type(d) = "cluster" => d.cluster \in ToSet(reg.logical))
  BY <1>2 DEF GrantedOK
<1>5. CASE Policy(c) = "pass_through"
  <2>1. sys' \in Torn(c, sys) /\ lists' = lists
    BY <1>5 DEF Withdraw
  <2>2. DefaultsOK' /\ sys'.server \in {sys.server, "crashed"}
    BY <1>1, <1>2, <1>4, <2>1, TornStep
  <2>3. \A k \in DOMAIN lists : lists[k] \in Seq(granted')
    <3> SUFFICES ASSUME NEW k \in DOMAIN lists PROVE lists[k] \in Seq(granted')
      OBVIOUS
    <3>1. lists[k] \in Seq(granted) /\ \A d \in ToSet(lists[k]) : Policy(d) # "pass_through"
      BY <1>2 DEF ListsOK
    <3>2. ToSet(lists[k]) \subseteq granted'
      BY <1>1, <1>2, <1>5, <3>1, OtherLists
    <3>3. PICK S, T, s : S = granted /\ T = granted' /\ s = lists[k]
      OBVIOUS
    <3>4. s \in Seq(T)
      BY <3>1, <3>2, <3>3, SubSeqSet
    <3> QED BY <3>3, <3>4
  <2>4. ListsOK'
    BY <1>1, <1>2, <2>1, <2>3 DEF ListsOK
  <2> QED BY <1>1, <1>3, <2>2, <2>4 DEF IInv, StopRestores
<1>6. CASE Policy(c) # "pass_through"
  <2>1. PICK k, l, rest : k = At(c) /\ l = ListAt(k) /\ rest = RemoveFirst(l, c)
    OBVIOUS
  <2>2. /\ lists' = WithList(k, rest)
        /\ \/ rest = <<>> /\ sys' \in Torn(c, sys)
           \/ rest # <<>> /\ sys' \in Applied(Head(rest), sys)
           \/ sys' = sys
    BY <1>6, <2>1 DEF Withdraw, Unlist
  <2>3. ListsOK' /\ (rest # <<>> => Head(rest) \in granted')
    BY <1>1, <1>2, <1>6, <2>1, <2>2, WithdrawLists
  <2>4. DefaultsOK' /\ sys'.server \in {sys.server, "crashed"}
    <3>1. CASE rest = <<>> /\ sys' \in Torn(c, sys)
      BY <1>1, <1>2, <1>4, <3>1, TornStep
    <3>2. CASE rest # <<>> /\ sys' \in Applied(Head(rest), sys)
      <4>1. PICK h : h = Head(rest)
        OBVIOUS
      <4>2. h \in granted /\ sys' \in Applied(h, sys)
        BY <1>1, <2>3, <3>2, <4>1
      <4> QED BY <1>1, <1>2, <1>4, <4>2, AppliedStep
    <3>3. CASE sys' = sys
      BY <1>1, <1>2, <3>3 DEF DefaultsOK
    <3> QED BY <2>2, <3>1, <3>2, <3>3
  <2> QED BY <1>1, <1>3, <2>3, <2>4 DEF IInv, StopRestores
<1> QED BY <1>5, <1>6

\* The orderly stop keeps IInv: what has a default gets it back, and what has none
\* was never written.
LEMMA StopInv ==
    ASSUME IInv, Stop
    PROVE  IInv'
<1> DEFINE P == {p \in DOMAIN sys.defaults : ~InProc(p)}
           s == Reset(sys, P)
<1>1. /\ sys' = [s EXCEPT !.server = "stopped"]
      /\ machine' = machine /\ reg' = reg /\ clients' = clients /\ lists' = lists /\ granted' = granted
  BY DEF Stop, RestoreResourcesToDefaultValues
<1>2. StartOK /\ GrantedOK /\ ListsOK /\ DefaultsOK /\ IsSys(sys)
  BY DEF IInv, DefaultsOK
<1>3. /\ SameBut(sys, s, P) /\ s.defaults = sys.defaults
      /\ \A p \in DOMAIN sys.file : p \in P => s.file[p] = GetDefaultValue(sys, p)
  BY <1>2, ResetFacts
<1> HIDE DEF s
<1>4. /\ IsSys(sys') /\ sys'.original = sys.original /\ DOMAIN sys'.file = DOMAIN sys.file
      /\ sys'.defaults = sys.defaults /\ sys'.file = s.file
  BY <1>1, <1>3 DEF IsSys, SameBut
<1>5. DefaultsOK'
  <2>1. \A p \in DOMAIN sys.file : ~InProc(p) /\ p \notin DOMAIN sys.defaults => sys'.file[p] = sys.file[p]
    BY <1>3, <1>4 DEF SameBut
  <2> QED BY <1>1, <1>2, <1>4, <2>1, DefaultsStep DEF SameDefault
<1>6. StopRestores'
  <2>1. /\ DOMAIN sys.file = DOMAIN sys.original
        /\ \A p \in DOMAIN sys.original : ~InProc(p) => Pristine(sys, p)
    BY <1>2 DEF DefaultsOK
  <2>2. ASSUME NEW p \in DOMAIN sys.file, ~InProc(p)
        PROVE  s.file[p] = sys.original[p]
    <3>1. Pristine(sys, p)
      BY <2>1, <2>2
    <3>2. CASE p \in DOMAIN sys.defaults
      BY <1>3, <2>2, <3>1, <3>2 DEF Pristine, GetDefaultValue
    <3>3. CASE p \notin DOMAIN sys.defaults
      BY <1>3, <2>2, <3>1, <3>3 DEF Pristine, SameBut
    <3> QED BY <3>2, <3>3
  <2> QED BY <1>4, <2>2 DEF StopRestores
<1>7. StartOK' /\ GrantedOK' /\ ListsOK'
  BY <1>1, <1>2 DEF StartOK, GrantedOK, ListsOK
<1> QED BY <1>5, <1>6, <1>7 DEF IInv

\* IInv is inductive.
LEMMA NextInv ==
    ASSUME IInv, [Next]_vars
    PROVE  IInv'
<1>1. CASE \E r \in clients.requests : Insert(r)
  BY <1>1, InsertJoins, JoinsInv
<1>2. CASE \E c \in granted : Withdraw(c)
  BY <1>2, WithdrawInv
<1>3. CASE Stop
  BY <1>3, StopInv
<1>4. CASE UNCHANGED vars
  BY <1>4 DEF vars, IInv, StartOK, GrantedOK, ListsOK, DefaultsOK, StopRestores
<1> QED BY <1>1, <1>2, <1>3, <1>4 DEF Next

\* IInv in every state, for whatever clients ask.
LEMMA SpecIInv == Spec => []IInv
<1>1. Init => IInv
  BY InitInv
<1>2. IInv /\ [Next]_vars => IInv'
  BY NextInv
<1> QED BY <1>1, <1>2, PTL DEF Spec

\* tear, "Restore all the Resources to Original Values": whatever requests clients
\* make and however they share nodes, an orderly stop leaves the original value in
\* every file, on every machine whose online ranges count its CPUs.
THEOREM StopRestoresAll == Spec => []StopRestores
BY SpecIInv, PTL DEF IInv

----------------------------------------------------------------------------
(* Clients that keep off each other's nodes. *)

\* Keeping apart is symmetric.
LEMMA ApartSym ==
    ASSUME NEW c, NEW d, Apart(c, d)
    PROVE  Apart(d, c)
BY DEF Apart, At, Policy

\* The nodes of configurations of different lists, or passed through.
LEMMA ApartDisjoint ==
    ASSUME NEW c, NEW d, Apart(c, d), Policy(c) = "pass_through" \/ At(c) # At(d)
    PROVE  Nodes(c) \cap Nodes(d) = {}
BY DEF Apart

Up == clients.separate /\ sys.server = "up"

\* What SeparateInv says while the server is up and clients keep apart.
LEMMA SeparateFacts ==
    ASSUME IInv, SeparateInv, Up
    PROVE  /\ ApartOK /\ HomesOK
           /\ \A c \in granted : IsConfig(c) /\ WellFormed(c)
           /\ \A c \in granted : (Policy(c) = "pass_through" \/ IsHead(c)) =>
                 \A p \in Nodes(c) : p \in DOMAIN sys.file => sys.file[p] = Effect(c, p)
           /\ \A p \in DOMAIN sys.file : p[1] # "tid" /\ ~IsNamed(p) => sys.file[p] = sys.original[p]
<1>1. ApartOK /\ HomesOK /\ HeadsInEffect /\ SeparateRestored
  BY DEF SeparateInv, Up
<1>2. \A c \in granted : IsConfig(c) /\ WellFormed(c)
  BY DEF IInv, GrantedOK, Up
<1>3. \A c \in granted : (Policy(c) = "pass_through" \/ IsHead(c)) =>
                 \A p \in Nodes(c) : p \in DOMAIN sys.file => sys.file[p] = Effect(c, p)
  BY <1>1 DEF HeadsInEffect, InEffect, IsHead, Up
<1>4. \A p \in DOMAIN sys.file : p[1] # "tid" /\ ~IsNamed(p) => sys.file[p] = sys.original[p]
  BY <1>1 DEF SeparateRestored, IsNamed, Up
<1> QED BY <1>1, <1>2, <1>3, <1>4

\* The parts of SeparateInv after a step, in terms of the nodes before it.
LEMMA SeparateNext ==
    ASSUME UNCHANGED <<machine, reg, clients>>,
           \A c, d \in granted' : c # d => Apart(c, d),
           HomesOK',
           \A c \in granted' : (Policy(c) = "pass_through" \/ IsHead(c)') =>
              \A p \in Nodes(c) : p \in DOMAIN sys'.file => sys'.file[p] = Effect(c, p),
           \A p \in DOMAIN sys'.file :
              p[1] # "tid" /\ (\A c \in granted' : p \notin Nodes(c)) => sys'.file[p] = sys'.original[p]
    PROVE  SeparateInv'
<1>1. \A c : Nodes(c)' = Nodes(c)
  BY SameNodes
<1>2. ApartOK'
  BY <1>1 DEF ApartOK, Apart
<1>3. HeadsInEffect'
  BY <1>1 DEF HeadsInEffect, InEffect, IsHead
<1>4. SeparateRestored'
  BY <1>1 DEF SeparateRestored
<1> QED BY <1>2, <1>3, <1>4 DEF SeparateInv

\* Processes keep their homes when no default of a process changes and the same
\* processes are named.
LEMMA SameHomes ==
    ASSUME HomesOK, UNCHANGED <<machine, reg>>, sys'.original = sys.original,
           \A p : p[1] = "pid" => SameDefault(sys, sys', p),
           \A p : p[1] = "pid" => (IsNamed(p) <=> \E c \in granted' : p \in Nodes(c))
    PROVE  HomesOK'
<1>1. \A p : IsNamed(p)' <=> \E c \in granted' : p \in Nodes(c)
  BY SameNodes DEF IsNamed
<1>2. ASSUME NEW p \in DOMAIN sys.original, p[1] = "pid"
      PROVE  /\ sys'.original[p] # Empty
             /\ IF IsNamed(p)' /\ sys'.original[p] # <<Root>>
                THEN p \in DOMAIN sys'.defaults /\ sys'.defaults[p] = sys'.original[p]
                ELSE p \notin DOMAIN sys'.defaults
  BY <1>1, <1>2 DEF HomesOK, SameDefault
<1> QED BY <1>2 DEF HomesOK

\* A new configuration takes effect: nobody else has its nodes.
LEMMA JoinsApplied ==
    ASSUME IInv, SeparateInv, Up, NEW c, Joins(c), sys' \in Applied(c, sys),
           Policy(c) # "pass_through" => Head(lists'[At(c)]) = c
    PROVE  SeparateInv'
<1>1. /\ c \notin granted /\ granted' = granted \cup {c} /\ IsConfig(c) /\ WellFormed(c)
      /\ machine' = machine /\ reg' = reg /\ clients' = clients
      /\ \A d \in granted : Apart(c, d)
  BY DEF Joins, Up, KeepsApart, Apart
<1>2. /\ ApartOK /\ HomesOK
      /\ \A d \in granted : IsConfig(d) /\ WellFormed(d)
      /\ \A d \in granted : (Policy(d) = "pass_through" \/ IsHead(d)) =>
            \A p \in Nodes(d) : p \in DOMAIN sys.file => sys.file[p] = Effect(d, p)
      /\ \A p \in DOMAIN sys.file : p[1] # "tid" /\ ~IsNamed(p) => sys.file[p] = sys.original[p]
  BY SeparateFacts
<1>3. IsSys(sys) /\ DOMAIN sys.file = DOMAIN sys.original /\ ListsOK
  BY DEF IInv, DefaultsOK
<1>4. /\ sys'.original = sys.original /\ DOMAIN sys'.file = DOMAIN sys.file
      /\ \A p \in DOMAIN sys.file : p \notin Nodes(c) => sys'.file[p] = sys.file[p]
      /\ \A p : (c.res = "move_pid" /\ p \in Nodes(c)) \/ SameDefault(sys, sys', p)
      /\ \A p \in DOMAIN sys.file : p \in Nodes(c) => sys'.file[p] = Effect(c, p)
      /\ c.res = "move_pid" =>
            \A p \in DOMAIN sys.file : p \in Nodes(c) =>
               IF sys.file[p] = <<Root>> THEN SameDefault(sys, sys', p)
               ELSE p \in DOMAIN sys'.defaults /\ sys'.defaults[p] = sys.file[p]
  BY <1>1, <1>3, AppliedFacts DEF SameBut
<1>5. ASSUME NEW d \in granted, Policy(d) = "pass_through" \/ IsHead(d)'
      PROVE  (Policy(d) = "pass_through" \/ IsHead(d)) /\ Nodes(c) \cap Nodes(d) = {}
  <2>1. CASE Policy(c) = "pass_through"
    <3>1. lists' = lists
      BY <2>1 DEF Joins
    <3>2. IsHead(d)' <=> IsHead(d)
      BY <3>1 DEF IsHead, ListAt
    <3> QED BY <1>1, <1>5, <2>1, <3>2, ApartDisjoint
  <2>2. CASE Policy(c) # "pass_through" /\ Policy(d) = "pass_through"
    BY <1>1, <2>2, ApartSym, ApartDisjoint
  <2>3. CASE Policy(c) # "pass_through" /\ Policy(d) # "pass_through"
    <3>1. lists' = WithList(At(c), Placed(ListAt(At(c)), c))
      BY <2>3 DEF Joins
    <3>2. lists'[At(c)] = ListAt(At(c))' /\ IsHead(d)' /\ IsHead(d)
      BY <1>1, <1>3, <1>5, <2>3, <3>1, InsertLists
    <3>3. At(c) # At(d)
      <4> SUFFICES ASSUME At(c) = At(d) PROVE FALSE
        OBVIOUS
      <4>1. ListAt(At(c))' = ListAt(At(d))'
        BY DEF ListAt
      <4> QED BY <1>1, <2>3, <3>2, <4>1 DEF IsHead
    <3> QED BY <1>1, <3>2, <3>3, ApartDisjoint
  <2> QED BY <2>1, <2>2, <2>3
<1>6. \A d, e \in granted' : d # e => Apart(d, e)
  BY <1>1, <1>2, ApartSym DEF ApartOK
<1>7. ASSUME NEW d \in granted', Policy(d) = "pass_through" \/ IsHead(d)',
             NEW p \in Nodes(d), p \in DOMAIN sys'.file
      PROVE  sys'.file[p] = Effect(d, p)
  BY <1>1, <1>2, <1>4, <1>5, <1>7
<1>8. ASSUME NEW p \in DOMAIN sys'.file, p[1] # "tid", \A d \in granted' : p \notin Nodes(d)
      PROVE  sys'.file[p] = sys'.original[p]
  BY <1>1, <1>2, <1>4, <1>8 DEF IsNamed
<1>9. HomesOK'
  <2>0. \A p : IsNamed(p)' <=> IsNamed(p) \/ p \in Nodes(c)
    BY <1>1, SameNodes DEF IsNamed
  <2>1. ASSUME NEW p \in DOMAIN sys.original, p[1] = "pid"
        PROVE  /\ sys'.original[p] # Empty
               /\ IF IsNamed(p)' /\ sys'.original[p] # <<Root>>
                  THEN p \in DOMAIN sys'.defaults /\ sys'.defaults[p] = sys'.original[p]
                  ELSE p \notin DOMAIN sys'.defaults
    <3>1. CASE p \in Nodes(c)
      <4>1. c.res = "move_pid" /\ Policy(c) = "pass_through"
        BY <1>1, <2>1, <3>1, NodesKind, ConfPolicies DEF InProc, MoveRes, Policy
      <4>2. ~IsNamed(p)
        BY <1>1, <3>1, <4>1, ApartDisjoint DEF IsNamed
      <4>3. sys.file[p] = sys.original[p] /\ p \notin DOMAIN sys.defaults /\ sys.original[p] # Empty
        BY <1>2, <1>3, <2>1, <4>2 DEF HomesOK
      <4>4. IF sys.file[p] = <<Root>> THEN SameDefault(sys, sys', p)
            ELSE p \in DOMAIN sys'.defaults /\ sys'.defaults[p] = sys.file[p]
        BY <1>3, <1>4, <2>1, <3>1, <4>1
      <4> QED BY <1>4, <2>0, <3>1, <4>3, <4>4 DEF SameDefault
    <3>2. CASE p \notin Nodes(c)
      <4>1. SameDefault(sys, sys', p) /\ (IsNamed(p)' <=> IsNamed(p))
        BY <1>4, <2>0, <3>2
      <4> QED BY <1>2, <1>4, <2>1, <4>1 DEF HomesOK, SameDefault
    <3> QED BY <3>1, <3>2
  <2> QED BY <1>4, <2>1 DEF HomesOK
<1> QED BY <1>1, <1>6, <1>7, <1>8, <1>9, SeparateNext

\* A new configuration waits behind the head of its list, which has its nodes.
LEMMA JoinsWaiting ==
    ASSUME IInv, SeparateInv, Up, NEW c, Joins(c), sys' = sys,
           Policy(c) # "pass_through", Head(lists'[At(c)]) # c
    PROVE  SeparateInv'
<1>1. /\ c \notin granted /\ granted' = granted \cup {c} /\ IsConfig(c) /\ WellFormed(c)
      /\ machine' = machine /\ reg' = reg /\ clients' = clients
      /\ \A d \in granted : Apart(c, d)
      /\ lists' = WithList(At(c), Placed(ListAt(At(c)), c))
  BY DEF Joins, Up, KeepsApart, Apart
<1>2. /\ ApartOK /\ HomesOK
      /\ \A d \in granted : (Policy(d) = "pass_through" \/ IsHead(d)) =>
            \A p \in Nodes(d) : p \in DOMAIN sys.file => sys.file[p] = Effect(d, p)
      /\ \A p \in DOMAIN sys.file : p[1] # "tid" /\ ~IsNamed(p) => sys.file[p] = sys.original[p]
  BY SeparateFacts
<1>3. ListsOK
  BY DEF IInv
<1>4. /\ lists'[At(c)] = ListAt(At(c))'
      /\ \A d \in granted : Policy(d) # "pass_through" /\ IsHead(d)' => IsHead(d)
  BY <1>1, <1>3, InsertLists
<1>5. ~IsHead(c)'
  BY <1>4 DEF IsHead
<1>6. \A d, e \in granted' : d # e => Apart(d, e)
  BY <1>1, <1>2, ApartSym DEF ApartOK
<1>7. ASSUME NEW d \in granted', Policy(d) = "pass_through" \/ IsHead(d)',
             NEW p \in Nodes(d), p \in DOMAIN sys'.file
      PROVE  sys'.file[p] = Effect(d, p)
  BY <1>1, <1>2, <1>4, <1>5, <1>7
<1>8. ASSUME NEW p \in DOMAIN sys'.file, p[1] # "tid", \A d \in granted' : p \notin Nodes(d)
      PROVE  sys'.file[p] = sys'.original[p]
  BY <1>1, <1>2, <1>8 DEF IsNamed
<1>9. c.res \notin MoveRes
  BY ConfPolicies DEF MoveRes, Policy
<1>10. \A p : p[1] = "pid" => p \notin Nodes(c)
  BY <1>1, <1>9, NodesKind DEF InProc
<1>11. HomesOK'
  BY <1>1, <1>2, <1>10, SameHomes DEF SameDefault, IsNamed
<1> QED BY <1>1, <1>6, <1>7, <1>8, <1>11, SeparateNext

\* The last configuration of its nodes is withdrawn: they go back to their
\* defaults, which are the original contents.
LEMMA WithdrawTorn ==
    ASSUME IInv, SeparateInv, Up, NEW c \in granted, granted' = granted \ {c},
           UNCHANGED <<machine, reg, clients>>, sys' \in Torn(c, sys),
           \A d \in granted' : Nodes(c) \cap Nodes(d) = {},
           \A d \in granted' : Policy(d) # "pass_through" /\ IsHead(d)' => IsHead(d)
    PROVE  SeparateInv'
<1>1. /\ ApartOK /\ HomesOK
      /\ IsConfig(c) /\ WellFormed(c)
      /\ \A d \in granted : (Policy(d) = "pass_through" \/ IsHead(d)) =>
            \A p \in Nodes(d) : p \in DOMAIN sys.file => sys.file[p] = Effect(d, p)
      /\ \A p \in DOMAIN sys.file : p[1] # "tid" /\ ~IsNamed(p) => sys.file[p] = sys.original[p]
  BY SeparateFacts
<1>2. /\ IsSys(sys) /\ DOMAIN sys.file = DOMAIN sys.original /\ StartOK /\ DefaultsOK
      /\ Type(c) = "cluster" => c.cluster \in ToSet(reg.logical)
      /\ \A p \in DOMAIN sys.original : ~InProc(p) => Pristine(sys, p)
  BY DEF IInv, DefaultsOK, GrantedOK
<1>3. /\ sys'.original = sys.original /\ DOMAIN sys'.file = DOMAIN sys.file
      /\ \A p \in DOMAIN sys.file : p \notin Nodes(c) => sys'.file[p] = sys.file[p]
      /\ \A p : (c.res = "move_pid" /\ p \in Named(c)) \/ SameDefault(sys, sys', p)
      /\ \A p \in DOMAIN sys.file : p \in Nodes(c) /\ ~InProc(p) => sys'.file[p] = GetDefaultValue(sys, p)
      /\ c.res = "move_pid" =>
            \A p \in DOMAIN sys.file : p \in Nodes(c) =>
               /\ p \notin DOMAIN sys'.defaults
               /\ sys'.file[p] = IF GetDefaultValue(sys, p) = Empty THEN <<Root>> ELSE GetDefaultValue(sys, p)
  BY <1>1, <1>2, TornFacts DEF SameBut
<1>4. c.res = "move_pid" => Named(c) = Nodes(c)
  BY <1>1, WellFormedNamesOnce, NodesOf DEF MoveRes
<1>5. \A d, e \in granted' : d # e => Apart(d, e)
  BY <1>1 DEF ApartOK
<1>6. ASSUME NEW d \in granted', Policy(d) = "pass_through" \/ IsHead(d)',
             NEW p \in Nodes(d), p \in DOMAIN sys'.file
      PROVE  sys'.file[p] = Effect(d, p)
  BY <1>1, <1>3, <1>6
<1>7. ASSUME NEW p \in DOMAIN sys.file, p \in Nodes(c), p[1] = "pid"
      PROVE  c.res = "move_pid" /\ IsNamed(p)
  BY <1>1, <1>7, NodesKind DEF InProc, MoveRes, IsNamed
<1>8. ASSUME NEW p \in DOMAIN sys'.file, p[1] # "tid", \A d \in granted' : p \notin Nodes(d)
      PROVE  sys'.file[p] = sys'.original[p]
  <2>1. CASE p \notin Nodes(c)
    <3>1. ~IsNamed(p)
      BY <1>8, <2>1 DEF IsNamed
    <3> QED BY <1>1, <1>3, <1>8, <2>1, <3>1
  <2>2. CASE p \in Nodes(c) /\ p[1] = "pid"
    <3>1. c.res = "move_pid" /\ IsNamed(p) /\ p \in DOMAIN sys.original
      BY <1>2, <1>3, <1>7, <2>2
    <3>2. /\ sys.original[p] # Empty
          /\ GetDefaultValue(sys, p) = IF sys.original[p] = <<Root>> THEN Empty ELSE sys.original[p]
      BY <1>1, <2>2, <3>1 DEF HomesOK, GetDefaultValue
    <3> QED BY <1>3, <2>2, <3>1, <3>2
  <2>3. CASE p \in Nodes(c) /\ p[1] # "pid"
    <3>1. ~InProc(p) /\ p \in DOMAIN sys.original
      BY <1>2, <1>3, <1>8, <2>3 DEF InProc
    <3>2. p \in DOMAIN sys.defaults
      BY <1>1, <1>2, <2>3, <3>1, NodeIsStored
    <3>3. GetDefaultValue(sys, p) = sys.original[p]
      BY <1>2, <3>1, <3>2 DEF Pristine, GetDefaultValue
    <3> QED BY <1>3, <2>3, <3>1, <3>3
  <2> QED BY <2>1, <2>2, <2>3
<1>9. HomesOK'
  <2>0. \A p : IsNamed(p)' <=> \E d \in granted' : p \in Nodes(d)
    BY SameNodes DEF IsNamed
  <2>1. ASSUME NEW p \in DOMAIN sys.original, p[1] = "pid"
        PROVE  /\ sys'.original[p] # Empty
               /\ IF IsNamed(p)' /\ sys'.original[p] # <<Root>>
                  THEN p \in DOMAIN sys'.defaults /\ sys'.defaults[p] = sys'.original[p]
                  ELSE p \notin DOMAIN sys'.defaults
    <3>0. sys'.original[p] # Empty
      BY <1>1, <1>3, <2>1 DEF HomesOK
    <3>1. CASE p \in Nodes(c)
      <4>1. p \notin DOMAIN sys'.defaults
        BY <1>2, <1>3, <1>7, <2>1, <3>1
      <4>2. ~IsNamed(p)'
        BY <2>0, <3>1
      <4> QED BY <3>0, <4>1, <4>2
    <3>2. CASE p \notin Nodes(c)
      <4>1. SameDefault(sys, sys', p)
        BY <1>3, <1>4, <3>2
      <4>2. IsNamed(p)' <=> IsNamed(p)
        BY <2>0, <3>2 DEF IsNamed
      <4> QED BY <1>1, <1>3, <2>1, <4>1, <4>2 DEF HomesOK, SameDefault
    <3> QED BY <3>1, <3>2
  <2> QED BY <1>3, <2>1 DEF HomesOK
<1> QED BY <1>5, <1>6, <1>8, <1>9, SeparateNext

\* A configuration of a list that others are in is withdrawn: its nodes are
\* theirs, and pass to the next one if it was the head.
LEMMA WithdrawShared ==
    ASSUME IInv, SeparateInv, Up, NEW c \in granted, granted' = granted \ {c},
           UNCHANGED <<machine, reg, clients>>, Policy(c) # "pass_through",
           NEW h \in granted', Policy(h) # "pass_through", At(h) = At(c),
           \A d \in granted' : Policy(d) # "pass_through" /\ IsHead(d)' =>
              IF At(d) = At(c) THEN d = h ELSE IsHead(d),
           sys' \in Applied(h, sys) \/ (sys' = sys /\ IsHead(h))
    PROVE  SeparateInv'
<1>1. /\ ApartOK /\ HomesOK
      /\ IsConfig(c) /\ IsConfig(h) /\ WellFormed(h) /\ h \in granted /\ h # c
      /\ \A d \in granted : (Policy(d) = "pass_through" \/ IsHead(d)) =>
            \A p \in Nodes(d) : p \in DOMAIN sys.file => sys.file[p] = Effect(d, p)
      /\ \A p \in DOMAIN sys.file : p[1] # "tid" /\ ~IsNamed(p) => sys.file[p] = sys.original[p]
  BY SeparateFacts
<1>2. IsSys(sys) /\ DOMAIN sys.file = DOMAIN sys.original
  BY DEF IInv, DefaultsOK
<1>3. Nodes(c) = Nodes(h)
  BY <1>1 DEF ApartOK, Apart
<1>4. c.res \notin MoveRes /\ h.res \notin MoveRes
  BY ConfPolicies DEF MoveRes, Policy
<1>5. /\ sys'.original = sys.original /\ DOMAIN sys'.file = DOMAIN sys.file
      /\ \A p \in DOMAIN sys.file : p \notin Nodes(h) => sys'.file[p] = sys.file[p]
      /\ \A p : SameDefault(sys, sys', p)
      /\ \A p \in DOMAIN sys.file : p \in Nodes(h) => sys'.file[p] = Effect(h, p)
  <2>1. CASE sys' \in Applied(h, sys)
    BY <1>1, <1>2, <1>4, <2>1, AppliedFacts DEF SameBut, MoveRes
  <2>2. CASE sys' = sys /\ IsHead(h)
    BY <1>1, <2>2 DEF SameDefault
  <2> QED BY <2>1, <2>2
<1>6. \A d, e \in granted' : d # e => Apart(d, e)
  BY <1>1 DEF ApartOK
<1>7. ASSUME NEW d \in granted', d # h, Policy(d) = "pass_through" \/ IsHead(d)'
      PROVE  (Policy(d) = "pass_through" \/ IsHead(d)) /\ Nodes(h) \cap Nodes(d) = {}
  <2>1. Apart(d, h)
    BY <1>1, <1>7 DEF ApartOK
  <2> QED BY <1>7, <2>1, ApartDisjoint
<1>8. ASSUME NEW d \in granted', Policy(d) = "pass_through" \/ IsHead(d)',
             NEW p \in Nodes(d), p \in DOMAIN sys'.file
      PROVE  sys'.file[p] = Effect(d, p)
  <2>1. CASE d = h
    BY <1>5, <1>8, <2>1
  <2>2. CASE d # h
    BY <1>1, <1>5, <1>7, <1>8, <2>2
  <2> QED BY <2>1, <2>2
<1>9. \A p : IsNamed(p) <=> \E d \in granted' : p \in Nodes(d)
  BY <1>1, <1>3 DEF IsNamed
<1>10. ASSUME NEW p \in DOMAIN sys'.file, p[1] # "tid", \A d \in granted' : p \notin Nodes(d)
      PROVE  sys'.file[p] = sys'.original[p]
  BY <1>1, <1>5, <1>9, <1>10
<1>11. HomesOK'
  BY <1>1, <1>5, <1>9, SameHomes
<1> QED BY <1>6, <1>8, <1>10, <1>11, SeparateNext

\* A withdrawal keeps SeparateInv.
LEMMA WithdrawSeparate ==
    ASSUME IInv, SeparateInv, Up, NEW c \in granted, Withdraw(c)
    PROVE  SeparateInv'
<1>1. granted' = granted \ {c} /\ UNCHANGED <<machine, reg, clients>>
  BY DEF Withdraw
<1>2. ApartOK /\ ListsOK
  BY DEF SeparateInv, Up, IInv
<1>3. CASE Policy(c) = "pass_through"
  <2>1. sys' \in Torn(c, sys) /\ lists' = lists
    BY <1>3 DEF Withdraw
  <2>2. \A d \in granted' : Nodes(c) \cap Nodes(d) = {}
    BY <1>1, <1>2, <1>3, ApartDisjoint DEF ApartOK
  <2>3. \A d : IsHead(d)' <=> IsHead(d)
    BY <2>1 DEF IsHead, ListAt
  <2> QED BY <1>1, <2>1, <2>2, <2>3, WithdrawTorn
<1>4. CASE Policy(c) # "pass_through"
  <2>1. PICK k, l, rest : k = At(c) /\ l = ListAt(k) /\ rest = RemoveFirst(l, c)
    OBVIOUS
  <2>2. /\ lists' = WithList(k, rest)
        /\ rest = <<>> => sys' \in Torn(c, sys)
        /\ rest # <<>> => IF Head(l) = c THEN sys' \in Applied(Head(rest), sys) ELSE sys' = sys
    BY <1>4, <2>1 DEF Withdraw, Unlist
  <2>3. /\ rest = <<>> => \A d \in granted' : Policy(d) # "pass_through" => At(d) # k
        /\ rest # <<>> => /\ Head(rest) \in granted' /\ At(Head(rest)) = k
                          /\ Policy(Head(rest)) # "pass_through"
        /\ Head(l) # c => rest # <<>> /\ Head(rest) = Head(l)
        /\ \A d \in granted' : Policy(d) # "pass_through" /\ IsHead(d)' =>
              IF At(d) = k THEN d = Head(rest) ELSE IsHead(d)
    BY <1>1, <1>2, <1>4, <2>1, <2>2, WithdrawLists
  <2>4. CASE rest = <<>>
    <3>1. \A d \in granted' : Nodes(c) \cap Nodes(d) = {}
      <4> SUFFICES ASSUME NEW d \in granted' PROVE Nodes(c) \cap Nodes(d) = {}
        OBVIOUS
      <4>1. Apart(c, d) /\ Apart(d, c)
        BY <1>1, <1>2 DEF ApartOK
      <4> QED BY <2>1, <2>3, <2>4, <4>1, ApartDisjoint
    <3> QED BY <1>1, <2>1, <2>2, <2>3, <2>4, <3>1, WithdrawTorn
  <2>5. CASE rest # <<>>
    <3>1. PICK h : h = Head(rest)
      OBVIOUS
    <3>2. h \in granted' /\ At(h) = At(c) /\ Policy(h) # "pass_through"
      BY <2>1, <2>3, <2>5, <3>1
    <3>3. \A d \in granted' : Policy(d) # "pass_through" /\ IsHead(d)' =>
             IF At(d) = At(c) THEN d = h ELSE IsHead(d)
      BY <2>1, <2>3, <3>1
    <3>4. sys' \in Applied(h, sys) \/ (sys' = sys /\ IsHead(h))
      BY <2>1, <2>2, <2>3, <2>5, <3>1, <3>2 DEF IsHead
    <3> HIDE DEF IsHead
    <3> QED BY <1>1, <1>4, <3>2, <3>3, <3>4, WithdrawShared
  <2> QED BY <2>4, <2>5
<1> QED BY <1>3, <1>4

\* SeparateInv is inductive, given IInv.
LEMMA NextSeparate ==
    ASSUME IInv, SeparateInv, [Next]_vars
    PROVE  SeparateInv'
<1>1. SUFFICES ASSUME Up' PROVE SeparateInv'
  BY DEF SeparateInv, Up
<1>2. CASE \E r \in clients.requests : Insert(r)
  <2>1. PICK c : Joins(c)
    BY <1>2, InsertJoins
  <2>2. Up
    BY <1>1, <2>1 DEF Joins, Up
  <2>3. CASE Policy(c) # "pass_through" /\ Head(lists'[At(c)]) # c
    <3>1. sys' = sys
      BY <2>1, <2>3 DEF Joins
    <3> QED BY <2>1, <2>2, <2>3, <3>1, JoinsWaiting
  <2>4. CASE Policy(c) = "pass_through" \/ Head(lists'[At(c)]) = c
    <3>1. sys' \in Applied(c, sys)
      BY <2>1, <2>4 DEF Joins
    <3> QED BY <2>1, <2>2, <2>4, <3>1, JoinsApplied
  <2> QED BY <2>3, <2>4
<1>3. CASE \E c \in granted : Withdraw(c)
  <2>1. PICK c \in granted : Withdraw(c)
    BY <1>3
  <2>2. Up
    BY <1>1, <2>1 DEF Withdraw, Up
  <2> QED BY <2>1, <2>2, WithdrawSeparate
<1>4. CASE Stop
  <2>1. IsSys(sys)
    BY DEF IInv, DefaultsOK
  <2>2. sys'.server = "stopped"
    BY <1>4, <2>1, ResetFacts DEF Stop, RestoreResourcesToDefaultValues, SameBut, IsSys
  <2> QED BY <1>1, <2>2 DEF Up
<1>5. CASE UNCHANGED vars
  <2>1. \A c : Nodes(c)' = Nodes(c)
    BY <1>5, SameNodes DEF vars
  <2> QED BY <1>5, <2>1 DEF vars, SeparateInv, ApartOK, Apart, HomesOK, IsNamed, HeadsInEffect, InEffect,
                            ListAt, SeparateRestored
<1> QED BY <1>2, <1>3, <1>4, <1>5 DEF Next

\* Both invariants in every state.
LEMMA SpecSeparate == Spec => [](IInv /\ SeparateInv)
<1>1. Init => IInv /\ SeparateInv
  BY InitInv
<1>2. IInv /\ SeparateInv /\ [Next]_vars => IInv' /\ SeparateInv'
  BY NextInv, NextSeparate
<1> QED BY <1>1, <1>2, PTL DEF Spec

\* With clients that keep off each other's nodes, the head of every list of the
\* coordinator, and every move, is what the files of the machine hold: no callback
\* of another configuration has overwritten it.
THEOREM HeadsInEffectAll == Spec => []HeadsInEffect
<1>1. SeparateInv => HeadsInEffect
  BY DEF SeparateInv, HeadsInEffect
<1> QED BY <1>1, SpecSeparate, PTL

\* With such clients, a file that no granted configuration names holds its original
\* value, and a process that none names is in the cgroup it was in before.
THEOREM SeparateRestoredAll == Spec => []SeparateRestored
<1>1. SeparateInv => SeparateRestored
  BY DEF SeparateInv, SeparateRestored
<1> QED BY <1>1, SpecSeparate, PTL
=============================================================================
