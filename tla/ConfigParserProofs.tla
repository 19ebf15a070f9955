------------------------- MODULE ConfigParserProofs -------------------------
(***************************************************************************)
(* KeysResolve for all documents and files.  Only the conflict rule that   *)
(* registerResource and registerSignal share changes the keys of a table,  *)
(* and pluginModifications the configurations in it: the first keeps keys  *)
(* resolved, the second leaves the identity of a configuration alone.      *)
(* Everything else a parser does, on whatever event, leaves both tables as *)
(* they are.                                                               *)
(***************************************************************************)
EXTENDS ConfigParser, TLAPS

IsState(s) == DOMAIN s = {"p", "reg"}

IsRegistry(g) == DOMAIN g = DOMAIN EmptyRegistry /\ IsTable(g.resources) /\ IsTable(g.signals)

\* t has the registries of s.
SameReg(s, t) == IsState(t) /\ t.reg = s.reg

---------------------------------------------------------------------------
(* The conflict rule.                                                      *)

\* A sequence with an element replaced, and with one more.
LEMMA SequenceFacts ==
    ASSUME NEW s, s \in Seq(ToSet(s)), NEW x
    PROVE  /\ DOMAIN s = 1 .. Len(s) /\ Len(s) \in Nat
           /\ \A i \in DOMAIN s : LET r == [s EXCEPT ![i] = x]
                                  IN  r \in Seq(ToSet(r)) /\ DOMAIN r = DOMAIN s
           /\ LET r == Append(s, x)
              IN  r \in Seq(ToSet(r)) /\ DOMAIN r = DOMAIN s \cup {Len(s) + 1}
                  /\ r[Len(s) + 1] = x /\ \A i \in DOMAIN s : r[i] = s[i]
<1>1. DOMAIN s = 1 .. Len(s) /\ Len(s) \in Nat
  OBVIOUS
<1>2. ASSUME NEW r, NEW n \in Nat, DOMAIN r = 1 .. n, r = [i \in 1 .. n |-> r[i]]
      PROVE  r \in Seq(ToSet(r))
  <2>1. r \in [1 .. n -> ToSet(r)]
    BY <1>2 DEF ToSet
  <2> QED BY <2>1
<1>3. ASSUME NEW i \in DOMAIN s
      PROVE  LET r == [s EXCEPT ![i] = x] IN r \in Seq(ToSet(r)) /\ DOMAIN r = DOMAIN s
  <2> DEFINE r == [s EXCEPT ![i] = x]
  <2>1. DOMAIN r = 1 .. Len(s) /\ r = [j \in 1 .. Len(s) |-> r[j]]
    BY <1>1
  <2> HIDE DEF r
  <2>2. r \in Seq(ToSet(r))
    BY <1>1, <1>2, <2>1
  <2>3. DOMAIN r = DOMAIN s
    BY <1>1, <2>1
  <2> QED BY <2>2, <2>3 DEF r
<1>4. LET r == Append(s, x)
      IN  r \in Seq(ToSet(r)) /\ DOMAIN r = DOMAIN s \cup {Len(s) + 1}
          /\ r[Len(s) + 1] = x /\ \A i \in DOMAIN s : r[i] = s[i]
  <2> DEFINE r == Append(s, x)
  <2>0. s \in Seq(ToSet(s) \cup {x})
    OBVIOUS
  <2>1. /\ r \in Seq(ToSet(s) \cup {x}) /\ Len(r) = Len(s) + 1
        /\ r[Len(s) + 1] = x /\ \A i \in 1 .. Len(s) : r[i] = s[i]
    BY <2>0, <1>1
  <2> HIDE DEF r
  <2>2. DOMAIN r = 1 .. Len(s) + 1 /\ r = [j \in 1 .. Len(s) + 1 |-> r[j]]
    BY <2>1, <1>1
  <2>3. PICK n \in Nat : n = Len(s) + 1
    BY <1>1
  <2>4. r \in Seq(ToSet(r))
    BY <1>2, <2>2, <2>3
  <2>5. DOMAIN r = DOMAIN s \cup {Len(s) + 1}
    BY <1>1, <2>2
  <2> QED BY <1>1, <2>1, <2>4, <2>5 DEF r
<1> QED BY <1>1, <1>3, <1>4

\* registerResource and registerSignal on a table whose keys resolve: a new entry, one
\* that replaces the plain one in place, and a custom one that takes its key over
\* leave keys resolved.
LEMMA RegisterKeepsTable ==
    ASSUME NEW t, IsTable(t), NEW id, NEW conf, "id" \in DOMAIN conf, conf.id = id, NEW bu \in BOOLEAN
    PROVE  IsTable(Register(t, id, conf, bu))
<1> DEFINE plain == <<id, FALSE>>
           key == <<id, bu>>
           u == Register(t, id, conf, bu)
<1>1. /\ t.table \in Seq(ToSet(t.table)) /\ \A c \in ToSet(t.table) : "id" \in DOMAIN c
      /\ \A k \in DOMAIN t.map : t.map[k] \in DOMAIN t.table /\ t.table[t.map[k]].id = k[1]
      /\ \A a, b \in DOMAIN t.map : t.map[a] = t.map[b] => a = b
  BY DEF IsTable, Resolves, Lookup
<1>2. PICK s, m : s = t.table /\ m = t.map
  OBVIOUS
<1>3. /\ s \in Seq(ToSet(s)) /\ \A i \in DOMAIN s : "id" \in DOMAIN s[i]
      /\ \A k \in DOMAIN m : m[k] \in DOMAIN s /\ s[m[k]].id = k[1]
      /\ \A a, b \in DOMAIN m : m[a] = m[b] => a = b
  BY <1>1, <1>2 DEF ToSet
<1>4. DOMAIN s = 1 .. Len(s) /\ Len(s) \in Nat
  BY <1>3, SequenceFacts
<1>5. CASE plain \in DOMAIN m
  <2> DEFINE r == [s EXCEPT ![m[plain]] = conf]
             n == With(IF bu THEN Without(m, plain) ELSE m, key, m[plain])
  <2>1. u = [table |-> r, map |-> n]
    BY <1>2, <1>5 DEF Register
  <2>2. m[plain] \in DOMAIN s
    BY <1>3, <1>5
  <2>3. r \in Seq(ToSet(r)) /\ DOMAIN r = DOMAIN s
    BY <1>3, <2>2, SequenceFacts
  <2>4. r[m[plain]] = conf /\ \A i \in DOMAIN s : i # m[plain] => r[i] = s[i]
    BY <2>2
  <2>5. /\ key \in DOMAIN n /\ n[key] = m[plain]
        /\ \A k \in DOMAIN n \ {key} : k \in DOMAIN m /\ k # plain /\ n[k] = m[k]
    BY <1>5 DEF With, Without
  <2> HIDE DEF r, n
  <2>6. \A i \in DOMAIN r : "id" \in DOMAIN r[i]
    BY <1>3, <2>2, <2>3, <2>4
  <2>7. \A k \in DOMAIN n : n[k] \in DOMAIN r /\ r[n[k]].id = k[1]
    <3> SUFFICES ASSUME NEW k \in DOMAIN n PROVE n[k] \in DOMAIN r /\ r[n[k]].id = k[1]
      OBVIOUS
    <3>1. CASE k = key
      BY <2>2, <2>3, <2>4, <2>5, <3>1
    <3>2. CASE k # key
      <4>1. k \in DOMAIN m /\ k # plain /\ n[k] = m[k]
        BY <2>5, <3>2
      <4>2. m[k] # m[plain]
        BY <1>3, <1>5, <4>1
      <4> QED BY <1>3, <2>3, <2>4, <4>1, <4>2
    <3> QED BY <3>1, <3>2
  <2>8. ASSUME NEW a \in DOMAIN n, NEW b \in DOMAIN n, n[a] = n[b] PROVE a = b
    <3>1. \A k \in DOMAIN n \ {key} : n[k] # n[key]
      BY <1>3, <1>5, <2>5
    <3>2. CASE a = key \/ b = key
      BY <2>8, <3>1, <3>2
    <3>3. CASE a # key /\ b # key
      <4>1. a \in DOMAIN m /\ b \in DOMAIN m /\ m[a] = m[b]
        BY <2>5, <2>8, <3>3
      <4> QED BY <1>3, <4>1
    <3> QED BY <3>2, <3>3
  <2> QED BY <2>1, <2>3, <2>6, <2>7, <2>8 DEF IsTable, Resolves, Lookup, ToSet
<1>6. CASE plain \notin DOMAIN m
  <2> DEFINE r == Append(s, conf)
             n == With(m, key, Len(s) + 1)
  <2>1. u = [table |-> r, map |-> n]
    BY <1>2, <1>6 DEF Register
  <2>2. /\ r \in Seq(ToSet(r)) /\ DOMAIN r = DOMAIN s \cup {Len(s) + 1}
        /\ r[Len(s) + 1] = conf /\ \A i \in DOMAIN s : r[i] = s[i]
    BY <1>3, SequenceFacts
  <2>3. /\ key \in DOMAIN n /\ n[key] = Len(s) + 1
        /\ \A k \in DOMAIN n \ {key} : k \in DOMAIN m /\ n[k] = m[k]
    BY DEF With
  <2>4. \A i \in DOMAIN s : i # Len(s) + 1
    BY <1>4
  <2> HIDE DEF r, n
  <2>5. \A i \in DOMAIN r : "id" \in DOMAIN r[i]
    BY <1>3, <2>2
  <2>6. \A k \in DOMAIN n : n[k] \in DOMAIN r /\ r[n[k]].id = k[1]
    BY <1>3, <2>2, <2>3
  <2>7. ASSUME NEW a \in DOMAIN n, NEW b \in DOMAIN n, n[a] = n[b] PROVE a = b
    <3>1. \A k \in DOMAIN n \ {key} : n[k] # n[key]
      BY <1>3, <2>3, <2>4
    <3>2. CASE a = key \/ b = key
      BY <2>7, <3>1, <3>2
    <3>3. CASE a # key /\ b # key
      <4>1. a \in DOMAIN m /\ b \in DOMAIN m /\ m[a] = m[b]
        BY <2>3, <2>7, <3>3
      <4> QED BY <1>3, <4>1
    <3> QED BY <3>2, <3>3
  <2> QED BY <2>1, <2>2, <2>5, <2>6, <2>7 DEF IsTable, Resolves, Lookup, ToSet
<1> QED BY <1>5, <1>6

---------------------------------------------------------------------------
(* The registries.                                                         *)

\* The maps of the registries.
LEMMA RegistryFields ==
    {"resources", "signals", "features", "subscribers", "apps", "props", "clusters", "logical",
     "cgroups", "mpam", "caches"} = DOMAIN EmptyRegistry
BY DEF EmptyRegistry

\* registerResource keeps both tables resolved.
LEMMA RegisterResourceKeeps ==
    ASSUME NEW g, IsRegistry(g), NEW b, NEW bu \in BOOLEAN
    PROVE  IsRegistry(RegisterResource(g, b, bu))
<1>1. CASE ResourceId(b)[1] = 0
  BY <1>1 DEF RegisterResource
<1>2. CASE ResourceId(b)[1] # 0
  <2>1. PICK id, conf : id = ResourceId(b) /\ conf = ResourceConf(b)
    OBVIOUS
  <2>2. "id" \in DOMAIN conf /\ conf.id = id
    BY <2>1 DEF ResourceConf
  <2>3. IsTable(Register(g.resources, id, conf, bu))
    BY <2>2, RegisterKeepsTable DEF IsRegistry
  <2>4. PICK t : t = Register(g.resources, id, conf, bu)
    OBVIOUS
  <2>5. RegisterResource(g, b, bu) = [g EXCEPT !.resources = t]
    BY <1>2, <2>1, <2>4 DEF RegisterResource
  <2> QED BY <2>3, <2>4, <2>5, RegistryFields DEF IsRegistry
<1> QED BY <1>1, <1>2

\* registerSignal keeps both tables resolved.
LEMMA RegisterSignalKeeps ==
    ASSUME NEW g, IsRegistry(g), NEW b, NEW bu \in BOOLEAN
    PROVE  IsRegistry(RegisterSignal(g, b, bu))
<1>1. CASE SignalId(b)[1] = 0
  BY <1>1 DEF RegisterSignal
<1>2. CASE SignalId(b)[1] # 0
  <2>1. PICK id, conf : id = SignalId(b) /\ conf = SignalConf(b)
    OBVIOUS
  <2>2. "id" \in DOMAIN conf /\ conf.id = id
    BY <2>1 DEF SignalConf
  <2>3. IsTable(Register(g.signals, id, conf, bu))
    BY <2>2, RegisterKeepsTable DEF IsRegistry
  <2>4. PICK t : t = Register(g.signals, id, conf, bu)
    OBVIOUS
  <2>5. RegisterSignal(g, b, bu) = [g EXCEPT !.signals = t]
    BY <1>2, <2>1, <2>4 DEF RegisterSignal
  <2> QED BY <2>3, <2>4, <2>5, RegistryFields DEF IsRegistry
<1> QED BY <1>1, <1>2

\* A map other than the tables of resources and signals is replaced.
LEMMA OtherFieldKeeps ==
    ASSUME NEW g, IsRegistry(g), NEW f \in DOMAIN g \ {"resources", "signals"}, NEW v
    PROVE  IsRegistry([g EXCEPT ![f] = v])
BY RegistryFields DEF IsRegistry

\* registerExtFeature and its subscriptions leave both tables alone.
LEMMA RegisterExtFeatureKeeps ==
    ASSUME NEW g, IsRegistry(g), NEW b
    PROVE  IsRegistry(RegisterExtFeature(g, b))
<1>1. PICK v, w : RegisterExtFeature(g, b) \in {g, [g EXCEPT !.features = v, !.subscribers = w]}
  BY DEF RegisterExtFeature
<1> QED BY <1>1, RegistryFields DEF IsRegistry

\* So do the registrations of apps, properties, cgroups, MPAM groups and caches.
LEMMA OtherOperationsKeep ==
    ASSUME NEW g, IsRegistry(g), NEW x, NEW y
    PROVE  /\ IsRegistry(RegisterAppConfig(g, x))
           /\ IsRegistry(CreateProperty(g, x, y))
           /\ IsRegistry(AddCGroupMapping(g, x))
           /\ IsRegistry(AddMpamGroupMapping(g, x))
           /\ IsRegistry(AddCacheInfoMapping(g, x))
<1>1. PICK v : RegisterAppConfig(g, x) = [g EXCEPT !.apps = v]
  BY DEF RegisterAppConfig
<1>2. PICK v2 : CreateProperty(g, x, y) = [g EXCEPT !.props = v2]
  BY DEF CreateProperty
<1>3. PICK v3 : AddCGroupMapping(g, x) \in {g, [g EXCEPT !.cgroups = v3]}
  BY DEF AddCGroupMapping
<1>4. PICK v4 : AddMpamGroupMapping(g, x) \in {g, [g EXCEPT !.mpam = v4]}
  BY DEF AddMpamGroupMapping
<1>5. PICK v5 : AddCacheInfoMapping(g, x) \in {g, [g EXCEPT !.caches = v5]}
  BY DEF AddCacheInfoMapping
<1>6. {"apps", "props", "cgroups", "mpam", "caches"} \subseteq DOMAIN g \ {"resources", "signals"}
  BY RegistryFields DEF IsRegistry
<1> QED BY <1>1, <1>2, <1>3, <1>4, <1>5, <1>6, OtherFieldKeeps

\* So do the registrations of clusters.
LEMMA ClusterOperationsKeep ==
    ASSUME NEW g, IsRegistry(g), NEW x, NEW y
    PROVE  IsRegistry(AddClusterMapping(g, x, y)) /\ IsRegistry(AddClusterSpreadInfo(g, x, y))
<1>1. PICK v, w : AddClusterMapping(g, x, y) \in {g, [g EXCEPT !.logical = v, !.clusters = w]}
  BY DEF AddClusterMapping
<1>2. IsRegistry(AddClusterMapping(g, x, y))
  BY <1>1, RegistryFields DEF IsRegistry
<1>3. PICK v3 : AddClusterSpreadInfo(g, x, y) \in {g, [g EXCEPT !.clusters = v3]}
  BY DEF AddClusterSpreadInfo
<1>4. "clusters" \in DOMAIN g \ {"resources", "signals"}
  BY RegistryFields DEF IsRegistry
<1> QED BY <1>2, <1>3, <1>4, OtherFieldKeeps

\* pluginModifications changes the callbacks in a configuration, never its id.
LEMMA PluginModificationsKeeps ==
    ASSUME NEW g, IsRegistry(g), NEW plugins
    PROVE  IsRegistry(PluginModifications(g, plugins))
<1>1. PICK t : t = g.resources
  OBVIOUS
<1>2. IsTable(t)
  BY <1>1 DEF IsRegistry
<1> DEFINE K == DOMAIN t.map \cap DOMAIN plugins
           hit(i) == \E key \in K : t.map[key] = i
           new(i) == CHOOSE key \in K : t.map[key] = i
           r == [i \in DOMAIN t.table |-> IF hit(i) THEN [t.table[i] EXCEPT !.callbacks = plugins[new(i)]]
                                          ELSE t.table[i]]
<1>3. PluginModifications(g, plugins) = [g EXCEPT !.resources.table = r]
  BY <1>1 DEF PluginModifications
<1>4. DOMAIN t.table = 1 .. Len(t.table) /\ Len(t.table) \in Nat
  BY <1>2, SequenceFacts DEF IsTable
<1>5. DOMAIN r = DOMAIN t.table
  OBVIOUS
<1>6. \A i \in DOMAIN r : "id" \in DOMAIN r[i] /\ r[i].id = t.table[i].id
  <2> SUFFICES ASSUME NEW i \in DOMAIN t.table PROVE "id" \in DOMAIN r[i] /\ r[i].id = t.table[i].id
    OBVIOUS
  <2>1. "id" \in DOMAIN t.table[i]
    BY <1>2 DEF IsTable, ToSet
  <2>2. PICK c, v : c = t.table[i] /\ v = plugins[new(i)]
    OBVIOUS
  <2>3. r[i] \in {c, [c EXCEPT !.callbacks = v]}
    BY <2>2
  <2> QED BY <2>1, <2>2, <2>3
<1>7. r \in Seq(ToSet(r))
  <2>1. r = [i \in 1 .. Len(t.table) |-> r[i]]
    BY <1>4, <1>5
  <2> HIDE DEF r
  <2>2. r \in [1 .. Len(t.table) -> ToSet(r)]
    BY <1>4, <1>5, <2>1 DEF ToSet
  <2> QED BY <1>4, <2>2
<1> HIDE DEF r
<1>8. IsTable([t EXCEPT !.table = r])
  <2>1. PICK u : u = [t EXCEPT !.table = r]
    OBVIOUS
  <2>2. DOMAIN u = {"table", "map"} /\ u.table = r /\ u.map = t.map
    BY <1>2, <2>1 DEF IsTable
  <2>3. Resolves(u)
    BY <1>2, <1>5, <1>6, <2>2 DEF IsTable, Resolves, Lookup
  <2> QED BY <1>6, <1>7, <2>1, <2>2, <2>3 DEF IsTable, ToSet
<1>9. PluginModifications(g, plugins) = [g EXCEPT !.resources = [t EXCEPT !.table = r]]
  BY <1>1, <1>3, RegistryFields DEF IsRegistry
<1>10. PICK u : u = [t EXCEPT !.table = r]
  OBVIOUS
<1> QED BY <1>8, <1>9, <1>10, RegistryFields DEF IsRegistry

---------------------------------------------------------------------------
(* The parsers, on any event.                                              *)

\* A parser's call stack and its builder are no part of the registries.
LEMMA LocalFacts ==
    ASSUME NEW s, IsState(s), NEW x
    PROVE  SameReg(s, s) /\ SameReg(s, Return(s, x)) /\ SameReg(s, Pop(s)) /\ SameReg(s, EndOfList(s))
<1>1. SameReg(s, s) /\ \A c : SameReg(s, Return(s, c))
  BY DEF IsState, SameReg, Return
<1>2. SameReg(s, Pop(s))
  BY DEF IsState, SameReg, Pop
<1> QED BY <1>1, <1>2 DEF EndOfList

\* Setting a field of the builder changes no registry.
LEMMA SetFacts ==
    ASSUME NEW s, IsState(s), NEW known, NEW valid, NEW put
    PROVE  SameReg(s, Set(s, known, valid, put))
BY DEF IsState, SameReg, Set

\* Pushing a key changes no registry.
LEMMA PushFacts ==
    ASSUME NEW s, IsState(s), NEW w
    PROVE  SameReg(s, [s EXCEPT !.p.keys = Append(@, w)])
BY DEF IsState, SameReg

\* Leaving the registries alone is transitive.
LEMMA SameRegTrans ==
    ASSUME NEW s, NEW t, NEW u, SameReg(s, t), SameReg(t, u)
    PROVE  SameReg(s, u)
BY DEF SameReg

\* parseResourceConfigYamlNode on one event: a registration, or nothing.
LEMMA ResourceEventKeeps ==
    ASSUME NEW s, IsState(s), IsRegistry(s.reg), NEW e, NEW bu \in BOOLEAN
    PROVE  IsRegistry(ResourceEvent(s, e, bu).reg)
<1> DEFINE t == ResourceEvent(s, e, bu)
<1>1. CASE e.type = "mapEnd"
  <2>1. t = ResourceEnd(s, bu)
    BY <1>1 DEF ResourceEvent
  <2>2. CASE s.p.item
    <3>1. PICK b : t = [s EXCEPT !.reg = RegisterResource(@, b, bu), !.p.b = NoBuilder, !.p.item = FALSE]
      BY <2>1, <2>2 DEF ResourceEnd
    <3>2. t.reg = RegisterResource(s.reg, b, bu)
      BY <3>1 DEF IsState
    <3> QED BY <3>2, RegisterResourceKeeps
  <2>3. CASE ~s.p.item
    BY <2>1, <2>3 DEF ResourceEnd
  <2> QED BY <2>2, <2>3
<1>2. CASE e.type = "scalar"
  <2>1. \A u, k : IsState(u) => SameReg(u, ResourceValue(u, k, e.value))
    BY SetFacts DEF ResourceValue
  <2>2. t \in {[s EXCEPT !.p.keys = Append(@, e.value)], Return(s, "syntax"),
               ResourceValue(s, Top(s), e.value), ResourceValue(Pop(s), Top(s), e.value)}
    BY <1>2 DEF ResourceEvent, OnScalar
  <2> HIDE DEF t
  <2>3. IsState(Pop(s))
    BY LocalFacts DEF SameReg
  <2>4. SameReg(s, t)
    BY <2>1, <2>2, <2>3, LocalFacts, PushFacts, SameRegTrans
  <2> QED BY <2>4 DEF SameReg, t
<1>3. CASE e.type \notin {"mapEnd", "scalar"}
  <2>1. t \in {s, Return(s, s.p.rc), EndOfList(s), [s EXCEPT !.p.doc = TRUE],
               [s EXCEPT !.p.b = NewBuilder, !.p.item = TRUE]}
    BY <1>3 DEF ResourceEvent
  <2> HIDE DEF t
  <2>2. SameReg(s, t)
    BY <2>1, LocalFacts DEF SameReg, IsState
  <2> QED BY <2>2 DEF SameReg, t
<1> QED BY <1>1, <1>2, <1>3

\* parseSignalConfigYamlNode on one event: a registration, or nothing.
LEMMA SignalEventKeeps ==
    ASSUME NEW s, IsState(s), IsRegistry(s.reg), NEW e, NEW bu \in BOOLEAN
    PROVE  IsRegistry(SignalEvent(s, e, bu).reg)
<1> DEFINE t == SignalEvent(s, e, bu)
<1>1. CASE e.type = "mapEnd"
  <2>1. t = SignalEnd(s, bu)
    BY <1>1 DEF SignalEvent
  <2>2. CASE s.p.inner
    <3>1. PICK v : t \in {[s EXCEPT !.p.inner = FALSE],
                          [[s EXCEPT !.p.inner = FALSE] EXCEPT !.p.b.parts = v, !.p.r = NoBuilder]}
      BY <2>1, <2>2 DEF SignalEnd, IsState
    <3>2. SameReg(s, t)
      BY <3>1 DEF SameReg, IsState
    <3> QED BY <3>2 DEF SameReg
  <2>3. CASE ~s.p.inner /\ s.p.item
    <3>1. PICK b : t = [s EXCEPT !.p.item = FALSE, !.p.rc = "ok", !.p.b = NoBuilder,
                                 !.reg = RegisterSignal(@, b, bu)]
      BY <2>1, <2>3 DEF SignalEnd
    <3>2. t.reg = RegisterSignal(s.reg, b, bu)
      BY <3>1 DEF IsState
    <3> QED BY <3>2, RegisterSignalKeeps
  <2>4. CASE ~s.p.inner /\ ~s.p.item
    BY <2>1, <2>4 DEF SignalEnd
  <2> QED BY <2>2, <2>3, <2>4
<1>2. CASE e.type = "scalar"
  <2>1. ASSUME NEW u, NEW k, IsState(u) PROVE SameReg(u, SignalValue(u, k, e.value))
    <3>1. CASE k \in SignalKeys /\ u.p.b.on
      <4>1. PICK valid, put : SignalValue(u, k, e.value) = Set(u, TRUE, valid, put)
        BY <3>1 DEF SignalValue
      <4> QED BY <2>1, <4>1, SetFacts
    <3>2. CASE ~(k \in SignalKeys /\ u.p.b.on)
      <4>1. SignalValue(u, k, e.value) \in {u, [u EXCEPT !.p.r = Put(@, k, e.value)],
                  [u EXCEPT !.p.rc = "invalid"], [u EXCEPT !.p.words = Append(@, e.value)]}
        BY <3>2 DEF SignalValue
      <4> QED BY <2>1, <4>1 DEF SameReg, IsState
    <3> QED BY <3>1, <3>2
  <2>2. t \in {[s EXCEPT !.p.keys = Append(@, e.value)], Return(s, "syntax"),
               SignalValue(s, Top(s), e.value), SignalValue(Pop(s), Top(s), e.value)}
    BY <1>2 DEF SignalEvent, OnScalar
  <2> HIDE DEF t
  <2>3. IsState(Pop(s))
    BY LocalFacts DEF SameReg
  <2>4. SameReg(s, t)
    BY <2>1, <2>2, <2>3, LocalFacts, PushFacts, SameRegTrans
  <2> QED BY <2>4 DEF SameReg, t
<1>3. CASE e.type = "seqEnd"
  <2>1. t = SignalListEnd(s)
    BY <1>3 DEF SignalEvent
  <2>2. IsState(Pop(s)) /\ Pop(s).reg = s.reg
    BY LocalFacts DEF SameReg
  <2>3. PICK v : t \in {Return(s, "syntax"), Pop(s), [Pop(s) EXCEPT !.p.words = <<>>],
                        [[Pop(s) EXCEPT !.p.words = <<>>] EXCEPT !.p.r.conf = v],
                        [[Pop(s) EXCEPT !.p.words = <<>>] EXCEPT !.p.rc = "invalid"]}
    BY <2>1 DEF SignalListEnd
  <2>4. SameReg(s, t)
    BY <2>2, <2>3, LocalFacts DEF SameReg, IsState
  <2> QED BY <2>4 DEF SameReg
<1>4. CASE e.type \notin {"mapEnd", "scalar", "seqEnd"}
  <2>1. t \in {s, Return(s, s.p.rc), Return(s, "syntax"), [s EXCEPT !.p.doc = TRUE],
               [s EXCEPT !.p.inner = TRUE, !.p.r = NewBuilder],
               [s EXCEPT !.p.item = TRUE, !.p.b = NewBuilder]}
    BY <1>4 DEF SignalEvent, SignalStart
  <2>2. SameReg(s, t)
    BY <2>1, LocalFacts DEF SameReg, IsState
  <2> QED BY <2>2 DEF SameReg
<1> QED BY <1>1, <1>2, <1>3, <1>4

\* parsePropertiesConfigYamlNode on one event touches properties at most.
LEMMA PropertyEventKeeps ==
    ASSUME NEW s, IsState(s), IsRegistry(s.reg), NEW e
    PROVE  IsRegistry(PropertyEvent(s, e).reg)
<1> DEFINE t == PropertyEvent(s, e)
<1>1. CASE e.type = "mapEnd"
  <2>1. PICK g \in {s.reg, CreateProperty(s.reg, HeldName(s), HeldValue(s))} :
           t = [s EXCEPT !.reg = g, !.p.held = <<>>]
    BY <1>1 DEF PropertyEvent
  <2>2. t.reg = g
    BY <2>1 DEF IsState
  <2> QED BY <2>1, <2>2, OtherOperationsKeep
<1>2. CASE e.type # "mapEnd"
  <2>1. PICK v : t \in {s, Return(s, "ok"), [s EXCEPT !.p.item = v], [s EXCEPT !.p.held = v]}
    BY <1>2 DEF PropertyEvent
  <2> HIDE DEF t
  <2>2. SameReg(s, t)
    BY <2>1, LocalFacts DEF SameReg, IsState
  <2> QED BY <2>2 DEF SameReg, t
<1> QED BY <1>1, <1>2

\* Keeping a value for later changes no registry.
LEMMA HoldFacts ==
    ASSUME NEW s, IsState(s), NEW i, NEW v
    PROVE  SameReg(s, Hold(s, i, v))
BY DEF IsState, SameReg, Hold

\* parseTargetConfigYamlNode on one event touches clusters at most.
LEMMA TargetEventKeeps ==
    ASSUME NEW s, IsState(s), IsRegistry(s.reg), NEW e
    PROVE  IsRegistry(TargetEvent(s, e).reg)
<1> DEFINE t == TargetEvent(s, e)
<1>1. CASE e.type = "mapEnd"
  <2>1. t = TargetEnd(s)
    BY <1>1 DEF TargetEvent
  <2>2. PICK a : a = [s EXCEPT !.p.item = FALSE]
    OBVIOUS
  <2>3. IsState(a) /\ a.reg = s.reg
    BY <2>2 DEF IsState
  <2>4. PICK g, h : /\ g = AddClusterMapping(s.reg, Held(s, 1), Held(s, 2))
                    /\ h = AddClusterSpreadInfo(s.reg, Held(s, 2), Held(s, 3))
    OBVIOUS
  <2>5. t \in {s, a, Hold(Hold([a EXCEPT !.reg = g], 1, ""), 2, ""),
               Hold(Hold([a EXCEPT !.reg = h], 2, ""), 3, "")}
    BY <2>1, <2>2, <2>3, <2>4 DEF TargetEnd
  <2> HIDE DEF t
  <2>6. t.reg \in {s.reg, g, h}
    <3>1. ASSUME NEW c, NEW i, NEW j
          PROVE  Hold(Hold([a EXCEPT !.reg = c], i, ""), j, "").reg = c
      <4>1. PICK d : d = [a EXCEPT !.reg = c]
        OBVIOUS
      <4>2. IsState(d) /\ d.reg = c
        BY <2>3, <4>1 DEF IsState
      <4>3. IsState(Hold(d, i, "")) /\ Hold(d, i, "").reg = c
        BY <4>2, HoldFacts DEF SameReg
      <4>4. Hold(Hold(d, i, ""), j, "").reg = c
        BY <4>3, HoldFacts DEF SameReg
      <4> QED BY <4>1, <4>4
    <3>2. PICK x, y : /\ x = Hold(Hold([a EXCEPT !.reg = g], 1, ""), 2, "")
                      /\ y = Hold(Hold([a EXCEPT !.reg = h], 2, ""), 3, "")
      OBVIOUS
    <3>3. x.reg = g /\ y.reg = h
      BY <3>1, <3>2
    <3>4. t \in {s, a, x, y}
      BY <2>5, <3>2
    <3> QED BY <2>3, <3>3, <3>4
  <2> QED BY <2>4, <2>6, ClusterOperationsKeep DEF t
<1>2. CASE e.type = "scalar"
  <2>0. PICK a \in {s, [s EXCEPT !.p.mine = FALSE]} :
           t = OnScalar(a, e.value, LAMBDA u, k : TargetValue(u, k, e.value))
    BY <1>2 DEF TargetEvent
  <2>1. ASSUME NEW u, NEW k, IsState(u) PROVE SameReg(u, TargetValue(u, k, e.value))
    <3>1. TargetValue(u, k, e.value) \in {u, [u EXCEPT !.p.mine = TRUE, !.p.found = TRUE],
             Hold(u, 1, e.value), Hold(u, 2, e.value), Hold(u, 3, e.value)}
      BY DEF TargetValue
    <3>2. SameReg(u, u) /\ SameReg(u, [u EXCEPT !.p.mine = TRUE, !.p.found = TRUE])
      BY <2>1 DEF SameReg, IsState
    <3> QED BY <2>1, <3>1, <3>2, HoldFacts
  <2>2. t \in {[a EXCEPT !.p.keys = Append(@, e.value)], Return(a, "syntax"),
               TargetValue(a, Top(a), e.value), TargetValue(Pop(a), Top(a), e.value)}
    BY <2>0 DEF OnScalar
  <2>3. IsState(a) /\ a.reg = s.reg
    BY <2>0 DEF IsState
  <2> HIDE DEF t
  <2>4. IsState(Pop(a))
    BY <2>3, LocalFacts DEF SameReg
  <2>5. SameReg(a, t)
    <3>1. SameReg(a, [a EXCEPT !.p.keys = Append(@, e.value)]) /\ SameReg(a, Return(a, "syntax"))
      BY <2>3, LocalFacts, PushFacts
    <3>2. SameReg(a, TargetValue(a, Top(a), e.value)) /\ SameReg(a, TargetValue(Pop(a), Top(a), e.value))
      BY <2>1, <2>3, <2>4, LocalFacts, SameRegTrans
    <3> QED BY <2>2, <3>1, <3>2
  <2> QED BY <2>3, <2>5 DEF SameReg, t
<1>3. CASE e.type \notin {"mapEnd", "scalar"}
  <2>1. t \in {s, Return(s, "ok"), EndOfList(s), [s EXCEPT !.p.doc = TRUE], [s EXCEPT !.p.item = TRUE]}
    BY <1>3 DEF TargetEvent
  <2> HIDE DEF t
  <2>2. SameReg(s, t)
    BY <2>1, LocalFacts DEF SameReg, IsState
  <2> QED BY <2>2 DEF SameReg, t
<1> QED BY <1>1, <1>2, <1>3

\* parseInitConfigYamlNode on one event touches cgroups and clusters at most.
LEMMA InitEventKeeps ==
    ASSUME NEW s, IsState(s), IsRegistry(s.reg), NEW e
    PROVE  IsRegistry(InitEvent(s, e).reg)
<1> DEFINE t == InitEvent(s, e)
<1>1. CASE e.type = "mapEnd"
  <2>1. t = InitEnd(s)
    BY <1>1 DEF InitEvent
  <2>2. PICK b, c, a : a = [s EXCEPT !.p.b = NoBuilder]
                       /\ t \in {s, [a EXCEPT !.reg = AddCGroupMapping(@, b)],
                                 [a EXCEPT !.reg = AddMpamGroupMapping(@, b)],
                                 [a EXCEPT !.reg = AddCacheInfoMapping(@, c)]}
    BY <2>1 DEF InitEnd, InitLists
  <2>3. IsState(a) /\ a.reg = s.reg
    BY <2>2 DEF IsState
  <2> HIDE DEF t
  <2>4. t.reg \in {s.reg, AddCGroupMapping(s.reg, b), AddMpamGroupMapping(s.reg, b), AddCacheInfoMapping(s.reg, c)}
    BY <2>2, <2>3 DEF IsState
  <2> QED BY <2>4, OtherOperationsKeep DEF t
<1>2. CASE e.type = "scalar"
  <2>2. PICK known, valid, put :
          t \in {[s EXCEPT !.p.keys = Append(@, e.value)], Return(s, "syntax"),
                 Set(s, known, valid, put), Set(Pop(s), known, valid, put)}
    <3>1. CASE e.value \in Keys \/ ~HoldsKey(s)
      BY <1>2, <3>1 DEF InitEvent, OnScalar
    <3>2. CASE ~(e.value \in Keys \/ ~HoldsKey(s))
      <4>1. PICK a \in {s, Pop(s)} :
              t = Set(a, Top(s) \in InitKeys, InitValid(Top(s), e.value), Put(a.p.b, Top(s), e.value))
        BY <1>2, <3>2 DEF InitEvent, OnScalar
      <4> QED BY <4>1
    <3> QED BY <3>1, <3>2
  <2> HIDE DEF t
  <2>3. IsState(Pop(s))
    BY LocalFacts DEF SameReg
  <2>4. SameReg(s, t)
    <3>1. SameReg(s, [s EXCEPT !.p.keys = Append(@, e.value)]) /\ SameReg(s, Return(s, "syntax"))
      BY LocalFacts, PushFacts
    <3>2. SameReg(s, Set(s, known, valid, put)) /\ SameReg(s, Set(Pop(s), known, valid, put))
      BY <2>3, LocalFacts, SetFacts, SameRegTrans
    <3> QED BY <2>2, <3>1, <3>2
  <2> QED BY <2>4 DEF SameReg, t
<1>3. CASE e.type \notin {"mapEnd", "scalar"}
  <2>1. t \in {s, Return(s, s.p.rc), Return(s, "syntax"), EndOfList(s), [s EXCEPT !.p.doc = TRUE],
               [s EXCEPT !.p.b = NewBuilder]}
    BY <1>3 DEF InitEvent, InitStart
  <2> HIDE DEF t
  <2>2. SameReg(s, t)
    BY <2>1, LocalFacts DEF SameReg, IsState
  <2> QED BY <2>2 DEF SameReg, t
<1> QED BY <1>1, <1>2, <1>3

\* parseExtFeatureConfigYamlNode on one event touches features at most.
LEMMA FeatureEventKeeps ==
    ASSUME NEW s, IsState(s), IsRegistry(s.reg), NEW e
    PROVE  IsRegistry(FeatureEvent(s, e).reg)
<1> DEFINE t == FeatureEvent(s, e)
<1>1. CASE e.type = "mapEnd"
  <2>1. t = FeatureEnd(s)
    BY <1>1 DEF FeatureEvent
  <2>2. PICK a : a = [s EXCEPT !.p.item = FALSE, !.p.b = NoBuilder]
    OBVIOUS
  <2>3. IsState(a) /\ a.reg = s.reg
    BY <2>2 DEF IsState
  <2>4. PICK b : t \in {s, Return(a, "crash"), [a EXCEPT !.reg = RegisterExtFeature(@, b)]}
    BY <2>1, <2>2 DEF FeatureEnd
  <2> HIDE DEF t
  <2>5. t.reg \in {s.reg, RegisterExtFeature(s.reg, b)}
    BY <2>3, <2>4, LocalFacts DEF IsState, SameReg
  <2> QED BY <2>5, RegisterExtFeatureKeeps DEF t
<1>2. CASE e.type = "scalar"
  <2>1. PICK known, valid, put :
          t \in {[s EXCEPT !.p.keys = Append(@, e.value)], Return(s, "syntax"),
                 Set(s, known, valid, put), Set(Pop(s), known, valid, put)}
    <3>1. CASE e.value \in Keys \/ ~HoldsKey(s)
      BY <1>2, <3>1 DEF FeatureEvent, OnScalar
    <3>2. CASE ~(e.value \in Keys \/ ~HoldsKey(s))
      <4>1. PICK a \in {s, Pop(s)} :
              t = Set(a, Top(s) \in {"FeatId", "LibPath", "Name", "Signals"}, FeatureValid(Top(s), e.value),
                      IF Top(s) = "Signals" THEN Append2(a.p.b, Top(s), e.value) ELSE Put(a.p.b, Top(s), e.value))
        BY <1>2, <3>2 DEF FeatureEvent, OnScalar
      <4> QED BY <4>1
    <3> QED BY <3>1, <3>2
  <2> HIDE DEF t
  <2>2. IsState(Pop(s))
    BY LocalFacts DEF SameReg
  <2>3. SameReg(s, [s EXCEPT !.p.keys = Append(@, e.value)]) /\ SameReg(s, Return(s, "syntax"))
    BY LocalFacts, PushFacts
  <2>4. SameReg(s, Set(s, known, valid, put)) /\ SameReg(s, Set(Pop(s), known, valid, put))
    BY <2>2, LocalFacts, SetFacts, SameRegTrans
  <2>5. SameReg(s, t)
    BY <2>1, <2>3, <2>4
  <2> QED BY <2>5 DEF SameReg, t
<1>3. CASE e.type \notin {"mapEnd", "scalar"}
  <2>1. t \in {s, Return(s, s.p.rc), EndOfList(s), [s EXCEPT !.p.doc = TRUE],
               [s EXCEPT !.p.b = NewBuilder, !.p.item = TRUE]}
    BY <1>3 DEF FeatureEvent
  <2> HIDE DEF t
  <2>2. SameReg(s, t)
    BY <2>1, LocalFacts DEF SameReg, IsState
  <2> QED BY <2>2 DEF SameReg, t
<1> QED BY <1>1, <1>2, <1>3

\* parsePerAppConfigYamlNode on one event touches apps at most.
LEMMA AppEventKeeps ==
    ASSUME NEW s, IsState(s), IsRegistry(s.reg), NEW e
    PROVE  IsRegistry(AppEvent(s, e).reg)
<1> DEFINE t == AppEvent(s, e)
<1>1. CASE e.type = "mapEnd"
  <2>1. t \in {s, [s EXCEPT !.reg = RegisterAppConfig(@, s.p.b), !.p.b = NoBuilder]}
    BY <1>1 DEF AppEvent
  <2> HIDE DEF t
  <2>2. t.reg \in {s.reg, RegisterAppConfig(s.reg, s.p.b)}
    BY <2>1 DEF IsState
  <2> QED BY <2>2, OtherOperationsKeep DEF t
<1>2. CASE e.type = "seqEnd"
  <2>1. t = AppListEnd(s)
    BY <1>2 DEF AppEvent
  <2>2. PICK u, v : t \in {Return(s, "syntax"), Pop(s), Pop(u), Pop(v)}
                    /\ u = [[s EXCEPT !.p.words = <<>>] EXCEPT !.p.item = FALSE, !.p.b.parts = Pairs(s.p.words)]
                    /\ v = [[s EXCEPT !.p.words = <<>>] EXCEPT !.p.inner = FALSE,
                                                             !.p.b.conf = With(@, "Configurations", s.p.words)]
    BY <2>1 DEF AppListEnd
  <2>3. SameReg(s, u) /\ SameReg(s, v)
    BY <2>2 DEF SameReg, IsState
  <2> HIDE DEF t
  <2>4. SameReg(s, Pop(u)) /\ SameReg(s, Pop(v))
    BY <2>3, LocalFacts, SameRegTrans DEF SameReg
  <2>5. SameReg(s, t)
    BY <2>2, <2>4, LocalFacts
  <2> QED BY <2>5 DEF SameReg, t
<1>3. CASE e.type = "scalar"
  <2>1. t = AppScalar(s, e.value)
    BY <1>3 DEF AppEvent
  <2>2. PICK u : /\ u \in {s, Pop(s)}
                 /\ t \in {[s EXCEPT !.p.keys = Append(@, e.value)], Return(s, "syntax"), u,
                           [u EXCEPT !.p.b = Put(@, "App", e.value)],
                           [u EXCEPT !.p.words = Append(@, e.value)]}
    BY <2>1 DEF AppScalar
  <2>3. SameReg(s, u)
    BY <2>2, LocalFacts
  <2> HIDE DEF t
  <2>4. SameReg(s, t)
    BY <2>2, <2>3, LocalFacts, PushFacts DEF SameReg, IsState
  <2> QED BY <2>4 DEF SameReg, t
<1>4. CASE e.type \notin {"mapEnd", "seqEnd", "scalar"}
  <2>1. PICK v, w : t \in {s, Return(s, s.p.rc), Return(s, "syntax"), [s EXCEPT !.p.doc = TRUE],
                           [s EXCEPT !.p.b = NewBuilder], [s EXCEPT !.p.item = v, !.p.inner = w]}
    BY <1>4 DEF AppEvent, AppListStart
  <2> HIDE DEF t
  <2>2. SameReg(s, t)
    BY <2>1, LocalFacts DEF SameReg, IsState
  <2> QED BY <2>2 DEF SameReg, t
<1> QED BY <1>1, <1>2, <1>3, <1>4

---------------------------------------------------------------------------
(* The invariant.                                                          *)

\* Files carry a custom flag, a parser that runs has opened one, and the tables
\* of the registries resolve their keys.
IInv ==
    /\ kind \in Kinds
    /\ pending \in Seq(ToSet(pending)) /\ read \in Seq(ToSet(read))
    /\ \A f \in ToSet(pending) \cup ToSet(read) : f.bu \in BOOLEAN
    /\ p.ret = "" \/ pending = <<>> => read # <<>>
    /\ IsRegistry(reg)

\* The invariant holds before the first file is read.
LEMMA InitInv ==
    ASSUME Init
    PROVE  IInv
<1>1. PICK n \in 1 .. Len(FilesOf[kind]) :
         \E pick : pending = [i \in 1 .. n |-> [doc |-> Documents[kind][i][pick[i]], bu |-> FilesOf[kind][i]]]
  BY DEF Init
<1>2. /\ kind \in Kinds /\ read = <<>> /\ p = [Fresh EXCEPT !.ret = "ok"] /\ reg = Preloaded[kind]
      /\ FilesOf[kind] \in Seq(BOOLEAN)
  BY FilesAssumption DEF Init
<1>3. n \in Nat /\ \A i \in 1 .. n : FilesOf[kind][i] \in BOOLEAN
  BY <1>2
<1>4. DOMAIN pending = 1 .. n /\ \A i \in 1 .. n : pending[i].bu \in BOOLEAN
  BY <1>1, <1>3
<1>5. pending \in [1 .. n -> ToSet(pending)]
  BY <1>1, <1>4 DEF ToSet
<1>6. pending \in Seq(ToSet(pending))
  BY <1>3, <1>5
<1>7. \A f \in ToSet(pending) : f.bu \in BOOLEAN
  BY <1>4 DEF ToSet
<1>8. read \in Seq(ToSet(read)) /\ ToSet(read) = {}
  BY <1>2 DEF ToSet
<1>9. p.ret = "ok"
  BY <1>2 DEF Fresh
<1>10. pending # <<>>
  <2>1. 1 \in DOMAIN pending
    BY <1>3, <1>4
  <2> QED BY <2>1
<1>11. IsRegistry(reg)
  BY <1>2, PreloadedAssumption DEF IsRegistry
<1> QED BY <1>2, <1>6, <1>7, <1>8, <1>9, <1>10, <1>11 DEF IInv

\* A step of a parser that keeps the tables resolved keeps the invariant.
LEMMA ConsumeInv ==
    ASSUME IInv, NEW k, NEW s, Consume(k, s), IsRegistry(s.reg)
    PROVE  IInv'
BY DEF IInv, Consume

\* The last file read is one of those read.
LEMMA LastFile ==
    ASSUME NEW q, q \in Seq(ToSet(q)), q # <<>>
    PROVE  Last(q) \in ToSet(q)
<1>1. Len(q) \in Nat /\ DOMAIN q = 1 .. Len(q)
  OBVIOUS
<1>2. Len(q) # 0
  OBVIOUS
<1> QED BY <1>1, <1>2 DEF Last, ToSet

\* The invariant is inductive.
LEMMA NextInv ==
    ASSUME IInv, [Next]_vars
    PROVE  IInv'
<1> DEFINE c == Current
           e == Head(events)
<1>1. IsState(c) /\ IsRegistry(c.reg)
  BY DEF Current, IsState, IInv
<1>2. p.ret = "" => Custom \in BOOLEAN
  <2> SUFFICES ASSUME p.ret = "" PROVE Custom \in BOOLEAN
    OBVIOUS
  <2>1. read \in Seq(ToSet(read)) /\ read # <<>> /\ \A f \in ToSet(read) : f.bu \in BOOLEAN
    BY DEF IInv
  <2>2. Last(read) \in ToSet(read)
    BY <2>1, LastFile
  <2> QED BY <2>1, <2>2 DEF Custom
<1> HIDE DEF c, e
<1>3. CASE OpenFile
  <2>1. /\ pending # <<>> /\ kind' = kind /\ reg' = reg
        /\ read' = Append(read, Head(pending)) /\ pending' = Tail(pending)
    BY <1>3 DEF OpenFile
  <2>2. /\ kind \in Kinds /\ IsRegistry(reg)
        /\ pending \in Seq(ToSet(pending)) /\ read \in Seq(ToSet(read))
        /\ \A f \in ToSet(pending) \cup ToSet(read) : f.bu \in BOOLEAN
    BY DEF IInv
  <2>3. PICK x : x = Head(pending)
    OBVIOUS
  <2>4. x \in ToSet(pending)
    BY <2>1, <2>2, <2>3
  <2>5. /\ read' \in Seq(ToSet(read')) /\ read' # <<>> /\ \A f \in ToSet(read') : f \in ToSet(read) \cup {x}
    <3>1. PICK q : q = read
      OBVIOUS
    <3>2. q \in Seq(ToSet(q))
      BY <2>2, <3>1
    <3>3. Append(q, x) \in Seq(ToSet(Append(q, x))) /\ DOMAIN Append(q, x) = DOMAIN q \cup {Len(q) + 1}
      BY <3>2, SequenceFacts
    <3>4. Append(q, x)[Len(q) + 1] = x /\ \A i \in DOMAIN q : Append(q, x)[i] = q[i]
      BY <3>2, SequenceFacts
    <3>5. PICK a : a = Append(q, x)
      OBVIOUS
    <3>6. \A f \in ToSet(a) : f \in ToSet(q) \cup {x}
      BY <3>3, <3>4, <3>5 DEF ToSet
    <3>7. a # <<>>
      BY <3>2, <3>5
    <3> QED BY <2>1, <2>3, <3>1, <3>3, <3>5, <3>6, <3>7
  <2>6. pending' \in Seq(ToSet(pending')) /\ \A f \in ToSet(pending') : f \in ToSet(pending)
    <3>1. PICK q, S : q = pending /\ S = ToSet(pending)
      OBVIOUS
    <3>2. q \in Seq(S) /\ q # <<>>
      BY <2>1, <2>2, <3>1
    <3>3. PICK r : r = Tail(q)
      OBVIOUS
    <3>4. r \in Seq(S)
      BY <3>2, <3>3
    <3>5. Len(r) \in Nat /\ DOMAIN r = 1 .. Len(r) /\ r \in [1 .. Len(r) -> S]
      BY <3>4
    <3>6. r \in [1 .. Len(r) -> ToSet(r)]
      BY <3>5 DEF ToSet
    <3>7. r \in Seq(ToSet(r)) /\ ToSet(r) \subseteq S
      BY <3>5, <3>6 DEF ToSet
    <3> QED BY <2>1, <3>1, <3>3, <3>7
  <2> QED BY <2>1, <2>2, <2>4, <2>5, <2>6 DEF IInv
<1>4. CASE ParseResource
  <2>1. Consume("resource", ResourceEvent(c, e, Custom)) /\ Custom \in BOOLEAN
    BY <1>2, <1>4 DEF ParseResource, Consume, c, e
  <2> QED BY <1>1, <2>1, ResourceEventKeeps, ConsumeInv
<1>5. CASE ParseProperty
  BY <1>1, <1>5, PropertyEventKeeps, ConsumeInv DEF ParseProperty, c
<1>6. CASE ParseTarget
  BY <1>1, <1>6, TargetEventKeeps, ConsumeInv DEF ParseTarget, c
<1>7. CASE ParseInit
  BY <1>1, <1>7, InitEventKeeps, ConsumeInv DEF ParseInit, c
<1>8. CASE ParseSignal
  <2>1. Consume("signal", SignalEvent(c, e, Custom)) /\ Custom \in BOOLEAN
    BY <1>2, <1>8 DEF ParseSignal, Consume, c, e
  <2> QED BY <1>1, <2>1, SignalEventKeeps, ConsumeInv
<1>9. CASE ParseFeature
  BY <1>1, <1>9, FeatureEventKeeps, ConsumeInv DEF ParseFeature, c
<1>10. CASE ParseApp
  BY <1>1, <1>10, AppEventKeeps, ConsumeInv DEF ParseApp, c
<1>11. CASE ModifyCallbacks
  <2>1. /\ reg' = PluginModifications(reg, Plugins) /\ pending = <<>>
        /\ kind' = kind /\ pending' = pending /\ read' = read
    BY <1>11 DEF ModifyCallbacks
  <2>2. IsRegistry(reg')
    BY <2>1, PluginModificationsKeeps DEF IInv
  <2> QED BY <2>1, <2>2 DEF IInv
<1>12. CASE UNCHANGED vars
  BY <1>12 DEF vars, IInv
<1> QED BY <1>3, <1>4, <1>5, <1>6, <1>7, <1>8, <1>9, <1>10, <1>11, <1>12 DEF Next

\* Through every override of a common resource or signal by a custom one, and
\* every callback an extension installs, a key of mSystemIndependentLayerMappings
\* or of the signals' map leads to a configuration of its own identity, and no
\* two keys to one, whatever the documents say and wherever a parser is in them.
THEOREM KeysAlwaysResolve == Spec => []KeysResolve
<1>1. Init => IInv
  BY InitInv
<1>2. IInv /\ [Next]_vars => IInv'
  BY NextInv
<1>3. IInv => KeysResolve
  BY DEF IInv, IsRegistry, IsTable, KeysResolve
<1> QED BY <1>1, <1>2, <1>3, PTL DEF Spec
=============================================================================
