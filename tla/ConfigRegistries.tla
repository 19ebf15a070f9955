-------------------------- MODULE ConfigRegistries --------------------------
(***************************************************************************)
(* The tables the configuration files fill: ResourceRegistry.cpp,          *)
(* SignalRegistry.cpp, ExtFeaturesRegistry.cpp with ExtFeatureMapper.cpp,  *)
(* AppConfigs.cpp, PropertiesRegistry.cpp and the cluster, cgroup, MPAM    *)
(* and cache maps of TargetRegistry.cpp, with the builders that collect    *)
(* the attributes of one item before it is registered.                     *)
(*                                                                         *)
(* A value in a file is a word.  ToInt is what stoi and stol make of it;   *)
(* a word outside its domain makes them throw.  A registry is a record of  *)
(* functions, a builder the function from the attributes set so far to     *)
(* the words given for them.                                               *)
(***************************************************************************)
EXTENDS Integers, Sequences, SequencesExt, TLC

CONSTANTS
    ToInt,          \* words that spell a number, and the number
    Names,          \* words getResCodeFromString knows, and their code
    Uncreatable,    \* cgroups mkdir cannot make: the parent is missing, no permission
    TargetName      \* UrmSettings::targetConfigs.targetName

ASSUME WordsAssumption ==
    /\ \A w \in DOMAIN ToInt : ToInt[w] \in Int
    /\ \A w \in DOMAIN Names : Names[w] \in Nat /\ w \notin DOMAIN ToInt

\* mTargetRefCount: unsupported, not for this target, undecided, for it.
Unsupported == -2

---------------------------------------------------------------------------
(* The words each attribute accepts; an empty word leaves the default.     *)

PermissionWords == {"system", "third_party", ""}
ModeWords == {"display_on", "display_off", "doze", ""}
PolicyWords == {"higher_is_better", "lower_is_better", "lazy_apply",
                "instant_apply", "pass_through", ""}
UnitWords == {"KB", "kb", "MB", "mb", "GB", "gb", "KHz", "khz", "MHz", "mhz",
              "GHz", "ghz", "Hz", "hz", "byte", "NA", "na", ""}
ApplyTypeWords == {"global", "core", "cluster", "cgroup", ""}

\* setResType, setResID, setHighThreshold, setLowThreshold: a number.
NumberOk(v) == v \in DOMAIN ToInt

\* setResCode, setResInfo: a number, or a name of the resource table.
CodeOk(v) == v \in DOMAIN ToInt \cup DOMAIN Names

CodeOf(v) == IF v \in DOMAIN ToInt THEN ToInt[v] ELSE Names[v]

\* addValue: a number, or the placeholder filled in by tuneSignal.
ValueOk(v) == v = "%d" \/ v \in DOMAIN ToInt

\* addThreadMapping: a cgroup number or name, -1 being none.
CGroupOk(v) == CodeOk(v) /\ CodeOf(v) # -1

\* addSignalSubscribedTo refuses the empty word, which stol does too.
SubscriptionOk(v) == v \in DOMAIN ToInt

ResourceValid(k, v) ==
    CASE k \in {"ResType", "ResID", "HighThreshold", "LowThreshold"} -> NumberOk(v)
      [] k = "Permissions" -> v \in PermissionWords
      [] k = "Modes" -> v \in ModeWords
      [] k = "Policy" -> v \in PolicyWords
      [] k = "Unit" -> v \in UnitWords
      [] k = "ApplyType" -> v \in ApplyTypeWords
      [] OTHER -> TRUE

SignalValid(k, v) ==
    CASE k \in {"SigId", "Category", "SigType", "Timeout"} -> NumberOk(v)
      [] k = "Permissions" -> v \in PermissionWords
      [] k \in {"ResCode", "ResInfo"} -> CodeOk(v)
      [] OTHER -> TRUE

InitValid(k, v) == k \in {"ID", "Priority", "NumCacheBlocks"} => NumberOk(v)

FeatureValid(k, v) ==
    /\ k = "FeatId" => NumberOk(v)
    /\ k = "Signals" => SubscriptionOk(v)

---------------------------------------------------------------------------
(* Builders: "on" while an item is being read.                             *)

NoBuilder == [on |-> FALSE, ref |-> 0, conf |-> <<>>, parts |-> <<>>]
NewBuilder == [NoBuilder EXCEPT !.on = TRUE]

\* A map after m[x] = v, and after m.erase(x).
With(f, x, v) == [y \in DOMAIN f \cup {x} |-> IF y = x THEN v ELSE f[y]]
Without(f, x) == [y \in DOMAIN f \ {x} |-> f[y]]

Given(b, k) == k \in DOMAIN b.conf
WordOf(b, k, default) == IF Given(b, k) THEN b.conf[k][1] ELSE default
IntOf(b, k, default) == IF Given(b, k) THEN ToInt[b.conf[k][1]] ELSE default

Put(b, k, v) == [b EXCEPT !.conf = With(@, k, <<v>>)]
Append2(b, k, v) ==
    [b EXCEPT !.conf = With(@, k, (IF k \in DOMAIN @ THEN @[k] ELSE <<>>) \o <<v>>)]

\* addTargetEnabled, once the resource or signal is not marked unsupported.
AddTargetEnabled(b, target) ==
    [b EXCEPT !.ref = IF target = TargetName THEN 1 ELSE IF @ = 0 THEN -1 ELSE @]

AddTargetDisabled(b, target) ==
    [b EXCEPT !.ref = IF target = TargetName THEN -1 ELSE IF @ = 0 THEN 1 ELSE @]

\* setSupported and setIsEnabled: any word but "true" rules the item out.
SetSupported(b, v) == [b EXCEPT !.ref = IF v # "true" THEN Unsupported ELSE @]

---------------------------------------------------------------------------
(* Registries.  A key is the pair or triple of numbers packed in the       *)
(* bitmap, cut to their widths, and whether the most significant bit marks *)
(* it as custom; table holds the configurations by index.                  *)

EmptyTable == [table |-> <<>>, map |-> <<>>]

EmptyRegistry ==
    [resources |-> EmptyTable, signals |-> EmptyTable,
     features |-> EmptyTable, subscribers |-> <<>>,
     apps |-> <<>>, props |-> <<>>,
     clusters |-> <<>>, logical |-> <<>>,
     cgroups |-> <<>>, mpam |-> <<>>, caches |-> <<>>]


\* Fault: a custom item is entered without taking the common key away.
RegisterKeepingPlain(t, id, conf, bu) ==
    LET plain == <<id, FALSE>>
        key == <<id, bu>>
    IN IF plain \in DOMAIN t.map
         THEN [table |-> [t.table EXCEPT ![t.map[plain]] = conf],
               map |-> With(t.map, key, t.map[plain])]
         ELSE [table |-> Append(t.table, conf), map |-> With(t.map, key, Len(t.table) + 1)]

\* The conflict rule registerResource and registerSignal share: an item
\* whose plain key is taken replaces the configuration at that index, and a
\* custom one takes the key over; any other is appended under its own key.
Register(t, id, conf, bu) ==
    LET plain == <<id, FALSE>>
        key == <<id, bu>>
    IN IF plain \in DOMAIN t.map
         THEN [table |-> [t.table EXCEPT ![t.map[plain]] = conf],
               map |-> With(IF bu THEN Without(t.map, plain) ELSE t.map, key, t.map[plain])]
         ELSE [table |-> Append(t.table, conf), map |-> With(t.map, key, Len(t.table) + 1)]

ResourceId(b) == <<IntOf(b, "ResType", 0) % 256, IntOf(b, "ResID", 0) % 65536>>

\* setLifeCycleCallbacks: the default applier and tear routine of the level.
DefaultCallbacks(applyType) == IF applyType = "" THEN "global" ELSE applyType

ResourceConf(b) ==
    [id |-> ResourceId(b),
     policy |-> WordOf(b, "Policy", "lazy_apply"),
     callbacks |-> DefaultCallbacks(WordOf(b, "ApplyType", "global")),
     modes |-> IF Given(b, "Modes") THEN ToSet(b.conf["Modes"]) \ {""} ELSE {}]

\* A resource of type 0 is malformed: deleted, not registered.
RegisterResource(reg, b, bu) ==
    IF ResourceId(b)[1] = 0 THEN reg
    ELSE [reg EXCEPT !.resources = Register(@, ResourceId(b), ResourceConf(b), bu)]

SignalId(b) ==
    <<IntOf(b, "Category", 0) % 256, IntOf(b, "SigId", 0) % 65536, IntOf(b, "SigType", 0)>>

SignalConf(b) ==
    [id |-> SignalId(b), timeout |-> IntOf(b, "Timeout", 1), resources |-> b.parts,
     permissions |-> IF Given(b, "Permissions") THEN ToSet(b.conf["Permissions"]) ELSE {}]

\* A signal of category 0 is malformed: freed, not registered.
RegisterSignal(reg, b, bu) ==
    IF SignalId(b)[1] = 0 THEN reg
    ELSE [reg EXCEPT !.signals = Register(@, SignalId(b), SignalConf(b), bu)]

\* addFeature: the subscribed code is looked up as a whole 64-bit index,
\* whose upper half, the category and number of a signal, it leaves zero.
SubscribeFeature(subscribers, signals, code, feature) ==
    IF << <<0, 0, code>>, FALSE>> \notin DOMAIN signals.map THEN subscribers
    ELSE With(subscribers, code,
              (IF code \in DOMAIN subscribers THEN subscribers[code] ELSE <<>>) \o <<feature>>)

\* registerExtFeature, for a feature that names a library and has signals.
RegisterExtFeature(reg, b) ==
    LET id == IntOf(b, "FeatId", 0)
        lib == WordOf(b, "LibPath", "")
        subscribe(m, w) == SubscribeFeature(m, reg.signals, ToInt[w], id)
    IN IF lib = "" THEN reg
       ELSE [reg EXCEPT !.features = [table |-> Append(@.table, [id |-> id, lib |-> lib]),
                                      map |-> With(@.map, id, Len(@.table) + 1)],
                        !.subscribers = FoldLeft(subscribe, @, b.conf["Signals"])]

\* registerAppConfig: the last item of a name counts.
RegisterAppConfig(reg, b) ==
    [reg EXCEPT !.apps =
        With(@, WordOf(b, "App", ""),
             [threads |-> b.parts,
              signals |-> IF Given(b, "Configurations")
                            THEN [i \in DOMAIN b.conf["Configurations"] |->
                                     ToInt[b.conf["Configurations"][i]]]
                            ELSE <<>>])]

CreateProperty(reg, name, value) == [reg EXCEPT !.props = With(@, name, value)]

\* addClusterMapping: a physical cluster unknown so far has no cores yet.
AddClusterMapping(reg, lgc, phy) ==
    IF ~NumberOk(lgc) \/ ~NumberOk(phy) THEN reg
    ELSE [reg EXCEPT !.logical = With(@, ToInt[lgc], ToInt[phy]),
                     !.clusters = IF ToInt[phy] \in DOMAIN @ THEN @
                                  ELSE With(@, ToInt[phy], [start |-> ToInt[phy], cores |-> 0])]

AddClusterSpreadInfo(reg, phy, cores) ==
    IF ~NumberOk(phy) \/ ~NumberOk(cores) THEN reg
    ELSE IF ToInt[phy] \notin DOMAIN reg.clusters THEN reg
    ELSE [reg EXCEPT !.clusters[ToInt[phy]].cores = ToInt[cores]]

\* createCGroup: a group not to be created is taken to be there, and mkdir of an
\* existing one counts as success.
CreateCGroup(b) == WordOf(b, "Create", "") = "true" => WordOf(b, "Name", "") \notin Uncreatable

AddCGroupMapping(reg, b) ==
    IF IntOf(b, "ID", -1) = -1 \/ WordOf(b, "Name", "") = "" \/ ~CreateCGroup(b) THEN reg
    ELSE [reg EXCEPT !.cgroups =
            With(@, IntOf(b, "ID", -1),
                 [name |-> WordOf(b, "Name", ""),
                  threaded |-> WordOf(b, "Create", "") = "true" /\ WordOf(b, "IsThreaded", "") = "true"])]

AddMpamGroupMapping(reg, b) ==
    IF IntOf(b, "ID", -1) = -1 \/ WordOf(b, "Name", "") = "" THEN reg
    ELSE [reg EXCEPT !.mpam =
            With(@, IntOf(b, "ID", -1), <<WordOf(b, "Name", ""), IntOf(b, "Priority", 0)>>)]

AddCacheInfoMapping(reg, b) ==
    IF WordOf(b, "Type", "") = "" \/ IntOf(b, "NumCacheBlocks", -1) = -1 THEN reg
    ELSE [reg EXCEPT !.caches =
            With(@, WordOf(b, "Type", ""),
                 <<IntOf(b, "NumCacheBlocks", -1), WordOf(b, "PriorityAware", "") = "true">>)]

\* getResConf, getSignalConfigById: the configuration a key leads to.
Lookup(t, key) == t.table[t.map[key]]

\* Every key leads to a configuration of its identity, and no two to one.
Resolves(t) ==
    /\ \A key \in DOMAIN t.map : t.map[key] \in DOMAIN t.table /\ Lookup(t, key).id = key[1]
    /\ \A a, b \in DOMAIN t.map : t.map[a] = t.map[b] => a = b

\* pluginModifications: an extension's callback replaces the default of the
\* resource its code leads to, if there is one.
PluginModifications(reg, plugins) ==
    LET hit(i) == \E key \in DOMAIN reg.resources.map \cap DOMAIN plugins : reg.resources.map[key] = i
        new(i) == CHOOSE key \in DOMAIN reg.resources.map \cap DOMAIN plugins : reg.resources.map[key] = i
    IN [reg EXCEPT !.resources.table =
          [i \in DOMAIN @ |-> IF hit(i) THEN [@[i] EXCEPT !.callbacks = plugins[new(i)]] ELSE @[i]]]
===========================================================================
