---------------------------- MODULE ConfigParser ----------------------------
(***************************************************************************)
(* RestuneParser.cpp: the seven parsers that turn the libyaml events of a  *)
(* configuration file into calls of the registries.  Each keeps a stack of *)
(* keys and one or two builders; nothing ties them to the structure of the *)
(* document but the order of the events.                                   *)
(*                                                                         *)
(* A document is a sequence of items, an item a sequence of attributes     *)
(* [k, list, vals, maps]: a key with the words of its value, or, for a     *)
(* list of mappings, the inner items.  Events is what libyaml reports.     *)
(* The invariant ParsedAsWritten compares what the event machines leave in *)
(* the registries with a definition on the documents themselves.           *)
(***************************************************************************)
EXTENDS ConfigRegistries

CONSTANTS
    Kinds,          \* the configuration types explored
    Documents,      \* Documents[kind]: a sequence of documents
    FilesOf,        \* FilesOf[kind]: custom flags of its files, in order
    Preloaded,      \* Preloaded[kind]: registry before the first file
    Plugins         \* applier callbacks an extension adds, by resource key

\* The tables before the first file are what registering items leaves.
IsTable(t) ==
    /\ DOMAIN t = {"table", "map"}
    /\ t.table \in Seq(ToSet(t.table)) /\ \A conf \in ToSet(t.table) : "id" \in DOMAIN conf
    /\ Resolves(t)

ASSUME FilesAssumption == \A k \in Kinds : FilesOf[k] \in Seq(BOOLEAN)
ASSUME PreloadedAssumption ==
    \A k \in Kinds : /\ DOMAIN Preloaded[k] = DOMAIN EmptyRegistry
                     /\ IsTable(Preloaded[k].resources) /\ IsTable(Preloaded[k].signals)

VARIABLES
    kind,       \* the configuration being read
    pending,    \* files still to be opened: [doc, bu]
    read,       \* history: the files opened so far, the current one last
    events,     \* events of the current file not yet consumed
    p,          \* local variables of the parser
    reg         \* the registries

vars == <<kind, pending, read, events, p, reg>>

---------------------------------------------------------------------------
(* Keys.                                                                   *)

RootOf == [resource |-> "ResourceConfigs", property |-> "PropertyConfigs",
           target |-> "TargetConfig", init |-> "InitConfigs", signal |-> "SignalConfigs",
           feature |-> "FeatureConfigs", app |-> "PerAppConfigs"]

\* isKey: the words every parser but the one for properties takes for keys,
\* wherever they stand.  SigType is not among them.
Keys ==
    {"TargetConfig", "TargetName", "ClusterInfo", "LgcId", "PhyId", "ClusterSpread",
     "NumCores", "ResourceConfigs", "ResType", "ResID", "Name", "Path", "Supported",
     "HighThreshold", "LowThreshold", "Permissions", "Modes", "Policy", "Unit", "ApplyType",
     "TargetsEnabled", "TargetsDisabled", "InitConfigs", "CgroupsInfo", "ID", "Create",
     "IsThreaded", "ClusterMap", "Id", "Type", "MPAMgroupsInfo", "Priority", "CacheInfo",
     "NumCacheBlocks", "PriorityAware", "SignalConfigs", "SigId", "Category", "Enable",
     "Timeout", "Resources", "Derivatives", "ResCode", "ResInfo", "Values",
     "FeatureConfigs", "FeatId", "LibPath", "Description", "Signals",
     "PerAppConfigs", "App", "Threads", "Configurations"}

\* isKeyTypeList: keys that stay on the stack until their list ends.
ListKeys ==
    {"TargetName", "ClusterInfo", "ClusterSpread", "ClusterMap", "CgroupsInfo",
     "MPAMgroupsInfo", "CacheInfo", "Modes", "TargetsEnabled", "TargetsDisabled",
     "Permissions", "Derivatives", "Resources", "Values", "Signals"}

---------------------------------------------------------------------------
(* Events of a document (libyaml).                                         *)

MapStart == [type |-> "mapStart", value |-> ""]
MapEnd == [type |-> "mapEnd", value |-> ""]
SeqStart == [type |-> "seqStart", value |-> ""]
SeqEnd == [type |-> "seqEnd", value |-> ""]
Scalar(w) == [type |-> "scalar", value |-> w]

Scalars(ws) == [i \in DOMAIN ws |-> Scalar(ws[i])]

InnerEvents(m) ==
    <<MapStart>>
    \o FlattenSeq([i \in DOMAIN m |->
         <<Scalar(m[i].k)>> \o (IF m[i].list THEN <<SeqStart>> \o Scalars(m[i].vals) \o <<SeqEnd>>
                                ELSE Scalars(m[i].vals))])
    \o <<MapEnd>>

AttrEvents(a) ==
    <<Scalar(a.k)>>
    \o (IF a.list
          THEN <<SeqStart>> \o Scalars(a.vals)
               \o FlattenSeq([i \in DOMAIN a.maps |-> InnerEvents(a.maps[i])]) \o <<SeqEnd>>
          ELSE Scalars(a.vals))

Events(k, doc) ==
    <<MapStart, Scalar(RootOf[k]), SeqStart>>
    \o FlattenSeq([i \in DOMAIN doc |->
         <<MapStart>> \o FlattenSeq([j \in DOMAIN doc[i] |-> AttrEvents(doc[i][j])]) \o <<MapEnd>>])
    \o <<SeqEnd, MapEnd, [type |-> "end", value |-> ""]>>

---------------------------------------------------------------------------
(* Locals of a parser, and what all of them do with the key stack.         *)

\* ret: what the function returned, "" while it runs; rc: its status so far;
\* doc: docMarker; item: parsingResource, parsingSignal, ...; b and r: the
\* builders of the item and of an entry inside it; words: resValues and
\* itemArray; mine, found: isConfigForCurrentTarget, deviceParsingDone.
Fresh ==
    [ret |-> "", rc |-> "ok", doc |-> FALSE, keys |-> <<>>, item |-> FALSE,
     b |-> NoBuilder, r |-> NoBuilder, inner |-> FALSE, words |-> <<>>,
     mine |-> FALSE, found |-> FALSE, held |-> <<>>]

Return(s, code) == [s EXCEPT !.p.ret = code]
Top(s) == Last(s.p.keys)
Pop(s) == [s EXCEPT !.p.keys = Front(@)]
HoldsKey(s) == s.p.keys # <<>>

\* YAML_SEQUENCE_END_EVENT: the key of the list is done with.
EndOfList(s) == IF HoldsKey(s) THEN Pop(s) ELSE Return(s, "syntax")

\* YAML_SCALAR_EVENT up to the setters: a key is pushed; a value needs a key
\* and takes it off the stack unless the key is of list type.
OnScalar(s, w, Use(_, _)) ==
    IF w \in Keys THEN [s EXCEPT !.p.keys = Append(@, w)]
    ELSE IF ~HoldsKey(s) THEN Return(s, "syntax")
    ELSE Use(IF Top(s) \in ListKeys THEN s ELSE Pop(s), Top(s))

\* A setter of a builder runs while the status is good and the builder is
\* there, and its result becomes the status.
Set(s, known, valid, put) ==
    IF ~known \/ ~s.p.b.on \/ s.p.rc # "ok" THEN s
    ELSE IF valid THEN [s EXCEPT !.p.b = put] ELSE [s EXCEPT !.p.rc = "invalid"]

---------------------------------------------------------------------------
(* parseResourceConfigYamlNode                                             *)

Targeting(b, k, v) ==
    CASE k = "TargetsEnabled" -> AddTargetEnabled(b, v)
      [] k = "TargetsDisabled" -> AddTargetDisabled(b, v)
      [] k \in {"Supported", "Enable"} -> SetSupported(b, v)

TargetKeys == {"TargetsEnabled", "TargetsDisabled"}

ResourceKeys == {"ResType", "ResID", "Name", "Path", "HighThreshold", "LowThreshold",
                 "Permissions", "Policy", "Unit", "ApplyType", "Modes", "Supported"} \cup TargetKeys

ResourceValue(s, k, v) ==
    Set(s, k \in ResourceKeys,
        IF k \in TargetKeys THEN s.p.b.ref # Unsupported ELSE ResourceValid(k, v),
        CASE k \in TargetKeys \cup {"Supported"} -> Targeting(s.p.b, k, v)
          [] k = "Modes" -> Append2(s.p.b, k, v)
          [] OTHER -> Put(s.p.b, k, v))


\* End of a resource: type 0 makes the registry drop it.  The status stays
\* as it is, so that every later resource of the file is dropped as well.
ResourceEnd(s, bu) ==
    IF ~s.p.item THEN s
    ELSE [s EXCEPT !.reg = RegisterResource(@, IF s.p.rc # "ok" \/ s.p.b.ref < 0
                                                 THEN Put(s.p.b, "ResType", "0")
                                                 ELSE s.p.b, bu),
                   !.p.b = NoBuilder, !.p.item = FALSE]

ResourceEvent(s, e, bu) ==
    CASE e.type = "end" -> Return(s, s.p.rc)
      [] e.type = "mapStart" -> IF ~s.p.doc THEN [s EXCEPT !.p.doc = TRUE]
                                ELSE [s EXCEPT !.p.b = NewBuilder, !.p.item = TRUE]
      [] e.type = "mapEnd" -> ResourceEnd(s, bu)
      [] e.type = "seqEnd" -> EndOfList(s)
      [] e.type = "scalar" -> OnScalar(s, e.value, LAMBDA t, k : ResourceValue(t, k, e.value))
      [] OTHER -> s

---------------------------------------------------------------------------
(* parsePropertiesConfigYamlNode: no stack, the last key decides.  held is *)
(* <<name, value>>, item tells whether a name is expected.                 *)

HeldName(s) == IF s.p.held = <<>> THEN "" ELSE s.p.held[1]
HeldValue(s) == IF s.p.held = <<>> THEN "" ELSE s.p.held[2]

PropertyEvent(s, e) ==
    CASE e.type = "end" -> Return(s, "ok")
      [] e.type = "mapEnd" ->
           [s EXCEPT !.reg = IF HeldName(s) # "" /\ HeldValue(s) # ""
                               THEN CreateProperty(@, HeldName(s), HeldValue(s)) ELSE @,
                     !.p.held = <<>>]
      [] e.type = "scalar" ->
           IF e.value = "PropertyConfigs" THEN s
           ELSE IF e.value \in {"Name", "Value"} THEN [s EXCEPT !.p.item = (e.value = "Name")]
           ELSE [s EXCEPT !.p.held = IF s.p.item THEN <<e.value, HeldValue(s)>>
                                     ELSE <<HeldName(s), e.value>>]
      [] OTHER -> s

---------------------------------------------------------------------------
(* parseTargetConfigYamlNode.  held is <<lgcClusterID, phyClusterID,       *)
(* numCoresString>>; it is cleared only when an entry is used.             *)

Held(s, i) == IF s.p.held = <<>> THEN "" ELSE s.p.held[i]
Hold(s, i, v) == [s EXCEPT !.p.held = [j \in 1 .. 3 |-> IF j = i THEN v ELSE Held(s, j)]]

TargetValue(s, k, v) ==
    CASE k = "TargetName" ->
           IF v \in {"*", TargetName} /\ ~s.p.found
             THEN [s EXCEPT !.p.mine = TRUE, !.p.found = TRUE] ELSE s
      [] k = "LgcId" -> Hold(s, 1, v)
      [] k = "PhyId" -> Hold(s, 2, v)
      [] k = "NumCores" -> Hold(s, 3, v)
      [] OTHER -> s

TargetEnd(s) ==
    IF ~HoldsKey(s) \/ ~s.p.item THEN s
    ELSE LET t == [s EXCEPT !.p.item = FALSE]
         IN IF ~s.p.mine THEN t
            ELSE IF Top(s) = "ClusterInfo"
              THEN Hold(Hold([t EXCEPT !.reg = AddClusterMapping(@, Held(s, 1), Held(s, 2))], 1, ""), 2, "")
              ELSE Hold(Hold([t EXCEPT !.reg = AddClusterSpreadInfo(@, Held(s, 2), Held(s, 3))], 2, ""), 3, "")

TargetEvent(s, e) ==
    CASE e.type = "end" -> Return(s, "ok")
      [] e.type = "mapStart" -> IF ~s.p.doc THEN [s EXCEPT !.p.doc = TRUE]
                                ELSE [s EXCEPT !.p.item = TRUE]
      [] e.type = "mapEnd" -> TargetEnd(s)
      [] e.type = "seqEnd" -> EndOfList(s)
      [] e.type = "scalar" ->
           LET t == IF e.value = "TargetName" THEN [s EXCEPT !.p.mine = FALSE] ELSE s
           IN OnScalar(t, e.value, LAMBDA u, k : TargetValue(u, k, e.value))
      [] OTHER -> s

---------------------------------------------------------------------------
(* parseInitConfigYamlNode.  One builder per list; at most one exists at a *)
(* time, so b stands for the three of them.                                *)

InitLists == {"CgroupsInfo", "MPAMgroupsInfo", "CacheInfo"}
InitKeys == {"Name", "ID", "Create", "IsThreaded", "Priority", "Type",
             "NumCacheBlocks", "PriorityAware"}

InitStart(s) ==
    IF ~s.p.doc THEN [s EXCEPT !.p.doc = TRUE]
    ELSE IF ~HoldsKey(s) THEN Return(s, "syntax")
    ELSE IF Top(s) \in InitLists THEN [s EXCEPT !.p.b = NewBuilder] ELSE s

InitEnd(s) ==
    IF ~HoldsKey(s) THEN s
    ELSE IF Top(s) \notin InitLists THEN s
    ELSE LET good == s.p.rc = "ok"
             t == [s EXCEPT !.p.b = NoBuilder]
         IN CASE Top(s) = "CgroupsInfo" ->
                   [t EXCEPT !.reg = AddCGroupMapping(@, IF good THEN s.p.b ELSE Put(s.p.b, "ID", "-1"))]
              [] Top(s) = "MPAMgroupsInfo" ->
                   [t EXCEPT !.reg = AddMpamGroupMapping(@, IF good THEN s.p.b ELSE Put(s.p.b, "ID", "-1"))]
              [] Top(s) = "CacheInfo" ->
                   [t EXCEPT !.reg = AddCacheInfoMapping(@, IF good THEN s.p.b ELSE Put(s.p.b, "Type", ""))]

InitEvent(s, e) ==
    CASE e.type = "end" -> Return(s, s.p.rc)
      [] e.type = "mapStart" -> InitStart(s)
      [] e.type = "mapEnd" -> InitEnd(s)
      [] e.type = "seqEnd" -> EndOfList(s)
      [] e.type = "scalar" ->
           OnScalar(s, e.value, LAMBDA t, k :
                Set(t, k \in InitKeys, InitValid(k, e.value), Put(t.p.b, k, e.value)))
      [] OTHER -> s

---------------------------------------------------------------------------
(* parseSignalConfigYamlNode.  r collects one entry of Resources.          *)

SignalKeys == {"Permissions", "Derivatives", "SigId", "Category", "SigType", "Name",
               "Timeout", "Enable"} \cup TargetKeys

SignalStart(s) ==
    IF ~s.p.doc THEN [s EXCEPT !.p.doc = TRUE]
    ELSE IF ~HoldsKey(s) THEN Return(s, "syntax")
    ELSE IF Top(s) = "Resources" THEN [s EXCEPT !.p.inner = TRUE, !.p.r = NewBuilder]
    ELSE [s EXCEPT !.p.item = TRUE, !.p.b = NewBuilder]

\* An entry of Resources joins the signal only while the status is good.
\* At the end of the signal the status is reset, unlike for a resource.
SignalEnd(s, bu) ==
    IF s.p.inner
      THEN LET t == [s EXCEPT !.p.inner = FALSE]
           IN IF s.p.rc # "ok" THEN t
              ELSE [t EXCEPT !.p.b.parts = Append(@, s.p.r.conf), !.p.r = NoBuilder]
    ELSE IF s.p.item
      THEN [s EXCEPT !.p.item = FALSE, !.p.rc = "ok", !.p.b = NoBuilder,
                     !.reg = RegisterSignal(@, IF s.p.rc = "ok" THEN s.p.b
                                               ELSE Put(s.p.b, "Category", "0"), bu)]
    ELSE s

\* End of a list: after Values, setNumValues and addValue word by word.
SignalListEnd(s) ==
    IF ~HoldsKey(s) THEN Return(s, "syntax")
    ELSE IF Top(s) # "Values" THEN Pop(s)
    ELSE LET t == [Pop(s) EXCEPT !.p.words = <<>>]
             good == \A i \in DOMAIN s.p.words : ValueOk(s.p.words[i])
         IN IF s.p.rc # "ok" THEN t
            ELSE IF good THEN [t EXCEPT !.p.r.conf = With(@, "Values", s.p.words)]
            ELSE [t EXCEPT !.p.rc = "invalid"]

SignalValue(s, k, v) ==
    IF k \in SignalKeys /\ s.p.b.on
      THEN Set(s, TRUE,
               IF k \in TargetKeys THEN s.p.b.ref # Unsupported ELSE SignalValid(k, v),
               CASE k \in TargetKeys \cup {"Enable"} -> Targeting(s.p.b, k, v)
                 [] k \in {"Permissions", "Derivatives"} -> Append2(s.p.b, k, v)
                 [] OTHER -> Put(s.p.b, k, v))
    ELSE IF k \in {"ResCode", "ResInfo"} /\ s.p.r.on
      THEN IF s.p.rc # "ok" THEN s
           ELSE IF SignalValid(k, v) THEN [s EXCEPT !.p.r = Put(@, k, v)]
           ELSE [s EXCEPT !.p.rc = "invalid"]
    ELSE IF k = "Values" THEN [s EXCEPT !.p.words = Append(@, v)]
    ELSE s

SignalEvent(s, e, bu) ==
    CASE e.type = "end" -> Return(s, s.p.rc)
      [] e.type = "mapStart" -> SignalStart(s)
      [] e.type = "mapEnd" -> SignalEnd(s, bu)
      [] e.type = "seqEnd" -> SignalListEnd(s)
      [] e.type = "scalar" -> OnScalar(s, e.value, LAMBDA t, k : SignalValue(t, k, e.value))
      [] OTHER -> s

---------------------------------------------------------------------------
(* parseExtFeatureConfigYamlNode.  A feature without a Signals list makes  *)
(* registerExtFeature iterate over a null pointer.                         *)

FeatureEnd(s) ==
    IF ~s.p.item THEN s
    ELSE LET t == [s EXCEPT !.p.item = FALSE, !.p.b = NoBuilder]
             b == IF s.p.rc = "ok" THEN s.p.b ELSE Put(s.p.b, "LibPath", "")
         IN IF WordOf(b, "LibPath", "") # "" /\ ~Given(b, "Signals") THEN Return(t, "crash")
            ELSE [t EXCEPT !.reg = RegisterExtFeature(@, b)]

FeatureEvent(s, e) ==
    CASE e.type = "end" -> Return(s, s.p.rc)
      [] e.type = "mapStart" -> IF ~s.p.doc THEN [s EXCEPT !.p.doc = TRUE]
                                ELSE [s EXCEPT !.p.b = NewBuilder, !.p.item = TRUE]
      [] e.type = "mapEnd" -> FeatureEnd(s)
      [] e.type = "seqEnd" -> EndOfList(s)
      [] e.type = "scalar" ->
           OnScalar(s, e.value, LAMBDA t, k :
                Set(t, k \in {"FeatId", "LibPath", "Name", "Signals"}, FeatureValid(k, e.value),
                    IF k = "Signals" THEN Append2(t.p.b, k, e.value) ELSE Put(t.p.b, k, e.value)))
      [] OTHER -> s

---------------------------------------------------------------------------
(* parsePerAppConfigYamlNode.  item and inner are inThreadList and         *)
(* inConfigList; a bad entry ends the parse.                               *)

AppListStart(s) ==
    IF ~HoldsKey(s) THEN Return(s, "syntax")
    ELSE [s EXCEPT !.p.item = @ \/ Top(s) = "Threads",
                   !.p.inner = @ \/ (Top(s) # "Threads" /\ Top(s) = "Configurations")]

Pairs(words) == [i \in 1 .. Len(words) \div 2 |-> <<words[2 * i - 1], CodeOf(words[2 * i])>>]

AppListEnd(s) ==
    LET words == s.p.words
        t == [s EXCEPT !.p.words = <<>>]
        threads == \A i \in 1 .. Len(words) \div 2 : CGroupOk(words[2 * i])
        codes == \A i \in DOMAIN words : NumberOk(words[i])
    IN IF ~HoldsKey(s) THEN Return(s, "syntax")
       ELSE IF s.p.item
         THEN IF threads THEN Pop([t EXCEPT !.p.item = FALSE, !.p.b.parts = Pairs(words)])
              ELSE Return(s, "syntax")
       ELSE IF s.p.inner
         THEN IF codes THEN Pop([t EXCEPT !.p.inner = FALSE,
                                          !.p.b.conf = With(@, "Configurations", words)])
              ELSE Return(s, "syntax")
       ELSE Pop(s)

\* The key stays on the stack while a list is open, list key or not.
AppScalar(s, w) ==
    IF w \in Keys THEN [s EXCEPT !.p.keys = Append(@, w)]
    ELSE IF ~HoldsKey(s) THEN Return(s, "syntax")
    ELSE LET t == IF s.p.item \/ s.p.inner THEN s ELSE Pop(s)
         IN CASE Top(s) = "App" -> [t EXCEPT !.p.b = Put(@, "App", w)]
              [] Top(s) \in {"Threads", "Configurations"} -> [t EXCEPT !.p.words = Append(@, w)]
              [] OTHER -> t

AppEvent(s, e) ==
    CASE e.type = "end" -> Return(s, s.p.rc)
      [] e.type = "mapStart" ->
           IF ~s.p.doc THEN [s EXCEPT !.p.doc = TRUE]
           ELSE IF Top(s) = "PerAppConfigs" /\ ~s.p.b.on THEN [s EXCEPT !.p.b = NewBuilder] ELSE s
      [] e.type = "mapEnd" ->
           IF ~HoldsKey(s) THEN s
           ELSE IF Top(s) # "PerAppConfigs" THEN s
           ELSE [s EXCEPT !.reg = RegisterAppConfig(@, s.p.b), !.p.b = NoBuilder]
      [] e.type = "seqStart" -> AppListStart(s)
      [] e.type = "seqEnd" -> AppListEnd(s)
      [] e.type = "scalar" -> AppScalar(s, e.value)
      [] OTHER -> s

---------------------------------------------------------------------------
(* fetchResources, fetchSignals and their like: the common file, then the  *)
(* custom one if there is any; the first parse that fails ends it.         *)

Init ==
    /\ kind \in Kinds
    /\ \E n \in 1 .. Len(FilesOf[kind]) :
         \E pick \in [1 .. n -> UNION {DOMAIN Documents[kind][i] : i \in 1 .. n}] :
            /\ \A i \in 1 .. n : pick[i] \in DOMAIN Documents[kind][i]
            /\ pending = [i \in 1 .. n |-> [doc |-> Documents[kind][i][pick[i]],
                                           bu |-> FilesOf[kind][i]]]
    /\ read = <<>>
    /\ events = <<>>
    /\ p = [Fresh EXCEPT !.ret = "ok"]
    /\ reg = Preloaded[kind]

\* parseUtil: a parser starts with fresh locals on the next file.
OpenFile ==
    /\ pending # <<>>
    /\ p.ret = "ok"
    /\ events' = Events(kind, Head(pending).doc)
    /\ read' = Append(read, Head(pending))
    /\ pending' = Tail(pending)
    /\ p' = Fresh
    /\ UNCHANGED <<kind, reg>>

\* One turn of the loop of a parser, which leaves state s of its locals and the
\* registries; a return drops the remaining events.
Consume(k, s) ==
    /\ kind = k
    /\ p.ret = ""
    /\ p' = s.p /\ reg' = s.reg
    /\ events' = IF s.p.ret # "" THEN <<>> ELSE Tail(events)
    /\ UNCHANGED <<kind, pending, read>>

Current == [p |-> p, reg |-> reg]
Custom == Last(read).bu
ParseResource == Consume("resource", ResourceEvent(Current, Head(events), Custom))
ParseProperty == Consume("property", PropertyEvent(Current, Head(events)))
ParseTarget == Consume("target", TargetEvent(Current, Head(events)))
ParseInit == Consume("init", InitEvent(Current, Head(events)))
ParseSignal == Consume("signal", SignalEvent(Current, Head(events), Custom))
ParseFeature == Consume("feature", FeatureEvent(Current, Head(events)))
ParseApp == Consume("app", AppEvent(Current, Head(events)))

\* The step of init after all files: callbacks of the extension library.
ModifyCallbacks ==
    /\ kind = "resource" /\ pending = <<>> /\ p.ret = "ok"
    /\ reg' = PluginModifications(reg, Plugins)
    /\ p' = [p EXCEPT !.ret = "modified"]
    /\ UNCHANGED <<kind, pending, read, events>>

Next ==
    \/ OpenFile
    \/ ParseResource \/ ParseProperty \/ ParseTarget \/ ParseInit
    \/ ParseSignal \/ ParseFeature \/ ParseApp
    \/ ModifyCallbacks

Spec == Init /\ [][Next]_vars

---------------------------------------------------------------------------
(* What the documents say, on their structure alone.                       *)

\* Words given for a key anywhere in an item, the last attribute counting.
Has(item, k) == \E i \in DOMAIN item : item[i].k = k
Attr(item, k) == LET i == CHOOSE i \in DOMAIN item :
                           item[i].k = k /\ \A j \in DOMAIN item : item[j].k = k => j <= i
                 IN item[i]
Word(item, k, default) == IF Has(item, k) THEN Attr(item, k).vals[1] ELSE default
Num(item, k, default) == IF Has(item, k) THEN ToInt[Attr(item, k).vals[1]] ELSE default
WordSet(item, k) == IF Has(item, k) THEN ToSet(Attr(item, k).vals) ELSE {}

\* A list of targets after a word that rules the item out is refused.
RuledOutBefore(item, i, flag) == \E j \in 1 .. i - 1 : item[j].k = flag /\ item[j].vals[1] # "true"
WellFormed(item, flag, Valid(_, _)) ==
    \A i \in DOMAIN item :
        IF item[i].k \in TargetKeys THEN ~RuledOutBefore(item, i, flag)
        ELSE \A w \in ToSet(item[i].vals) : Valid(item[i].k, w)

ForThisTarget(item, flag) ==
    /\ Word(item, flag, "true") = "true"
    /\ Has(item, "TargetsEnabled") => TargetName \in WordSet(item, "TargetsEnabled")
    /\ TargetName \notin WordSet(item, "TargetsDisabled")

\* All items of the files read, and the ones up to the first refused one.
AllItems(files) == FlattenSeq([f \in DOMAIN files |->
                     [i \in DOMAIN files[f].doc |-> [item |-> files[f].doc[i], bu |-> files[f].bu]]])
UntilRefused(items, Ok(_)) ==
    SelectSeq([i \in DOMAIN items |-> [items[i] EXCEPT !.item =
                 IF \A j \in 1 .. i : Ok(items[j].item) THEN @ ELSE <<>>]],
              LAMBDA x : x.item # <<>>)

\* The last item on an identity counts; it stands under the custom key
\* exactly if the custom file has an item on that identity.
LastWord(items, Id(_), Conf(_)) ==
    LET ids == {Id(items[i].item) : i \in DOMAIN items}
        on(id) == {i \in DOMAIN items : Id(items[i].item) = id}
        last(id) == CHOOSE i \in on(id) : \A j \in on(id) : j <= i
    IN {<<id, \E i \in on(id) : items[i].bu, Conf(items[last(id)].item)>> : id \in ids}

Contents(t) == {<<key[1], key[2], Lookup(t, key)>> : key \in DOMAIN t.map}

ResId(item) == <<Num(item, "ResType", 0) % 256, Num(item, "ResID", 0) % 65536>>
ResConf(item) ==
    [id |-> ResId(item), policy |-> Word(item, "Policy", "lazy_apply"),
     callbacks |-> DefaultCallbacks(Word(item, "ApplyType", "global")),
     modes |-> WordSet(item, "Modes") \ {""}]
ResOk(item) == WellFormed(item, "Supported", ResourceValid)

ExpectedResources(files) ==
    LET known == SelectSeq(UntilRefused(AllItems(files), ResOk),
                           LAMBDA x : ForThisTarget(x.item, "Supported") /\ ResId(x.item)[1] # 0)
        adapt(c) == IF p.ret = "modified" /\ <<c[1], c[2]>> \in DOMAIN Plugins
                      THEN <<c[1], c[2], [c[3] EXCEPT !.callbacks = Plugins[<<c[1], c[2]>>]]>> ELSE c
    IN {adapt(c) : c \in LastWord(known, ResId, ResConf)}

SigId(item) ==
    <<Num(item, "Category", 0) % 256, Num(item, "SigId", 0) % 65536, Num(item, "Type", 0)>>
Part(m) == [k \in {m[i].k : i \in DOMAIN m} |-> Attr(m, k).vals]
SigConf(item) ==
    [id |-> SigId(item), timeout |-> Num(item, "Timeout", 1),
     permissions |-> WordSet(item, "Permissions"),
     resources |-> IF Has(item, "Resources")
                     THEN [i \in DOMAIN Attr(item, "Resources").maps |->
                              Part(Attr(item, "Resources").maps[i])]
                     ELSE <<>>]
PartOk(m) == \A i \in DOMAIN m : \A w \in ToSet(m[i].vals) :
                IF m[i].k = "Values" THEN ValueOk(w) ELSE CodeOk(w)
SigOk(item) ==
    /\ WellFormed(item, "Enable", SignalValid)
    /\ \A m \in (IF Has(item, "Resources") THEN ToSet(Attr(item, "Resources").maps) ELSE {}) : PartOk(m)

GoodSignals(files) == SelectSeq(AllItems(files), LAMBDA x : SigOk(x.item))

\* As for resources, a signal is for the targets its item names, unless disabled.
ExpectedSignals(items) ==
    LastWord(SelectSeq(items, LAMBDA x : ForThisTarget(x.item, "Enable") /\ SigId(x.item)[1] # 0),
             SigId, SigConf)

\* Attributes of a signal that are documented and change nothing: no one asks for the
\* reference count that Enable and the targets leave in the builder, and the parser
\* looks for SigType where a file has Type.
Unheeded == {"Enable", "TargetsEnabled", "TargetsDisabled", "Type"}
Heeded(items) ==
    [i \in DOMAIN items |->
        [items[i] EXCEPT !.item = SelectSeq(@, LAMBDA a : a.k \notin Unheeded)]]

\* Entries of a list of mappings, with what the last one of a name says.
Entries(items, k) == FlattenSeq([i \in DOMAIN items |->
                        IF Has(items[i].item, k)
                          THEN [j \in DOMAIN Attr(items[i].item, k).maps |->
                                  [item |-> Attr(items[i].item, k).maps[j], bu |-> FALSE]]
                          ELSE <<>>])
ByLast(items, Id(_), Conf(_)) ==
    LET said == LastWord(items, Id, Conf)
    IN [id \in {c[1] : c \in said} |-> (CHOOSE c \in said : c[1] = id)[3]]

EntryOk(m) == \A i \in DOMAIN m : InitValid(m[i].k, m[i].vals[1])
InitOk(item) == \A i \in DOMAIN item : \A m \in ToSet(item[i].maps) : EntryOk(m)
GroupName(m) == Word(m, "Name", "")
Group(m) == [name |-> GroupName(m),
             threaded |-> Word(m, "Create", "") = "true" /\ Word(m, "IsThreaded", "") = "true"]

ExpectedGroups(files) ==
    LET entries == UntilRefused(Entries(AllItems(files), "CgroupsInfo"), EntryOk)
    IN ByLast(SelectSeq(entries, LAMBDA x : /\ Num(x.item, "ID", -1) # -1 /\ GroupName(x.item) # ""
                                            /\ Word(x.item, "Create", "") = "true" => GroupName(x.item) \notin Uncreatable),
              LAMBDA m : Num(m, "ID", -1), Group)

\* The first item that lists this target, or every target, describes it.
ExpectedLogical(files) ==
    LET items == SelectSeq(AllItems(files), LAMBDA x : WordSet(x.item, "TargetName") \cap {"*", TargetName} # {})
    IN IF items = <<>> THEN <<>>
       ELSE ByLast(Entries(<<items[1]>>, "ClusterInfo"),
                   LAMBDA m : Num(m, "LgcId", 0), LAMBDA m : Num(m, "PhyId", 0))
ExpectedCores(files) ==
    LET items == SelectSeq(AllItems(files), LAMBDA x : WordSet(x.item, "TargetName") \cap {"*", TargetName} # {})
        said == IF items = <<>> THEN <<>>
                ELSE ByLast(Entries(<<items[1]>>, "ClusterSpread"),
                            LAMBDA m : Num(m, "PhyId", 0), LAMBDA m : Num(m, "NumCores", 0))
        physical == {ExpectedLogical(files)[l] : l \in DOMAIN ExpectedLogical(files)}
    IN [c \in physical |-> [start |-> c, cores |-> IF c \in DOMAIN said THEN said[c] ELSE 0]]

ExpectedProps(files) ==
    ByLast(SelectSeq(AllItems(files), LAMBDA x : Has(x.item, "Name") /\ Has(x.item, "Value")),
           LAMBDA i : Word(i, "Name", ""), LAMBDA i : Word(i, "Value", ""))

FeatOk(item) == \A i \in DOMAIN item : \A w \in ToSet(item[i].vals) : FeatureValid(item[i].k, w)
Headless(item) == FeatOk(item) /\ Has(item, "LibPath") /\ ~Has(item, "Signals")
ExpectedFeatures(files) ==
    LET items == UntilRefused(AllItems(files), LAMBDA i : FeatOk(i) /\ ~Headless(i))
    IN ByLast(SelectSeq(items, LAMBDA x : Has(x.item, "LibPath")),
              LAMBDA i : Num(i, "FeatId", 0), LAMBDA i : Word(i, "LibPath", ""))

AppOk(item) ==
    /\ Has(item, "Threads") =>
         \A m \in ToSet(Attr(item, "Threads").maps) : CGroupOk(m[1].vals[1])
    /\ \A w \in WordSet(item, "Configurations") : NumberOk(w)
AppConf(item) ==
    [threads |-> IF ~Has(item, "Threads") THEN <<>>
                 ELSE [i \in DOMAIN Attr(item, "Threads").maps |->
                         LET m == Attr(item, "Threads").maps[i] IN <<m[1].k, CodeOf(m[1].vals[1])>>],
     signals |-> IF ~Has(item, "Configurations") THEN <<>>
                 ELSE [i \in DOMAIN Attr(item, "Configurations").vals |->
                         ToInt[Attr(item, "Configurations").vals[i]]]]
ExpectedApps(files) ==
    ByLast(UntilRefused(AllItems(files), AppOk), LAMBDA i : Word(i, "App", ""), AppConf)

\* Whether the file read last is taken: one refused attribute of a resource,
\* an init entry, a feature or an application refuses the whole file, a
\* refused signal only itself.
Taken(file) ==
    CASE kind = "resource" -> \A item \in ToSet(file.doc) : ResOk(item)
      [] kind = "init" -> \A item \in ToSet(file.doc) : InitOk(item)
      [] kind = "feature" -> \A item \in ToSet(file.doc) : FeatOk(item) /\ ~Headless(item)
      [] kind = "app" -> \A item \in ToSet(file.doc) : AppOk(item)
      [] OTHER -> TRUE

---------------------------------------------------------------------------
(* Properties.                                                             *)


\* A key of mSystemIndependentLayerMappings, or of the signals' map, always
\* leads to a configuration of its own identity, and no configuration is
\* reached under two keys, through every override of a common item by a
\* custom one.
KeysResolve == Resolves(reg.resources) /\ Resolves(reg.signals)
===========================================================================
