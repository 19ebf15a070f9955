--------------------------- MODULE MCConfigParser ---------------------------
(***************************************************************************)
(* Documents for ConfigParser: the attributes the shipped and documented   *)
(* files use, with values the builders accept and values they refuse.      *)
(***************************************************************************)
EXTENDS ConfigParser

MCToInt == [w \in {"-1", "0", "1", "2", "7", "258"} |->
              CASE w = "-1" -> -1 [] w = "0" -> 0 [] w = "1" -> 1
                [] w = "2" -> 2 [] w = "7" -> 7 [] w = "258" -> 258]
MCNames == [w \in {"RES_A"} |-> 7]

MCFilesOf == [resource |-> <<FALSE, TRUE>>, signal |-> <<FALSE, TRUE>>,
              property |-> <<FALSE, FALSE>>, init |-> <<FALSE, FALSE>>,
              target |-> <<TRUE>>, feature |-> <<TRUE>>, app |-> <<TRUE>>]

One(key, word) == [k |-> key, list |-> FALSE, vals |-> <<word>>, maps |-> <<>>]
Many(key, words) == [k |-> key, list |-> TRUE, vals |-> words, maps |-> <<>>]
Maps(key, entries) == [k |-> key, list |-> TRUE, vals |-> <<>>, maps |-> entries]

ResourcePool ==
  << <<One("ResType", "1"), One("ResID", "1"), One("Policy", "higher_is_better")>>,
     <<One("ResType", "1"), One("ResID", "1"), One("Supported", "false")>>,
     <<One("ResType", "258"), One("ResID", "1"), Many("Modes", <<"doze", "display_on">>),
       One("ApplyType", "core")>>,
     <<One("ResType", "1"), One("ResID", "1"), Many("TargetsEnabled", <<"other", "me">>),
       One("Permissions", "system"), Many("Modes", <<"doze">>)>>,
     <<Many("TargetsDisabled", <<"me", "other">>), One("ResType", "2"), One("ResID", "1")>>,
     <<One("ResType", "2"), Many("TargetsDisabled", <<"other">>), One("Unit", "parsec")>>,
     <<One("Supported", "false"), Many("TargetsEnabled", <<"me">>), One("ResType", "2")>>,
     <<One("ResID", "7"), One("Name", "unnumbered")>> >>

SignalPool ==
  << <<One("SigId", "1"), One("Category", "1"),
       Maps("Resources", << <<One("ResCode", "RES_A"), Many("Values", <<"%d", "2">>)>>,
                            <<One("ResCode", "2"), One("ResInfo", "1"), Many("Values", <<"1">>)>> >>)>>,
     <<One("SigId", "1"), One("Category", "1"), One("Enable", "false")>>,
     <<One("SigId", "1"), One("Category", "258"), Many("Permissions", <<"system", "third_party">>),
       One("Timeout", "7")>>,
     <<One("SigId", "1"), One("Category", "1"),
       Maps("Resources", << <<One("ResCode", "unknown"), Many("Values", <<"1">>)>>,
                            <<One("ResCode", "2"), Many("Values", <<"1">>)>> >>)>>,
     <<One("SigId", "2"), One("Category", "1"), One("Type", "7"),
       Maps("Resources", << <<One("ResCode", "2"), Many("Values", <<"high">>)>> >>)>>,
     <<One("SigId", "2"), One("Category", "1"), One("Type", "7"), Many("Derivatives", <<"solar">>),
       Many("TargetsEnabled", <<"other">>)>>,
     <<One("Enable", "no"), Many("TargetsEnabled", <<"me">>), One("SigId", "1"), One("Category", "1")>> >>

InitPool ==
  << <<Maps("CgroupsInfo", << <<One("Name", "a"), One("Create", "true"), One("ID", "1"),
                                One("IsThreaded", "true")>>,
                              <<One("Name", "b"), One("ID", "2")>> >>)>>,
     <<Maps("CgroupsInfo", << <<One("Name", "c"), One("Create", "true"), One("ID", "1")>>, <<One("ID", "7")>> >>)>>,
     <<Maps("CgroupsInfo", << <<One("Name", "d"), One("ID", "two")>>, <<One("Name", "e"), One("ID", "7")>> >>)>>,
     <<Maps("MPAMgroupsInfo", << <<One("Name", "m"), One("ID", "1"), One("Priority", "2")>> >>),
       Maps("CgroupsInfo", << <<One("Name", "f"), One("ID", "-1")>> >>)>>,
     <<Maps("CacheInfo", << <<One("Type", "l2"), One("NumCacheBlocks", "2"), One("PriorityAware", "true")>> >>),
       Maps("CgroupsInfo", << <<One("Name", "g"), One("ID", "2")>> >>)>> >>

TargetPool ==
  << <<Many("TargetName", <<"me">>),
       Maps("ClusterInfo", << <<One("LgcId", "0"), One("PhyId", "2")>>, <<One("LgcId", "1"), One("PhyId", "0")>> >>),
       Maps("ClusterSpread", << <<One("PhyId", "0"), One("NumCores", "2")>>, <<One("NumCores", "1"), One("PhyId", "2")>> >>)>>,
     <<Many("TargetName", <<"other">>),
       Maps("ClusterInfo", << <<One("LgcId", "7"), One("PhyId", "7")>> >>),
       Maps("ClusterSpread", << <<One("PhyId", "7"), One("NumCores", "7")>> >>)>>,
     <<Many("TargetName", <<"other", "*">>),
       Maps("ClusterInfo", << <<One("LgcId", "0"), One("PhyId", "1")>> >>)>>,
     <<Many("TargetName", <<"me">>)>> >>

PropertyPool ==
  << <<One("Name", "a"), One("Value", "1")>>, <<One("Value", "2"), One("Name", "a")>>,
     <<One("Name", "b")>>, <<One("Value", "7")>>, <<One("Name", "b"), One("Value", "2")>> >>

FeaturePool ==
  << <<One("FeatId", "1"), One("LibPath", "one.so"), Many("Signals", <<"1", "2">>)>>,
     <<One("FeatId", "1"), One("Name", "n"), Many("Signals", <<"7">>), One("LibPath", "two.so")>>,
     <<One("FeatId", "2"), Many("Signals", <<"1">>)>>,
     <<One("FeatId", "2"), One("LibPath", "three.so")>>,
     <<One("FeatId", "first"), One("LibPath", "four.so"), Many("Signals", <<"1">>)>>,
     <<Many("Signals", <<"1", "loud">>), One("LibPath", "five.so"), One("FeatId", "7")>> >>

AppPool ==
  << <<One("App", "x"), Maps("Threads", << <<One("t", "2")>>, <<One("u", "RES_A")>> >>),
       Many("Configurations", <<"1", "7">>)>>,
     <<One("App", "x"), Many("Configurations", <<"2">>)>>,
     <<Maps("Threads", << <<One("t", "1")>> >>), One("App", "y")>>,
     <<One("App", "y"), Maps("Threads", << <<One("t", "nowhere")>> >>)>>,
     <<One("App", "z"), Many("Configurations", <<"two">>)>> >>

Pool == [resource |-> ResourcePool, signal |-> SignalPool, init |-> InitPool, target |-> TargetPool,
         property |-> PropertyPool, feature |-> FeaturePool, app |-> AppPool]

Short(pool) == << <<>> >> \o [i \in DOMAIN pool |-> <<pool[i]>>]
Pairwise(pool) == LET n == Len(pool)
                  IN [i \in 1 .. n * n |-> <<pool[((i - 1) \div n) + 1], pool[((i - 1) % n) + 1]>>]

\* A common file of up to two items, a custom one of up to one; two in a
\* kind that has one file only.
MCDocuments ==
    [k \in DOMAIN Pool |-> <<Short(Pool[k]) \o Pairwise(Pool[k]),
                             IF k \in {"resource", "signal"} THEN Short(Pool[k]) \o Pairwise(Pool[k])
                             ELSE Short(Pool[k])>>]

\* A registered signal, so that a subscription has something to meet.
MCPreloaded ==
    [k \in DOMAIN Pool |->
        IF k # "feature" THEN EmptyRegistry
        ELSE [EmptyRegistry EXCEPT !.signals =
                Register(EmptyTable, <<1, 1, 0>>, [id |-> <<1, 1, 0>>], FALSE)]]

MCPlugins == << <<1, 1>>, FALSE>> :> "plugin" @@ << <<2, 1>>, TRUE>> :> "plugin"
===========================================================================
