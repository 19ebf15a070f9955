----------------------------- MODULE CocoTable -----------------------------
(***************************************************************************)
(* The concurrency coordinator of resource-tuner (core/CocoTable.cpp).     *)
(*                                                                         *)
(* For every resource, every unit of conflict of the resource (a core, a   *)
(* cluster, a cgroup, or the single unit of a global resource) and every   *)
(* priority the table keeps a list of the pending configurations.  One     *)
(* integer per RESOURCE, mCurrentlyAppliedPriority, decides whether a list *)
(* head may be written to the unit's sysfs node.  All of this runs on the  *)
(* single consumer thread of the request queue; each iteration of the      *)
(* DL_ITERATE loops of insertRequest and removeRequest is one step here.   *)
(*                                                                         *)
(* mModes & currMode is a constant of a run: currMode is set once, to      *)
(* MODE_RESUME (urm.cpp), since the suspend handler of StateDetector.cpp   *)
(* is never registered.                                                    *)
(***************************************************************************)
EXTENDS Integers, Sequences, FiniteSets, FiniteSetsExt, SequencesExt

CONSTANTS
    Request,        \* identities of Request objects
    Resource,       \* rows of the resource registry
    Unit,           \* cores, clusters, cgroups, and the unit of global resources
    UnitsOf,        \* [Resource -> SUBSET Unit]: the units the table has lists for
    Policy,         \* [Resource -> Policies]: mPolicy
    Supported,      \* the resources whose mModes contain the current mode
    Value,          \* the configuration values requests carry
    MaxResources,   \* resources per request (maxResourcesPerRequest)
    Offered,        \* the request bodies clients may send
    Default         \* a sysfs node that holds its original value

TOTAL_PRIORITIES == 4
Priority == 0 .. TOTAL_PRIORITIES - 1       \* SYSTEM_HIGH .. THIRD_PARTY_LOW
NotApplied == -1

Policies == {"instant_apply", "higher_is_better", "lower_is_better",
             "lazy_apply", "pass_through"}

\* A ResIterable with its Resource: the i-th configuration of a request.
Node == [req : Request, idx : 1 .. MaxResources, res : Resource,
         unit : Unit, val : Value, prio : Priority]

ASSUME ConstantsAssumption ==
    /\ UnitsOf \in [Resource -> SUBSET Unit]
    /\ Policy \in [Resource -> Policies]
    /\ Supported \subseteq Resource
    /\ Value \subseteq Int
    /\ MaxResources \in Nat \ {0}
    /\ Default \notin Node

\* A body is the priority of the request and its configurations, in order.
ASSUME OfferedAssumption ==
    \A b \in Offered :
        /\ b.prio \in Priority
        /\ b.confs \in Seq([res : Resource, unit : Unit, val : Value])
        /\ Len(b.confs) \in 1 .. MaxResources

VARIABLES
    table,      \* mCocoTable: table[<<r, u, p>>] is a list of nodes, head first
    applied,    \* mCurrentlyAppliedPriority, one entry per resource
    sysfs,      \* sysfs[<<r, u>>]: the node whose applier ran last, or Default
    request,    \* request[h]: the nodes of an admitted Request, <<>> for none
    op,         \* what the consumer thread is doing: idle, insert or remove
    todo        \* the nodes its loop has not reached yet

vars == <<table, applied, sysfs, request, op, todo>>

\* Do the indices computed for n exist in the table?
InTable(n) == n.unit \in UnitsOf[n.res]

PassThrough(n) == Policy[n.res] = "pass_through"

Init ==
    /\ table   = [s \in Resource \X Unit \X Priority |-> <<>>]
    /\ applied = [r \in Resource |-> NotApplied]
    /\ sysfs   = [s \in Resource \X Unit |-> Default]
    /\ request = [h \in Request |-> <<>>]
    /\ op      = "idle"
    /\ todo    = <<>>

----------------------------------------------------------------------------
(* List manipulation *)

\* Fault: >= for > in comparHBetter.
PrecedesOrEqual(n, m) ==
    \/ Policy[n.res] = "higher_is_better" /\ n.val >= m.val
    \/ Policy[n.res] = "lower_is_better"  /\ n.val < m.val

\* comparHBetter and comparLBetter: strict, so equal values keep arrival order.
Precedes(n, m) ==
    \/ Policy[n.res] = "higher_is_better" /\ n.val > m.val
    \/ Policy[n.res] = "lower_is_better"  /\ n.val < m.val

\* Fault: the ordered policies compare with the head of the list only.
InsertByHead(s, n) ==
    IF Policy[n.res] = "instant_apply" \/ (s # <<>> /\ Precedes(n, s[1])) THEN 1
    ELSE Len(s) + 1

\* Where the policy puts n in the list s: INSERT_START for instant_apply, before
\* the first element n precedes for the value policies, at the end otherwise.
InsertPosition(s, n) ==
    LET after == {i \in 1 .. Len(s) : Precedes(n, s[i])}
    IN  IF Policy[n.res] = "instant_apply" THEN 1
        ELSE IF after = {} THEN Len(s) + 1
        ELSE CHOOSE i \in after : \A j \in after : i <= j

Link(s, n) == InsertAt(s, InsertPosition(s, n), n)

\* Fault: the first element is taken out, whichever node was asked for.
UnlinkFirst(s, n) == Tail(s)

\* deleteNode through the node's own links: exactly that node leaves the list.
PositionOf(s, n) == CHOOSE i \in 1 .. Len(s) : s[i] = n
Unlink(s, n) == RemoveAt(s, PositionOf(s, n))

\* The list of a node, and the sysfs node its applier writes.
ListIndex(n) == <<n.res, n.unit, n.prio>>
Cell(n) == <<n.res, n.unit>>
ListOf(n) == table[ListIndex(n)]

----------------------------------------------------------------------------
(* Applying and resetting *)

\* May a list head of priority p be written when c is the recorded priority?
MayApply(c, p) == c >= p \/ c = NotApplied

\* applyAction for node n, with c the recorded priority of its resource.
ApplyAction(n, c) ==
    LET applies == MayApply(c, n.prio) /\ n.res \in Supported
    IN  /\ sysfs'   = IF applies THEN [sysfs EXCEPT ![Cell(n)] = n] ELSE sysfs
        /\ applied' = [applied EXCEPT ![n.res] = IF applies THEN n.prio ELSE c]

\* Fault: the recorded priority is reset without the tear-down callback.
RemoveActionKeepsValue(n) ==
    /\ applied' = [applied EXCEPT ![n.res] = NotApplied]
    /\ UNCHANGED sysfs

\* Fault: the recorded priority is reset to the number of priorities, not to -1.
RemoveActionResetsToLowest(n) ==
    /\ sysfs'   = [sysfs EXCEPT ![Cell(n)] = Default]
    /\ applied' = [applied EXCEPT ![n.res] = TOTAL_PRIORITIES]

\* removeAction: the tear-down callback restores the original value.
RemoveAction(n) ==
    /\ sysfs'   = [sysfs EXCEPT ![Cell(n)] = Default]
    /\ applied' = [applied EXCEPT ![n.res] = NotApplied]

----------------------------------------------------------------------------
(* insertRequest *)

NodesOf(h, body) ==
    [i \in 1 .. Len(body.confs) |->
        [req |-> h, idx |-> i, res |-> body.confs[i].res, unit |-> body.confs[i].unit,
         val |-> body.confs[i].val, prio |-> body.prio]]

\* One iteration of a DL_ITERATE loop of the consumer.
Loop(o) == op = o /\ todo # <<>>
Advance ==
    /\ todo' = Tail(todo)
    /\ op' = IF Tail(todo) = <<>> THEN "idle" ELSE op
    /\ UNCHANGED request

\* The consumer starts inserting a request.  A timer that cannot be allocated
\* makes insertRequest return before anything is linked, which changes nothing;
\* a timer that cannot be started is the subject of RequestPipeline.
BeginInsert(h, body) ==
    /\ op = "idle"
    /\ request[h] = <<>>
    /\ request' = [request EXCEPT ![h] = NodesOf(h, body)]
    /\ todo' = NodesOf(h, body)
    /\ op' = "insert"
    /\ UNCHANGED <<table, applied, sysfs>>

\* Pass-through resources bypass the lists: fastPathApply.
ApplyFastPath ==
    /\ Loop("insert") /\ Advance
    /\ PassThrough(Head(todo))
    /\ sysfs' = LET n == Head(todo)
                IN  IF n.res \in Supported THEN [sysfs EXCEPT ![Cell(n)] = n]
                                           ELSE sysfs
    /\ UNCHANGED <<table, applied>>

\* A configuration for a unit the target does not have is left out.
SkipInsert ==
    /\ Loop("insert") /\ Advance
    /\ ~PassThrough(Head(todo)) /\ ~InTable(Head(todo))
    /\ UNCHANGED <<table, applied, sysfs>>

\* insertInCocoTable: link by policy, and apply when the node became the head.
InsertInCocoTable ==
    /\ Loop("insert") /\ Advance
    /\ LET n == Head(todo)
       IN  /\ ~PassThrough(n) /\ InTable(n)
           /\ table' = [table EXCEPT ![ListIndex(n)] = Link(@, n)]
           /\ IF Head(Link(ListOf(n), n)) = n
              THEN ApplyAction(n, applied[n.res])
              ELSE UNCHANGED <<applied, sysfs>>

----------------------------------------------------------------------------
(* removeRequest *)

\* The consumer starts removing a request; its nodes are freed after the loop.
BeginRemove(h) ==
    /\ op = "idle"
    /\ request[h] # <<>>
    /\ request' = [request EXCEPT ![h] = <<>>]
    /\ todo' = request[h]
    /\ op' = "remove"
    /\ UNCHANGED <<table, applied, sysfs>>

\* fastPathReset
ResetFastPath ==
    /\ Loop("remove") /\ Advance
    /\ PassThrough(Head(todo))
    /\ sysfs' = [sysfs EXCEPT ![Cell(Head(todo))] = Default]
    /\ UNCHANGED <<table, applied>>

SkipRemove ==
    /\ Loop("remove") /\ Advance
    /\ ~PassThrough(Head(todo)) /\ ~InTable(Head(todo))
    /\ UNCHANGED <<table, applied, sysfs>>

\* The node n leaves its list.
UnlinkHead(n) ==
    /\ Loop("remove") /\ Advance
    /\ n = Head(todo)
    /\ ~PassThrough(n) /\ InTable(n)
    /\ table' = [table EXCEPT ![ListIndex(n)] = Unlink(@, n)]

\* Other configurations of the list remain: if n was the head, the next one is
\* applied, under the priority recorded for the resource.
RemoveFromList ==
    LET n == Head(todo)
        rest == Unlink(ListOf(n), n)
    IN  /\ UnlinkHead(n)
        /\ rest # <<>>
        /\ IF Head(ListOf(n)) = n
           THEN ApplyAction(Head(rest), applied[n.res])
           ELSE UNCHANGED <<applied, sysfs>>

\* The priorities of n's unit that hold a configuration besides n.
Remaining(n) == {p \in Priority \ {n.prio} : table[<<n.res, n.unit, p>>] # <<>>}

\* Fault: the scan starts at the lowest priority.
ScanUpwards(S) == CHOOSE p \in S : \A q \in S : p >= q

\* The priority scan of removeRequest: prioLevel from 0 upwards.
FirstLevel(S) == CHOOSE p \in S : \A q \in S : p <= q

\* n was the last of its list: the first non-empty list of the unit, from the
\* highest priority on, is recorded as applied and its head is applied.
RemoveLastOfList ==
    LET n == Head(todo)
        level == FirstLevel(Remaining(n))
    IN  /\ UnlinkHead(n)
        /\ Unlink(ListOf(n), n) = <<>>
        /\ Remaining(n) # {}
        /\ ApplyAction(Head(table[<<n.res, n.unit, level>>]), level)

\* No configuration of the unit remains: removeAction.
RemoveLastOfUnit ==
    LET n == Head(todo)
    IN  /\ UnlinkHead(n)
        /\ Unlink(ListOf(n), n) = <<>>
        /\ Remaining(n) = {}
        /\ RemoveAction(n)

----------------------------------------------------------------------------

Next ==
    \/ \E h \in Request, body \in Offered : BeginInsert(h, body)
    \/ ApplyFastPath \/ SkipInsert \/ InsertInCocoTable
    \/ \E h \in Request : BeginRemove(h)
    \/ ResetFastPath \/ SkipRemove
    \/ RemoveFromList \/ RemoveLastOfList \/ RemoveLastOfUnit

Spec == Init /\ [][Next]_vars

----------------------------------------------------------------------------
(* Properties *)

\* Shape of the state.
TypeOK ==
    /\ table \in [Resource \X Unit \X Priority -> Seq(Node)]
    /\ applied \in [Resource -> Priority \cup {NotApplied}]
    /\ sysfs \in [Resource \X Unit -> Node \cup {Default}]
    /\ request \in [Request -> Seq(Node)]
    /\ op \in {"idle", "insert", "remove"}
    /\ todo \in Seq(Node)

\* The nodes that should be in the lists now: those of admitted requests, less
\* the ones an insertion has not reached, plus the ones a removal has not reached.
Due(n) ==
    \/ op = "remove" /\ n \in ToSet(todo)
    \/ n \in ToSet(request[n.req]) /\ ~(op = "insert" /\ n \in ToSet(todo))

ListsHoldOnlyDue ==
    \A slot \in Resource \X Unit \X Priority :
        /\ IsInjective(table[slot])
        /\ \A n \in ToSet(table[slot]) :
              ListIndex(n) = slot /\ Due(n) /\ ~PassThrough(n) /\ InTable(n)

DueAreListed ==
    \A h \in Request : \A n \in ToSet(request[h]) \cup ToSet(todo) :
        Due(n) /\ ~PassThrough(n) /\ InTable(n) => n \in ToSet(ListOf(n))

\* Every list holds exactly the due nodes of its resource, unit and priority,
\* each once: no node is lost, linked twice or left behind by insertRequest and
\* removeRequest, at any point of their loops.
TableMatchesRequests == ListsHoldOnlyDue /\ DueAreListed

\* The lists of the value policies are sorted, whatever was removed from their
\* middle: no configuration stands behind one it precedes.
ListsFollowPolicy ==
    \A r \in Resource, u \in Unit, p \in Priority :
        LET s == table[<<r, u, p>>]
        IN  \A i, j \in 1 .. Len(s) : i < j => ~Precedes(s[j], s[i])

Listed(r) == Policy[r] # "pass_through"
Occupied(r, u) == {p \in Priority : table[<<r, u, p>>] # <<>>}

\* The unit carries the head of its highest non-empty priority list, and its
\* original value when all lists are empty.
EffectIsBest(r, u) ==
    IF Occupied(r, u) = {} THEN sysfs[<<r, u>>] = Default
    ELSE sysfs[<<r, u>>] = Head(table[<<r, u, FirstLevel(Occupied(r, u))>>])

Global(r) == \A u, v \in UnitsOf[r] : u = v

\* For a resource with a single unit of conflict the value in effect is always
\* the head of the highest non-empty priority list: the claim of the comment on
\* insertInCocoTable ("The request with the highest priority at the head of the
\* linked list is applied"), at every step of every insertion and removal.
GlobalEffectIsBest ==
    \A r \in Supported : \A u \in UnitsOf[r] :
        Listed(r) /\ Global(r) => EffectIsBest(r, u)

\* A unit without pending configurations carries its original value, although
\* the units of a resource share mCurrentlyAppliedPriority (removeRequest).
IdleUnitsRestored ==
    \A r \in Resource : \A u \in UnitsOf[r] :
        Listed(r) /\ Occupied(r, u) = {} => sysfs[<<r, u>>] = Default

\* The coordinator implements ResourceArbiter for its global resources.
Arbitrated == {r \in Supported : Listed(r) /\ Global(r) /\ UnitsOf[r] # {}}
TheUnit(r) == CHOOSE u \in UnitsOf[r] : TRUE
Claims ==
    {n \in UNION {ToSet(NodesOf(h, b)) : h \in Request, b \in Offered} :
        n.res \in Arbitrated /\ n.unit \in UnitsOf[n.res]}

Arbiter == INSTANCE ResourceArbiter WITH
    Resource <- Arbitrated,
    Claim    <- Claims,
    holders  <- [r \in Arbitrated |-> UNION {ToSet(table[<<r, TheUnit(r), p>>]) : p \in Priority}],
    winner   <- [r \in Arbitrated |-> sysfs[<<r, TheUnit(r)>>]]

\* Every insertion is an Acquire of the abstract arbiter and every removal a
\* Release: outranking claims take over at once, releasing a claim that is not
\* in effect changes nothing, and a best remaining claim follows the winner.
ArbiterSpec == Arbiter!Spec
============================================================================
