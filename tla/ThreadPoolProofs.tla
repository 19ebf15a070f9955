-------------------------- MODULE ThreadPoolProofs --------------------------
(***************************************************************************)
(* Proofs about ThreadPool, for any number of pools, threads and tasks,    *)
(* any load per thread, any shortage of blocks and any faults.             *)
(*                                                                         *)
(* The memory pools keep a list, a number of empty list nodes and a        *)
(* counter.  That a block which is given back finds an empty list node is  *)
(* the pigeonhole principle: blocks in use and free ones are different     *)
(* members of the set that was laid in.                                    *)
(***************************************************************************)
EXTENDS ThreadPool, FiniteSetTheorems, SequenceTheorems, TLAPS

Job == [task : Tasks, node : Nat, fn : Nat \cup {NoBlock}]
Running == {"run", "test", "blocking", "sleeping", "awake", "due", "fired", "freeing"}
Idle == {"top", "waiting", "notified"}
ThreadNode == [pool : Pools, core : BOOLEAN, pc : Running \cup Idle \cup {"freed", "exited"},
               job : Job \cup {NoJob}]

ShapeInv ==
    /\ count \in [Pools -> Nat] /\ \A q \in Pools : count[q] <= MaxCapacity[q]
    /\ queue \in [Pools -> Seq(Job)]
    /\ making \in [Pools -> Job \cup {NoJob}]
    /\ threads \in [Threads -> ThreadNode \cup {NoThread}]
    /\ closing \in [Pools -> {"no", "yes", "dead"}]
    /\ status \in [Tasks -> {"new", "refused", "making", "queued", "running", "done", "dropped"}]
    /\ stop \in [Tasks -> BOOLEAN]
    /\ faults \in Nat /\ crashed \in BOOLEAN

\* A task is in one place, and its status says in which.
PlaceInv ==
    /\ \A q \in Pools : making[q] # NoJob =>
          /\ PoolOf[making[q].task] = q /\ status[making[q].task] = "making"
          /\ making[q].fn = NoBlock
    /\ \A q \in Pools : \A i \in DOMAIN queue[q] :
          /\ PoolOf[queue[q][i].task] = q /\ status[queue[q][i].task] = "queued"
          /\ queue[q][i].fn # NoBlock
    /\ \A q \in Pools : \A i, j \in DOMAIN queue[q] :
          queue[q][i].task = queue[q][j].task => i = j
    /\ \A b \in Threads : threads[b].job # NoJob =>
          status[threads[b].job.task] \in {"running", "done"}
    /\ \A b, c \in Threads :
          threads[b].job # NoJob /\ threads[b].job.task = threads[c].job.task => b = c

\* A thread has a job, and the job its std::function, until they are freed.
PcInv ==
    \A b \in Threads :
        /\ threads[b].pc \in Running => threads[b].job # NoJob /\ threads[b].job.fn # NoBlock
        /\ threads[b].pc = "freed" => threads[b].job # NoJob
        /\ threads[b].pc \in Idle => threads[b].job = NoJob

\* A memory pool of n blocks: free ones and empty list nodes add up.
Sound(m, n) ==
    /\ m.free \in Seq(1 .. n) /\ IsInjective(m.free)
    /\ m.nodes \in Nat /\ m.count \in Nat
    /\ Len(m.free) + m.nodes = n

\* The jobs J hold TaskNodes of their own; n blocks were delivered, Blocks counted.
NodeInv(J, m) ==
    \E n \in 0 .. Blocks :
        /\ Sound(m, n) /\ m.count + m.nodes = Blocks
        /\ \A j \in J : j.node \in 1 .. n /\ j.node \notin ToSet(m.free)
        /\ \A i, j \in J : i.node = j.node => i = j

\* The jobs J that hold a std::function hold one of their own.
FnInv(J, m) ==
    /\ Sound(m, Blocks) /\ m.count = Len(m.free)
    /\ \A j \in J : j.fn # NoBlock => j.fn \in 1 .. Blocks /\ j.fn \notin ToSet(m.free)
    /\ \A i, j \in J : i.fn = j.fn /\ i.fn # NoBlock => i = j

HolderInv ==
    /\ Sound(holders, Holders) /\ holders.count = Len(holders.free)
    /\ \A b \in ToSet(holders.free) : threads[b] = NoThread

Making == {q \in Pools : making[q] # NoJob}
Freed == {b \in Threads : threads[b].pc = "freed"}

\* A caller with a TaskNode, and a thread about to give its own back, are owed a
\* std::function.
BalanceInv == functions.count = nodes.count + Cardinality(Making) + Cardinality(Freed)

CountInv ==
    \A q \in Pools : closing[q] = "no" =>
        /\ count[q] >= Cardinality(Live(q))
        /\ faults = 0 => count[q] = Cardinality(Live(q))

\* Whoever holds what.
BooksInv == ShapeInv /\ PlaceInv /\ PcInv
BlockInv == NodeInv(Jobs, nodes) /\ FnInv(Jobs, functions) /\ BalanceInv

\* The inductive invariant.
PoolInv == BooksInv /\ BlockInv /\ HolderInv /\ CountInv /\ NoBadPointer

----------------------------------------------------------------------------
(* Sequences without duplicates *)

\* There are at most n distinct numbers from 1 to n.
LEMMA Pigeonhole ==
    ASSUME NEW n \in Nat, NEW s \in Seq(1 .. n), IsInjective(s)
    PROVE  Len(s) <= n
<1>1. s \in [1 .. Len(s) -> 1 .. n] /\ Len(s) \in Nat
  OBVIOUS
<1>2. s \in Injection(1 .. Len(s), 1 .. n)
  BY <1>1 DEF Injection, IsInjective
<1>3. \A k \in Nat : IsFiniteSet(1 .. k) /\ Cardinality(1 .. k) = k
  <2>1. ASSUME NEW k \in Nat PROVE IsFiniteSet(1 .. k) /\ Cardinality(1 .. k) = k
    <3>1. Cardinality(1 .. k) = IF 1 > k THEN 0 ELSE k - 1 + 1
      BY FS_Interval
    <3> QED BY <3>1, FS_Interval
  <2> QED BY <2>1
<1> HIDE DEF Injection
<1>4. Cardinality(1 .. Len(s)) <= Cardinality(1 .. n)
  BY <1>2, <1>3, FS_Injection
<1> QED BY <1>1, <1>3, <1>4

LEMMA SetOfSeq == ASSUME NEW S, NEW s \in Seq(S) PROVE ToSet(s) \subseteq S
BY DEF ToSet

\* Taking from the head.
LEMMA HeadTail ==
    ASSUME NEW S, NEW s \in Seq(S), s # <<>>
    PROVE  /\ Head(s) \in S /\ Tail(s) \in Seq(S) /\ Len(Tail(s)) = Len(s) - 1
           /\ ToSet(s) = {Head(s)} \cup ToSet(Tail(s))
           /\ IsInjective(s) => IsInjective(Tail(s)) /\ Head(s) \notin ToSet(Tail(s))
<1> DEFINE n == Len(s)
           r == Tail(s)
<1>1. /\ Head(s) = s[1] /\ Head(s) \in S /\ r \in Seq(S) /\ Len(r) = n - 1
      /\ n \in Nat \ {0} /\ DOMAIN s = 1 .. n /\ DOMAIN r = 1 .. n - 1
      /\ \A i \in 1 .. n - 1 : r[i] = s[i + 1]
  BY HeadTailProperties, LenProperties, EmptySeq
<1> HIDE DEF n, r
<1>2. \A i \in DOMAIN r : i + 1 \in DOMAIN s /\ i + 1 # 1 /\ r[i] = s[i + 1]
  BY <1>1
<1>3. \A i \in DOMAIN s : i # 1 => i - 1 \in DOMAIN r /\ r[i - 1] = s[i]
  BY <1>1
<1>4. 1 \in DOMAIN s
  BY <1>1
<1>5. ToSet(s) = {s[1]} \cup ToSet(r)
  <2>1. \A x \in ToSet(s) : x = s[1] \/ x \in ToSet(r)
    BY <1>3 DEF ToSet
  <2>2. \A x \in ToSet(r) : x \in ToSet(s)
    BY <1>2 DEF ToSet
  <2> QED BY <1>4, <2>1, <2>2 DEF ToSet
<1>6. ASSUME IsInjective(s) PROVE IsInjective(r) /\ s[1] \notin ToSet(r)
  <2>1. s[1] \notin ToSet(r)
    BY <1>2, <1>4, <1>6 DEF IsInjective, ToSet
  <2>2. ASSUME NEW i \in DOMAIN r, NEW j \in DOMAIN r, r[i] = r[j] PROVE i = j
    <3>1. i + 1 = j + 1
      BY <1>2, <1>6, <2>2 DEF IsInjective
    <3> QED BY <1>1, <3>1
  <2> QED BY <2>1, <2>2 DEF IsInjective
<1> QED BY <1>1, <1>5, <1>6 DEF r, n

\* Adding at the tail.
LEMMA AddedAtTail ==
    ASSUME NEW S, NEW s \in Seq(S), NEW r \in Seq(S)
    PROVE  /\ s \o r \in Seq(S) /\ Len(s \o r) = Len(s) + Len(r)
           /\ ToSet(s \o r) = ToSet(s) \cup ToSet(r)
           /\ IsInjective(s) /\ IsInjective(r) /\ ToSet(s) \cap ToSet(r) = {} =>
                 IsInjective(s \o r)
<1> DEFINE n == Len(s)
           m == Len(r)
           c == s \o r
<1>0. c \in Seq(S) /\ Len(c) = n + m
  BY ConcatProperties
<1>1. /\ n \in Nat /\ m \in Nat
      /\ DOMAIN s = 1 .. n /\ DOMAIN r = 1 .. m /\ DOMAIN c = 1 .. n + m
      /\ \A i \in 1 .. n : c[i] = s[i]
      /\ \A i \in 1 .. m : c[n + i] = r[i]
      /\ \A i \in 1 .. n + m : i > n => i - n \in 1 .. m /\ c[i] = r[i - n]
  BY ConcatProperties, LenProperties
<1> HIDE DEF n, m, c
<1>2. ToSet(c) = ToSet(s) \cup ToSet(r)
  <2>1. ASSUME NEW i \in 1 .. n + m PROVE c[i] \in ToSet(s) \cup ToSet(r)
    BY <1>1 DEF ToSet
  <2>2. \A i \in 1 .. n : i \in 1 .. n + m
    BY <1>1
  <2>3. \A i \in 1 .. m : n + i \in 1 .. n + m
    BY <1>1
  <2>4. ToSet(s) \subseteq ToSet(c)
    BY <1>1, <2>2 DEF ToSet
  <2>5. ToSet(r) \subseteq ToSet(c)
    BY <1>1, <2>3 DEF ToSet
  <2>6. ToSet(c) \subseteq ToSet(s) \cup ToSet(r)
    BY <1>1, <2>1 DEF ToSet
  <2> QED BY <2>4, <2>5, <2>6
<1>3. ASSUME IsInjective(s), IsInjective(r), ToSet(s) \cap ToSet(r) = {}
      PROVE  IsInjective(c)
  <2>1. \A i \in 1 .. n, j \in 1 .. m : s[i] # r[j]
    BY <1>1, <1>3 DEF ToSet
  <2> SUFFICES ASSUME NEW i \in 1 .. n + m, NEW j \in 1 .. n + m, c[i] = c[j]
               PROVE  i = j
    BY <1>1 DEF IsInjective
  <2>2. CASE i <= n /\ j <= n
    BY <1>1, <1>3, <2>2 DEF IsInjective
  <2>3. CASE i > n /\ j > n
    <3>1. i - n = j - n
      BY <1>1, <1>3, <2>3 DEF IsInjective
    <3> QED BY <1>1, <3>1
  <2>4. CASE i <= n /\ j > n
    BY <1>1, <2>1, <2>4
  <2>5. CASE i > n /\ j <= n
    BY <1>1, <2>1, <2>5
  <2> QED BY <1>1, <2>2, <2>3, <2>4, <2>5
<1> QED BY <1>0, <1>2, <1>3 DEF c, n, m

LEMMA OneAtTail ==
    ASSUME NEW S, NEW s \in Seq(S), NEW x \in S
    PROVE  /\ Append(s, x) \in Seq(S) /\ Len(Append(s, x)) = Len(s) + 1
           /\ ToSet(Append(s, x)) = ToSet(s) \cup {x}
           /\ IsInjective(s) /\ x \notin ToSet(s) => IsInjective(Append(s, x))
<1>1. /\ DOMAIN s = 1 .. Len(s) /\ DOMAIN Append(s, x) = 1 .. Len(s) + 1
      /\ \A i \in 1 .. Len(s) : Append(s, x)[i] = s[i]
      /\ Append(s, x)[Len(s) + 1] = x /\ Len(s) \in Nat
  OBVIOUS
<1>2. ToSet(Append(s, x)) = ToSet(s) \cup {x}
  BY <1>1 DEF ToSet
<1>3. IsInjective(s) /\ x \notin ToSet(s) => IsInjective(Append(s, x))
  BY <1>1 DEF ToSet, IsInjective
<1> QED BY <1>1, <1>2, <1>3

----------------------------------------------------------------------------
(* The operations of a memory pool *)

\* What a sound pool is, in numbers.
LEMMA SoundFacts ==
    ASSUME NEW n \in Nat, NEW m, Sound(m, n)
    PROVE  /\ m.free \in Seq(1 .. n) /\ IsInjective(m.free)
           /\ m.nodes \in Nat /\ m.count \in Nat /\ Len(m.free) \in Nat
           /\ m.nodes = n - Len(m.free)
BY DEF Sound

LEMMA GetFacts ==
    ASSUME NEW n \in Nat, NEW m, Sound(m, n), m.free # <<>>, m.count # 0
    PROVE  /\ Sound(GetBlock(m), n)
           /\ BlockOf(m) \in 1 .. n /\ BlockOf(m) \in ToSet(m.free)
           /\ ToSet(GetBlock(m).free) = ToSet(m.free) \ {BlockOf(m)}
           /\ GetBlock(m).count = m.count - 1 /\ GetBlock(m).nodes = m.nodes + 1
           /\ Len(GetBlock(m).free) = Len(m.free) - 1
<1> DEFINE g == GetBlock(m)
           f == m.free
<1>1. /\ g.free = Tail(f) /\ BlockOf(m) = Head(f)
      /\ g.count = m.count - 1 /\ g.nodes = m.nodes + 1
  BY DEF GetBlock, BlockOf
<1>2. /\ f \in Seq(1 .. n) /\ IsInjective(f)
      /\ m.nodes \in Nat /\ m.count \in Nat /\ Len(f) \in Nat
      /\ m.nodes = n - Len(f)
  BY SoundFacts
<1> HIDE DEF g, f
<1>3. /\ Head(f) \in 1 .. n /\ Tail(f) \in Seq(1 .. n)
      /\ Len(Tail(f)) = Len(f) - 1
      /\ ToSet(f) = {Head(f)} \cup ToSet(Tail(f))
      /\ IsInjective(Tail(f)) /\ Head(f) \notin ToSet(Tail(f))
  BY <1>2, HeadTail DEF f
<1>4. /\ g.nodes \in Nat /\ g.count \in Nat /\ Len(g.free) + g.nodes = n
  BY <1>1, <1>2, <1>3
<1>5. Sound(g, n)
  BY <1>1, <1>3, <1>4 DEF Sound
<1> QED BY <1>1, <1>3, <1>5 DEF g, f

\* g is m with k more free blocks, those of S.
GivenBack(m, n, S, k, g) ==
    /\ Sound(g, n) /\ ToSet(g.free) = ToSet(m.free) \cup S
    /\ g.count = m.count + k /\ g.nodes = m.nodes - k
    /\ Len(g.free) = Len(m.free) + k

\* A block in use that is given back finds an empty list node.
LEMMA FreeFacts ==
    ASSUME NEW n \in Nat, NEW m, Sound(m, n), NEW x \in 1 .. n, x \notin ToSet(m.free)
    PROVE  m.nodes > 0 /\ GivenBack(m, n, {x}, 1, FreeBlock(m, x))
<1> DEFINE g == FreeBlock(m, x)
           f == Append(m.free, x)
<1>1. /\ m.free \in Seq(1 .. n) /\ IsInjective(m.free)
      /\ m.nodes \in Nat /\ m.count \in Nat /\ Len(m.free) \in Nat
      /\ m.nodes = n - Len(m.free)
  BY SoundFacts
<1>2. /\ f \in Seq(1 .. n) /\ Len(f) = Len(m.free) + 1
      /\ ToSet(f) = ToSet(m.free) \cup {x} /\ IsInjective(f)
  BY <1>1, OneAtTail
<1> HIDE DEF f
<1>3. Len(f) <= n
  BY <1>2, Pigeonhole
<1>4. m.nodes > 0
  BY <1>1, <1>2, <1>3
<1>5. g.free = f /\ g.count = m.count + 1 /\ g.nodes = m.nodes - 1
  BY <1>1, <1>4 DEF FreeBlock, f
<1>6. g.nodes \in Nat /\ g.count \in Nat /\ Len(g.free) + g.nodes = n
  <2> DEFINE k == Len(m.free)
             l == Len(f)
  <2>1. k \in Nat /\ l = k + 1 /\ m.nodes \in Nat /\ m.count \in Nat /\ m.nodes = n - k
    BY <1>1, <1>2
  <2>2. Len(g.free) = l
    BY <1>5
  <2> HIDE DEF k, l, g
  <2> QED BY <1>4, <1>5, <2>1, <2>2
<1> HIDE DEF g
<1>7. Sound(g, n)
  BY <1>2, <1>5, <1>6 DEF Sound
<1> QED BY <1>2, <1>4, <1>5, <1>7 DEF g, GivenBack

\* So do the blocks of a list.
LEMMA FreeAllFacts ==
    ASSUME NEW n \in Nat, NEW m, Sound(m, n), NEW s \in Seq(1 .. n), IsInjective(s),
           ToSet(m.free) \cap ToSet(s) = {}
    PROVE  GivenBack(m, n, ToSet(s), Len(s), FreeBlocks(m, s))
<1> DEFINE g == FreeBlocks(m, s)
           f == m.free \o s
<1>1. /\ m.free \in Seq(1 .. n) /\ IsInjective(m.free)
      /\ m.nodes \in Nat /\ m.count \in Nat /\ Len(m.free) \in Nat
      /\ m.nodes = n - Len(m.free)
  BY SoundFacts
<1>2. /\ f \in Seq(1 .. n) /\ Len(f) = Len(m.free) + Len(s)
      /\ ToSet(f) = ToSet(m.free) \cup ToSet(s) /\ IsInjective(f)
  BY <1>1, AddedAtTail
<1>3. Len(s) \in Nat /\ SubSeq(s, 1, Len(s)) = s
  OBVIOUS
<1> HIDE DEF f
<1>4. Len(f) <= n
  BY <1>2, Pigeonhole
<1>5. Len(s) <= m.nodes
  BY <1>1, <1>2, <1>3, <1>4
<1>6. g.free = f /\ g.count = m.count + Len(s) /\ g.nodes = m.nodes - Len(s)
  BY <1>3, <1>5 DEF FreeBlocks, f
<1>7. g.nodes \in Nat /\ g.count \in Nat /\ Len(g.free) + g.nodes = n
  <2> DEFINE k == Len(m.free)
             l == Len(f)
             d == Len(s)
  <2>1. /\ k \in Nat /\ d \in Nat /\ l = k + d
        /\ m.nodes \in Nat /\ m.count \in Nat /\ m.nodes = n - k
    BY <1>1, <1>2, <1>3
  <2>2. Len(g.free) = l /\ g.count = m.count + d /\ g.nodes = m.nodes - d /\ d <= m.nodes
    BY <1>5, <1>6
  <2> HIDE DEF k, l, d, g
  <2> QED BY <2>1, <2>2
<1> HIDE DEF g
<1>8. Sound(g, n)
  BY <1>2, <1>6, <1>7 DEF Sound
<1> QED BY <1>2, <1>6, <1>8 DEF g, GivenBack

\* A new pool of n blocks that counts c of them, with the first out in use.
NewlyMade(m, n, c, out) ==
    /\ Sound(m, n) /\ m.count = c - out /\ m.nodes = out /\ Len(m.free) = n - out
    /\ \A x \in ToSet(m.free) : x > out

LEMMA NewPool ==
    ASSUME NEW n \in Nat, NEW c \in Nat, NEW out \in 0 .. n, out <= c, NEW m,
           m = GetBlocks(MakeAllocation(EmptyPool, c, Numbers(n)), out)
    PROVE  NewlyMade(m, n, c, out)
<1> DEFINE s == Numbers(n)
           r == SubSeq(s, out + 1, n)
<1>1. s \in Seq(1 .. n) /\ Len(s) = n /\ \A i \in 1 .. n : s[i] = i
  BY DEF Numbers
<1>2. <<>> \o s = s
  BY <1>1, ConcatEmptySeq
<1>3. m.free = r /\ m.nodes = out /\ m.count = c - out
  BY <1>1, <1>2 DEF GetBlocks, MakeAllocation, EmptyPool
<1> HIDE DEF s
<1>4. r \in Seq(1 .. n) /\ Len(r) = n - out /\ \A i \in 1 .. n - out : r[i] = s[out + i]
  BY <1>1, SubSeqProperties
<1>5. DOMAIN r = 1 .. n - out /\ \A i \in 1 .. n - out : r[i] = out + i
  BY <1>1, <1>4
<1> HIDE DEF r
<1>6. IsInjective(r)
  BY <1>5 DEF IsInjective
<1>7. \A x \in ToSet(r) : x > out
  BY <1>5 DEF ToSet
<1> QED BY <1>3, <1>4, <1>6, <1>7 DEF Sound, NewlyMade

----------------------------------------------------------------------------
(* Jobs and the blocks they hold *)

LEMMA BlocksNat == Blocks \in Nat /\ Holders \in Nat /\ Started \in Nat /\ Started <= Holders
<1> DEFINE Places(f) == UNION {{q} \X (1 .. f[q]) : q \in Pools}
<1>1. ASSUME NEW f \in [Pools -> Nat] PROVE IsFiniteSet(Places(f))
  <2> DEFINE T == {{q} \X (1 .. f[q]) : q \in Pools}
             g == [q \in Pools |-> {q} \X (1 .. f[q])]
  <2>1. g \in Surjection(Pools, T)
    BY DEF Surjection
  <2>2. IsFiniteSet(T)
    BY <2>1, FS_Surjection, PoolAssumption
  <2>3. ASSUME NEW q \in Pools PROVE IsFiniteSet({q} \X (1 .. f[q]))
    <3>1. IsFiniteSet({q})
      BY FS_Singleton
    <3>0. f[q] \in Int
      OBVIOUS
    <3>2. IsFiniteSet(1 .. f[q])
      BY <3>0, FS_Interval
    <3> QED BY <3>1, <3>2, FS_Product
  <2>4. \A U \in T : IsFiniteSet(U)
    BY <2>3
  <2> HIDE DEF T
  <2>5. IsFiniteSet(UNION T)
    BY <2>2, <2>4, FS_UNION
  <2> QED BY <2>5 DEF T
<1> DEFINE h == [q \in Pools |-> MaxCapacity[q] + 1]
           k == [q \in Pools |-> (MaxCapacity[q] + 1) * maxLoadPerThread]
<1>2. h \in [Pools -> Nat] /\ k \in [Pools -> Nat] /\ Desired \in [Pools -> Nat]
  <2>1. \A q \in Pools : MaxCapacity[q] + 1 \in Nat /\ maxLoadPerThread \in Nat
    BY PoolAssumption
  <2> QED BY <2>1, PoolAssumption
<1>3. Places(Desired) \subseteq Places(h)
  BY PoolAssumption
<1>4. Holders = Cardinality(Places(h)) /\ Blocks = Cardinality(Places(k))
      /\ Started = Cardinality(Places(Desired))
  BY DEF Holders, Blocks, Started, SumOver
<1> HIDE DEF Places, h, k
<1>5. /\ Holders \in Nat /\ Blocks \in Nat /\ Started \in Nat
  BY <1>1, <1>2, <1>4, FS_CardinalityType
<1>6. Started <= Holders
  BY <1>1, <1>2, <1>3, <1>4, FS_Subset
<1> QED BY <1>5, <1>6

\* createTaskNode takes a TaskNode.
LEMMA NodeTake ==
    ASSUME NEW J, NEW m, NodeInv(J, m), ~Exhausted(m), ~Deceived(m), NEW new,
           new.node = BlockOf(m)
    PROVE  /\ NodeInv(J \cup {new}, GetBlock(m))
           /\ GetBlock(m).count = m.count - 1 /\ m.count \in Nat \ {0}
           /\ BlockOf(m) \in Nat
<1>1. PICK n \in 0 .. Blocks :
        /\ Sound(m, n) /\ m.count + m.nodes = Blocks
        /\ \A j \in J : j.node \in 1 .. n /\ j.node \notin ToSet(m.free)
        /\ \A i, j \in J : i.node = j.node => i = j
  BY DEF NodeInv
<1>2. n \in Nat
  BY BlocksNat
<1>3. m.nodes \in Nat /\ m.count \in Nat \ {0} /\ m.free # <<>>
  BY <1>1, <1>2, SoundFacts DEF Exhausted, Deceived
<1>4. /\ Sound(GetBlock(m), n)
      /\ BlockOf(m) \in 1 .. n /\ BlockOf(m) \in ToSet(m.free)
      /\ ToSet(GetBlock(m).free) = ToSet(m.free) \ {BlockOf(m)}
      /\ GetBlock(m).count = m.count - 1 /\ GetBlock(m).nodes = m.nodes + 1
  BY <1>1, <1>2, <1>3, GetFacts
<1>5. GetBlock(m).count + GetBlock(m).nodes = Blocks
  BY SMTT(30), <1>1, <1>3, <1>4
<1>6. \A j \in J \cup {new} : j.node \in 1 .. n /\ j.node \notin ToSet(GetBlock(m).free)
  BY <1>1, <1>4
<1>7. \A i, j \in J \cup {new} : i.node = j.node => i = j
  BY <1>1, <1>4
<1>8. NodeInv(J \cup {new}, GetBlock(m))
  BY <1>4, <1>5, <1>6, <1>7 DEF NodeInv
<1> QED BY <1>2, <1>3, <1>4, <1>8

\* A job changes while it keeps its TaskNode.
LEMMA NodeSame ==
    ASSUME NEW J, NEW m, NodeInv(J, m), NEW old \in J, NEW new, new.node = old.node
    PROVE  NodeInv((J \ {old}) \cup {new}, m)
BY DEF NodeInv

\* Jobs go and leave their TaskNodes behind.
LEMMA NodeDrop ==
    ASSUME NEW J, NEW m, NodeInv(J, m), NEW K, K \subseteq J
    PROVE  NodeInv(K, m)
BY DEF NodeInv

\* A TaskNode is given back.
LEMMA NodeGive ==
    ASSUME NEW J, NEW m, NodeInv(J, m), NEW old \in J, NEW K, K \subseteq J \ {old}
    PROVE  /\ NodeInv(K, FreeBlock(m, old.node))
           /\ FreeBlock(m, old.node).count = m.count + 1 /\ m.count \in Nat
<1>1. PICK n \in 0 .. Blocks :
        /\ Sound(m, n) /\ m.count + m.nodes = Blocks
        /\ \A j \in J : j.node \in 1 .. n /\ j.node \notin ToSet(m.free)
        /\ \A i, j \in J : i.node = j.node => i = j
  BY DEF NodeInv
<1>2. n \in Nat
  BY BlocksNat
<1> DEFINE g == FreeBlock(m, old.node)
<1>3. m.nodes \in Nat /\ m.count \in Nat
  BY <1>1, <1>2, SoundFacts
<1>4. /\ Sound(g, n) /\ ToSet(g.free) = ToSet(m.free) \cup {old.node}
      /\ g.count = m.count + 1 /\ g.nodes = m.nodes - 1
  <2>1. Sound(m, n) /\ old.node \in 1 .. n /\ old.node \notin ToSet(m.free)
    BY <1>1
  <2>2. GivenBack(m, n, {old.node}, 1, g)
    BY <1>2, <2>1, FreeFacts
  <2> QED BY <2>2 DEF GivenBack
<1> HIDE DEF g
<1>5. g.count + g.nodes = Blocks
  BY <1>1, <1>3, <1>4
<1>6. \A j \in K : j.node \in 1 .. n /\ j.node \notin ToSet(g.free)
  BY <1>1, <1>4
<1>7. NodeInv(K, g)
  BY <1>1, <1>4, <1>5, <1>6 DEF NodeInv
<1> QED BY <1>3, <1>4, <1>7 DEF g

\* The TaskNodes of a queue are given back.
LEMMA NodeGiveAll ==
    ASSUME NEW J, NEW m, NodeInv(J, m), NEW s \in Seq(J), IsInjective(s),
           NEW K, K \subseteq J \ ToSet(s), NEW r, r = [i \in DOMAIN s |-> s[i].node]
    PROVE  /\ NodeInv(K, FreeBlocks(m, r))
           /\ FreeBlocks(m, r).count = m.count + Len(s) /\ m.count \in Nat
<1>1. PICK n \in 0 .. Blocks :
        /\ Sound(m, n) /\ m.count + m.nodes = Blocks
        /\ \A j \in J : j.node \in 1 .. n /\ j.node \notin ToSet(m.free)
        /\ \A i, j \in J : i.node = j.node => i = j
  BY DEF NodeInv
<1>2. n \in Nat
  BY BlocksNat
<1>s. Len(s) \in Nat /\ DOMAIN s = 1 .. Len(s) /\ \A i \in DOMAIN s : s[i] \in J
  OBVIOUS
<1>r. /\ r \in Seq(1 .. n) /\ Len(r) = Len(s) /\ DOMAIN r = DOMAIN s
      /\ \A i \in DOMAIN s : r[i] = s[i].node
  BY <1>1, <1>s
<1>i. IsInjective(r)
  BY <1>1, <1>s, <1>r DEF IsInjective
<1>d. ToSet(m.free) \cap ToSet(r) = {}
  BY <1>1, <1>s, <1>r DEF ToSet
<1>o. \A j \in K : j.node \notin ToSet(r)
  BY <1>1, <1>s, <1>r DEF ToSet
<1> DEFINE g == FreeBlocks(m, r)
<1>3. m.nodes \in Nat /\ m.count \in Nat
  BY <1>1, <1>2, SoundFacts
<1>4. /\ Sound(g, n) /\ ToSet(g.free) = ToSet(m.free) \cup ToSet(r)
      /\ g.count = m.count + Len(s) /\ g.nodes = m.nodes - Len(s)
  <2>1. Sound(m, n) /\ r \in Seq(1 .. n) /\ Len(r) = Len(s)
    BY <1>1, <1>r
  <2> HIDE DEF g
  <2>2. n \in Nat
    BY <1>1, BlocksNat
  <2>3. GivenBack(m, n, ToSet(r), Len(r), g)
    BY <1>i, <1>d, <2>1, <2>2, FreeAllFacts DEF g
  <2> QED BY <2>1, <2>3 DEF GivenBack
<1> HIDE DEF g
<1>5. g.count + g.nodes = Blocks
  <2> DEFINE l == Len(s)
  <2>1. l \in Nat /\ g.count = m.count + l /\ g.nodes = m.nodes - l
    BY <1>4, <1>s
  <2> HIDE DEF l
  <2> QED BY <1>1, <1>3, <2>1
<1>6. \A j \in K : j.node \in 1 .. n /\ j.node \notin ToSet(g.free)
  BY <1>1, <1>4, <1>o
<1>7. NodeInv(K, g)
  BY <1>1, <1>4, <1>5, <1>6 DEF NodeInv
<1> QED BY <1>3, <1>4, <1>7 DEF g

\* What the counter of std::function says.
LEMMA FnCount ==
    ASSUME NEW J, NEW m, FnInv(J, m)
    PROVE  m.count \in Nat /\ (~Exhausted(m) => m.free # <<>>)
<1>1. Sound(m, Blocks) /\ m.count = Len(m.free)
  BY DEF FnInv
<1>2. m.free \in Seq(1 .. Blocks) /\ m.count \in Nat
  BY <1>1, BlocksNat, SoundFacts
<1> QED BY <1>1, <1>2 DEF Exhausted

\* A job gets a std::function.
LEMMA FnTake ==
    ASSUME NEW J, NEW m, FnInv(J, m), ~Exhausted(m), NEW old \in J, NEW new,
           new.fn = BlockOf(m)
    PROVE  /\ FnInv((J \ {old}) \cup {new}, GetBlock(m))
           /\ GetBlock(m).count = m.count - 1
           /\ BlockOf(m) \in Nat /\ BlockOf(m) # NoBlock
<1>1. /\ Sound(m, Blocks) /\ m.count = Len(m.free)
      /\ \A j \in J : j.fn # NoBlock => j.fn \in 1 .. Blocks /\ j.fn \notin ToSet(m.free)
      /\ \A i, j \in J : i.fn = j.fn /\ i.fn # NoBlock => i = j
  BY DEF FnInv
<1>2. m.free # <<>> /\ m.count # 0 /\ Blocks \in Nat
  BY FnCount, BlocksNat DEF Exhausted
<1> DEFINE g == GetBlock(m)
<1>3. /\ Sound(g, Blocks) /\ BlockOf(m) \in 1 .. Blocks /\ BlockOf(m) \in ToSet(m.free)
      /\ ToSet(g.free) = ToSet(m.free) \ {BlockOf(m)}
      /\ g.count = m.count - 1 /\ Len(g.free) = Len(m.free) - 1
  BY <1>1, <1>2, GetFacts
<1> HIDE DEF g
<1>4. BlockOf(m) \in Nat /\ BlockOf(m) # NoBlock
  BY <1>2, <1>3, PoolAssumption
<1>5. g.count = Len(g.free)
  BY <1>1, <1>3
<1>6. FnInv((J \ {old}) \cup {new}, g)
  BY <1>1, <1>3, <1>4, <1>5 DEF FnInv
<1> QED BY <1>3, <1>4, <1>6 DEF g

\* A job without a std::function comes.
LEMMA FnAdd ==
    ASSUME NEW J, NEW m, FnInv(J, m), NEW new, new.fn = NoBlock
    PROVE  FnInv(J \cup {new}, m)
BY DEF FnInv

\* Jobs go.
LEMMA FnDrop ==
    ASSUME NEW J, NEW m, FnInv(J, m), NEW K, K \subseteq J
    PROVE  FnInv(K, m)
BY DEF FnInv

\* ~TaskNode gives a std::function back.
LEMMA FnGive ==
    ASSUME NEW J, NEW m, FnInv(J, m), NEW old \in J, old.fn # NoBlock,
           NEW new, new.fn = NoBlock
    PROVE  /\ FnInv((J \ {old}) \cup {new}, FreeBlock(m, old.fn))
           /\ FreeBlock(m, old.fn).count = m.count + 1
<1>1. /\ Sound(m, Blocks) /\ m.count = Len(m.free)
      /\ \A j \in J : j.fn # NoBlock => j.fn \in 1 .. Blocks /\ j.fn \notin ToSet(m.free)
      /\ \A i, j \in J : i.fn = j.fn /\ i.fn # NoBlock => i = j
  BY DEF FnInv
<1> DEFINE g == FreeBlock(m, old.fn)
<1>2. /\ Sound(g, Blocks) /\ ToSet(g.free) = ToSet(m.free) \cup {old.fn}
      /\ g.count = m.count + 1 /\ Len(g.free) = Len(m.free) + 1
  <2>1. Sound(m, Blocks) /\ old.fn \in 1 .. Blocks /\ old.fn \notin ToSet(m.free)
    BY <1>1
  <2>2. GivenBack(m, Blocks, {old.fn}, 1, g)
    BY <2>1, BlocksNat, FreeFacts
  <2> QED BY <2>2 DEF GivenBack
<1> HIDE DEF g
<1>3. g.count = Len(g.free)
  BY <1>1, <1>2
<1>4. FnInv((J \ {old}) \cup {new}, g)
  BY <1>1, <1>2, <1>3 DEF FnInv
<1> QED BY <1>2, <1>4 DEF g

\* The std::functions of a queue are given back.
LEMMA FnGiveAll ==
    ASSUME NEW J, NEW m, FnInv(J, m), NEW s \in Seq(J), IsInjective(s),
           \A i \in DOMAIN s : s[i].fn # NoBlock,
           NEW K, K \subseteq J \ ToSet(s), NEW r, r = [i \in DOMAIN s |-> s[i].fn]
    PROVE  /\ FnInv(K, FreeBlocks(m, r))
           /\ FreeBlocks(m, r).count = m.count + Len(s)
<1>1. /\ Sound(m, Blocks) /\ m.count = Len(m.free)
      /\ \A j \in J : j.fn # NoBlock => j.fn \in 1 .. Blocks /\ j.fn \notin ToSet(m.free)
      /\ \A i, j \in J : i.fn = j.fn /\ i.fn # NoBlock => i = j
  BY DEF FnInv
<1>s. Len(s) \in Nat /\ DOMAIN s = 1 .. Len(s) /\ \A i \in DOMAIN s : s[i] \in J
  OBVIOUS
<1>r. /\ r \in Seq(1 .. Blocks) /\ Len(r) = Len(s) /\ DOMAIN r = DOMAIN s
      /\ \A i \in DOMAIN s : r[i] = s[i].fn
  BY <1>1, <1>s
<1>i. IsInjective(r)
  BY <1>1, <1>s, <1>r DEF IsInjective
<1>d. ToSet(m.free) \cap ToSet(r) = {}
  BY <1>1, <1>s, <1>r DEF ToSet
<1>o. \A j \in K : j.fn # NoBlock => j.fn \notin ToSet(r)
  BY <1>1, <1>s, <1>r DEF ToSet
<1> DEFINE g == FreeBlocks(m, r)
<1>2. /\ Sound(g, Blocks) /\ ToSet(g.free) = ToSet(m.free) \cup ToSet(r)
      /\ g.count = m.count + Len(s) /\ Len(g.free) = Len(m.free) + Len(s)
  <2>1. Sound(m, Blocks) /\ r \in Seq(1 .. Blocks) /\ Len(r) = Len(s)
    BY <1>1, <1>r
  <2> HIDE DEF g
  <2>2. Blocks \in Nat
    BY <1>1, BlocksNat
  <2>3. GivenBack(m, Blocks, ToSet(r), Len(r), g)
    BY <1>i, <1>d, <2>1, <2>2, FreeAllFacts DEF g
  <2> QED BY <2>1, <2>3 DEF GivenBack
<1> HIDE DEF g
<1>3. g.count = Len(g.free)
  BY <1>1, <1>2
<1>4. FnInv(K, g)
  BY <1>1, <1>2, <1>3, <1>o DEF FnInv
<1> QED BY <1>2, <1>4 DEF g

----------------------------------------------------------------------------
(* Where the jobs are *)

LEMMA ThreadsFinite == IsFiniteSet(Threads) /\ IsFiniteSet(Pools)
<1>1. 1 \in Int /\ Holders \in Int
  BY BlocksNat
<1> QED BY <1>1, FS_Interval, PoolAssumption DEF Threads

LEMMA NotAJob == NoJob \notin Job /\ NoJob.task = NoBlock /\ NoJob.fn = NoBlock
                 /\ NoThread.job = NoJob /\ NoThread.pc = "none" /\ NoThread.pool = NoBlock
                 /\ NoThread \notin ThreadNode
BY PoolAssumption DEF NoJob, Job, NoThread, ThreadNode

LEMMA JobCases ==
    ASSUME NEW j
    PROVE  j \in Jobs <=> \/ \E q \in Pools : making[q] = j /\ j # NoJob
                          \/ \E q \in Pools : \E i \in DOMAIN queue[q] : queue[q][i] = j
                          \/ \E b \in Threads : threads[b].job = j /\ j # NoJob
<1> DEFINE U == UNION {ToSet(queue[q]) \cup ({making[q]} \ {NoJob}) : q \in Pools}
           V == {threads[b].job : b \in Threads} \ {NoJob}
<1>1. j \in U <=> \E q \in Pools : j \in ToSet(queue[q]) \/ (making[q] = j /\ j # NoJob)
  OBVIOUS
<1>2. \A q \in Pools : j \in ToSet(queue[q]) <=> \E i \in DOMAIN queue[q] : queue[q][i] = j
  BY DEF ToSet
<1>3. j \in V <=> \E b \in Threads : threads[b].job = j /\ j # NoJob
  OBVIOUS
<1>4. j \in Jobs <=> j \in U \/ j \in V
  BY DEF Jobs
<1> HIDE DEF U, V
<1> QED BY <1>1, <1>2, <1>3, <1>4

LEMMA ThreadFacts ==
    ASSUME ShapeInv, NEW b \in Threads
    PROVE  /\ threads[b] \in ThreadNode \cup {NoThread}
           /\ threads[b].job \in Job \cup {NoJob}
           /\ threads[b] # NoThread <=> threads[b].pool \in Pools
           /\ threads[b] # NoThread <=> threads[b].pc # "none"
           /\ threads[b] # NoThread =>
                threads[b].pc \in Running \cup Idle \cup {"freed", "exited"}
<1>1. threads[b] \in ThreadNode \cup {NoThread}
  BY DEF ShapeInv
<1>2. CASE threads[b] = NoThread
  BY <1>1, <1>2, NotAJob, PoolAssumption
<1>3. CASE threads[b] \in ThreadNode
  BY <1>1, <1>3, NotAJob DEF ThreadNode, Running, Idle
<1> QED BY <1>1, <1>2, <1>3

LEMMA QueueFacts ==
    ASSUME ShapeInv, NEW q \in Pools
    PROVE  /\ queue[q] \in Seq(Job) /\ Len(queue[q]) \in Nat
           /\ DOMAIN queue[q] = 1 .. Len(queue[q])
           /\ \A i \in DOMAIN queue[q] : queue[q][i] \in Job
BY DEF ShapeInv

LEMMA JobFacts ==
    ASSUME BooksInv
    PROVE  /\ Jobs \subseteq Job
           /\ \A i, j \in Jobs : i.task = j.task => i = j
<1> USE DEF BooksInv
<1>1. \A q \in Pools : making[q] \in Job \cup {NoJob}
  BY DEF ShapeInv
<1>2. Jobs \subseteq Job
  BY <1>1, JobCases, ThreadFacts, QueueFacts
<1> SUFFICES ASSUME NEW i \in Jobs, NEW j \in Jobs, i.task = j.task PROVE i = j
  BY <1>2
<1>3. i.task \in Tasks
  BY <1>2 DEF Job
<1>m. ASSUME NEW k \in Jobs, k.task = i.task, status[i.task] = "making"
      PROVE  k = making[PoolOf[i.task]]
  BY <1>m, JobCases DEF PlaceInv
<1>q. ASSUME NEW k \in Jobs, k.task = i.task, status[i.task] = "queued"
      PROVE  \E n \in DOMAIN queue[PoolOf[i.task]] : k = queue[PoolOf[i.task]][n]
  BY <1>q, JobCases DEF PlaceInv
<1>t. ASSUME NEW k \in Jobs, k.task = i.task, status[i.task] \in {"running", "done"}
      PROVE  \E b \in Threads : k = threads[b].job /\ k # NoJob
  BY <1>t, JobCases DEF PlaceInv
<1>s. status[i.task] \in {"making", "queued", "running", "done"}
  BY JobCases DEF PlaceInv
<1>4. CASE status[i.task] = "making"
  BY <1>4, <1>m
<1>5. CASE status[i.task] = "queued"
  <2>1. PoolOf[i.task] \in Pools
    BY <1>3, PoolAssumption
  <2> QED BY <1>5, <1>q, <2>1 DEF PlaceInv
<1>6. CASE status[i.task] \in {"running", "done"}
  BY <1>6, <1>t DEF PlaceInv
<1> QED BY <1>s, <1>4, <1>5, <1>6

LEMMA InitPool == Init => PoolInv
<1> SUFFICES ASSUME Init PROVE PoolInv
  OBVIOUS
<1>0. PICK lack \in {0, Shortage}, out \in 0 .. Elsewhere :
         /\ nodes = GetBlocks(MakeAllocation(EmptyPool, Blocks, Numbers(Blocks - lack)), out)
         /\ functions = GetBlocks(MakeAllocation(EmptyPool, FunctionBlocks,
                                                 Numbers(FunctionBlocks)), out)
  BY DEF Init
<1>1. /\ Blocks \in Nat /\ Holders \in Nat /\ Started \in Nat /\ Started <= Holders
      /\ lack \in Nat /\ out \in Nat
  BY BlocksNat, PoolAssumption
<1>b. out + lack <= Blocks
  BY <1>1, PoolAssumption, BlocksAssumption
<1>f. FunctionBlocks = Blocks
  BY DEF FunctionBlocks, Blocks
<1>2. PICK own \in [1 .. Started -> Pools] :
         /\ \A q \in Pools : Cardinality({b \in 1 .. Started : own[b] = q}) = Desired[q]
         /\ threads = [b \in Threads |->
                         IF b <= Started
                           THEN [NoThread EXCEPT !.pool = own[b], !.core = TRUE, !.pc = "top"]
                           ELSE NoThread]
  BY DEF Init
<1>r. /\ holders = GetBlocks(MakeAllocation(EmptyPool, Holders, Numbers(Holders)), Started)
      /\ count = Desired /\ queue = [q \in Pools |-> <<>>] /\ making = [q \in Pools |-> NoJob]
      /\ closing = [q \in Pools |-> "no"] /\ status = [t \in Tasks |-> "new"]
      /\ stop = [t \in Tasks |-> FALSE] /\ faults = 0 /\ crashed = FALSE
  BY DEF Init
<1>3. ASSUME NEW b \in Threads
      PROVE  /\ b \in Nat \ {0}
             /\ b <= Started => /\ b \in 1 .. Started /\ threads[b] \in ThreadNode
                                /\ threads[b].pool = own[b] /\ threads[b].pc = "top"
                                /\ threads[b].job = NoJob
             /\ b > Started => threads[b] = NoThread
  <2>1. b \in Nat \ {0} /\ (b <= Started => b \in 1 .. Started)
    BY <1>1 DEF Threads
  <2>2. ASSUME b <= Started
        PROVE  threads[b] = [pool |-> own[b], core |-> TRUE, pc |-> "top", job |-> NoJob]
    BY <1>2, <2>2 DEF NoThread
  <2>3. b <= Started => threads[b] \in ThreadNode
    <3>1. PICK core \in BOOLEAN : core = TRUE
      OBVIOUS
    <3>2. b <= Started =>
             threads[b] = [pool |-> own[b], core |-> core, pc |-> "top", job |-> NoJob]
      BY Zenon, <2>2, <3>1
    <3>3. b <= Started => own[b] \in Pools
      BY <2>1
    <3> HIDE <3>1
    <3> QED BY <3>2, <3>3 DEF ThreadNode, Idle
  <2>4. b > Started => threads[b] = NoThread
    <3>1. b > Started => ~(b <= Started)
      BY <1>1, <2>1
    <3> QED BY <1>2, <3>1
  <2> QED BY <2>1, <2>2, <2>3, <2>4
<1>4. ShapeInv
  <2>1. threads \in [Threads -> ThreadNode \cup {NoThread}]
    <3>1. \A b \in Threads : threads[b] \in ThreadNode \cup {NoThread}
      BY <1>1, <1>3
    <3>2. threads = [b \in Threads |-> threads[b]]
      BY <1>2
    <3> QED BY <3>1, <3>2
  <2>2. count \in [Pools -> Nat] /\ \A q \in Pools : count[q] <= MaxCapacity[q]
    BY <1>r, PoolAssumption
  <2>3. stop \in [Tasks -> BOOLEAN] /\ crashed \in BOOLEAN
    BY Zenon, <1>r
  <2>4. /\ queue \in [Pools -> Seq(Job)] /\ making \in [Pools -> Job \cup {NoJob}]
        /\ closing \in [Pools -> {"no", "yes", "dead"}] /\ faults \in Nat
        /\ status \in [Tasks -> {"new", "refused", "making", "queued", "running", "done",
                                 "dropped"}]
    BY <1>r
  <2> QED BY <2>1, <2>2, <2>3, <2>4 DEF ShapeInv
<1>5. \A b \in Threads : threads[b].job = NoJob /\ threads[b].pc \in {"top", "none"}
  BY <1>1, <1>3, NotAJob
<1>j. Jobs = {}
  <2>1. \A q \in Pools : making[q] = NoJob /\ DOMAIN queue[q] = {}
    BY <1>r
  <2> QED BY <1>5, <2>1, JobCases
<1>6. PlaceInv
  BY <1>r, <1>5, <1>j DEF PlaceInv
<1>7. PcInv
  BY <1>5 DEF PcInv, Running, Idle
<1>8. /\ Sound(nodes, Blocks - lack) /\ nodes.count = Blocks - out /\ nodes.nodes = out
  <2>1. Blocks - lack \in Nat /\ out \in 0 .. Blocks - lack /\ out <= Blocks
    BY <1>1, <1>b
  <2>2. NewlyMade(nodes, Blocks - lack, Blocks, out)
    BY <1>0, <1>1, <2>1, NewPool
  <2> QED BY <2>2 DEF NewlyMade
<1>9. /\ Sound(functions, Blocks) /\ functions.count = Blocks - out
      /\ Len(functions.free) = Blocks - out
  <2>1. out \in 0 .. Blocks /\ out <= Blocks
    BY <1>1, <1>b
  <2>2. NewlyMade(functions, Blocks, Blocks, out)
    BY <1>0, <1>1, <1>f, <2>1, NewPool
  <2> QED BY <2>2 DEF NewlyMade
<1>10. /\ Sound(holders, Holders) /\ holders.count = Holders - Started
       /\ Len(holders.free) = Holders - Started
       /\ \A b \in ToSet(holders.free) : b > Started
  <2>1. Started \in 0 .. Holders
    BY <1>1
  <2>2. NewlyMade(holders, Holders, Holders, Started)
    BY <1>1, <1>r, <2>1, NewPool
  <2> QED BY <2>2 DEF NewlyMade
<1>11. HolderInv
  <2>1. ToSet(holders.free) \subseteq Threads
    <3>1. holders.free \in Seq(1 .. Holders)
      BY <1>10 DEF Sound
    <3> QED BY <3>1, SetOfSeq DEF Threads
  <2> QED BY <1>3, <1>10, <2>1 DEF HolderInv
<1>12. BlockInv
  <2>1. NodeInv(Jobs, nodes)
    <3>1. Blocks - lack \in 0 .. Blocks /\ Blocks - out + out = Blocks
      BY <1>1, <1>b
    <3> QED BY <1>j, <1>8, <3>1 DEF NodeInv
  <2>2. FnInv(Jobs, functions)
    BY <1>j, <1>9 DEF FnInv
  <2>3. Making = {} /\ Freed = {}
    BY <1>5, <1>r DEF Making, Freed
  <2>4. BalanceInv
    <3>1. Cardinality(Making) = 0 /\ Cardinality(Freed) = 0
      BY <2>3, FS_EmptySet
    <3> QED BY <1>1, <1>8, <1>9, <3>1 DEF BalanceInv
  <2> QED BY <2>1, <2>2, <2>4 DEF BlockInv
<1>13. CountInv
  <2>1. ASSUME NEW q \in Pools PROVE Cardinality(Live(q)) = Desired[q] /\ Desired[q] \in Nat
    <3>1. \A b \in 1 .. Started : b \in Threads /\ b <= Started
      BY <1>1 DEF Threads
    <3>2. \A b \in Threads : b \in 1 .. Started \/ threads[b] = NoThread
      BY <1>1, <1>3
    <3>3. Live(q) = {b \in 1 .. Started : own[b] = q}
      BY <1>3, <3>1, <3>2, NotAJob, PoolAssumption DEF Live
    <3> QED BY <1>2, <3>3, PoolAssumption
  <2> QED BY <1>r, <2>1 DEF CountInv
<1>14. NoBadPointer
  BY <1>r DEF NoBadPointer
<1> QED BY <1>4, <1>6, <1>7, <1>11, <1>12, <1>13, <1>14 DEF PoolInv, BooksInv

----------------------------------------------------------------------------
(* Steps that move threads but no blocks *)

\* Threads keep their job and go on, within its run or while they have none.
SameWork(old, new) ==
    \A b \in Threads :
        /\ new[b].job = old[b].job /\ new[b].pool = old[b].pool
        /\ \/ new[b] = old[b]
           \/ old[b].pc \in Running /\ new[b].pc \in Running
           \/ old[b].pc \in Idle /\ new[b].pc \in Idle

LEMMA SameWorkFacts ==
    ASSUME NEW old, NEW new, SameWork(old, new), NEW b \in Threads
    PROVE  /\ new[b].job = old[b].job /\ new[b].pool = old[b].pool
           /\ new[b].pc = "freed" <=> old[b].pc = "freed"
           /\ new[b].pc = "exited" <=> old[b].pc = "exited"
           /\ new[b].pc \in Running <=> old[b].pc \in Running
           /\ new[b].pc \in Idle <=> old[b].pc \in Idle
BY DEF SameWork, Running, Idle

\* The number of threads is that of the books.
LEMMA SameCount ==
    ASSUME CountInv, \A q \in Pools : closing'[q] = "no" => closing[q] = "no",
           \A q \in Pools : closing'[q] = "no" => count'[q] = count[q],
           faults' = faults, \A q \in Pools : closing'[q] = "no" => Live(q)' = Live(q)
    PROVE  CountInv'
<1> SUFFICES ASSUME NEW q \in Pools, closing'[q] = "no"
             PROVE  /\ count'[q] >= Cardinality(Live(q)')
                    /\ faults' = 0 => count'[q] = Cardinality(Live(q)')
  BY DEF CountInv
<1>1. Live(q)' = Live(q) /\ count'[q] = count[q] /\ closing[q] = "no"
  OBVIOUS
<1> QED BY <1>1 DEF CountInv

LEMMA SameLive ==
    ASSUME SameWork(threads, threads'), NEW q \in Pools
    PROVE  Live(q)' = Live(q)
<1>1. \A b \in Threads : /\ threads'[b].pool = threads[b].pool
                         /\ threads'[b].pc = "exited" <=> threads[b].pc = "exited"
  BY SameWorkFacts
<1> QED BY <1>1 DEF Live

\* No block changes hands.
LEMMA QuietBooks ==
    ASSUME BooksInv, BlockInv, ShapeInv', PcInv',
           UNCHANGED <<nodes, functions, queue, making>>,
           \A b \in Threads : threads'[b].job = threads[b].job,
           \A b \in Threads : threads'[b].pc = "freed" <=> threads[b].pc = "freed",
           \A t \in Tasks : \/ status'[t] = status[t] \/ status[t] = "new"
                            \/ /\ status[t] \in {"running", "done"}
                               /\ status'[t] \in {"running", "done"}
    PROVE  BooksInv' /\ BlockInv'
<1> USE DEF BooksInv
<1>1. \A j \in Job : j.task \in Tasks
  BY DEF Job
<1>2. PlaceInv'
  <2>1. \A q \in Pools : making[q] # NoJob => making[q].task \in Tasks
    BY <1>1 DEF ShapeInv
  <2>2. \A q \in Pools : \A i \in DOMAIN queue[q] : queue[q][i].task \in Tasks
    BY <1>1, QueueFacts
  <2>3. \A b \in Threads : threads[b].job # NoJob => threads[b].job.task \in Tasks
    BY <1>1, ThreadFacts
  <2> QED BY <2>1, <2>2, <2>3 DEF PlaceInv
<1>3. Jobs' = Jobs
  BY DEF Jobs
<1>4. Making' = Making /\ Freed' = Freed
  BY DEF Making, Freed
<1>5. BlockInv'
  BY <1>3, <1>4 DEF BlockInv, BalanceInv
<1> QED BY <1>2, <1>5

\* The threads move, a task may end or be refused, a pool may close.
LEMMA MovesInv ==
    ASSUME PoolInv, ~crashed, SameWork(threads, threads'),
           threads' \in [Threads -> ThreadNode \cup {NoThread}],
           UNCHANGED <<nodes, functions, holders, queue, making, count, faults, crashed>>,
           closing' \in [Pools -> {"no", "yes", "dead"}],
           \A q \in Pools : closing'[q] = "no" => closing[q] = "no",
           stop' \in [Tasks -> BOOLEAN],
           status' \in [Tasks -> {"new", "refused", "making", "queued", "running", "done",
                                  "dropped"}],
           \A t \in Tasks : \/ status'[t] = status[t] \/ status[t] = "new"
                            \/ /\ status[t] \in {"running", "done"}
                               /\ status'[t] \in {"running", "done"}
    PROVE  PoolInv'
<1>1. ShapeInv'
  BY DEF PoolInv, BooksInv, ShapeInv
<1>2. PcInv'
  <2> SUFFICES ASSUME NEW b \in Threads
               PROVE  /\ threads'[b].pc \in Running =>
                           threads'[b].job # NoJob /\ threads'[b].job.fn # NoBlock
                      /\ threads'[b].pc = "freed" => threads'[b].job # NoJob
                      /\ threads'[b].pc \in Idle => threads'[b].job = NoJob
    BY DEF PcInv
  <2> QED BY SameWorkFacts DEF PoolInv, BooksInv, PcInv
<1>3. BooksInv' /\ BlockInv'
  BY <1>1, <1>2, SameWorkFacts, QuietBooks DEF PoolInv
<1>4. HolderInv'
  <2>1. \A b \in ToSet(holders.free) : b \in Threads
    <3>1. holders.free \in Seq(1 .. Holders)
      BY DEF PoolInv, HolderInv, Sound
    <3> QED BY <3>1, SetOfSeq DEF Threads
  <2>2. \A b \in Threads : threads[b] = NoThread => threads'[b] = NoThread
    BY NotAJob DEF SameWork, Running, Idle
  <2> QED BY <2>1, <2>2 DEF PoolInv, HolderInv
<1>5. CountInv'
  BY SameLive, SameCount DEF PoolInv
<1>6. NoBadPointer'
  BY DEF NoBadPointer
<1> QED BY <1>3, <1>4, <1>5, <1>6 DEF PoolInv

\* One thread goes on.
LEMMA GoFacts ==
    ASSUME ShapeInv, NEW b \in Threads, NEW pc, Go(b, pc),
           \/ threads[b].pc \in Running /\ pc \in Running
           \/ threads[b].pc \in Idle /\ pc \in Idle
    PROVE  /\ SameWork(threads, threads')
           /\ threads' \in [Threads -> ThreadNode \cup {NoThread}]
<1>1. threads[b] \in ThreadNode
  BY ThreadFacts, NotAJob DEF Running, Idle
<1>2. /\ threads' = [threads EXCEPT ![b].pc = pc]
      /\ threads \in [Threads -> ThreadNode \cup {NoThread}]
  BY DEF Go, ShapeInv
<1>3. /\ threads'[b] = [threads[b] EXCEPT !.pc = pc]
      /\ \A c \in Threads : c # b => threads'[c] = threads[c]
  BY <1>2
<1>4. /\ threads'[b].job = threads[b].job /\ threads'[b].pool = threads[b].pool
      /\ threads'[b].pc = pc /\ threads'[b] \in ThreadNode
  BY <1>1, <1>3 DEF ThreadNode
<1>5. SameWork(threads, threads')
  BY <1>3, <1>4 DEF SameWork
<1> QED BY <1>2, <1>4, <1>5

LEMMA OnlyGoInv ==
    ASSUME PoolInv, ~crashed, NEW b \in Threads, NEW pc, Go(b, pc),
           \/ threads[b].pc \in Running /\ pc \in Running
           \/ threads[b].pc \in Idle /\ pc \in Idle,
           UNCHANGED <<nodes, functions, holders, count, queue, making, closing, stop, faults,
                       crashed>>,
           status' = status \/ \E t \in Tasks : /\ status[t] \in {"running", "done"}
                                                /\ status' = [status EXCEPT ![t] = "done"]
    PROVE  PoolInv'
<1>1. ShapeInv
  BY DEF PoolInv, BooksInv
<1>2. /\ SameWork(threads, threads')
      /\ threads' \in [Threads -> ThreadNode \cup {NoThread}]
  BY <1>1, GoFacts
<1>3. /\ status' \in [Tasks -> {"new", "refused", "making", "queued", "running", "done",
                                "dropped"}]
      /\ \A t \in Tasks : \/ status'[t] = status[t]
                          \/ /\ status[t] \in {"running", "done"}
                             /\ status'[t] \in {"running", "done"}
  BY <1>1 DEF ShapeInv
<1>4. closing' \in [Pools -> {"no", "yes", "dead"}] /\ stop' \in [Tasks -> BOOLEAN]
  BY <1>1 DEF ShapeInv
<1> QED BY <1>2, <1>3, <1>4, MovesInv

\* The steps of a thread that waits, and of a timer.
LEMMA WaitInv ==
    ASSUME PoolInv, NEW b \in Threads, Wait(b)
    PROVE  PoolInv'
BY OnlyGoInv DEF Wait, Locks, At, Idle

LEMMA RunningTask ==
    ASSUME PoolInv, NEW b \in Threads, threads[b].pc \in Running
    PROVE  /\ threads[b].job \in Job /\ threads[b].job.task \in Tasks
           /\ status[threads[b].job.task] \in {"running", "done"}
<1>1. threads[b].job # NoJob
  BY DEF PoolInv, BooksInv, PcInv
<1>2. threads[b].job \in Job
  BY <1>1, ThreadFacts DEF PoolInv, BooksInv
<1> QED BY <1>1, <1>2 DEF PoolInv, BooksInv, PlaceInv, Job

LEMMA FinishInv ==
    ASSUME PoolInv, NEW b \in Threads, NEW from, from \subseteq Running, Finish(b, from)
    PROVE  PoolInv'
<1>1. threads[b].pc \in Running /\ "freeing" \in Running /\ ~crashed
  BY DEF Finish, At, Running
<1>2. /\ threads[b].job.task \in Tasks
      /\ status[threads[b].job.task] \in {"running", "done"}
  BY <1>1, RunningTask
<1>3. /\ Go(b, "freeing")
      /\ status' = [status EXCEPT ![threads[b].job.task] = "done"]
      /\ UNCHANGED <<nodes, functions, holders, count, queue, making, closing, stop, faults,
                     crashed>>
  BY DEF Finish
<1> QED BY <1>1, <1>2, <1>3, OnlyGoInv

LEMMA TimerInv ==
    ASSUME PoolInv, NEW b \in Threads,
           TimerTest(b) \/ TimerBlock(b) \/ TimerDue(b) \/ TimerFire(b) \/ TimerAgain(b)
    PROVE  PoolInv'
<1>1. PICK pc \in Running : OnlyThread(b, pc)
  BY DEF TimerTest, TimerBlock, TimerDue, TimerFire, TimerAgain, Running
<1>2. threads[b].pc \in Running /\ ~crashed
  BY DEF TimerTest, TimerBlock, TimerDue, TimerFire, TimerAgain, At, Running
<1>3. /\ Go(b, pc) /\ status' = status
      /\ UNCHANGED <<nodes, functions, holders, count, queue, making, closing, stop, faults,
                     crashed>>
  BY <1>1 DEF OnlyThread
<1> QED BY <1>1, <1>2, <1>3, OnlyGoInv

LEMMA EndInv ==
    ASSUME PoolInv, NEW b \in Threads, RunPlain(b) \/ TimerEnd(b)
    PROVE  PoolInv'
<1>1. {"run"} \subseteq Running /\ {"due", "fired"} \subseteq Running
  BY DEF Running
<1> QED BY <1>1, FinishInv DEF RunPlain, TimerEnd

\* Several threads go on at once.
GoAll(S, pc) ==
    /\ threads' = [b \in Threads |-> IF b \in S THEN [threads[b] EXCEPT !.pc = pc]
                                             ELSE threads[b]]
    /\ \A b \in Threads : b \in S =>
          \/ threads[b].pc \in Running /\ pc \in Running
          \/ threads[b].pc \in Idle /\ pc \in Idle

LEMMA SeveralGo ==
    ASSUME PoolInv, NEW S, NEW pc, GoAll(S, pc)
    PROVE  /\ SameWork(threads, threads')
           /\ threads' \in [Threads -> ThreadNode \cup {NoThread}]
<1> USE DEF GoAll
<1>1. ASSUME NEW b \in Threads, b \in S
      PROVE  /\ threads'[b].job = threads[b].job /\ threads'[b].pool = threads[b].pool
             /\ threads'[b].pc = pc /\ threads'[b] \in ThreadNode
  <2>1. threads[b] \in ThreadNode
    BY <1>1, ThreadFacts, NotAJob DEF Running, Idle, PoolInv, BooksInv
  <2>2. threads'[b] = [threads[b] EXCEPT !.pc = pc]
    BY <1>1
  <2> QED BY <1>1, <2>1, <2>2 DEF ThreadNode
<1>2. ASSUME NEW b \in Threads, b \notin S
      PROVE  threads'[b] = threads[b] /\ threads[b] \in ThreadNode \cup {NoThread}
  BY <1>2, ThreadFacts DEF PoolInv, BooksInv
<1>3. SameWork(threads, threads')
  BY <1>1, <1>2 DEF SameWork
<1>4. \A b \in Threads : threads'[b] \in ThreadNode \cup {NoThread}
  BY <1>1, <1>2
<1> QED BY <1>3, <1>4

LEMMA KillTimerInv ==
    ASSUME PoolInv, NEW t \in Tasks, KillTimer(t)
    PROVE  PoolInv'
<1>s. PICK S : S = {b \in Threads : threads[b].job.task = t /\ threads[b].pc = "sleeping"}
  OBVIOUS
<1>1. /\ ~crashed /\ stop' = [stop EXCEPT ![t] = TRUE]
      /\ threads' = [b \in Threads |->
                       IF threads[b].job.task = t /\ threads[b].pc = "sleeping"
                         THEN [threads[b] EXCEPT !.pc = "awake"] ELSE threads[b]]
      /\ UNCHANGED <<nodes, functions, holders, count, queue, making, closing, status, faults,
                     crashed>>
  BY DEF KillTimer
<1>2. GoAll(S, "awake")
  <2>1. threads' = [b \in Threads |-> IF b \in S THEN [threads[b] EXCEPT !.pc = "awake"]
                                                 ELSE threads[b]]
    BY <1>1, <1>s
  <2>2. \A b \in Threads : b \in S => threads[b].pc \in Running /\ "awake" \in Running
    BY <1>s DEF Running
  <2> QED BY <2>1, <2>2 DEF GoAll
<1>4. /\ SameWork(threads, threads')
      /\ threads' \in [Threads -> ThreadNode \cup {NoThread}]
  BY <1>2, SeveralGo
<1>5. ShapeInv
  BY DEF PoolInv, BooksInv
<1>6. stop' \in [Tasks -> BOOLEAN]
  BY Zenon, <1>1, <1>5 DEF ShapeInv
<1> QED BY <1>1, <1>4, <1>5, <1>6, MovesInv DEF ShapeInv

LEMMA TerminateInv ==
    ASSUME PoolInv, NEW q \in Pools, Terminate(q)
    PROVE  PoolInv'
<1>s. PICK S : S = Waiting(q)
  OBVIOUS
<1>1. /\ ~crashed /\ closing' = [closing EXCEPT ![q] = "yes"]
      /\ UNCHANGED <<nodes, functions, holders, count, queue, making, status, stop, faults,
                     crashed>>
  BY DEF Terminate, Open
<1>2. GoAll(S, "notified")
  BY <1>s DEF GoAll, Terminate, Idle, Waiting
<1>3. /\ SameWork(threads, threads')
      /\ threads' \in [Threads -> ThreadNode \cup {NoThread}]
  BY <1>2, SeveralGo
<1>4. ShapeInv
  BY DEF PoolInv, BooksInv
<1>5. /\ closing' \in [Pools -> {"no", "yes", "dead"}]
      /\ \A p \in Pools : closing'[p] = "no" => closing[p] = "no"
  BY <1>1, <1>4 DEF ShapeInv
<1> QED BY <1>1, <1>3, <1>4, <1>5, MovesInv DEF ShapeInv

LEMMA StandStill ==
    ASSUME threads' = threads PROVE SameWork(threads, threads')
BY DEF SameWork

LEMMA RefusedInv ==
    ASSUME PoolInv, NEW t \in Tasks, EnqueueRefused(t)
    PROVE  PoolInv'
<1>1. /\ ~crashed /\ status[t] = "new" /\ status' = [status EXCEPT ![t] = "refused"]
      /\ UNCHANGED <<nodes, functions, holders, count, queue, making, threads, closing, stop,
                     faults, crashed>>
  BY DEF EnqueueRefused, Refuse, Open
<1>2. ShapeInv
  BY DEF PoolInv, BooksInv
<1>3. SameWork(threads, threads')
  BY <1>1, StandStill
<1>4. /\ status' \in [Tasks -> {"new", "refused", "making", "queued", "running", "done",
                                "dropped"}]
      /\ \A u \in Tasks : status'[u] = status[u] \/ status[u] = "new"
  BY <1>1, <1>2 DEF ShapeInv
<1> QED BY <1>1, <1>2, <1>3, <1>4, MovesInv DEF ShapeInv

----------------------------------------------------------------------------
(* Threads that end *)

LEMMA LiveFinite ==
    ASSUME NEW q \in Pools
    PROVE  IsFiniteSet(Live(q)) /\ Cardinality(Live(q)) \in Nat
<1>1. Live(q) \subseteq Threads
  BY DEF Live
<1> QED BY <1>1, ThreadsFinite, FS_Subset, FS_CardinalityType

LEMMA ExitInv ==
    ASSUME PoolInv, ~crashed, NEW b \in Threads, threads[b].pc \in Running \cup Idle,
           Go(b, "exited"),
           UNCHANGED <<nodes, functions, holders, queue, making, closing, stop, crashed>>,
           status' = status \/ \E t \in Tasks : /\ status[t] \in {"running", "done"}
                                                /\ status' = [status EXCEPT ![t] = "done"],
           \/ count' = count /\ faults' = faults /\ closing[Q(b)] # "no"
           \/ count' = [count EXCEPT ![Q(b)] = @ - 1] /\ faults' = faults /\ closing[Q(b)] = "no"
           \/ count' = count /\ faults' = faults + 1
    PROVE  PoolInv'
<1>1. ShapeInv /\ BooksInv /\ BlockInv /\ PcInv /\ HolderInv /\ CountInv
  BY DEF PoolInv, BooksInv
<1>2. threads[b] \in ThreadNode /\ threads[b] # NoThread /\ Q(b) \in Pools
  BY <1>1, ThreadFacts, NotAJob DEF Running, Idle, Q
<1>3. /\ threads' = [threads EXCEPT ![b].pc = "exited"]
      /\ threads \in [Threads -> ThreadNode \cup {NoThread}]
  BY <1>1 DEF Go, ShapeInv
<1>4. /\ threads'[b] = [threads[b] EXCEPT !.pc = "exited"]
      /\ \A c \in Threads : c # b => threads'[c] = threads[c]
  BY <1>3
<1>5. /\ threads'[b].job = threads[b].job /\ threads'[b].pool = threads[b].pool
      /\ threads'[b].pc = "exited" /\ threads'[b] \in ThreadNode
  BY <1>2, <1>4 DEF ThreadNode
<1>6. threads' \in [Threads -> ThreadNode \cup {NoThread}]
  BY <1>3, <1>5
<1>7. /\ status' \in [Tasks -> {"new", "refused", "making", "queued", "running", "done",
                                "dropped"}]
      /\ \A t \in Tasks : \/ status'[t] = status[t]
                          \/ /\ status[t] \in {"running", "done"}
                             /\ status'[t] \in {"running", "done"}
  BY <1>1 DEF ShapeInv
<1>p. PICK p \in Pools : p = threads[b].pool /\ p = Q(b)
  BY <1>2 DEF Q
<1>8. /\ b \in Live(p) /\ Live(p)' = Live(p) \ {b}
      /\ \A q \in Pools : q # p => Live(q)' = Live(q)
  <2>1. b \in Live(p)
    BY <1>p DEF Live, Running, Idle
  <2>2. ASSUME NEW q \in Pools, NEW c
        PROVE  c \in Live(q)' <=> c \in Live(q) /\ c # b
    BY <1>4, <1>5 DEF Live
  <2>3. \A q \in Pools : q # p => b \notin Live(q)
    BY <1>p DEF Live
  <2> QED BY <2>1, <2>2, <2>3
<1>9. Cardinality(Live(p)') = Cardinality(Live(p)) - 1 /\ Cardinality(Live(p)) \in Nat \ {0}
  BY <1>8, LiveFinite, FS_RemoveElement, FS_EmptySet
<1>10. /\ count' \in [Pools -> Nat] /\ faults' \in Nat
       /\ \A q \in Pools : count'[q] <= MaxCapacity[q]
  <2>1. CASE count' = count
    BY <1>1, <2>1 DEF ShapeInv
  <2>2. CASE count' = [count EXCEPT ![p] = @ - 1] /\ faults' = faults /\ closing[p] = "no"
    <3>1. count[p] >= Cardinality(Live(p))
      BY <1>1, <2>2 DEF CountInv
    <3>2. count \in [Pools -> Nat] /\ faults \in Nat /\ \A q \in Pools : count[q] <= MaxCapacity[q]
      BY <1>1 DEF ShapeInv
    <3> QED BY <1>9, <2>2, <3>1, <3>2, PoolAssumption
  <2> QED BY <1>p, <2>1, <2>2
<1>11. ShapeInv'
  BY <1>1, <1>6, <1>7, <1>10 DEF ShapeInv
<1>12. PcInv'
  BY <1>1, <1>4, <1>5 DEF PcInv, Running, Idle
<1>13. BooksInv' /\ BlockInv'
  <2>1. \A c \in Threads : threads'[c].job = threads[c].job
    BY <1>4, <1>5
  <2>2. \A c \in Threads : threads'[c].pc = "freed" <=> threads[c].pc = "freed"
    BY <1>4, <1>5 DEF Running, Idle
  <2> QED BY <1>1, <1>7, <1>11, <1>12, <2>1, <2>2, QuietBooks
<1>14. HolderInv'
  <2>1. b \notin ToSet(holders.free)
    BY <1>1, <1>2 DEF HolderInv
  <2>2. ToSet(holders.free) \subseteq Threads
    BY <1>1, BlocksNat, SoundFacts, SetOfSeq DEF HolderInv, Threads
  <2> QED BY <1>1, <1>4, <2>1, <2>2 DEF HolderInv
<1>15. CountInv'
  <2> SUFFICES ASSUME NEW q \in Pools, closing'[q] = "no"
               PROVE  /\ count'[q] >= Cardinality(Live(q)')
                      /\ faults' = 0 => count'[q] = Cardinality(Live(q)')
    BY DEF CountInv
  <2>1. /\ count[q] \in Nat /\ count[q] >= Cardinality(Live(q)) /\ faults \in Nat
        /\ faults = 0 => count[q] = Cardinality(Live(q))
    BY <1>1 DEF CountInv, ShapeInv
  <2>2. CASE q # p
    <3>1. count'[q] = count[q] /\ (faults' = 0 => faults = 0)
      BY <1>1, <1>p, <2>1, <2>2 DEF ShapeInv
    <3> QED BY <1>8, <2>1, <2>2, <3>1
  <2>3. CASE q = p
    <3>1. \/ count'[p] = count[p] - 1 /\ faults' = faults
          \/ count'[p] = count[p] /\ faults' = faults + 1
      BY <1>1, <1>p, <2>3 DEF ShapeInv
    <3> QED BY <1>9, <2>1, <2>3, <3>1
  <2> QED BY <2>2, <2>3
<1> QED BY <1>13, <1>14, <1>15 DEF PoolInv, NoBadPointer

\* A thread of a closed pool, one that idled, one whose task threw.
LEMMA EndsInv ==
    ASSUME PoolInv, NEW b \in Threads, Leave(b) \/ IdleOut(b) \/ Throw(b)
    PROVE  PoolInv'
<1>1. CASE Leave(b)
  <2>1. /\ threads[b].pc \in Running \cup Idle /\ Go(b, "exited") /\ ~crashed
        /\ closing[Q(b)] # "no" /\ count' = count /\ faults' = faults /\ status' = status
        /\ UNCHANGED <<nodes, functions, holders, queue, making, closing, stop, crashed>>
    BY <1>1 DEF Leave, Locks, At, Idle
  <2> QED BY <2>1, ExitInv
<1>2. CASE IdleOut(b)
  <2>1. /\ threads[b].pc \in Running \cup Idle /\ Go(b, "exited") /\ ~crashed
        /\ closing[Q(b)] = "no" /\ count' = [count EXCEPT ![Q(b)] = @ - 1]
        /\ faults' = faults /\ status' = status
        /\ UNCHANGED <<nodes, functions, holders, queue, making, closing, stop, crashed>>
    BY <1>2 DEF IdleOut, TimedOut, At, Idle
  <2> QED BY <2>1, ExitInv
<1>3. CASE Throw(b)
  <2>1. /\ threads[b].pc \in Running /\ Go(b, "exited") /\ ~crashed
        /\ count' = count /\ faults' = faults + 1
        /\ status' = [status EXCEPT ![threads[b].job.task] = "done"]
        /\ UNCHANGED <<nodes, functions, holders, queue, making, closing, stop, crashed>>
    BY <1>3 DEF Throw, At, Running
  <2>2. /\ threads[b].job.task \in Tasks
        /\ status[threads[b].job.task] \in {"running", "done"}
    BY <2>1, RunningTask
  <2> QED BY <2>1, <2>2, ExitInv
<1> QED BY <1>1, <1>2, <1>3

----------------------------------------------------------------------------
(* The way of a job through a thread *)

\* JobCases for the state after a step.
LEMMA JobCasesNext ==
    ASSUME NEW j
    PROVE  j \in Jobs' <=> \/ \E q \in Pools : making'[q] = j /\ j # NoJob
                           \/ \E q \in Pools : \E i \in DOMAIN queue'[q] : queue'[q][i] = j
                           \/ \E b \in Threads : threads'[b].job = j /\ j # NoJob
<1> DEFINE U == UNION {ToSet(queue'[q]) \cup ({making'[q]} \ {NoJob}) : q \in Pools}
           V == {threads'[b].job : b \in Threads} \ {NoJob}
<1>1. j \in U <=> \E q \in Pools : j \in ToSet(queue'[q]) \/ (j = making'[q] /\ j # NoJob)
  OBVIOUS
<1>2. \A q \in Pools : j \in ToSet(queue'[q]) <=> \E i \in DOMAIN queue'[q] : queue'[q][i] = j
  BY DEF ToSet
<1>3. j \in V <=> \E b \in Threads : threads'[b].job = j /\ j # NoJob
  OBVIOUS
<1>4. Jobs' = U \cup V
  BY DEF Jobs
<1> QED BY <1>1, <1>2, <1>3, <1>4

LEMMA SameHolders ==
    ASSUME HolderInv, holders' = holders,
           \A c \in Threads : threads[c] = NoThread => threads'[c] = NoThread
    PROVE  HolderInv'
<1>1. ToSet(holders.free) \subseteq Threads
  BY BlocksNat, SoundFacts, SetOfSeq DEF HolderInv, Threads
<1> QED BY <1>1 DEF HolderInv

\* A thread that was idle or at work changes place and stays with its pool.
Works(b) ==
    /\ threads[b] \in ThreadNode /\ threads'[b] \in ThreadNode
    /\ threads'[b].pool = threads[b].pool
    /\ threads[b].pc # "exited" /\ threads'[b].pc # "exited"
    /\ threads' \in [Threads -> ThreadNode \cup {NoThread}]
    /\ \A c \in Threads : c # b => threads'[c] = threads[c]

LEMMA WorkInv ==
    ASSUME PoolInv, NEW b \in Threads, Works(b), holders' = holders,
           UNCHANGED <<count, closing, faults>>
    PROVE  HolderInv' /\ CountInv'
<1>1. \A c \in Threads : threads[c] = NoThread => threads'[c] = NoThread
  BY NotAJob DEF Works
<1>2. HolderInv'
  BY <1>1, SameHolders DEF PoolInv
<1>3. ASSUME NEW q \in Pools
      PROVE  Live(q)' = Live(q)
  <2>1. \A c \in Threads : /\ threads'[c].pool = threads[c].pool
                           /\ threads'[c].pc = "exited" <=> threads[c].pc = "exited"
    BY DEF Works
  <2> QED BY <2>1 DEF Live
<1> QED BY <1>2, <1>3, SameCount DEF PoolInv

LEMMA PollInv ==
    ASSUME PoolInv, NEW b \in Threads, Poll(b)
    PROVE  PoolInv'
<1>1. ShapeInv /\ PlaceInv /\ PcInv /\ BlockInv
  BY DEF PoolInv, BooksInv
<1>2. threads[b].pc \in {"top", "notified"} /\ ~crashed /\ queue[threads[b].pool] # <<>>
      /\ UNCHANGED <<nodes, functions, holders, count, making, closing, stop, faults, crashed>>
  BY DEF Poll, Locks, At, Q
<1>3. threads[b] \in ThreadNode /\ threads[b].pool \in Pools /\ threads[b].job = NoJob
  BY <1>1, <1>2, ThreadFacts, NotAJob DEF PcInv, Idle
<1>4. PICK p \in Pools : p = threads[b].pool
  BY <1>3
<1>5. PICK job : job = Head(queue[p])
  OBVIOUS
<1>6. PICK pc \in {"run", "test"} :
         /\ threads' = [threads EXCEPT ![b].pc = pc, ![b].job = job]
         /\ queue' = [queue EXCEPT ![p] = Tail(@)]
         /\ status' = [status EXCEPT ![job.task] = "running"]
  BY <1>4, <1>5 DEF Poll, TakeTask, Q
<1>7. queue[p] \in Seq(Job) /\ queue[p] # <<>> /\ Len(queue[p]) \in Nat
  BY <1>1, <1>2, <1>4, QueueFacts
<1>8. /\ job \in Job /\ 1 \in DOMAIN queue[p] /\ job = queue[p][1]
      /\ Tail(queue[p]) \in Seq(Job)
      /\ \A i \in DOMAIN Tail(queue[p]) : /\ i \in Nat \ {0} /\ i + 1 \in DOMAIN queue[p]
                                          /\ Tail(queue[p])[i] = queue[p][i + 1]
      /\ \A i \in DOMAIN queue[p] : i # 1 => i - 1 \in DOMAIN Tail(queue[p]) /\ i - 1 + 1 = i
  BY <1>5, <1>7, HeadTailProperties, LenProperties, EmptySeq
<1>9. /\ queue' \in [Pools -> Seq(Job)] /\ queue'[p] = Tail(queue[p])
      /\ \A q \in Pools : q # p => queue'[q] = queue[q]
  BY <1>1, <1>6, <1>8 DEF ShapeInv
<1>10. job.task \in Tasks /\ job # NoJob /\ status[job.task] = "queued" /\ PoolOf[job.task] = p
       /\ job.fn # NoBlock
  BY <1>1, <1>8, NotAJob DEF PlaceInv, Job
<1>11. /\ status' \in [Tasks -> {"new", "refused", "making", "queued", "running", "done",
                                 "dropped"}]
       /\ status'[job.task] = "running"
       /\ \A t \in Tasks : t # job.task => status'[t] = status[t]
  BY <1>1, <1>6, <1>10 DEF ShapeInv
<1>12. /\ threads'[b] = [threads[b] EXCEPT !.pc = pc, !.job = job]
       /\ \A c \in Threads : c # b => threads'[c] = threads[c]
  BY <1>1, <1>6 DEF ShapeInv
<1>13. /\ threads'[b] \in ThreadNode /\ threads'[b].pc = pc /\ threads'[b].job = job
       /\ threads'[b].pool = threads[b].pool /\ pc \in Running
  BY <1>3, <1>8, <1>12 DEF ThreadNode, Running
<1>14. threads' \in [Threads -> ThreadNode \cup {NoThread}]
  BY <1>1, <1>6, <1>13 DEF ShapeInv
<1>j. /\ threads'[b].job = job /\ making' = making
      /\ \A c \in Threads : c # b => threads'[c].job = threads[c].job
  BY <1>2, <1>12, <1>13
<1>15. ShapeInv'
  BY <1>1, <1>2, <1>9, <1>11, <1>14 DEF ShapeInv
<1>16. PcInv'
  BY <1>1, <1>10, <1>12, <1>13 DEF PcInv, Running, Idle
<1>17. PlaceInv'
  <2>1. ASSUME NEW q \in Pools, making'[q] # NoJob
        PROVE  /\ PoolOf[making'[q].task] = q /\ status'[making'[q].task] = "making"
               /\ making'[q].fn = NoBlock
    <3>1. making[q] \in Job /\ making'[q] = making[q]
      BY <1>1, <1>2, <2>1 DEF ShapeInv
    <3> QED BY <1>1, <1>10, <1>11, <2>1, <3>1 DEF PlaceInv, Job
  <2>2. ASSUME NEW q \in Pools, NEW i \in DOMAIN queue'[q]
        PROVE  \E k \in DOMAIN queue[q] : queue'[q][i] = queue[q][k] /\ (q = p => k = i + 1)
    BY <1>8, <1>9
  <2>3. ASSUME NEW q \in Pools, NEW i \in DOMAIN queue'[q]
        PROVE  /\ PoolOf[queue'[q][i].task] = q /\ status'[queue'[q][i].task] = "queued"
               /\ queue'[q][i].fn # NoBlock
    <3>1. PICK k \in DOMAIN queue[q] : queue'[q][i] = queue[q][k] /\ (q = p => k = i + 1)
      BY <2>2
    <3>2. /\ PoolOf[queue[q][k].task] = q /\ status[queue[q][k].task] = "queued"
          /\ queue[q][k].fn # NoBlock /\ queue[q][k].task \in Tasks
      BY <1>1, QueueFacts DEF PlaceInv, Job
    <3>3. queue[q][k].task # job.task
      <4>1. CASE q # p
        BY <1>10, <3>2, <4>1
      <4>2. CASE q = p
        <5>1. k # 1
          BY <1>8, <1>9, <3>1, <4>2
        <5> QED BY <1>1, <1>8, <4>2, <5>1 DEF PlaceInv
      <4> QED BY <4>1, <4>2
    <3> QED BY <1>11, <3>1, <3>2, <3>3
  <2>4. ASSUME NEW q \in Pools, NEW i \in DOMAIN queue'[q], NEW j \in DOMAIN queue'[q],
               queue'[q][i].task = queue'[q][j].task
        PROVE  i = j
    <3>1. CASE q # p
      BY <1>1, <1>9, <2>4, <3>1 DEF PlaceInv
    <3>2. CASE q = p
      <4>1. queue[p][i + 1].task = queue[p][j + 1].task
            /\ i + 1 \in DOMAIN queue[p] /\ j + 1 \in DOMAIN queue[p] /\ i \in Nat /\ j \in Nat
        BY <1>8, <1>9, <2>4, <3>2
      <4>2. i + 1 = j + 1
        BY <1>1, <4>1 DEF PlaceInv
      <4> QED BY <4>1, <4>2
    <3> QED BY <3>1, <3>2
  <2>5. ASSUME NEW c \in Threads, c # b, threads[c].job # NoJob
        PROVE  /\ threads[c].job.task \in Tasks /\ threads[c].job.task # job.task
               /\ status[threads[c].job.task] \in {"running", "done"}
    <3>1. threads[c].job \in Job
      BY <1>1, <2>5, ThreadFacts
    <3> QED BY <1>1, <1>10, <2>5, <3>1 DEF PlaceInv, Job
  <2>6. \A c \in Threads : threads'[c].job # NoJob =>
          status'[threads'[c].job.task] \in {"running", "done"}
    <3> TAKE c \in Threads
    <3>1. CASE c = b
      BY <1>11, <1>j, <3>1
    <3>2. CASE c # b
      BY <1>11, <1>j, <2>5, <3>2
    <3> QED BY <3>1, <3>2
  <2>7. ASSUME NEW c \in Threads, NEW d \in Threads, threads'[c].job # NoJob,
               threads'[c].job.task = threads'[d].job.task
        PROVE  c = d
    <3>1. threads'[d].job # NoJob
      <4>1. threads'[c].job.task \in Tasks
        BY <1>10, <1>j, <2>5, <2>7
      <4> QED BY <2>7, <4>1, NotAJob, PoolAssumption
    <3>2. CASE c # b /\ d # b
      BY <1>1, <1>12, <2>7, <3>2 DEF PlaceInv
    <3>3. CASE c = b \/ d = b
      BY <1>12, <1>13, <2>5, <2>7, <3>1, <3>3
    <3> QED BY <3>2, <3>3
  <2> QED BY <2>1, <2>3, <2>4, <2>6, <2>7 DEF PlaceInv
<1>18. Jobs' = Jobs
  <2>1. ASSUME NEW j PROVE j \in Jobs' => j \in Jobs
    <3>1. \A q \in Pools : \A i \in DOMAIN queue'[q] :
              \E k \in DOMAIN queue[q] : queue'[q][i] = queue[q][k]
      BY ZenonT(60), <1>8, <1>9
    <3>2. CASE \E q \in Pools : making'[q] = j /\ j # NoJob
      BY <1>j, <3>2, JobCases
    <3>3. CASE \E q \in Pools : \E i \in DOMAIN queue'[q] : queue'[q][i] = j
      BY <3>1, <3>3, JobCases
    <3>4. CASE \E c \in Threads : threads'[c].job = j /\ j # NoJob
      BY <1>8, <1>j, <3>4, JobCases
    <3> QED BY <3>2, <3>3, <3>4, JobCasesNext
  <2>2. ASSUME NEW j PROVE j \in Jobs => j \in Jobs'
    <3>1. \A q \in Pools : \A k \in DOMAIN queue[q] :
              queue[q][k] = job \/ \E i \in DOMAIN queue'[q] : queue'[q][i] = queue[q][k]
      <4> TAKE q \in Pools
      <4> TAKE k \in DOMAIN queue[q]
      <4>1. CASE q # p
        BY <1>9, <4>1
      <4>2. CASE q = p /\ k # 1
        <5>1. k - 1 \in DOMAIN queue'[q] /\ queue'[q][k - 1] = queue[q][k]
          BY <1>8, <1>9, <4>2
        <5> QED BY <5>1
      <4> QED BY <1>8, <4>1, <4>2
    <3>2. CASE \E q \in Pools : making[q] = j /\ j # NoJob
      BY <1>j, <3>2, JobCasesNext
    <3>3. CASE \E q \in Pools : \E i \in DOMAIN queue[q] : queue[q][i] = j
      BY <1>10, <1>j, <3>1, <3>3, JobCasesNext
    <3>4. CASE \E c \in Threads : threads[c].job = j /\ j # NoJob
      BY <1>3, <1>j, <3>4, JobCasesNext
    <3> QED BY <3>2, <3>3, <3>4, JobCases
  <2> QED BY <2>1, <2>2
<1>19. BlockInv'
  <2>1. Making' = Making /\ Freed' = Freed
    BY ZenonT(60), <1>2, <1>12, <1>13 DEF Making, Freed
  <2> QED BY <1>1, <1>2, <1>18, <2>1 DEF BlockInv, BalanceInv
<1>20. Works(b)
  BY <1>2, <1>3, <1>12, <1>13, <1>14 DEF Works
<1>21. HolderInv' /\ CountInv'
  BY <1>2, <1>20, WorkInv
<1> QED BY <1>2, <1>15, <1>16, <1>17, <1>19, <1>21 DEF PoolInv, BooksInv, NoBadPointer

\* The job of a thread is nowhere else.
LEMMA OnlyHere ==
    ASSUME BooksInv, NEW b \in Threads, threads[b].job # NoJob
    PROVE  /\ \A q \in Pools : making[q] # threads[b].job
           /\ \A q \in Pools : \A i \in DOMAIN queue[q] : queue[q][i] # threads[b].job
           /\ \A c \in Threads : c # b => threads[c].job # threads[b].job
<1>1. status[threads[b].job.task] \in {"running", "done"}
  BY DEF BooksInv, PlaceInv
<1>2. \A q \in Pools : making[q] # threads[b].job
  BY <1>1 DEF BooksInv, PlaceInv
<1>3. \A q \in Pools : \A i \in DOMAIN queue[q] : queue[q][i] # threads[b].job
  BY <1>1 DEF BooksInv, PlaceInv
<1>4. \A c \in Threads : c # b => threads[c].job # threads[b].job
  BY DEF BooksInv, PlaceInv
<1> QED BY <1>2, <1>3, <1>4

\* Threads keep the task they have or lose it.
LEMMA SamePlaces ==
    ASSUME BooksInv, UNCHANGED <<queue, making, status>>,
           \A c \in Threads : \/ threads'[c].job = NoJob
                              \/ /\ threads[c].job # NoJob
                                 /\ threads'[c].job.task = threads[c].job.task
    PROVE  PlaceInv'
<1>1. ShapeInv /\ PlaceInv
  BY DEF BooksInv
<1>2. ASSUME NEW c \in Threads, threads'[c].job # NoJob
      PROVE  /\ threads[c].job # NoJob /\ threads'[c].job.task = threads[c].job.task
             /\ threads[c].job.task \in Tasks
             /\ status'[threads'[c].job.task] \in {"running", "done"}
  <2>1. threads[c].job # NoJob /\ threads'[c].job.task = threads[c].job.task
    BY <1>2
  <2>2. threads[c].job \in Job
    BY <1>1, <2>1, ThreadFacts
  <2> QED BY <1>1, <2>1, <2>2 DEF PlaceInv, Job
<1>3. ASSUME NEW c \in Threads, NEW d \in Threads, threads'[c].job # NoJob,
             threads'[c].job.task = threads'[d].job.task
      PROVE  c = d
  <2>1. threads'[d].job # NoJob
    BY <1>2, <1>3, NotAJob, PoolAssumption
  <2>2. threads[c].job # NoJob /\ threads[c].job.task = threads[d].job.task
    BY <1>2, <1>3, <2>1
  <2> QED BY <1>1, <2>2 DEF PlaceInv
<1> QED BY <1>1, <1>2, <1>3 DEF PlaceInv

\* What a thread that gives something back holds.
LEMMA HeldFacts ==
    ASSUME PoolInv, NEW b \in Threads, threads[b].pc \in {"freeing", "freed"}
    PROVE  /\ threads[b] \in ThreadNode /\ threads[b].job \in Job /\ threads[b].job # NoJob
           /\ threads[b].job \in Jobs
           /\ threads[b].pc = "freeing" => threads[b].job.fn # NoBlock
<1>1. ShapeInv /\ PcInv
  BY DEF PoolInv, BooksInv
<1>2. /\ threads[b].job # NoJob
      /\ threads[b].pc = "freeing" => threads[b].job.fn # NoBlock
  BY <1>1 DEF PcInv, Running
<1>3. threads[b] \in ThreadNode /\ threads[b].job \in Job
  BY <1>1, <1>2, ThreadFacts, NotAJob
<1> QED BY <1>2, <1>3, JobCases

LEMMA FreedCount ==
    /\ IsFiniteSet(Freed) /\ Cardinality(Freed) \in Nat
    /\ IsFiniteSet(Making) /\ Cardinality(Making) \in Nat
<1>1. Freed \subseteq Threads /\ Making \subseteq Pools
  BY DEF Freed, Making
<1> QED BY <1>1, ThreadsFinite, FS_Subset, FS_CardinalityType

LEMMA FreeFunctionInv ==
    ASSUME PoolInv, NEW b \in Threads, FreeFunction(b)
    PROVE  PoolInv'
<1>1. ShapeInv /\ PcInv /\ BooksInv /\ BlockInv
  BY DEF PoolInv, BooksInv
<1>2. threads[b].pc = "freeing" /\ ~crashed
      /\ UNCHANGED <<nodes, holders, count, queue, making, closing, status, stop, faults, crashed>>
  BY DEF FreeFunction, At
<1>3. PICK old : old = threads[b].job
  OBVIOUS
<1>4. /\ threads[b] \in ThreadNode /\ old \in Job /\ old # NoJob /\ old \in Jobs
      /\ old.fn # NoBlock
  BY <1>2, <1>3, HeldFacts
<1>5. PICK new : new = [old EXCEPT !.fn = NoBlock]
  OBVIOUS
<1>6. /\ new \in Job /\ new # NoJob /\ new.task = old.task /\ new.node = old.node
      /\ new.fn = NoBlock
  BY <1>4, <1>5, NotAJob DEF Job
<1>7. /\ threads' = [threads EXCEPT ![b].pc = "freed", ![b].job.fn = NoBlock]
      /\ functions' = FreeBlock(functions, old.fn)
  BY <1>3 DEF FreeFunction
<1>8. /\ threads'[b] = [threads[b] EXCEPT !.pc = "freed", !.job = new]
      /\ \A c \in Threads : c # b => threads'[c] = threads[c]
  BY <1>1, <1>3, <1>4, <1>5, <1>7 DEF ShapeInv, ThreadNode
<1>9. /\ threads'[b] \in ThreadNode /\ threads'[b].pc = "freed" /\ threads'[b].job = new
      /\ threads'[b].pool = threads[b].pool
  BY <1>4, <1>6, <1>8 DEF ThreadNode
<1>10. threads' \in [Threads -> ThreadNode \cup {NoThread}]
  <2>1. threads' = [c \in Threads |-> threads'[c]]
    BY <1>1, <1>7 DEF ShapeInv
  <2>2. \A c \in Threads : threads'[c] \in ThreadNode \cup {NoThread}
    BY <1>1, <1>8, <1>9, ThreadFacts
  <2> QED BY <2>1, <2>2
<1>11. ShapeInv'
  BY <1>1, <1>2, <1>10 DEF ShapeInv
<1>12. PcInv'
  BY ZenonT(60), <1>1, <1>6, <1>8, <1>9 DEF PcInv, Running, Idle
<1>j. /\ threads'[b].job = new /\ \A c \in Threads : c # b => threads'[c].job = threads[c].job
  BY <1>8, <1>9
<1>13. PlaceInv'
  BY <1>1, <1>2, <1>3, <1>4, <1>6, <1>j, SamePlaces
<1>14. Jobs' = (Jobs \ {old}) \cup {new}
  <2>h. /\ \A q \in Pools : making[q] # old
        /\ \A q \in Pools : \A i \in DOMAIN queue[q] : queue[q][i] # old
        /\ \A c \in Threads : c # b => threads[c].job # old
    BY <1>1, <1>3, <1>4, OnlyHere
  <2>1. ASSUME NEW j PROVE j \in Jobs' => j = new \/ (j \in Jobs /\ j # old)
    BY <1>2, <1>j, <2>h, JobCases, JobCasesNext
  <2>2. ASSUME NEW j PROVE j = new \/ (j \in Jobs /\ j # old) => j \in Jobs'
    BY <1>2, <1>3, <1>6, <1>j, JobCases, JobCasesNext
  <2> QED BY <2>1, <2>2
<1>15. NodeInv(Jobs, nodes)' /\ FnInv(Jobs, functions)' /\ functions'.count = functions.count + 1
  <2>1. NodeInv((Jobs \ {old}) \cup {new}, nodes)
    BY <1>1, <1>4, <1>6, NodeSame DEF BlockInv
  <2>2. /\ FnInv((Jobs \ {old}) \cup {new}, FreeBlock(functions, old.fn))
        /\ FreeBlock(functions, old.fn).count = functions.count + 1
    BY <1>1, <1>4, <1>6, FnGive DEF BlockInv
  <2> QED BY <1>2, <1>7, <1>14, <2>1, <2>2
<1>16. BalanceInv'
  <2>1. Making' = Making /\ Freed' = Freed \cup {b} /\ b \notin Freed
    BY <1>2, <1>8, <1>9 DEF Making, Freed
  <2>2. Cardinality(Freed') = Cardinality(Freed) + 1
    BY <2>1, FreedCount, FS_AddElement
  <2>3. /\ functions.count = nodes.count + Cardinality(Making) + Cardinality(Freed)
        /\ nodes.count \in Nat
    BY <1>1 DEF BlockInv, BalanceInv, NodeInv, Sound
  <2> QED BY <1>2, <1>15, <2>1, <2>2, <2>3, FreedCount DEF BalanceInv
<1>17. Works(b)
  BY <1>2, <1>4, <1>8, <1>9, <1>10 DEF Works
<1>18. HolderInv' /\ CountInv'
  BY <1>2, <1>17, WorkInv
<1> QED BY <1>2, <1>11, <1>12, <1>13, <1>15, <1>16, <1>18
        DEF PoolInv, BooksInv, BlockInv, NoBadPointer

LEMMA FreeNodeInv ==
    ASSUME PoolInv, NEW b \in Threads, FreeNode(b)
    PROVE  PoolInv'
<1>1. ShapeInv /\ PcInv /\ BooksInv /\ BlockInv
  BY DEF PoolInv, BooksInv
<1>2. threads[b].pc = "freed" /\ ~crashed
      /\ UNCHANGED <<functions, holders, count, queue, making, closing, status, stop, faults,
                     crashed>>
  BY DEF FreeNode, At
<1>3. PICK old : old = threads[b].job
  OBVIOUS
<1>4. threads[b] \in ThreadNode /\ old \in Job /\ old # NoJob /\ old \in Jobs
  BY <1>2, <1>3, HeldFacts
<1>7. /\ threads' = [threads EXCEPT ![b].pc = "top", ![b].job = NoJob]
      /\ nodes' = FreeBlock(nodes, old.node)
  BY <1>3 DEF FreeNode
<1>8. /\ threads'[b] = [threads[b] EXCEPT !.pc = "top", !.job = NoJob]
      /\ \A c \in Threads : c # b => threads'[c] = threads[c]
  BY <1>1, <1>7 DEF ShapeInv
<1>9. /\ threads'[b] \in ThreadNode /\ threads'[b].pc = "top" /\ threads'[b].job = NoJob
      /\ threads'[b].pool = threads[b].pool
  BY <1>4, <1>8 DEF ThreadNode, Idle
<1>10. threads' \in [Threads -> ThreadNode \cup {NoThread}]
  <2>1. threads' = [c \in Threads |-> threads'[c]]
    BY <1>1, <1>7 DEF ShapeInv
  <2>2. \A c \in Threads : threads'[c] \in ThreadNode \cup {NoThread}
    BY <1>1, <1>8, <1>9, ThreadFacts
  <2> QED BY <2>1, <2>2
<1>11. ShapeInv'
  BY <1>1, <1>2, <1>10 DEF ShapeInv
<1>12. PcInv'
  BY ZenonT(60), <1>1, <1>8, <1>9 DEF PcInv, Running, Idle
<1>j. /\ threads'[b].job = NoJob /\ \A c \in Threads : c # b => threads'[c].job = threads[c].job
  BY <1>8, <1>9
<1>13. PlaceInv'
  BY <1>1, <1>2, <1>j, SamePlaces
<1>14. Jobs' \subseteq Jobs \ {old}
  <2>h. /\ \A q \in Pools : making[q] # old
        /\ \A q \in Pools : \A i \in DOMAIN queue[q] : queue[q][i] # old
        /\ \A c \in Threads : c # b => threads[c].job # old
    BY <1>1, <1>3, <1>4, OnlyHere
  <2>1. ASSUME NEW j PROVE j \in Jobs' => j \in Jobs /\ j # old
    BY <1>2, <1>j, <2>h, JobCases, JobCasesNext
  <2> QED BY <2>1
<1>15. NodeInv(Jobs, nodes)' /\ nodes'.count = nodes.count + 1 /\ FnInv(Jobs, functions)'
  <2>1. PICK K : K = Jobs'
    OBVIOUS
  <2>2. NodeInv(K, FreeBlock(nodes, old.node)) /\ FreeBlock(nodes, old.node).count = nodes.count + 1
    BY <1>1, <1>4, <1>14, <2>1, NodeGive DEF BlockInv
  <2>3. K \subseteq Jobs
    BY <1>14, <2>1
  <2>4. FnInv(K, functions)
    BY <1>1, <2>3, FnDrop DEF BlockInv
  <2> QED BY <1>2, <1>7, <2>1, <2>2, <2>4
<1>16. BalanceInv'
  <2>1. Making' = Making /\ Freed' = Freed \ {b} /\ b \in Freed
    BY <1>2, <1>8, <1>9 DEF Making, Freed
  <2>2. Cardinality(Freed') = Cardinality(Freed) - 1
    BY <2>1, FreedCount, FS_RemoveElement
  <2>3. /\ functions.count = nodes.count + Cardinality(Making) + Cardinality(Freed)
        /\ nodes.count \in Nat
    BY <1>1 DEF BlockInv, BalanceInv, NodeInv, Sound
  <2> QED BY <1>2, <1>15, <2>1, <2>2, <2>3, FreedCount DEF BalanceInv
<1>17. Works(b)
  BY <1>2, <1>4, <1>8, <1>9, <1>10 DEF Works
<1>18. HolderInv' /\ CountInv'
  BY <1>2, <1>17, WorkInv
<1> QED BY <1>2, <1>11, <1>12, <1>13, <1>15, <1>16, <1>18
        DEF PoolInv, BooksInv, BlockInv, NoBadPointer

----------------------------------------------------------------------------
(* enqueueTask *)

\* getBlock follows its null head.
LEMMA CrashInv ==
    ASSUME PoolInv, Len(nodes.free) < nodes.count, crashed' = TRUE,
           UNCHANGED <<nodes, functions, holders, count, queue, making, threads, closing, status,
                       stop, faults>>
    PROVE  PoolInv'
<1>1. BooksInv /\ ShapeInv /\ PcInv /\ BlockInv /\ HolderInv /\ CountInv
  BY DEF PoolInv, BooksInv
<1>2. crashed' \in BOOLEAN
  BY Zenon
<1>3. ShapeInv'
  BY <1>1, <1>2 DEF ShapeInv
<1>4. PcInv'
  BY <1>1 DEF PcInv
<1>5. BooksInv' /\ BlockInv'
  BY <1>1, <1>3, <1>4, QuietBooks
<1>6. HolderInv'
  BY <1>1, SameHolders
<1>7. CountInv'
  BY <1>1, SameCount DEF Live
<1> QED BY <1>5, <1>6, <1>7 DEF PoolInv, NoBadPointer

LEMMA EnqueueNodeInv ==
    ASSUME PoolInv, NEW t \in Tasks, EnqueueNode(t)
    PROVE  PoolInv'
<1>1. BooksInv /\ ShapeInv /\ PlaceInv /\ PcInv /\ BlockInv /\ HolderInv /\ CountInv
  BY DEF PoolInv, BooksInv
<1>2. PICK q \in Pools : q = PoolOf[t]
  BY PoolAssumption
<1>3. /\ status[t] = "new" /\ making[q] = NoJob /\ ~crashed /\ ~Exhausted(nodes)
      /\ UNCHANGED <<functions, holders, count, queue, threads, closing, stop, faults>>
  BY <1>2 DEF EnqueueNode, Open
<1>4. NodeInv(Jobs, nodes) /\ nodes.count \in Nat /\ FnInv(Jobs, functions) /\ BalanceInv
  BY <1>1 DEF BlockInv, NodeInv, Sound
<1>5. CASE Deceived(nodes)
  <2>1. crashed' = TRUE /\ UNCHANGED <<nodes, making, status>>
    BY <1>5 DEF EnqueueNode
  <2>2. Len(nodes.free) < nodes.count
    BY <1>4, <1>5, EmptySeq DEF Deceived
  <2> QED BY <1>3, <2>1, <2>2, CrashInv
<1>6. CASE ~Deceived(nodes)
  <2>1. PICK new : new = [task |-> t, node |-> BlockOf(nodes), fn |-> NoBlock]
    OBVIOUS
  <2>2. /\ making' = [making EXCEPT ![q] = new] /\ nodes' = GetBlock(nodes)
        /\ status' = [status EXCEPT ![t] = "making"] /\ crashed' = crashed
    BY <1>2, <1>6, <2>1 DEF EnqueueNode
  <2>3. new.node = BlockOf(nodes) /\ new.fn = NoBlock /\ new.task = t
    BY <2>1
  <2>4. /\ NodeInv(Jobs \cup {new}, nodes') /\ nodes'.count = nodes.count - 1
        /\ nodes.count \in Nat \ {0} /\ BlockOf(nodes) \in Nat
    BY <1>3, <1>4, <1>6, <2>2, <2>3, NodeTake
  <2>5. FnInv(Jobs \cup {new}, functions')
    BY <1>3, <1>4, <2>3, FnAdd
  <2>6. new \in Job /\ new # NoJob
    BY <2>1, <2>4, NotAJob DEF Job
  <2>7. /\ making' \in [Pools -> Job \cup {NoJob}] /\ making'[q] = new
        /\ \A p \in Pools : p # q => making'[p] = making[p]
    BY <1>1, <2>2, <2>6 DEF ShapeInv
  <2>8. /\ status' \in [Tasks -> {"new", "refused", "making", "queued", "running", "done",
                                  "dropped"}]
        /\ status'[t] = "making" /\ \A u \in Tasks : status[u] # "new" => status'[u] = status[u]
    BY <1>1, <1>3, <2>2 DEF ShapeInv
  <2>9. ShapeInv'
    BY <1>1, <1>3, <2>2, <2>7, <2>8 DEF ShapeInv
  <2>10. PcInv'
    BY <1>1, <1>3 DEF PcInv
  <2>11. PlaceInv'
    <3>1. ASSUME NEW p \in Pools, making'[p] # NoJob
          PROVE  /\ PoolOf[making'[p].task] = p /\ status'[making'[p].task] = "making"
                 /\ making'[p].fn = NoBlock
      <4>1. CASE p = q
        BY <1>2, <2>3, <2>7, <2>8, <4>1
      <4>2. CASE p # q
        <5>1. making'[p] = making[p] /\ making[p] \in Job /\ making[p].task \in Tasks
          BY <1>1, <2>7, <3>1, <4>2 DEF ShapeInv, Job
        <5> QED BY <1>1, <2>8, <3>1, <5>1 DEF PlaceInv
      <4> QED BY <4>1, <4>2
    <3>2. ASSUME NEW p \in Pools, NEW i \in DOMAIN queue[p]
          PROVE  status'[queue[p][i].task] = "queued"
      <4>1. queue[p][i].task \in Tasks
        BY <1>1, QueueFacts DEF Job
      <4> QED BY <1>1, <2>8, <4>1 DEF PlaceInv
    <3>3. ASSUME NEW b \in Threads, threads[b].job # NoJob
          PROVE  status'[threads[b].job.task] \in {"running", "done"}
      <4>1. threads[b].job \in Job /\ threads[b].job.task \in Tasks
        BY <1>1, <3>3, ThreadFacts DEF Job
      <4> QED BY <1>1, <2>8, <3>3, <4>1 DEF PlaceInv
    <3> QED BY <1>1, <1>3, <3>1, <3>2, <3>3 DEF PlaceInv
  <2>12. Jobs' = Jobs \cup {new}
    <3>1. ASSUME NEW j PROVE j \in Jobs' => j \in Jobs \/ j = new
      BY <1>3, <2>7, JobCases, JobCasesNext
    <3>2. ASSUME NEW j PROVE j \in Jobs \/ j = new => j \in Jobs'
      BY <1>3, <2>6, <2>7, JobCases, JobCasesNext
    <3> QED BY <3>1, <3>2
  <2>13. BalanceInv'
    <3>1. Making' = Making \cup {q} /\ q \notin Making /\ Freed' = Freed
      BY <1>3, <2>6, <2>7 DEF Making, Freed
    <3>2. Cardinality(Making') = Cardinality(Making) + 1
      BY <3>1, FreedCount, FS_AddElement
    <3>3. functions.count = nodes.count + Cardinality(Making) + Cardinality(Freed)
      BY <1>4 DEF BalanceInv
    <3> QED BY <1>3, <2>4, <3>1, <3>2, <3>3, FreedCount DEF BalanceInv
  <2>14. HolderInv'
    BY <1>1, <1>3, SameHolders
  <2>15. CountInv'
    BY <1>1, <1>3, SameCount DEF Live
  <2> QED BY <1>3, <2>2, <2>4, <2>5, <2>9, <2>10, <2>11, <2>12, <2>13, <2>14, <2>15
          DEF PoolInv, BooksInv, BlockInv, NoBadPointer
<1> QED BY <1>5, <1>6

\* The threads of ths are those of the pools, and perhaps new ones.
Staffed(ths) ==
    /\ ths \in [Threads -> ThreadNode \cup {NoThread}]
    /\ \A b \in Threads : \/ ths[b] = threads[b]
                          \/ /\ threads[b] = NoThread /\ ths[b] \in ThreadNode
                             /\ ths[b].pc = "top" /\ ths[b].job = NoJob

\* Nobody's job changes.
SameJobs ==
    /\ threads' \in [Threads -> ThreadNode \cup {NoThread}] /\ PcInv'
    /\ \A b \in Threads : threads'[b].job = threads[b].job
    /\ \A b \in Threads : threads'[b].pc = "freed" <=> threads[b].pc = "freed"

LEMMA NotifyFacts ==
    ASSUME PoolInv, NEW q \in Pools, NEW ths, Staffed(ths), NotifyOne(q, ths)
    PROVE  SameWork(ths, threads') /\ SameJobs
<1>1. ShapeInv /\ PcInv
  BY DEF PoolInv, BooksInv
<1>2. ths \in [Threads -> ThreadNode \cup {NoThread}]
  BY DEF Staffed
<1>3. SameWork(ths, threads') /\ threads' \in [Threads -> ThreadNode \cup {NoThread}]
  <2>1. CASE threads' = ths
    BY <1>2, <2>1 DEF SameWork
  <2>2. CASE \E b \in Waiting(q) : threads' = [ths EXCEPT ![b].pc = "notified"]
    <3>1. PICK b \in Waiting(q) : threads' = [ths EXCEPT ![b].pc = "notified"]
      BY <2>2
    <3>2. b \in Threads /\ threads[b].pc = "waiting"
      BY DEF Waiting
    <3>3. ths[b] = threads[b] /\ threads[b] \in ThreadNode
      BY <1>1, <3>2, NotAJob, ThreadFacts DEF Staffed
    <3>4. /\ threads'[b] = [threads[b] EXCEPT !.pc = "notified"]
          /\ \A c \in Threads : c # b => threads'[c] = ths[c]
      BY <1>2, <3>1, <3>2, <3>3
    <3>5. /\ threads'[b].job = threads[b].job /\ threads'[b].pool = threads[b].pool
          /\ threads'[b].pc = "notified" /\ threads'[b] \in ThreadNode
      BY <3>3, <3>4 DEF ThreadNode, Idle
    <3>6. SameWork(ths, threads')
      BY <3>2, <3>3, <3>4, <3>5 DEF SameWork, Idle
    <3> QED BY <1>2, <3>1, <3>5, <3>6
  <2> QED BY <2>1, <2>2 DEF NotifyOne
<1>4. ASSUME NEW b \in Threads
      PROVE  /\ threads'[b].job = threads[b].job
             /\ threads'[b].pc = "freed" <=> threads[b].pc = "freed"
             /\ threads'[b].pc \in Running => threads[b].pc \in Running
             /\ threads'[b].pc \in Idle => threads[b].pc \in Idle \/ threads[b].job = NoJob
  <2>1. /\ threads'[b].job = ths[b].job
        /\ threads'[b].pc = "freed" <=> ths[b].pc = "freed"
        /\ threads'[b].pc \in Running <=> ths[b].pc \in Running
        /\ threads'[b].pc \in Idle <=> ths[b].pc \in Idle
    BY <1>3, SameWorkFacts
  <2>2. CASE ths[b] = threads[b]
    BY <2>1, <2>2
  <2>3. CASE threads[b] = NoThread /\ ths[b].pc = "top" /\ ths[b].job = NoJob
    BY <2>1, <2>3, NotAJob DEF Running
  <2> QED BY <2>2, <2>3 DEF Staffed
<1>5. PcInv'
  BY <1>1, <1>4 DEF PcInv
<1> QED BY <1>3, <1>4, <1>5 DEF SameJobs

\* The caller has a TaskNode, so that there is a std::function.
LEMMA FunctionThere ==
    ASSUME PoolInv, NEW q \in Pools, making[q] # NoJob
    PROVE  ~Exhausted(functions) /\ making[q] \in Job /\ making[q] \in Jobs
           /\ functions.count \in Nat
<1>1. BlockInv /\ ShapeInv
  BY DEF PoolInv, BooksInv
<1>2. q \in Making
  BY DEF Making
<1>3. Cardinality(Making) # 0
  BY <1>2, FreedCount, FS_EmptySet
<1>4. nodes.count \in Nat
  BY <1>1 DEF BlockInv, NodeInv, Sound
<1>5. functions.count = nodes.count + Cardinality(Making) + Cardinality(Freed)
  BY <1>1 DEF BlockInv, BalanceInv
<1>6. functions.count # 0 /\ functions.count \in Nat
  BY <1>3, <1>4, <1>5, FreedCount
<1>7. making[q] \in Job
  BY <1>1 DEF ShapeInv
<1> QED BY <1>6, <1>7, JobCases DEF Exhausted

\* The task gets its std::function and joins the queue.
LEMMA AcceptInv ==
    ASSUME PoolInv, NEW q \in Pools, making[q] # NoJob, Accept(q), SameJobs,
           UNCHANGED <<nodes, closing, stop, crashed>>,
           count' \in [Pools -> Nat], \A p \in Pools : count'[p] <= MaxCapacity[p],
           faults' \in Nat
    PROVE  BooksInv' /\ BlockInv'
<1>1. BooksInv /\ ShapeInv /\ PlaceInv /\ BlockInv
  BY DEF PoolInv, BooksInv
<1>2. PICK old : old = making[q]
  OBVIOUS
<1>3. /\ old \in Job /\ old # NoJob /\ old \in Jobs /\ old.task \in Tasks
      /\ ~Exhausted(functions) /\ functions.count \in Nat
  BY <1>2, FunctionThere DEF Job
<1>4. PICK new : new = [old EXCEPT !.fn = BlockOf(functions)]
  OBVIOUS
<1>5. new.task = old.task /\ new.node = old.node /\ new.fn = BlockOf(functions)
  BY <1>3, <1>4 DEF Job
<1>6. /\ queue' = [queue EXCEPT ![q] = Append(@, new)]
      /\ functions' = GetBlock(functions)
      /\ making' = [making EXCEPT ![q] = NoJob]
      /\ status' = [status EXCEPT ![old.task] = "queued"]
  BY <1>2, <1>4 DEF Accept
<1>7. /\ FnInv((Jobs \ {old}) \cup {new}, functions')
      /\ functions'.count = functions.count - 1
      /\ new.fn \in Nat /\ new.fn # NoBlock
  <2>1. FnInv(Jobs, functions)
    BY <1>1 DEF BlockInv
  <2>2. /\ FnInv((Jobs \ {old}) \cup {new}, GetBlock(functions))
        /\ GetBlock(functions).count = functions.count - 1
        /\ BlockOf(functions) \in Nat /\ BlockOf(functions) # NoBlock
    BY ZenonT(60), <1>3, <1>5, <2>1, FnTake
  <2> QED BY <1>5, <1>6, <2>2
<1>8. NodeInv((Jobs \ {old}) \cup {new}, nodes')
  <2>1. NodeInv(Jobs, nodes)
    BY <1>1 DEF BlockInv
  <2> QED BY <1>3, <1>5, <2>1, NodeSame
<1>9. new \in Job /\ new # NoJob
  BY <1>3, <1>4, <1>7, NotAJob DEF Job
<1>10. /\ status[old.task] = "making" /\ PoolOf[old.task] = q
       /\ old.fn = NoBlock
  BY <1>1, <1>2 DEF PlaceInv
<1>11. /\ making' \in [Pools -> Job \cup {NoJob}] /\ making'[q] = NoJob
       /\ \A p \in Pools : p # q => making'[p] = making[p]
  BY <1>1, <1>6 DEF ShapeInv
<1>12. /\ status' \in [Tasks -> {"new", "refused", "making", "queued", "running", "done",
                                 "dropped"}]
       /\ status'[old.task] = "queued" /\ \A u \in Tasks : u # old.task => status'[u] = status[u]
  BY <1>1, <1>3, <1>6 DEF ShapeInv
<1>13. queue[q] \in Seq(Job) /\ Len(queue[q]) \in Nat /\ DOMAIN queue[q] = 1 .. Len(queue[q])
  BY <1>1, QueueFacts
<1>14. /\ queue' \in [Pools -> Seq(Job)] /\ queue'[q] = Append(queue[q], new)
       /\ \A p \in Pools : p # q => queue'[p] = queue[p]
  BY <1>1, <1>6, <1>9, <1>13 DEF ShapeInv
<1>15. PICK k \in Nat : /\ k = Len(queue[q]) + 1 /\ DOMAIN queue'[q] = 1 .. k /\ queue'[q][k] = new
                        /\ \A i \in DOMAIN queue[q] : i \in 1 .. k /\ i # k
                        /\ \A i \in 1 .. k : i # k =>
                              i \in DOMAIN queue[q] /\ queue'[q][i] = queue[q][i]
  BY <1>9, <1>13, <1>14
<1>16. ShapeInv'
  BY <1>1, <1>11, <1>12, <1>14 DEF ShapeInv, SameJobs
<1>17. PlaceInv'
  <2>1. ASSUME NEW p \in Pools, making'[p] # NoJob
        PROVE  /\ PoolOf[making'[p].task] = p /\ status'[making'[p].task] = "making"
               /\ making'[p].fn = NoBlock
    <3>1. p # q /\ making'[p] = making[p] /\ making[p] \in Job /\ making[p].task \in Tasks
      BY <1>1, <1>11, <2>1 DEF ShapeInv, Job
    <3>2. PoolOf[making[p].task] = p /\ status[making[p].task] = "making" /\ making[p].fn = NoBlock
      BY <1>1, <2>1, <3>1 DEF PlaceInv
    <3> QED BY <1>10, <1>12, <3>1, <3>2
  <2>2. ASSUME NEW p \in Pools, NEW i \in DOMAIN queue[p]
        PROVE  /\ queue[p][i].task \in Tasks /\ queue[p][i].task # old.task
               /\ PoolOf[queue[p][i].task] = p /\ status'[queue[p][i].task] = "queued"
               /\ queue[p][i].fn # NoBlock
    <3>1. queue[p][i].task \in Tasks
      BY <1>1, QueueFacts DEF Job
    <3> QED BY <1>1, <1>10, <1>12, <3>1 DEF PlaceInv
  <2>3. ASSUME NEW p \in Pools, NEW i \in DOMAIN queue'[p]
        PROVE  /\ PoolOf[queue'[p][i].task] = p /\ status'[queue'[p][i].task] = "queued"
               /\ queue'[p][i].fn # NoBlock
    <3>1. CASE p # q \/ i # k
      <4>1. i \in DOMAIN queue[p] /\ queue'[p][i] = queue[p][i]
        BY <1>14, <1>15, <3>1
      <4> QED BY <2>2, <4>1
    <3>2. CASE p = q /\ i = k
      BY <1>5, <1>7, <1>10, <1>12, <1>15, <3>2
    <3> QED BY <3>1, <3>2
  <2>u. \A p \in Pools : \A i, j \in DOMAIN queue[p] :
            queue[p][i].task = queue[p][j].task => i = j
    BY <1>1 DEF PlaceInv
  <2>4. ASSUME NEW p \in Pools, NEW i \in DOMAIN queue'[p], NEW j \in DOMAIN queue'[p],
               queue'[p][i].task = queue'[p][j].task
        PROVE  i = j
    <3>1. CASE p # q
      <4>1. /\ i \in DOMAIN queue[p] /\ j \in DOMAIN queue[p]
            /\ queue[p][i].task = queue[p][j].task
        BY <1>14, <2>4, <3>1
      <4> QED BY <2>u, <4>1
    <3>2. CASE p = q /\ i # k /\ j # k
      <4>1. /\ i \in DOMAIN queue[p] /\ j \in DOMAIN queue[p]
            /\ queue[p][i].task = queue[p][j].task
        BY <1>15, <2>4, <3>2
      <4> QED BY <2>u, <4>1
    <3>3. CASE p = q /\ (i = k \/ j = k)
      <4>1. \A n \in DOMAIN queue'[q] : n # k => queue'[q][n].task # old.task
        BY <1>15, <2>2
      <4>2. queue'[q][k].task = old.task
        BY <1>5, <1>15
      <4> QED BY <2>4, <3>3, <4>1, <4>2
    <3> QED BY <3>1, <3>2, <3>3
  <2>5. ASSUME NEW b \in Threads, threads'[b].job # NoJob
        PROVE  status'[threads'[b].job.task] \in {"running", "done"}
    <3>1. threads'[b].job = threads[b].job
      BY DEF SameJobs
    <3>2. threads[b].job.task \in Tasks
      BY <1>1, <2>5, <3>1, ThreadFacts DEF Job
    <3>3. status[threads[b].job.task] \in {"running", "done"}
      BY <1>1, <2>5, <3>1 DEF PlaceInv
    <3> QED BY <1>10, <1>12, <3>1, <3>2, <3>3
  <2>6. ASSUME NEW b \in Threads, NEW c \in Threads, threads'[b].job # NoJob,
               threads'[b].job.task = threads'[c].job.task
        PROVE  b = c
    BY <1>1, <2>6 DEF PlaceInv, SameJobs
  <2> QED BY <2>1, <2>3, <2>4, <2>5, <2>6 DEF PlaceInv
<1>18. Jobs' = (Jobs \ {old}) \cup {new}
  <2>h. /\ \A p \in Pools : p # q => making[p] # old
        /\ \A p \in Pools : \A i \in DOMAIN queue[p] : queue[p][i] # old
        /\ \A b \in Threads : threads[b].job # old
    BY <1>1, <1>3, <1>10 DEF PlaceInv
  <2>q. /\ \A p \in Pools : \A i \in DOMAIN queue'[p] :
              queue'[p][i] = new \/ \E n \in DOMAIN queue[p] : queue'[p][i] = queue[p][n]
        /\ \A p \in Pools : \A n \in DOMAIN queue[p] :
              \E i \in DOMAIN queue'[p] : queue'[p][i] = queue[p][n]
        /\ \E i \in DOMAIN queue'[q] : queue'[q][i] = new
    <3>1. ASSUME NEW p \in Pools, NEW i \in DOMAIN queue'[p]
          PROVE  queue'[p][i] = new \/ \E n \in DOMAIN queue[p] : queue'[p][i] = queue[p][n]
      <4>1. CASE p # q \/ i # k
        <5>1. i \in DOMAIN queue[p] /\ queue'[p][i] = queue[p][i]
          BY <1>14, <1>15, <4>1
        <5> QED BY <5>1
      <4>2. CASE p = q /\ i = k
        BY <1>15, <4>2
      <4> QED BY <4>1, <4>2
    <3>2. ASSUME NEW p \in Pools, NEW n \in DOMAIN queue[p]
          PROVE  n \in DOMAIN queue'[p] /\ queue'[p][n] = queue[p][n]
      BY <1>14, <1>15
    <3>3. k \in DOMAIN queue'[q]
      BY <1>13, <1>15
    <3> QED BY <1>15, <3>1, <3>2, <3>3
  <2>t. \A b \in Threads : threads'[b].job = threads[b].job
    BY DEF SameJobs
  <2>1. ASSUME NEW j, j \in Jobs' PROVE j = new \/ (j \in Jobs /\ j # old)
    <3>1. CASE \E p \in Pools : making'[p] = j /\ j # NoJob
      BY <1>11, <2>h, <3>1, JobCases
    <3>2. CASE \E p \in Pools : \E i \in DOMAIN queue'[p] : queue'[p][i] = j
      BY <2>h, <2>q, <3>2, JobCases
    <3>3. CASE \E b \in Threads : threads'[b].job = j /\ j # NoJob
      BY <2>h, <2>t, <3>3, JobCases
    <3> QED BY <2>1, <3>1, <3>2, <3>3, JobCasesNext
  <2>2. ASSUME NEW j, j \in Jobs, j # old PROVE j \in Jobs'
    <3>1. CASE \E p \in Pools : making[p] = j /\ j # NoJob
      BY <1>2, <1>11, <2>2, <3>1, JobCasesNext
    <3>2. CASE \E p \in Pools : \E i \in DOMAIN queue[p] : queue[p][i] = j
      BY <2>q, <3>2, JobCasesNext
    <3>3. CASE \E b \in Threads : threads[b].job = j /\ j # NoJob
      BY <2>t, <3>3, JobCasesNext
    <3> QED BY <2>2, <3>1, <3>2, <3>3, JobCases
  <2>3. new \in Jobs'
    BY <2>q, JobCasesNext
  <2> QED BY <2>1, <2>2, <2>3
<1>19. BalanceInv'
  <2>1. Making' = Making \ {q} /\ q \in Making /\ Freed' = Freed
    BY <1>2, <1>3, <1>11 DEF Making, Freed, SameJobs
  <2>2. Cardinality(Making') = Cardinality(Making) - 1
    BY <2>1, FreedCount, FS_RemoveElement
  <2>3. functions.count = nodes.count + Cardinality(Making) + Cardinality(Freed)
        /\ nodes.count \in Nat
    BY <1>1 DEF BlockInv, BalanceInv, NodeInv, Sound
  <2> QED BY <1>3, <1>7, <2>1, <2>2, <2>3, FreedCount DEF BalanceInv
<1> QED BY <1>7, <1>8, <1>16, <1>17, <1>18, <1>19 DEF BooksInv, BlockInv, SameJobs

\* Whoever is notified, the threads are the same.
LEMMA NotifiedInv ==
    ASSUME PoolInv, NEW q \in Pools, NotifyOne(q, threads)
    PROVE  SameWork(threads, threads') /\ SameJobs
<1>1. PICK ths : ths = threads
  OBVIOUS
<1>2. Staffed(ths)
  BY <1>1 DEF Staffed, PoolInv, BooksInv, ShapeInv
<1>3. NotifyOne(q, ths)
  BY <1>1
<1> QED BY <1>1, <1>2, <1>3, NotifyFacts

LEMMA EnqueueAddInv ==
    ASSUME PoolInv, NEW q \in Pools, EnqueueAdd(q)
    PROVE  PoolInv'
<1>1. ShapeInv /\ HolderInv /\ CountInv
  BY DEF PoolInv, BooksInv
<1>2. making[q] # NoJob
  BY DEF EnqueueAdd
<1>3. ~Exhausted(functions)
  BY <1>2, FunctionThere
<1>4. /\ Accept(q) /\ NotifyOne(q, threads) /\ ~crashed
      /\ UNCHANGED <<nodes, holders, count, closing, stop, faults, crashed>>
  BY <1>3 DEF EnqueueAdd
<1>5. SameWork(threads, threads') /\ SameJobs
  BY <1>4, NotifiedInv
<1>6. BooksInv' /\ BlockInv'
  BY <1>1, <1>2, <1>4, <1>5, AcceptInv DEF ShapeInv
<1>7. HolderInv'
  <2>1. \A c \in Threads : threads[c] = NoThread => threads'[c] = NoThread
    BY <1>5, NotAJob DEF SameWork, Running, Idle
  <2> QED BY <1>1, <1>4, <2>1, SameHolders
<1>8. CountInv'
  BY <1>1, <1>4, <1>5, SameLive, SameCount
<1> QED BY <1>4, <1>6, <1>7, <1>8 DEF PoolInv, NoBadPointer

\* The ThreadNode at the head of the list is nobody's.
LEMMA HolderThere ==
    ASSUME PoolInv, ~Exhausted(holders)
    PROVE  /\ Sound(GetBlock(holders), Holders)
           /\ BlockOf(holders) \in Threads /\ BlockOf(holders) \in ToSet(holders.free)
           /\ threads[BlockOf(holders)] = NoThread
           /\ ToSet(GetBlock(holders).free) = ToSet(holders.free) \ {BlockOf(holders)}
           /\ ToSet(holders.free) \subseteq Threads
           /\ GetBlock(holders).count = Len(GetBlock(holders).free)
<1>1. /\ Sound(holders, Holders) /\ holders.count = Len(holders.free)
      /\ \A b \in ToSet(holders.free) : threads[b] = NoThread
  BY DEF PoolInv, HolderInv
<1>2. Holders \in Nat
  BY BlocksNat
<1>3. holders.free \in Seq(1 .. Holders) /\ holders.free # <<>> /\ holders.count # 0
  BY <1>1, <1>2, SoundFacts DEF Exhausted
<1>4. /\ Sound(GetBlock(holders), Holders)
      /\ BlockOf(holders) \in 1 .. Holders /\ BlockOf(holders) \in ToSet(holders.free)
      /\ ToSet(GetBlock(holders).free) = ToSet(holders.free) \ {BlockOf(holders)}
      /\ GetBlock(holders).count = holders.count - 1
      /\ Len(GetBlock(holders).free) = Len(holders.free) - 1
  BY <1>1, <1>2, <1>3, GetFacts
<1>5. ToSet(holders.free) \subseteq Threads
  BY <1>3, SetOfSeq DEF Threads
<1> QED BY <1>1, <1>4, <1>5 DEF Threads

LEMMA EnqueueGrowFailsInv ==
    ASSUME PoolInv, NEW q \in Pools, EnqueueGrowFails(q)
    PROVE  PoolInv'
<1>1. ShapeInv /\ HolderInv /\ CountInv
  BY DEF PoolInv, BooksInv
<1>2. /\ making[q] # NoJob /\ Accept(q) /\ NotifyOne(q, threads) /\ ~crashed
      /\ UNCHANGED <<nodes, count, closing, stop, crashed>>
  BY DEF EnqueueGrowFails
<1>3. \/ UNCHANGED <<holders, faults>>
      \/ /\ ~Exhausted(holders) /\ faults' = faults + 1
         /\ holders' = FreeBlock(GetBlock(holders), BlockOf(holders))
  BY DEF EnqueueGrowFails
<1>4. SameWork(threads, threads') /\ SameJobs
  BY <1>2, NotifiedInv
<1>5. faults \in Nat /\ faults' \in Nat /\ (faults' = 0 => faults = 0)
  BY <1>1, <1>3 DEF ShapeInv
<1>6. BooksInv' /\ BlockInv'
  BY <1>1, <1>2, <1>4, <1>5, AcceptInv DEF ShapeInv
<1>7. \A c \in Threads : threads[c] = NoThread => threads'[c] = NoThread
  BY <1>4, NotAJob DEF SameWork, Running, Idle
<1>8. HolderInv'
  <2>1. CASE holders' = holders
    BY <1>1, <1>7, <2>1, SameHolders
  <2>2. CASE /\ ~Exhausted(holders)
             /\ holders' = FreeBlock(GetBlock(holders), BlockOf(holders))
    <3>1. /\ Sound(GetBlock(holders), Holders)
          /\ BlockOf(holders) \in 1 .. Holders /\ BlockOf(holders) \in ToSet(holders.free)
          /\ ToSet(GetBlock(holders).free) = ToSet(holders.free) \ {BlockOf(holders)}
          /\ ToSet(holders.free) \subseteq Threads
          /\ GetBlock(holders).count = Len(GetBlock(holders).free)
      BY <2>2, HolderThere DEF Threads
    <3>2. Holders \in Nat /\ Len(GetBlock(holders).free) \in Nat
      BY <3>1, BlocksNat, SoundFacts
    <3>3. GivenBack(GetBlock(holders), Holders, {BlockOf(holders)}, 1, holders')
      BY <2>2, <3>1, <3>2, FreeFacts
    <3>4. /\ Sound(holders', Holders) /\ holders'.count = Len(holders'.free)
          /\ ToSet(holders'.free) = ToSet(holders.free)
      BY <3>1, <3>2, <3>3 DEF GivenBack
    <3> QED BY <1>1, <1>7, <3>1, <3>4 DEF HolderInv
  <2> QED BY <1>3, <2>1, <2>2
<1>9. CountInv'
  <2> SUFFICES ASSUME NEW p \in Pools, closing'[p] = "no"
               PROVE  /\ count'[p] >= Cardinality(Live(p)')
                      /\ faults' = 0 => count'[p] = Cardinality(Live(p)')
    BY DEF CountInv
  <2>1. Live(p)' = Live(p)
    BY <1>4, SameLive
  <2> QED BY <1>1, <1>2, <1>5, <2>1 DEF CountInv
<1> QED BY <1>2, <1>6, <1>8, <1>9 DEF PoolInv, NoBadPointer

LEMMA EnqueueGrowInv ==
    ASSUME PoolInv, NEW q \in Pools, EnqueueGrow(q)
    PROVE  PoolInv'
<1>1. ShapeInv /\ HolderInv /\ CountInv
  BY DEF PoolInv, BooksInv
<1>2. /\ making[q] # NoJob /\ Accept(q) /\ ~crashed /\ ~Exhausted(holders)
      /\ count[q] < MaxCapacity[q] /\ count' = [count EXCEPT ![q] = @ + 1]
      /\ holders' = GetBlock(holders)
      /\ UNCHANGED <<nodes, closing, stop, faults, crashed>>
  BY DEF EnqueueGrow, MayGrow
<1>3. PICK n : n = BlockOf(holders)
  OBVIOUS
<1>4. /\ Sound(holders', Holders) /\ n \in Threads /\ threads[n] = NoThread
      /\ ToSet(holders'.free) = ToSet(holders.free) \ {n}
      /\ ToSet(holders.free) \subseteq Threads /\ holders'.count = Len(holders'.free)
  BY <1>2, <1>3, HolderThere
<1>5. PICK node : node = [NoThread EXCEPT !.pool = q, !.pc = "top"]
  OBVIOUS
<1>6. /\ node \in ThreadNode /\ node.pool = q /\ node.pc = "top" /\ node.job = NoJob
  <2>1. PICK core \in BOOLEAN : core = FALSE
    BY Zenon
  <2>2. NoThread = [pool |-> NoBlock, core |-> core, pc |-> "none", job |-> NoJob]
    BY Zenon, <2>1 DEF NoThread
  <2>3. node = [pool |-> q, core |-> core, pc |-> "top", job |-> NoJob]
    BY <1>5, <2>2
  <2> QED BY <2>1, <2>3 DEF ThreadNode, Idle
<1>7. PICK ths : ths = [threads EXCEPT ![n] = node]
  OBVIOUS
<1>8. /\ ths \in [Threads -> ThreadNode \cup {NoThread}] /\ ths[n] = node
      /\ \A b \in Threads : b # n => ths[b] = threads[b]
  BY <1>1, <1>4, <1>6, <1>7 DEF ShapeInv
<1>9. Staffed(ths)
  BY <1>4, <1>6, <1>8 DEF Staffed
<1>10. NotifyOne(q, ths)
  BY <1>3, <1>5, <1>7 DEF EnqueueGrow
<1>11. SameWork(ths, threads') /\ SameJobs
  BY <1>9, <1>10, NotifyFacts
<1>12. /\ count' \in [Pools -> Nat] /\ \A p \in Pools : count'[p] <= MaxCapacity[p]
       /\ count'[q] = count[q] + 1 /\ \A p \in Pools : p # q => count'[p] = count[p]
       /\ count \in [Pools -> Nat] /\ faults \in Nat
  <2>1. /\ count \in [Pools -> Nat] /\ faults \in Nat
        /\ \A p \in Pools : count[p] <= MaxCapacity[p]
    BY <1>1 DEF ShapeInv
  <2>2. \A p \in Pools : count[p] \in Nat /\ MaxCapacity[p] \in Nat
    BY <2>1, PoolAssumption
  <2>3. /\ count' \in [Pools -> Nat] /\ count'[q] = count[q] + 1
        /\ \A p \in Pools : p # q => count'[p] = count[p]
    BY <1>2, <2>1
  <2> QED BY <1>2, <2>1, <2>2, <2>3
<1>13. BooksInv' /\ BlockInv'
  BY <1>2, <1>11, <1>12, AcceptInv
<1>14. HolderInv'
  <2>1. ASSUME NEW b \in ToSet(holders'.free)
        PROVE  threads'[b] = NoThread
    <3>1. b \in Threads /\ b # n /\ threads[b] = NoThread
      BY <1>1, <1>4 DEF HolderInv
    <3>2. ths[b] = NoThread
      BY <1>8, <3>1
    <3> QED BY <1>11, <3>1, <3>2, NotAJob DEF SameWork, Running, Idle
  <2> QED BY <1>4, <2>1 DEF HolderInv
<1>15. CountInv'
  <2>1. ASSUME NEW b \in Threads
        PROVE  /\ threads'[b].pool = ths[b].pool
               /\ threads'[b].pc = "exited" <=> ths[b].pc = "exited"
    BY <1>11, SameWorkFacts
  <2>2. ASSUME NEW p \in Pools, NEW b
        PROVE  b \in Live(p)' <=> b \in Live(p) \/ (p = q /\ b = n)
    <3>1. CASE b \in Threads /\ b # n
      BY <1>8, <2>1, <3>1 DEF Live
    <3>2. CASE b = n
      BY <1>4, <1>6, <1>8, <2>1, <3>2, NotAJob, PoolAssumption DEF Live
    <3>3. CASE b \notin Threads
      BY <1>4, <3>3 DEF Live
    <3> QED BY <3>1, <3>2, <3>3
  <2>3. n \notin Live(q)
    BY <1>4, NotAJob, PoolAssumption DEF Live
  <2>4. Live(q)' = Live(q) \cup {n}
    BY <2>2
  <2>5. Cardinality(Live(q)') = Cardinality(Live(q)) + 1
    BY <2>3, <2>4, LiveFinite, FS_AddElement
  <2>6. \A p \in Pools : p # q => Live(p)' = Live(p)
    BY <2>2
  <2> SUFFICES ASSUME NEW p \in Pools, closing'[p] = "no"
               PROVE  /\ count'[p] >= Cardinality(Live(p)')
                      /\ faults' = 0 => count'[p] = Cardinality(Live(p)')
    BY DEF CountInv
  <2>7. /\ count[p] \in Nat /\ count[p] >= Cardinality(Live(p))
        /\ faults = 0 => count[p] = Cardinality(Live(p))
    BY <1>1, <1>2 DEF CountInv, ShapeInv
  <2>8. CASE p = q
    BY <1>2, <1>12, <2>5, <2>7, <2>8, LiveFinite
  <2>9. CASE p # q
    BY <1>2, <1>12, <2>6, <2>7, <2>9
  <2> QED BY <2>8, <2>9
<1> QED BY <1>2, <1>13, <1>14, <1>15 DEF PoolInv, NoBadPointer

----------------------------------------------------------------------------
(* ~ThreadPool *)

LEMMA SetToSeqFacts ==
    ASSUME NEW S, IsFiniteSet(S)
    PROVE  SetToSeq(S) \in Seq(S) /\ IsInjective(SetToSeq(S))
<1>1. Cardinality(S) \in Nat /\ ExistsBijection(1 .. Cardinality(S), S)
  BY FS_CardinalityType
<1>2. PICK f \in [1 .. Cardinality(S) -> S] : IsInjective(f)
  BY <1>1 DEF ExistsBijection, Bijection, Injection, IsInjective
<1>3. SetToSeq(S) \in [1 .. Cardinality(S) -> S] /\ IsInjective(SetToSeq(S))
  BY <1>2 DEF SetToSeq
<1> QED BY <1>1, <1>3

LEMMA JoinInv ==
    ASSUME PoolInv, NEW q \in Pools, Join(q)
    PROVE  PoolInv'
<1>1. BooksInv /\ ShapeInv /\ PlaceInv /\ PcInv /\ BlockInv /\ HolderInv /\ CountInv
  BY DEF PoolInv, BooksInv
<1>2. PICK S : S = {b \in Threads : threads[b].pool = q}
  OBVIOUS
<1>3. /\ making[q] = NoJob /\ ~crashed
      /\ \A b \in S : threads[b].pc = "exited"
      /\ closing' = [closing EXCEPT ![q] = "dead"]
      /\ holders' = FreeBlocks(holders, SetToSeq(S))
      /\ queue' = [queue EXCEPT ![q] = <<>>]
      /\ UNCHANGED <<count, making, stop, faults, crashed>>
  BY <1>2 DEF Join, Open
<1>4. /\ functions' = FreeBlocks(functions, [i \in DOMAIN queue[q] |-> queue[q][i].fn])
      /\ nodes' = FreeBlocks(nodes, [i \in DOMAIN queue[q] |-> queue[q][i].node])
  BY DEF Join
<1>5. status' = [t \in Tasks |-> IF \E i \in DOMAIN queue[q] : queue[q][i].task = t
                                   THEN "dropped" ELSE status[t]]
  BY DEF Join
<1>6. threads' = [b \in Threads |-> IF threads[b].pool = q THEN NoThread ELSE threads[b]]
  BY DEF Join
<1>7. /\ S \subseteq Threads /\ \A b \in S : threads'[b] = NoThread
      /\ \A b \in Threads : b \notin S => threads[b].pool # q /\ threads'[b] = threads[b]
  BY <1>2, <1>6
<1>8. threads' \in [Threads -> ThreadNode \cup {NoThread}]
  <2>1. \A b \in Threads : threads'[b] \in ThreadNode \cup {NoThread}
    BY <1>1, <1>7, ThreadFacts
  <2> QED BY <1>6, <2>1
<1>9. /\ queue' \in [Pools -> Seq(Job)] /\ queue'[q] = <<>> /\ DOMAIN queue'[q] = {}
      /\ \A p \in Pools : p # q => queue'[p] = queue[p]
  BY <1>1, <1>3 DEF ShapeInv
<1>10. /\ status' \in [Tasks -> {"new", "refused", "making", "queued", "running", "done",
                                 "dropped"}]
       /\ \A t \in Tasks : status[t] # "queued" \/ PoolOf[t] # q => status'[t] = status[t]
  <2>1. \A t \in Tasks : status'[t] = "dropped" \/ status'[t] = status[t]
    BY <1>5
  <2>2. \A t \in Tasks : status[t] # "queued" \/ PoolOf[t] # q =>
            ~\E i \in DOMAIN queue[q] : queue[q][i].task = t
    BY <1>1 DEF PlaceInv
  <2>3. \A t \in Tasks : status[t] # "queued" \/ PoolOf[t] # q => status'[t] = status[t]
    BY <1>5, <2>2
  <2>4. status \in [Tasks -> {"new", "refused", "making", "queued", "running", "done",
                              "dropped"}]
    BY <1>1 DEF ShapeInv
  <2> QED BY <1>5, <2>1, <2>3, <2>4
<1>11. /\ closing' \in [Pools -> {"no", "yes", "dead"}] /\ closing'[q] = "dead"
       /\ \A p \in Pools : p # q => closing'[p] = closing[p]
  BY <1>1, <1>3 DEF ShapeInv
<1>12. ShapeInv'
  BY <1>1, <1>3, <1>8, <1>9, <1>10, <1>11 DEF ShapeInv
<1>13. PcInv'
  BY <1>1, <1>7, NotAJob DEF PcInv, Running, Idle
<1>j. \A b \in Threads : threads'[b].job # NoJob => threads'[b].job = threads[b].job
  BY <1>7, NotAJob
<1>14. PlaceInv'
  <2>1. ASSUME NEW p \in Pools, making'[p] # NoJob
        PROVE  /\ PoolOf[making'[p].task] = p /\ status'[making'[p].task] = "making"
               /\ making'[p].fn = NoBlock
    <3>1. making'[p] = making[p] /\ making[p].task \in Tasks
      BY <1>1, <1>3, <2>1 DEF ShapeInv, Job
    <3> QED BY <1>1, <1>10, <2>1, <3>1 DEF PlaceInv
  <2>2. ASSUME NEW p \in Pools, NEW i \in DOMAIN queue'[p]
        PROVE  /\ PoolOf[queue'[p][i].task] = p /\ status'[queue'[p][i].task] = "queued"
               /\ queue'[p][i].fn # NoBlock
    <3>1. p # q /\ queue'[p] = queue[p] /\ i \in DOMAIN queue[p]
      BY <1>9, <2>2
    <3>2. queue[p][i].task \in Tasks
      BY <1>1, <3>1, QueueFacts DEF Job
    <3> QED BY <1>1, <1>10, <3>1, <3>2 DEF PlaceInv
  <2>3. ASSUME NEW p \in Pools, NEW i \in DOMAIN queue'[p], NEW j \in DOMAIN queue'[p],
               queue'[p][i].task = queue'[p][j].task
        PROVE  i = j
    <3>1. /\ queue'[p] = queue[p] /\ i \in DOMAIN queue[p] /\ j \in DOMAIN queue[p]
          /\ queue[p][i].task = queue[p][j].task
      BY <1>9, <2>3
    <3> QED BY <1>1, <3>1 DEF PlaceInv
  <2>4. ASSUME NEW b \in Threads, threads'[b].job # NoJob
        PROVE  /\ status'[threads'[b].job.task] \in {"running", "done"}
               /\ threads'[b].job.task \in Tasks
    <3>1. threads'[b].job = threads[b].job /\ threads[b].job \in Job /\ threads[b].job # NoJob
      BY <1>1, <1>j, <2>4, ThreadFacts
    <3>2. threads[b].job.task \in Tasks /\ status[threads[b].job.task] \in {"running", "done"}
      BY <1>1, <3>1 DEF PlaceInv, Job
    <3> QED BY <1>10, <3>1, <3>2
  <2>5. ASSUME NEW b \in Threads, NEW c \in Threads, threads'[b].job # NoJob,
               threads'[b].job.task = threads'[c].job.task
        PROVE  b = c
    <3>1. threads'[c].job # NoJob
      BY <2>4, <2>5, NotAJob, PoolAssumption
    <3>2. threads[b].job # NoJob /\ threads[b].job.task = threads[c].job.task
      BY <1>j, <2>5, <3>1
    <3> QED BY <1>1, <3>2 DEF PlaceInv
  <2> QED BY <2>1, <2>2, <2>3, <2>4, <2>5 DEF PlaceInv
<1>15. PICK s : s = queue[q]
  OBVIOUS
<1>16. PICK K : K = Jobs'
  OBVIOUS
<1>17. /\ s \in Seq(Jobs) /\ IsInjective(s) /\ \A i \in DOMAIN s : s[i].fn # NoBlock
  <2>1. s \in Seq(Job) /\ \A i \in DOMAIN s : s[i] \in Jobs
    BY <1>1, <1>15, QueueFacts, JobCases
  <2>2. IsInjective(s) /\ \A i \in DOMAIN s : s[i].fn # NoBlock
    BY <1>1, <1>15 DEF PlaceInv, IsInjective
  <2> QED BY <2>1, <2>2
<1>18. K \subseteq Jobs \ ToSet(s)
  <2> SUFFICES ASSUME NEW j \in K PROVE j \in Jobs /\ j \notin ToSet(s)
    OBVIOUS
  <2>1. \A x \in ToSet(s) : status[x.task] = "queued" /\ PoolOf[x.task] = q
    BY <1>1, <1>15 DEF PlaceInv, ToSet
  <2>2. CASE \E p \in Pools : making'[p] = j /\ j # NoJob
    <3>1. status[j.task] = "making"
      BY <1>1, <1>3, <2>2 DEF PlaceInv
    <3> QED BY <1>3, <2>1, <2>2, <3>1, JobCases
  <2>3. CASE \E p \in Pools : \E i \in DOMAIN queue'[p] : queue'[p][i] = j
    <3>1. PICK p \in Pools : p # q /\ \E i \in DOMAIN queue[p] : queue[p][i] = j
      BY <1>9, <2>3
    <3>2. PoolOf[j.task] = p
      BY <1>1, <3>1 DEF PlaceInv
    <3> QED BY <2>1, <3>1, <3>2, JobCases
  <2>4. CASE \E b \in Threads : threads'[b].job = j /\ j # NoJob
    <3>1. PICK b \in Threads : threads[b].job = j /\ j # NoJob
      BY <1>j, <2>4
    <3>2. status[j.task] \in {"running", "done"}
      BY <1>1, <3>1 DEF PlaceInv
    <3> QED BY <2>1, <3>1, <3>2, JobCases
  <2> QED BY <1>16, <2>2, <2>3, <2>4, JobCasesNext
<1>19. NodeInv(K, nodes') /\ nodes'.count = nodes.count + Len(s) /\ nodes.count \in Nat
  <2>1. PICK r : r = [i \in DOMAIN s |-> s[i].node]
    OBVIOUS
  <2>2. NodeInv(Jobs, nodes)
    BY <1>1 DEF BlockInv
  <2>3. nodes' = FreeBlocks(nodes, r)
    BY <1>4, <1>15, <2>1
  <2> QED BY ZenonT(60), <1>17, <1>18, <2>1, <2>2, <2>3, NodeGiveAll
<1>20. FnInv(K, functions') /\ functions'.count = functions.count + Len(s)
  <2>1. PICK r : r = [i \in DOMAIN s |-> s[i].fn]
    OBVIOUS
  <2>2. FnInv(Jobs, functions)
    BY <1>1 DEF BlockInv
  <2>3. functions' = FreeBlocks(functions, r)
    BY <1>4, <1>15, <2>1
  <2> QED BY <1>17, <1>18, <2>1, <2>2, <2>3, FnGiveAll
<1>21. BalanceInv'
  <2>1. Making' = Making
    BY <1>3 DEF Making
  <2>2. Freed' = Freed
    BY <1>3, <1>7, NotAJob DEF Freed
  <2>3. functions.count = nodes.count + Cardinality(Making) + Cardinality(Freed)
    BY <1>1 DEF BlockInv, BalanceInv
  <2>4. Len(s) \in Nat
    BY <1>17
  <2> QED BY <1>19, <1>20, <2>1, <2>2, <2>3, <2>4, FreedCount DEF BalanceInv
<1>22. HolderInv'
  <2>1. /\ Sound(holders, Holders) /\ holders.count = Len(holders.free)
        /\ \A b \in ToSet(holders.free) : threads[b] = NoThread
    BY <1>1 DEF HolderInv
  <2>2. Holders \in Nat /\ ToSet(holders.free) \subseteq Threads /\ Len(holders.free) \in Nat
    BY <2>1, BlocksNat, SoundFacts, SetOfSeq DEF Threads
  <2>3. IsFiniteSet(S)
    BY <1>7, ThreadsFinite, FS_Subset
  <2>4. PICK own : own = SetToSeq(S)
    OBVIOUS
  <2>5. own \in Seq(S) /\ IsInjective(own)
    BY <2>3, <2>4, SetToSeqFacts
  <2>6. own \in Seq(1 .. Holders) /\ ToSet(own) \subseteq S /\ Len(own) \in Nat
    <3>1. S \subseteq 1 .. Holders
      BY <1>7 DEF Threads
    <3>2. own \in Seq(1 .. Holders) /\ Len(own) \in Nat
      <4>1. Len(own) \in Nat /\ own = [i \in 1 .. Len(own) |-> own[i]]
            /\ \A i \in 1 .. Len(own) : own[i] \in S
        BY <2>5
      <4>2. own \in [1 .. Len(own) -> 1 .. Holders]
        BY <3>1, <4>1
      <4> QED BY <4>1, <4>2, SeqDef
    <3>3. ToSet(own) \subseteq S
      BY <2>5, SetOfSeq
    <3> QED BY <3>2, <3>3
  <2>7. ToSet(holders.free) \cap ToSet(own) = {}
    <3>1. \A b \in S : threads[b] # NoThread
      BY <1>2, NotAJob, PoolAssumption
    <3> QED BY <2>1, <2>6, <3>1
  <2>8. GivenBack(holders, Holders, ToSet(own), Len(own), holders')
    BY <1>3, <2>1, <2>2, <2>4, <2>5, <2>6, <2>7, FreeAllFacts
  <2>9. Sound(holders', Holders) /\ holders'.count = Len(holders'.free)
    BY <2>1, <2>2, <2>6, <2>8 DEF GivenBack
  <2>10. \A b \in ToSet(holders'.free) : threads'[b] = NoThread
    BY <1>7, <2>1, <2>2, <2>6, <2>8 DEF GivenBack
  <2> QED BY <2>9, <2>10 DEF HolderInv
<1>23. CountInv'
  <2>1. ASSUME NEW p \in Pools, p # q
        PROVE  Live(p)' = Live(p)
    <3>1. \A b \in S : threads[b].pool = q /\ threads'[b].pool # p
      BY <1>2, <1>7, NotAJob, PoolAssumption
    <3> QED BY <1>7, <2>1, <3>1 DEF Live
  <2> QED BY <1>1, <1>3, <1>11, <2>1, SameCount
<1> QED BY <1>3, <1>12, <1>13, <1>14, <1>16, <1>19, <1>20, <1>21, <1>22, <1>23
        DEF PoolInv, BooksInv, BlockInv, NoBadPointer

----------------------------------------------------------------------------
(* The invariant and what follows from it *)

LEMMA NextPool == PoolInv /\ [Next]_vars => PoolInv'
<1> SUFFICES ASSUME PoolInv, [Next]_vars PROVE PoolInv'
  OBVIOUS
<1>1. CASE UNCHANGED vars
  <2>1. UNCHANGED <<nodes, functions, holders, count, queue, making, threads, closing, status,
                    stop, faults, crashed>>
    BY <1>1 DEF vars
  <2>2. BooksInv /\ ShapeInv /\ PcInv /\ BlockInv /\ HolderInv /\ CountInv /\ NoBadPointer
    BY DEF PoolInv, BooksInv
  <2>3. ShapeInv' /\ PcInv'
    BY <2>1, <2>2 DEF ShapeInv, PcInv
  <2>4. BooksInv' /\ BlockInv'
    BY <2>1, <2>2, <2>3, QuietBooks
  <2>5. HolderInv'
    BY <2>1, <2>2, SameHolders
  <2>6. CountInv'
    BY <2>1, <2>2, SameCount DEF Live
  <2> QED BY <2>1, <2>2, <2>4, <2>5, <2>6 DEF PoolInv, NoBadPointer
<1>2. CASE Enqueue
  BY <1>2, RefusedInv, EnqueueNodeInv, EnqueueAddInv, EnqueueGrowInv, EnqueueGrowFailsInv
     DEF Enqueue
<1>3. CASE \E b \in Threads : ThreadStep(b)
  BY <1>3, WaitInv, PollInv, EndsInv, EndInv, FreeFunctionInv, FreeNodeInv, TimerInv
     DEF ThreadStep
<1>4. CASE \E b \in Threads : IdleOut(b) \/ Throw(b)
  BY <1>4, EndsInv
<1>5. CASE \E t \in Tasks : KillTimer(t)
  BY <1>5, KillTimerInv
<1>6. CASE \E q \in Pools : Terminate(q) \/ Join(q)
  BY <1>6, TerminateInv, JoinInv
<1> QED BY <1>1, <1>2, <1>3, <1>4, <1>5, <1>6 DEF Next

LEMMA PoolInvariant == Spec => []PoolInv
BY InitPool, NextPool, PTL DEF Spec

\* The counters of the memory pools stay between zero and what was laid in,
\* mCurrentThreadsCount between zero and mMaxPoolCapacity, and a queue holds
\* tasks of its own pool.
THEOREM PoolTypeCorrect == Spec => []TypeOK
<1>1. PoolInv => TypeOK
  <2> SUFFICES ASSUME PoolInv PROVE TypeOK
    OBVIOUS
  <2>1. ShapeInv /\ PlaceInv /\ BlockInv /\ HolderInv
    BY DEF PoolInv, BooksInv
  <2>2. Blocks \in Nat /\ Holders \in Nat /\ FunctionBlocks = Blocks
    BY BlocksNat DEF FunctionBlocks, Blocks
  <2>3. nodes.count \in 0 .. Blocks
    <3>1. nodes.count \in Nat /\ nodes.nodes \in Nat /\ nodes.count + nodes.nodes = Blocks
      BY <2>1 DEF BlockInv, NodeInv, Sound
    <3> QED BY <2>2, <3>1
  <2>4. holders.count \in 0 .. Holders
    <3>1. holders.count = Len(holders.free) /\ Sound(holders, Holders)
      BY <2>1 DEF HolderInv
    <3> QED BY <2>2, <3>1, SoundFacts
  <2>5. functions.count \in 0 .. FunctionBlocks
    <3>1. functions.count = Len(functions.free) /\ Sound(functions, Blocks)
      BY <2>1 DEF BlockInv, FnInv
    <3> QED BY <2>2, <3>1, SoundFacts
  <2>6. \A q \in Pools : count[q] \in 0 .. MaxCapacity[q]
    BY <2>1, PoolAssumption DEF ShapeInv
  <2>7. \A q \in Pools : \A i \in DOMAIN queue[q] : PoolOf[queue[q][i].task] = q
    BY <2>1 DEF PlaceInv
  <2>8. \A b \in Threads : threads[b].pool \in Pools \cup {NoBlock}
    BY <2>1, ThreadFacts, NotAJob
  <2>9. \A t \in Tasks : status[t] \in {"new", "refused", "making", "queued", "running",
                                        "done", "dropped"}
    BY <2>1 DEF ShapeInv
  <2> QED BY <2>3, <2>4, <2>5, <2>6, <2>7, <2>8, <2>9 DEF TypeOK
<1> QED BY <1>1, PoolInvariant, PTL

\* No block serves two users or is free and in use, whatever the order in
\* which callers, threads and ~ThreadPool of the pools take blocks from
\* MemoryPool and give them back, exhausted pools and tasks that throw
\* included.
THEOREM BlocksAlwaysExclusive == Spec => []BlocksExclusive
<1>1. PoolInv => BlocksExclusive
  <2> SUFFICES ASSUME PoolInv PROVE BlocksExclusive
    OBVIOUS
  <2>1. BooksInv /\ ShapeInv /\ PlaceInv /\ BlockInv /\ HolderInv
    BY DEF PoolInv, BooksInv
  <2>2. /\ \A j \in Jobs : j.node \notin ToSet(nodes.free)
        /\ \A i, j \in Jobs : i.node = j.node => i = j
        /\ IsInjective(nodes.free)
    BY <2>1 DEF BlockInv, NodeInv, Sound
  <2>3. /\ Sound(functions, Blocks)
        /\ \A j \in Jobs : j.fn # NoBlock => j.fn \notin ToSet(functions.free)
        /\ \A i, j \in Jobs : i.fn = j.fn /\ i.fn # NoBlock => i = j
    BY <2>1 DEF BlockInv, FnInv
  <2>4. /\ IsInjective(functions.free) /\ NoBlock \notin ToSet(functions.free)
    <3>1. functions.free \in Seq(1 .. Blocks) /\ IsInjective(functions.free)
      BY <2>3, BlocksNat, SoundFacts
    <3>2. ToSet(functions.free) \subseteq 1 .. Blocks
      BY <3>1, SetOfSeq
    <3> QED BY <3>1, <3>2, BlocksNat, PoolAssumption
  <2>5. /\ IsInjective(holders.free) /\ \A b \in ToSet(holders.free) : threads[b] = NoThread
    BY <2>1 DEF HolderInv, Sound
  <2>6. \A b, c \in Threads : threads[b].job # NoJob /\ threads[b].job = threads[c].job => b = c
    BY <2>1 DEF PlaceInv
  <2>7. ASSUME NEW b \in Threads, NEW q \in Pools
        PROVE  threads[b].job \notin ToSet(queue[q])
    <3>1. CASE threads[b].job = NoJob
      BY <2>1, <3>1, QueueFacts, NotAJob DEF ToSet
    <3>2. CASE threads[b].job # NoJob
      BY <2>1, <3>2, OnlyHere DEF ToSet
    <3> QED BY <3>1, <3>2
  <2>8. \A j \in Jobs : j.fn \notin ToSet(functions.free)
    BY <2>3, <2>4
  <2> QED BY <2>2, <2>3, <2>4, <2>5, <2>6, <2>7, <2>8 DEF BlocksExclusive
<1> QED BY <1>1, PoolInvariant, PTL

\* createTaskNode follows a bad pointer only if the allocator delivered fewer
\* TaskNodes than were asked for: the path that destroys a TaskNode nobody
\* constructed is never taken, and getBlock finds a block where its counter
\* promises one.
THEOREM BadPointerOnlyIfShort == Spec => []NoBadPointer
<1>1. PoolInv => NoBadPointer
  BY DEF PoolInv
<1> QED BY <1>1, PoolInvariant, PTL

\* mCurrentThreadsCount of an open pool is the number of its threads, and
\* larger only after a thread has ended with its task or has not been created.
THEOREM CountAlwaysReal == Spec => []CountIsReal
<1>1. PoolInv => CountIsReal
  <2> SUFFICES ASSUME PoolInv, NEW q \in Pools, closing[q] = "no"
               PROVE  /\ count[q] >= Cardinality(Live(q))
                      /\ count[q] > Cardinality(Live(q)) => faults > 0
    BY DEF CountIsReal
  <2>1. /\ count[q] \in Nat /\ count[q] >= Cardinality(Live(q)) /\ faults \in Nat
        /\ faults = 0 => count[q] = Cardinality(Live(q))
    BY DEF PoolInv, CountInv, BooksInv, ShapeInv
  <2> QED BY <2>1, LiveFinite
<1> QED BY <1>1, PoolInvariant, PTL

============================================================================
