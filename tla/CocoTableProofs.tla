-------------------------- MODULE CocoTableProofs --------------------------
EXTENDS CocoTable, TLAPS, WellFoundedInduction

\* Proofs about CocoTable, for every set of requests, resources, units, policies
\* and values. The invariant IInv adds two things to the properties of CocoTable:
\*   LoopInv       the nodes still to be handled are distinct nodes of the one
\*                 request the consumer works on;
\*   GlobalRecord  for a resource with one unit of conflict, the recorded priority
\*                 is that of the highest non-empty list, whose head is in effect.
\* GlobalEffectIsBest alone is not inductive: applyAction decides from the record,
\* not from the lists. TableMatchesRequests is needed for the removals: it places
\* the node to be unlinked in the list that its indices select.

\* A non-empty set of naturals has a least element.
LEMMA LeastElement ==
    ASSUME NEW S \in SUBSET Nat, S # {}
    PROVE  \E i \in S : \A j \in S : i <= j
<1>1. PICK i \in S : \A j \in S : ~(<<j, i>> \in OpToRel(<, Nat))
  BY NatLessThanWellFounded, WFMin
<1>2. ASSUME NEW j \in S PROVE i <= j
  <2>1. <<j, i>> \in {ss \in Nat \X Nat : ss[1] < ss[2]} <=> j < i
    OBVIOUS
  <2> QED BY <1>1, <2>1 DEF OpToRel
<1> QED BY <1>2

\* Elements of a concatenation.
LEMMA ConcatFacts ==
    ASSUME NEW T, NEW s \in Seq(T), NEW t \in Seq(T)
    PROVE  /\ s \o t \in Seq(T)
           /\ Len(s \o t) = Len(s) + Len(t)
           /\ \A i \in 1 .. Len(s) + Len(t) :
                 (s \o t)[i] = IF i <= Len(s) THEN s[i] ELSE t[i - Len(s)]
OBVIOUS

\* The elements of a list after insertAt: those from position k on move back by one.
LEMMA InsertAtFacts ==
    ASSUME NEW T, NEW s \in Seq(T), NEW n \in T, NEW k \in 1 .. Len(s) + 1
    PROVE  /\ InsertAt(s, k, n) \in Seq(T)
           /\ Len(InsertAt(s, k, n)) = Len(s) + 1
           /\ \A j \in 1 .. Len(s) + 1 : InsertAt(s, k, n)[j] =
                IF j < k THEN s[j] ELSE IF j = k THEN n ELSE s[j - 1]
<1> DEFINE a == SubSeq(s, 1, k - 1)
           c == SubSeq(s, k, Len(s))
           b == a \o <<n>>
<1>1. a \in Seq(T) /\ Len(a) = k - 1 /\ \A j \in 1 .. k - 1 : a[j] = s[j]
  OBVIOUS
<1>2. c \in Seq(T) /\ Len(c) = Len(s) - k + 1
      /\ \A j \in 1 .. Len(s) - k + 1 : c[j] = s[j + k - 1]
  OBVIOUS
<1>3. b \in Seq(T) /\ Len(b) = k /\ b[k] = n /\ \A j \in 1 .. k - 1 : b[j] = s[j]
  BY <1>1
<1>4. /\ b \o c \in Seq(T)
      /\ Len(b \o c) = Len(s) + 1
      /\ \A j \in 1 .. Len(s) + 1 : (b \o c)[j] = IF j <= k THEN b[j] ELSE c[j - k]
  <2> HIDE DEF b, c
  <2>1. b \in Seq(T) /\ c \in Seq(T)
    BY <1>2, <1>3
  <2>2. /\ b \o c \in Seq(T)
        /\ Len(b \o c) = Len(b) + Len(c)
        /\ \A i \in 1 .. Len(b) + Len(c) :
              (b \o c)[i] = IF i <= Len(b) THEN b[i] ELSE c[i - Len(b)]
    BY <2>1, ConcatFacts
  <2>3. Len(b) = k /\ Len(c) = Len(s) - k + 1
    BY <1>2, <1>3
  <2> QED BY <2>2, <2>3
<1>5. InsertAt(s, k, n) = b \o c
  BY DEF InsertAt
<1> HIDE DEF a, b, c
<1> QED
  <2>1. ASSUME NEW j \in 1 .. Len(s) + 1
        PROVE  (b \o c)[j] = IF j < k THEN s[j] ELSE IF j = k THEN n ELSE s[j - 1]
    <3>1. CASE j <= k
      BY <3>1, <1>3, <1>4
    <3>0. j <= k \/ j > k
      OBVIOUS
    <3>2. CASE j > k
      <4>1. j - k \in 1 .. Len(s) - k + 1
        BY <3>2
      <4>2. c[j - k] = s[j - k + k - 1]
        BY <1>2, <4>1
      <4>3. j - k + k - 1 = j - 1
        OBVIOUS
      <4>4. c[j - k] = s[j - 1]
        BY <4>2, <4>3
      <4>5. (b \o c)[j] = c[j - k]
        BY <3>2, <1>4
      <4> QED BY <3>2, <4>4, <4>5
    <3> QED BY <3>0, <3>1, <3>2
  <2> QED BY <1>4, <1>5, <2>1

\* The elements of a list after a node at position k was taken out.
LEMMA RemoveAtFacts ==
    ASSUME NEW T, NEW s \in Seq(T), NEW k \in 1 .. Len(s)
    PROVE  /\ RemoveAt(s, k) \in Seq(T)
           /\ Len(RemoveAt(s, k)) = Len(s) - 1
           /\ \A j \in 1 .. Len(s) - 1 : RemoveAt(s, k)[j] =
                IF j < k THEN s[j] ELSE s[j + 1]
<1> DEFINE a == SubSeq(s, 1, k - 1)
           c == SubSeq(s, k + 1, Len(s))
<1>1. a \in Seq(T) /\ Len(a) = k - 1 /\ \A j \in 1 .. k - 1 : a[j] = s[j]
  OBVIOUS
<1>2. c \in Seq(T) /\ Len(c) = Len(s) - k
      /\ \A j \in 1 .. Len(s) - k : c[j] = s[j + k]
  OBVIOUS
<1>3. /\ a \o c \in Seq(T)
      /\ Len(a \o c) = Len(s) - 1
      /\ \A j \in 1 .. Len(s) - 1 :
            (a \o c)[j] = IF j < k THEN a[j] ELSE c[j - (k - 1)]
  <2> HIDE DEF a, c
  <2>1. a \in Seq(T) /\ c \in Seq(T)
    BY <1>1, <1>2
  <2>2. /\ a \o c \in Seq(T)
        /\ Len(a \o c) = Len(a) + Len(c)
        /\ \A i \in 1 .. Len(a) + Len(c) :
              (a \o c)[i] = IF i <= Len(a) THEN a[i] ELSE c[i - Len(a)]
    BY <2>1, ConcatFacts
  <2>3. Len(a) = k - 1 /\ Len(c) = Len(s) - k
    BY <1>1, <1>2
  <2>4. Len(s) \in Nat /\ Len(a) + Len(c) = Len(s) - 1
    BY <2>3
  <2>5. \A j \in 1 .. Len(s) - 1 : (a \o c)[j] = IF j < k THEN a[j] ELSE c[j - (k - 1)]
    <3> SUFFICES ASSUME NEW j \in 1 .. Len(s) - 1
                 PROVE  (a \o c)[j] = IF j < k THEN a[j] ELSE c[j - (k - 1)]
      OBVIOUS
    <3>1. j <= k - 1 <=> j < k
      OBVIOUS
    <3> QED BY <2>2, <2>3, <2>4, <3>1
  <2> QED BY <2>2, <2>4, <2>5
<1>4. RemoveAt(s, k) = a \o c
  BY DEF RemoveAt
<1> HIDE DEF a, c
<1> QED
  <2>1. ASSUME NEW j \in 1 .. Len(s) - 1
        PROVE  (a \o c)[j] = IF j < k THEN s[j] ELSE s[j + 1]
    <3>1. CASE j < k
      BY <3>1, <1>1, <1>3
    <3>0. j < k \/ j >= k
      OBVIOUS
    <3>2. CASE j >= k
      <4>1. j - (k - 1) \in 1 .. Len(s) - k
        BY <3>2
      <4>2. c[j - (k - 1)] = s[j - (k - 1) + k]
        BY <1>2, <4>1
      <4>3. j - (k - 1) + k = j + 1
        OBVIOUS
      <4>4. c[j - (k - 1)] = s[j + 1]
        BY <4>2, <4>3
      <4>5. (a \o c)[j] = c[j - (k - 1)]
        BY <3>2, <1>3
      <4> QED BY <3>2, <4>4, <4>5
    <3> QED BY <3>0, <3>1, <3>2
  <2> QED BY <1>3, <1>4, <2>1
----------------------------------------------------------------------------
(* The lists of the table *)

\* insertWithPolicy finds a position between the head and one past the end.
LEMMA InsertPositionRange ==
    ASSUME NEW s \in Seq(Node), NEW n
    PROVE  InsertPosition(s, n) \in 1 .. Len(s) + 1
<1> DEFINE after == {i \in 1 .. Len(s) : Precedes(n, s[i])}
<1>0. Len(s) \in Nat
  OBVIOUS
<1>1. CASE Policy[n.res] = "instant_apply"
  BY <1>0, <1>1 DEF InsertPosition
<1>2. CASE Policy[n.res] # "instant_apply" /\ after = {}
  BY <1>0, <1>2 DEF InsertPosition
<1>3. CASE Policy[n.res] # "instant_apply" /\ after # {}
  <2>0. after \in SUBSET Nat /\ after # {}
    BY <1>0, <1>3
  <2>1. \E i \in after : \A j \in after : i <= j
    <3> HIDE DEF after
    <3> QED BY <2>0, LeastElement
  <2>2. InsertPosition(s, n) = CHOOSE i \in after : \A j \in after : i <= j
    BY <1>3 DEF InsertPosition
  <2>3. InsertPosition(s, n) \in after
    <3> HIDE DEF after
    <3> QED BY <2>1, <2>2
  <2> QED BY <1>0, <2>3
<1> QED BY <1>1, <1>2, <1>3

\* Linking keeps what was in the list and adds the node; the head is the node or
\* stays what it was.
LEMMA LinkFacts ==
    ASSUME NEW s \in Seq(Node), NEW n \in Node
    PROVE  /\ Link(s, n) \in Seq(Node)
           /\ Link(s, n) # <<>>
           /\ ToSet(Link(s, n)) = ToSet(s) \cup {n}
           /\ Head(Link(s, n)) # n => s # <<>> /\ Head(Link(s, n)) = Head(s)
           /\ n \notin ToSet(s) /\ IsInjective(s) => IsInjective(Link(s, n))
<1> DEFINE k == InsertPosition(s, n)
           t == InsertAt(s, k, n)
<1>1. k \in 1 .. Len(s) + 1
  BY InsertPositionRange
<1>2. /\ t \in Seq(Node)
      /\ Len(t) = Len(s) + 1
      /\ \A j \in 1 .. Len(s) + 1 : t[j] = IF j < k THEN s[j] ELSE IF j = k THEN n ELSE s[j - 1]
  <2> HIDE DEF k
  <2> QED BY <1>1, InsertAtFacts
<1>3. Link(s, n) = t
  BY DEF Link
<1>4. Len(s) \in Nat /\ DOMAIN s = 1 .. Len(s) /\ DOMAIN t = 1 .. Len(s) + 1
  BY <1>2
<1> HIDE DEF t, k
<1>5. t # <<>>
  BY <1>2, <1>4
<1>6. ToSet(t) = ToSet(s) \cup {n}
  <2>1. ASSUME NEW j \in 1 .. Len(s) + 1 PROVE t[j] \in ToSet(s) \cup {n}
    <3>1. CASE j = k
      BY <3>1, <1>2
    <3>2. CASE j < k
      <4>1. j \in DOMAIN s /\ t[j] = s[j]
        BY <3>2, <1>1, <1>2, <1>4
      <4> QED BY <4>1 DEF ToSet
    <3>3. CASE j > k
      <4>1. j - 1 \in DOMAIN s /\ t[j] = s[j - 1]
        BY <3>3, <1>1, <1>2, <1>4
      <4> QED BY <4>1 DEF ToSet
    <3>4. j < k \/ j = k \/ j > k
      BY <1>1, <1>4
    <3> QED BY <3>1, <3>2, <3>3, <3>4
  <2>2. n \in ToSet(t)
    BY <1>1, <1>2, <1>4 DEF ToSet
  <2>3. ASSUME NEW i \in 1 .. Len(s) PROVE s[i] \in ToSet(t)
    <3>0. i < k \/ i >= k
      BY <1>1, <1>4
    <3>1. CASE i < k
      <4>1. i \in DOMAIN t /\ t[i] = s[i]
        BY <3>1, <1>1, <1>2, <1>4
      <4> QED BY <4>1 DEF ToSet
    <3>2. CASE i >= k
      <4>1. t[i + 1] = s[i + 1 - 1]
        BY <3>2, <1>1, <1>2, <1>4
      <4>2. i + 1 - 1 = i /\ i + 1 \in DOMAIN t
        BY <1>4
      <4> QED BY <4>1, <4>2 DEF ToSet
    <3> QED BY <3>0, <3>1, <3>2
  <2>4. ToSet(t) \subseteq ToSet(s) \cup {n}
    BY <2>1, <1>4 DEF ToSet
  <2>5. ToSet(s) \subseteq ToSet(t)
    BY <2>3, <1>4 DEF ToSet
  <2> QED BY <2>2, <2>4, <2>5
<1>7. Head(t) # n => s # <<>> /\ Head(t) = Head(s)
  <2>1. Head(t) = t[1]
    BY <1>2, <1>5
  <2>2. CASE k = 1
    BY <2>1, <2>2, <1>2, <1>4
  <2>3. CASE k # 1
    <3>1. 1 < k /\ Len(s) >= 1
      BY <2>3, <1>1, <1>4
    <3>2. t[1] = s[1]
      BY <3>1, <1>2, <1>4
    <3>3. s # <<>> /\ Head(s) = s[1]
      BY <3>1
    <3> QED BY <2>1, <3>2, <3>3
  <2> QED BY <2>2, <2>3
<1>8. ASSUME n \notin ToSet(s), IsInjective(s) PROVE IsInjective(t)
  <2> DEFINE old(j) == IF j < k THEN j ELSE j - 1
  <2>1. ASSUME NEW j \in 1 .. Len(s) + 1, j # k
        PROVE  old(j) \in 1 .. Len(s) /\ t[j] = s[old(j)]
    <3>1. old(j) \in 1 .. Len(s)
      BY <2>1, <1>1, <1>4
    <3>2. t[j] = s[old(j)]
      BY <2>1, <1>1, <1>2, <1>4
    <3> QED BY <3>1, <3>2
  <2>2. \A i \in 1 .. Len(s) : s[i] # n
    BY <1>8, <1>4 DEF ToSet
  <2>3. t[k] = n
    BY <1>1, <1>2, <1>4
  <2>4. \A i, j \in 1 .. Len(s) + 1 : i # k /\ j # k /\ old(i) = old(j) => i = j
    BY <1>1, <1>4
  <2>5. \A i, j \in 1 .. Len(s) : s[i] = s[j] => i = j
    BY <1>8, <1>4 DEF IsInjective
  <2> HIDE DEF old
  <2>6. ASSUME NEW i \in 1 .. Len(s) + 1, NEW j \in 1 .. Len(s) + 1, t[i] = t[j]
        PROVE  i = j
    <3>1. CASE i = k /\ j = k
      BY <3>1
    <3>2. CASE i # k /\ j = k
      BY <3>2, <2>1, <2>2, <2>3, <2>6
    <3>3. CASE i = k /\ j # k
      BY <3>3, <2>1, <2>2, <2>3, <2>6
    <3>4. CASE i # k /\ j # k
      BY <3>4, <2>1, <2>4, <2>5, <2>6
    <3> QED BY <3>1, <3>2, <3>3, <3>4
  <2> QED BY <2>6, <1>4 DEF IsInjective
<1> QED BY <1>2, <1>3, <1>5, <1>6, <1>7, <1>8

\* Unlinking a node that is in a list takes one occurrence of it out and nothing
\* else; another head stays the head.
LEMMA UnlinkFacts ==
    ASSUME NEW s \in Seq(Node), NEW n \in ToSet(s), IsInjective(s)
    PROVE  /\ Unlink(s, n) \in Seq(Node)
           /\ ToSet(Unlink(s, n)) = ToSet(s) \ {n}
           /\ IsInjective(Unlink(s, n))
           /\ Head(s) # n => Unlink(s, n) # <<>> /\ Head(Unlink(s, n)) = Head(s)
<1> DEFINE k == PositionOf(s, n)
           t == RemoveAt(s, k)
<1>0. Len(s) \in Nat /\ DOMAIN s = 1 .. Len(s)
  OBVIOUS
<1>1. k \in 1 .. Len(s) /\ s[k] = n
  BY <1>0 DEF PositionOf, ToSet
<1>2. /\ t \in Seq(Node)
      /\ Len(t) = Len(s) - 1
      /\ \A j \in 1 .. Len(s) - 1 : t[j] = IF j < k THEN s[j] ELSE s[j + 1]
  BY <1>1, RemoveAtFacts
<1>3. Unlink(s, n) = t
  BY DEF Unlink
<1>4. DOMAIN t = 1 .. Len(s) - 1
  BY <1>2
<1>5. \A i, j \in 1 .. Len(s) : s[i] = s[j] => i = j
  BY <1>0 DEF IsInjective
<1> HIDE DEF t, k
<1> DEFINE new(j) == IF j < k THEN j ELSE j + 1
<1>6. ASSUME NEW j \in 1 .. Len(s) - 1
      PROVE  new(j) \in 1 .. Len(s) /\ new(j) # k /\ t[j] = s[new(j)]
  <2>1. new(j) \in 1 .. Len(s) /\ new(j) # k
    BY <1>0, <1>1
  <2>2. t[j] = s[new(j)]
    BY <1>0, <1>1, <1>2
  <2> QED BY <2>1, <2>2
<1>7. \A i, j \in 1 .. Len(s) - 1 : new(i) = new(j) => i = j
  BY <1>0, <1>1
<1>8. \A i \in 1 .. Len(s) : i # k => \E j \in 1 .. Len(s) - 1 : new(j) = i
  <2> SUFFICES ASSUME NEW i \in 1 .. Len(s), i # k
               PROVE  \E j \in 1 .. Len(s) - 1 : new(j) = i
    OBVIOUS
  <2>0. i < k \/ i > k
    BY <1>0, <1>1
  <2>1. CASE i < k
    <3>1. i \in 1 .. Len(s) - 1 /\ new(i) = i
      BY <2>1, <1>0, <1>1
    <3> QED BY <3>1
  <2>2. CASE i > k
    <3>1. i - 1 \in 1 .. Len(s) - 1 /\ new(i - 1) = i
      BY <2>2, <1>0, <1>1
    <3> QED BY <3>1
  <2> QED BY <2>0, <2>1, <2>2
<1>9. Head(s) # n => t # <<>> /\ Head(t) = Head(s)
  <2> SUFFICES ASSUME Head(s) # n PROVE t # <<>> /\ Head(t) = Head(s)
    OBVIOUS
  <2>1. Head(s) = s[1]
    BY <1>0, <1>1
  <2>2. k # 1
    BY <2>1, <1>1
  <2>3. Len(t) >= 1 /\ 1 < k
    BY <2>2, <1>0, <1>1, <1>2
  <2>4. t[1] = s[1]
    BY <2>3, <1>0, <1>2
  <2>5. t # <<>> /\ Head(t) = t[1]
    BY <2>3, <1>2
  <2> QED BY <2>1, <2>4, <2>5
<1> HIDE DEF new
<1>10. ToSet(t) = ToSet(s) \ {n}
  <2>1. ASSUME NEW j \in 1 .. Len(s) - 1 PROVE t[j] \in ToSet(s) /\ t[j] # n
    BY <1>0, <1>1, <1>5, <1>6 DEF ToSet
  <2>2. ASSUME NEW i \in 1 .. Len(s), s[i] # n PROVE s[i] \in ToSet(t)
    <3>1. i # k
      BY <2>2, <1>1
    <3>2. PICK j \in 1 .. Len(s) - 1 : new(j) = i
      BY <3>1, <1>8
    <3> QED BY <3>2, <1>4, <1>6 DEF ToSet
  <2>3. ToSet(t) \subseteq ToSet(s) \ {n}
    BY <2>1, <1>4 DEF ToSet
  <2>4. ToSet(s) \ {n} \subseteq ToSet(t)
    BY <2>2, <1>0 DEF ToSet
  <2> QED BY <2>3, <2>4
<1>11. IsInjective(t)
  <2>1. ASSUME NEW i \in 1 .. Len(s) - 1, NEW j \in 1 .. Len(s) - 1, t[i] = t[j]
        PROVE  i = j
    BY <2>1, <1>5, <1>6, <1>7
  <2> QED BY <2>1, <1>4 DEF IsInjective
<1> QED BY <1>2, <1>3, <1>9, <1>10, <1>11
----------------------------------------------------------------------------
(* The inductive invariant *)

Slots == Resource \X Unit \X Priority

\* The loop variable: todo holds distinct nodes of one request, a request under
\* insertion is admitted and a request under removal no longer is.
LoopInv ==
    /\ op = "idle" <=> todo = <<>>
    /\ \A h \in Request : \A n \in ToSet(request[h]) : n.req = h
    /\ \A h \in Request : \A i \in DOMAIN request[h] : request[h][i].idx = i
    /\ \A i, j \in DOMAIN todo : todo[i].idx = todo[j].idx => i = j
    /\ op = "insert" => \A n \in ToSet(todo) : n \in ToSet(request[n.req])
    /\ op = "remove" => \A n \in ToSet(todo) : request[n.req] = <<>>

\* For a single-unit resource the recorded priority is the highest non-empty
\* level and its head is in effect.
RecordOK(r, u) ==
    \/ /\ \A p \in Priority : table[<<r, u, p>>] = <<>>
       /\ applied[r] = NotApplied
       /\ sysfs[<<r, u>>] = Default
    \/ /\ applied[r] \in Priority
       /\ table[<<r, u, applied[r]>>] # <<>>
       /\ \A p \in Priority : p < applied[r] => table[<<r, u, p>>] = <<>>
       /\ sysfs[<<r, u>>] = Head(table[<<r, u, applied[r]>>])

GlobalRecord ==
    \A r \in Supported : \A u \in UnitsOf[r] : Listed(r) /\ Global(r) => RecordOK(r, u)

IInv == TypeOK /\ LoopInv /\ TableMatchesRequests /\ GlobalRecord /\ IdleUnitsRestored

\* The constructor of CocoTable establishes the invariant.
LEMMA InitIInv == Init => IInv
<1> SUFFICES ASSUME Init PROVE IInv
  OBVIOUS
<1>1. ToSet(<<>>) = {} /\ DOMAIN <<>> = {}
  BY DEF ToSet
<1>2. TypeOK
  BY DEF Init, TypeOK, NotApplied
<1>3. LoopInv
  BY <1>1 DEF Init, LoopInv
<1>4. TableMatchesRequests
  BY <1>1 DEF Init, TableMatchesRequests, ListsHoldOnlyDue, DueAreListed, IsInjective
<1>5. UnitsOf \in [Resource -> SUBSET Unit] /\ Supported \subseteq Resource
  BY ConstantsAssumption
<1>6. GlobalRecord
  BY <1>5 DEF Init, GlobalRecord, RecordOK
<1>7. IdleUnitsRestored
  BY <1>5 DEF Init, IdleUnitsRestored
<1> QED BY <1>2, <1>3, <1>4, <1>6, <1>7 DEF IInv

\* What the next node of a loop is.
LEMMA NextNode ==
    ASSUME TypeOK, LoopInv, todo # <<>>
    PROVE  /\ Head(todo) \in Node
           /\ Tail(todo) \in Seq(Node)
           /\ ToSet(todo) = ToSet(Tail(todo)) \cup {Head(todo)}
           /\ Head(todo) \notin ToSet(Tail(todo))
           /\ DOMAIN Tail(todo) = 1 .. Len(todo) - 1
           /\ \A i \in 1 .. Len(todo) - 1 : Tail(todo)[i] = todo[i + 1]
<1>1. todo \in Seq(Node) /\ Len(todo) \in Nat /\ Len(todo) >= 1 /\ DOMAIN todo = 1 .. Len(todo)
  BY DEF TypeOK
<1>2. Head(todo) = todo[1] /\ Head(todo) \in Node
  BY <1>1
<1>3. /\ Tail(todo) \in Seq(Node)
      /\ DOMAIN Tail(todo) = 1 .. Len(todo) - 1
      /\ \A i \in 1 .. Len(todo) - 1 : Tail(todo)[i] = todo[i + 1]
  BY <1>1
<1>4. ToSet(todo) \subseteq ToSet(Tail(todo)) \cup {Head(todo)}
  <2>1. ASSUME NEW i \in 1 .. Len(todo) PROVE todo[i] \in ToSet(Tail(todo)) \cup {Head(todo)}
    <3>1. CASE i = 1
      BY <3>1, <1>2
    <3>2. CASE i # 1
      <4>1. i - 1 \in 1 .. Len(todo) - 1 /\ i - 1 + 1 = i
        BY <3>2, <1>1
      <4>2. Tail(todo)[i - 1] = todo[i]
        BY <4>1, <1>3
      <4> QED BY <4>1, <4>2, <1>3 DEF ToSet
    <3> QED BY <3>1, <3>2
  <2> QED BY <2>1, <1>1 DEF ToSet
<1>5. ToSet(Tail(todo)) \cup {Head(todo)} \subseteq ToSet(todo)
  <2>1. \A i \in 1 .. Len(todo) - 1 : i + 1 \in DOMAIN todo
    BY <1>1
  <2>2. ToSet(Tail(todo)) \subseteq ToSet(todo)
    BY <2>1, <1>3 DEF ToSet
  <2> QED BY <2>2, <1>1, <1>2 DEF ToSet
<1>6. Head(todo) \notin ToSet(Tail(todo))
  <2>1. ASSUME NEW i \in 1 .. Len(todo) - 1 PROVE Tail(todo)[i] # Head(todo)
    <3>1. i + 1 \in DOMAIN todo /\ 1 \in DOMAIN todo /\ i + 1 # 1
      BY <1>1
    <3>2. todo[i + 1].idx # todo[1].idx
      BY <3>1 DEF LoopInv
    <3> QED BY <3>2, <1>2, <1>3
  <2> QED BY <2>1, <1>3 DEF ToSet
<1> QED BY <1>2, <1>3, <1>4, <1>5, <1>6

\* The loop part of the invariant survives every iteration.
LEMMA AdvanceLoop ==
    ASSUME TypeOK, LoopInv, todo # <<>>, Advance
    PROVE  /\ LoopInv'
           /\ todo' \in Seq(Node) /\ request' = request
           /\ op' \in {"idle", "insert", "remove"}
<1> USE DEF Advance
<1>1. Tail(todo) \in Seq(Node) /\ ToSet(Tail(todo)) \subseteq ToSet(todo)
  BY NextNode
<1>2. op # "idle" /\ op \in {"idle", "insert", "remove"}
  BY DEF LoopInv, TypeOK
<1>3. op' = "idle" <=> todo' = <<>>
  BY <1>2
<1>4. \A i, j \in DOMAIN todo' : todo'[i].idx = todo'[j].idx => i = j
  <2> SUFFICES ASSUME NEW i \in DOMAIN Tail(todo), NEW j \in DOMAIN Tail(todo),
                      Tail(todo)[i].idx = Tail(todo)[j].idx
               PROVE  i = j
    OBVIOUS
  <2>1. /\ i \in 1 .. Len(todo) - 1 /\ j \in 1 .. Len(todo) - 1
        /\ Tail(todo)[i] = todo[i + 1] /\ Tail(todo)[j] = todo[j + 1]
    BY NextNode
  <2>2. Len(todo) \in Nat /\ DOMAIN todo = 1 .. Len(todo)
    BY DEF TypeOK
  <2>3. i + 1 \in DOMAIN todo /\ j + 1 \in DOMAIN todo
    BY <2>1, <2>2
  <2>4. i + 1 = j + 1
    BY <2>1, <2>3 DEF LoopInv
  <2> QED BY <2>1, <2>2, <2>4
<1>5. op' = "insert" => op = "insert"
  BY <1>2
<1>6. op' = "remove" => op = "remove"
  BY <1>2
<1>7. LoopInv'
  BY <1>1, <1>3, <1>4, <1>5, <1>6 DEF LoopInv
<1> QED BY <1>1, <1>2, <1>7

\* After an iteration of an insertion the node it handled is due as well.
LEMMA DueAfterInsert ==
    ASSUME TypeOK, LoopInv, Loop("insert"), Advance, NEW m
    PROVE  Due(m)' <=> Due(m) \/ m = Head(todo)
<1>1. /\ ToSet(todo) = ToSet(Tail(todo)) \cup {Head(todo)}
      /\ Head(todo) \notin ToSet(Tail(todo))
  BY NextNode DEF Loop
<1>2. op = "insert" /\ request' = request /\ todo' = Tail(todo)
      /\ op' = IF Tail(todo) = <<>> THEN "idle" ELSE "insert"
  BY DEF Loop, Advance
<1>3. Head(todo) \in ToSet(request[Head(todo).req])
  BY <1>1, <1>2 DEF LoopInv
<1>4. ToSet(<<>>) = {}
  BY DEF ToSet
<1>5. Due(m) <=> m \in ToSet(request[m.req]) /\ m \notin ToSet(todo)
  BY <1>2 DEF Due
<1>6. Due(m)' <=> m \in ToSet(request[m.req]) /\ m \notin ToSet(Tail(todo))
  BY <1>2, <1>4 DEF Due
<1> QED BY <1>1, <1>3, <1>5, <1>6

\* After an iteration of a removal the node it handled is no longer due.
LEMMA DueAfterRemove ==
    ASSUME TypeOK, LoopInv, Loop("remove"), Advance, NEW m
    PROVE  Due(m)' <=> Due(m) /\ m # Head(todo)
<1>1. /\ ToSet(todo) = ToSet(Tail(todo)) \cup {Head(todo)}
      /\ Head(todo) \notin ToSet(Tail(todo))
  BY NextNode DEF Loop
<1>2. op = "remove" /\ request' = request /\ todo' = Tail(todo)
      /\ op' = IF Tail(todo) = <<>> THEN "idle" ELSE "remove"
  BY DEF Loop, Advance
<1>3. ToSet(<<>>) = {}
  BY DEF ToSet
<1>4. Head(todo) \notin ToSet(request[Head(todo).req])
  BY <1>1, <1>2, <1>3 DEF LoopInv
<1>5. Due(m) <=> m \in ToSet(todo) \/ m \in ToSet(request[m.req])
  BY <1>2 DEF Due
<1>6. Due(m)' <=> m \in ToSet(Tail(todo)) \/ m \in ToSet(request[m.req])
  BY <1>2, <1>3 DEF Due
<1> QED BY <1>1, <1>4, <1>5, <1>6
----------------------------------------------------------------------------
(* The lists and the admitted requests *)

\* The list and the sysfs node that a configuration belongs to exist.
LEMMA IndexTypes ==
    ASSUME NEW n \in Node
    PROVE  /\ ListIndex(n) \in Slots /\ Cell(n) \in Resource \X Unit
           /\ n.res \in Resource /\ n.unit \in Unit /\ n.prio \in Priority
BY DEF Node, ListIndex, Cell, Slots

\* Iterations that leave the table alone, for a node that belongs in no list.
LEMMA SkipTable ==
    ASSUME TypeOK, LoopInv, TableMatchesRequests, NEW o \in {"insert", "remove"},
           Loop(o), Advance, UNCHANGED table,
           PassThrough(Head(todo)) \/ ~InTable(Head(todo))
    PROVE  TableMatchesRequests'
<1> USE DEF TableMatchesRequests
<1>1. todo # <<>> /\ request' = request /\ todo' = Tail(todo)
  BY DEF Loop, Advance
<1>2. ToSet(Tail(todo)) \subseteq ToSet(todo)
  BY <1>1, NextNode
<1>3. ASSUME NEW m PROVE Due(m)' => Due(m) \/ m = Head(todo)
  BY DueAfterInsert, DueAfterRemove
<1>4. ASSUME NEW m, Due(m), m # Head(todo) PROVE Due(m)'
  BY <1>4, DueAfterInsert, DueAfterRemove
<1>5. ListsHoldOnlyDue'
  <2> SUFFICES ASSUME NEW slot \in Slots
               PROVE  /\ IsInjective(table[slot])
                      /\ \A n \in ToSet(table[slot]) : /\ ListIndex(n) = slot /\ Due(n)'
                                                       /\ ~PassThrough(n) /\ InTable(n)
    BY DEF ListsHoldOnlyDue, Slots, ListIndex, PassThrough, InTable
  <2>1. \A n \in ToSet(table[slot]) :
            ListIndex(n) = slot /\ Due(n) /\ ~PassThrough(n) /\ InTable(n)
    BY DEF ListsHoldOnlyDue, Slots
  <2> QED BY <2>1, <1>4 DEF ListsHoldOnlyDue, Slots
<1>6. DueAreListed'
  <2> SUFFICES ASSUME NEW h \in Request, NEW n \in ToSet(request[h]) \cup ToSet(Tail(todo)),
                      Due(n)', ~PassThrough(n), InTable(n)
               PROVE  n \in ToSet(table[ListIndex(n)])
    BY <1>1 DEF DueAreListed, PassThrough, InTable, ListOf, ListIndex
  <2> QED BY <1>2, <1>3 DEF DueAreListed, ListOf
<1> QED BY <1>5, <1>6

\* The node an insertion comes to is in no list yet, so that linking it keeps
\* the lists free of repetitions.
LEMMA HeadNotListedYet ==
    ASSUME TypeOK, LoopInv, TableMatchesRequests, Loop("insert"), NEW slot \in Slots
    PROVE  Head(todo) \notin ToSet(table[slot])
<1>1. Head(todo) \in ToSet(todo)
  BY NextNode DEF Loop
<1>2. ~Due(Head(todo))
  BY <1>1 DEF Due, Loop
<1> QED BY <1>2 DEF TableMatchesRequests, ListsHoldOnlyDue, Slots

\* Linking the next node of an insertion keeps the lists exact.
LEMMA InsertTable ==
    ASSUME IInv, InsertInCocoTable
    PROVE  TableMatchesRequests' /\ table' \in [Slots -> Seq(Node)]
<1> DEFINE n == Head(todo)
           k == ListIndex(n)
<1>1. /\ TypeOK /\ LoopInv /\ TableMatchesRequests
      /\ Loop("insert") /\ Advance
      /\ ~PassThrough(n) /\ InTable(n)
      /\ table' = [table EXCEPT ![k] = Link(@, n)]
  BY DEF IInv, InsertInCocoTable
<1>2. todo # <<>> /\ request' = request /\ todo' = Tail(todo)
  BY <1>1 DEF Loop, Advance
<1>3. n \in Node /\ ToSet(Tail(todo)) \subseteq ToSet(todo)
  BY <1>1, <1>2, NextNode
<1>4. k \in Slots /\ table \in [Slots -> Seq(Node)]
  BY <1>1, <1>3, IndexTypes DEF TypeOK, Slots
<1>5. n \notin ToSet(table[k]) /\ IsInjective(table[k])
  BY <1>1, <1>4, HeadNotListedYet DEF TableMatchesRequests, ListsHoldOnlyDue, Slots
<1> DEFINE l == Link(table[k], n)
<1>6. l \in Seq(Node) /\ ToSet(l) = ToSet(table[k]) \cup {n} /\ IsInjective(l)
  BY <1>3, <1>4, <1>5, LinkFacts
<1> HIDE DEF n, k, l
<1>7. table' \in [Slots -> Seq(Node)] /\ table'[k] = l
      /\ \A slot \in Slots : slot # k => table'[slot] = table[slot]
  BY <1>1, <1>4, <1>6 DEF l
<1>8. ASSUME NEW m PROVE Due(m)' <=> Due(m) \/ m = n
  BY <1>1, DueAfterInsert DEF n
<1>9. ListsHoldOnlyDue'
  <2> SUFFICES ASSUME NEW slot \in Slots
               PROVE  /\ IsInjective(table'[slot])
                      /\ \A m \in ToSet(table'[slot]) : /\ ListIndex(m) = slot /\ Due(m)'
                                                        /\ ~PassThrough(m) /\ InTable(m)
    BY DEF ListsHoldOnlyDue, Slots, ListIndex, PassThrough, InTable
  <2>1. \A m \in ToSet(table[slot]) :
            ListIndex(m) = slot /\ Due(m) /\ ~PassThrough(m) /\ InTable(m)
    BY <1>1 DEF TableMatchesRequests, ListsHoldOnlyDue, Slots
  <2>2. IsInjective(table[slot])
    BY <1>1 DEF TableMatchesRequests, ListsHoldOnlyDue, Slots
  <2>3. CASE slot = k
    <3>1. ~PassThrough(n) /\ InTable(n)
      BY <1>1
    <3> QED BY <2>1, <2>3, <3>1, <1>6, <1>7, <1>8 DEF k
  <2>4. CASE slot # k
    BY <2>1, <2>2, <2>4, <1>7, <1>8
  <2> QED BY <2>3, <2>4
<1>10. DueAreListed'
  <2> SUFFICES ASSUME NEW h \in Request, NEW m \in ToSet(request[h]) \cup ToSet(Tail(todo)),
                      Due(m)', ~PassThrough(m), InTable(m)
               PROVE  m \in ToSet(table'[ListIndex(m)])
    BY <1>2 DEF DueAreListed, PassThrough, InTable, ListOf, ListIndex
  <2>1. CASE m = n
    BY <2>1, <1>6, <1>7 DEF k
  <2>2. CASE m # n
    <3>1. m \in ToSet(table[ListIndex(m)])
      BY <2>2, <1>1, <1>3, <1>8 DEF TableMatchesRequests, DueAreListed, ListOf
    <3>2. m \in Node
      <4>1. ToSet(request[h]) \subseteq Node /\ ToSet(todo) \subseteq Node
        BY <1>1 DEF TypeOK, ToSet
      <4> QED BY <4>1, <1>3
    <3>3. ListIndex(m) \in Slots
      BY <3>2, IndexTypes
    <3> QED BY <3>1, <3>3, <1>6, <1>7
  <2> QED BY <2>1, <2>2
<1> QED BY <1>7, <1>9, <1>10 DEF TableMatchesRequests

\* The node a removal comes to is in its list.
LEMMA HeadListed ==
    ASSUME TypeOK, LoopInv, TableMatchesRequests, Loop("remove"),
           ~PassThrough(Head(todo)), InTable(Head(todo))
    PROVE  Head(todo) \in ToSet(ListOf(Head(todo)))
<1>1. Head(todo) \in ToSet(todo) /\ Head(todo) \in Node
  BY NextNode DEF Loop
<1>2. Due(Head(todo)) /\ Head(todo).req \in Request
  BY <1>1 DEF Due, Loop, Node
<1> QED BY <1>1, <1>2 DEF TableMatchesRequests, DueAreListed

\* Unlinking the next node of a removal keeps the lists exact.
LEMMA UnlinkTable ==
    ASSUME IInv, UnlinkHead(Head(todo))
    PROVE  TableMatchesRequests' /\ table' \in [Slots -> Seq(Node)]
<1> DEFINE n == Head(todo)
           k == ListIndex(n)
<1>1. /\ TypeOK /\ LoopInv /\ TableMatchesRequests
      /\ Loop("remove") /\ Advance
      /\ ~PassThrough(n) /\ InTable(n)
      /\ table' = [table EXCEPT ![k] = Unlink(@, n)]
  BY DEF IInv, UnlinkHead
<1>2. todo # <<>> /\ request' = request /\ todo' = Tail(todo)
  BY <1>1 DEF Loop, Advance
<1>3. n \in Node /\ ToSet(Tail(todo)) \subseteq ToSet(todo)
  BY <1>1, <1>2, NextNode
<1>4. k \in Slots /\ table \in [Slots -> Seq(Node)]
  BY <1>1, <1>3, IndexTypes DEF TypeOK, Slots
<1>5. n \in ToSet(table[k]) /\ IsInjective(table[k])
  BY <1>1, <1>4, HeadListed DEF TableMatchesRequests, ListsHoldOnlyDue, Slots, ListOf
<1> DEFINE l == Unlink(table[k], n)
<1>6. l \in Seq(Node) /\ ToSet(l) = ToSet(table[k]) \ {n} /\ IsInjective(l)
  BY <1>4, <1>5, UnlinkFacts
<1> HIDE DEF n, k, l
<1>7. table' \in [Slots -> Seq(Node)] /\ table'[k] = l
      /\ \A slot \in Slots : slot # k => table'[slot] = table[slot]
  BY <1>1, <1>4, <1>6 DEF l
<1>8. ASSUME NEW m PROVE Due(m)' <=> Due(m) /\ m # n
  BY <1>1, DueAfterRemove DEF n
<1>9. ListsHoldOnlyDue'
  <2> SUFFICES ASSUME NEW slot \in Slots
               PROVE  /\ IsInjective(table'[slot])
                      /\ \A m \in ToSet(table'[slot]) : /\ ListIndex(m) = slot /\ Due(m)'
                                                        /\ ~PassThrough(m) /\ InTable(m)
    BY DEF ListsHoldOnlyDue, Slots, ListIndex, PassThrough, InTable
  <2>1. \A m \in ToSet(table[slot]) :
            ListIndex(m) = slot /\ Due(m) /\ ~PassThrough(m) /\ InTable(m)
    BY <1>1 DEF TableMatchesRequests, ListsHoldOnlyDue, Slots
  <2>2. IsInjective(table[slot])
    BY <1>1 DEF TableMatchesRequests, ListsHoldOnlyDue, Slots
  <2>3. CASE slot = k
    BY <2>1, <2>3, <1>6, <1>7, <1>8 DEF k
  <2>4. CASE slot # k
    <3>1. n \notin ToSet(table[slot])
      BY <2>1, <2>4 DEF k
    <3> QED BY <2>1, <2>2, <2>4, <3>1, <1>7, <1>8
  <2> QED BY <2>3, <2>4
<1>10. DueAreListed'
  <2> SUFFICES ASSUME NEW h \in Request, NEW m \in ToSet(request[h]) \cup ToSet(Tail(todo)),
                      Due(m)', ~PassThrough(m), InTable(m)
               PROVE  m \in ToSet(table'[ListIndex(m)])
    BY <1>2 DEF DueAreListed, PassThrough, InTable, ListOf, ListIndex
  <2>1. m # n /\ Due(m)
    BY <1>8
  <2>2. m \in ToSet(table[ListIndex(m)])
    BY <2>1, <1>1, <1>3 DEF TableMatchesRequests, DueAreListed, ListOf
  <2>3. m \in Node
    <3>1. ToSet(request[h]) \subseteq Node /\ ToSet(todo) \subseteq Node
      BY <1>1 DEF TypeOK, ToSet
    <3> QED BY <3>1, <1>3
  <2>4. ListIndex(m) \in Slots
    BY <2>3, IndexTypes
  <2> QED BY <2>1, <2>2, <2>4, <1>6, <1>7
<1> QED BY <1>7, <1>9, <1>10 DEF TableMatchesRequests
----------------------------------------------------------------------------
(* Recorded priority and value in effect *)

\* FirstLevel is the highest priority (the least number) of a set of levels.
LEMMA FirstLevelFacts ==
    ASSUME NEW S \in SUBSET Priority, S # {}
    PROVE  FirstLevel(S) \in S /\ \A q \in S : FirstLevel(S) <= q
<1>1. S \in SUBSET Nat
  BY DEF Priority, TOTAL_PRIORITIES
<1>2. \E p \in S : \A q \in S : p <= q
  BY <1>1, LeastElement
<1> QED BY <1>2 DEF FirstLevel

\* The record of a single-unit resource determines the value in effect.
LEMMA RecordGivesEffect ==
    ASSUME TypeOK, NEW r \in Resource, NEW u \in Unit, RecordOK(r, u)
    PROVE  EffectIsBest(r, u)
<1>1. CASE \A p \in Priority : table[<<r, u, p>>] = <<>>
  <2>1. Occupied(r, u) = {}
    BY <1>1 DEF Occupied
  <2>2. sysfs[<<r, u>>] = Default
    BY <1>1 DEF RecordOK
  <2> QED BY <2>1, <2>2 DEF EffectIsBest
<1>2. CASE ~ \A p \in Priority : table[<<r, u, p>>] = <<>>
  <2> DEFINE c == applied[r]
             S == Occupied(r, u)
  <2>1. /\ c \in Priority /\ table[<<r, u, c>>] # <<>>
        /\ \A p \in Priority : p < c => table[<<r, u, p>>] = <<>>
        /\ sysfs[<<r, u>>] = Head(table[<<r, u, c>>])
    BY <1>2 DEF RecordOK
  <2>2. S \in SUBSET Priority /\ c \in S
    BY <2>1 DEF Occupied
  <2>3. FirstLevel(S) \in S /\ FirstLevel(S) <= c
    <3> HIDE DEF S, c
    <3> QED BY <2>2, FirstLevelFacts
  <2>4. FirstLevel(S) \in Priority /\ table[<<r, u, FirstLevel(S)>>] # <<>>
    BY <2>3 DEF Occupied
  <2>5. FirstLevel(S) = c
    <3> HIDE DEF S
    <3>1. ~(FirstLevel(S) < c)
      BY <2>1, <2>4
    <3>2. FirstLevel(S) \in Int /\ c \in Int
      BY <2>1, <2>4 DEF Priority, TOTAL_PRIORITIES
    <3> HIDE DEF c
    <3> QED BY <3>1, <3>2, <2>3
  <2> QED BY <2>1, <2>2, <2>5 DEF EffectIsBest
<1> QED BY <1>1, <1>2

\* A step that only touches one unit preserves the record and the idle units if
\* it leaves that unit in order.
LEMMA LocalStep ==
    ASSUME IInv, NEW n \in Node, InTable(n),
           \A r \in Resource, u \in Unit, p \in Priority :
               <<r, u>> # Cell(n) => table'[<<r, u, p>>] = table[<<r, u, p>>],
           \A r \in Resource, u \in Unit :
               <<r, u>> # Cell(n) => sysfs'[<<r, u>>] = sysfs[<<r, u>>],
           \A r \in Resource : r # n.res => applied'[r] = applied[r],
           n.res \in Supported /\ Listed(n.res) /\ Global(n.res) => RecordOK(n.res, n.unit)',
           Occupied(n.res, n.unit)' = {} => sysfs'[Cell(n)] = Default
    PROVE  GlobalRecord' /\ IdleUnitsRestored'
<1>0. UnitsOf \in [Resource -> SUBSET Unit] /\ Supported \subseteq Resource
  BY ConstantsAssumption
<1>1. GlobalRecord'
  <2> SUFFICES ASSUME NEW r \in Supported, NEW u \in UnitsOf[r], Listed(r), Global(r)
               PROVE  RecordOK(r, u)'
    BY DEF GlobalRecord, Listed, Global
  <2>0. r \in Resource /\ u \in Unit
    BY <1>0
  <2>1. CASE r = n.res
    <3>1. u = n.unit
      BY <2>1 DEF Global, InTable
    <3> QED BY <2>1, <3>1
  <2>2. CASE r # n.res
    <3>1. RecordOK(r, u)
      BY DEF IInv, GlobalRecord
    <3>2. applied'[r] = applied[r] /\ sysfs'[<<r, u>>] = sysfs[<<r, u>>]
      BY <2>0, <2>2 DEF Cell
    <3>3. \A p \in Priority : table'[<<r, u, p>>] = table[<<r, u, p>>]
      BY <2>0, <2>2 DEF Cell
    <3> QED BY <3>1, <3>2, <3>3 DEF RecordOK
  <2> QED BY <2>1, <2>2
<1>2. IdleUnitsRestored'
  <2> SUFFICES ASSUME NEW r \in Resource, NEW u \in UnitsOf[r], Listed(r),
                      Occupied(r, u)' = {}
               PROVE  sysfs'[<<r, u>>] = Default
    BY DEF IdleUnitsRestored, Listed
  <2>0. u \in Unit
    BY <1>0
  <2>1. CASE <<r, u>> = Cell(n)
    <3>1. r = n.res /\ u = n.unit
      BY <2>1 DEF Cell
    <3> QED BY <2>1, <3>1
  <2>2. CASE <<r, u>> # Cell(n)
    <3>1. Occupied(r, u)' = Occupied(r, u)
      BY <2>0, <2>2 DEF Occupied
    <3>2. sysfs[<<r, u>>] = Default
      BY <3>1 DEF IInv, IdleUnitsRestored
    <3> QED BY <3>2, <2>0, <2>2
  <2> QED BY <2>1, <2>2
<1> QED BY <1>1, <1>2

\* What applyAction may change.
LEMMA ApplyActionFacts ==
    ASSUME TypeOK, NEW n \in Node, NEW c \in Priority \cup {NotApplied}, ApplyAction(n, c)
    PROVE  /\ applied' \in [Resource -> Priority \cup {NotApplied}]
           /\ sysfs' \in [Resource \X Unit -> Node \cup {Default}]
           /\ \A r \in Resource : r # n.res => applied'[r] = applied[r]
           /\ \A s \in Resource \X Unit : s # Cell(n) => sysfs'[s] = sysfs[s]
           /\ MayApply(c, n.prio) /\ n.res \in Supported =>
                 applied'[n.res] = n.prio /\ sysfs'[Cell(n)] = n
           /\ ~(MayApply(c, n.prio) /\ n.res \in Supported) =>
                 applied'[n.res] = c /\ sysfs' = sysfs
<1>1. Cell(n) \in Resource \X Unit /\ n.res \in Resource /\ n.prio \in Priority
  BY IndexTypes
<1>2. /\ applied \in [Resource -> Priority \cup {NotApplied}]
      /\ sysfs \in [Resource \X Unit -> Node \cup {Default}]
  BY DEF TypeOK
<1>3. CASE MayApply(c, n.prio) /\ n.res \in Supported
  <2>1. /\ sysfs' = [sysfs EXCEPT ![Cell(n)] = n]
        /\ applied' = [applied EXCEPT ![n.res] = n.prio]
    BY <1>3 DEF ApplyAction
  <2> QED BY <1>1, <1>2, <1>3, <2>1
<1>4. CASE ~(MayApply(c, n.prio) /\ n.res \in Supported)
  <2>1. sysfs' = sysfs /\ applied' = [applied EXCEPT ![n.res] = c]
    BY <1>4 DEF ApplyAction
  <2> QED BY <1>1, <1>2, <1>4, <2>1
<1> QED BY <1>3, <1>4
----------------------------------------------------------------------------
(* Preservation, action by action *)

\* Iterations that touch neither the lists nor the record, and at most write the
\* sysfs node of a pass-through resource.
LEMMA PassBySteps ==
    ASSUME IInv, ApplyFastPath \/ SkipInsert \/ ResetFastPath \/ SkipRemove
    PROVE  IInv'
<1> DEFINE n == Head(todo)
<1>1. /\ TypeOK /\ LoopInv /\ TableMatchesRequests
      /\ todo # <<>> /\ Advance /\ UNCHANGED <<table, applied>>
      /\ Loop("insert") \/ Loop("remove")
      /\ PassThrough(n) \/ ~InTable(n)
  BY DEF IInv, ApplyFastPath, SkipInsert, ResetFastPath, SkipRemove, Loop
<1>2. n \in Node
  BY <1>1, NextNode
<1>3. /\ LoopInv' /\ todo' \in Seq(Node) /\ request' = request
      /\ op' \in {"idle", "insert", "remove"}
  BY <1>1, AdvanceLoop
<1>4. TableMatchesRequests'
  BY <1>1, SkipTable
<1>5. Cell(n) \in Resource \X Unit /\ n.res \in Resource
  BY <1>2, IndexTypes
<1>6. \/ sysfs' = sysfs
      \/ PassThrough(n) /\ sysfs' = [sysfs EXCEPT ![Cell(n)] = n]
      \/ PassThrough(n) /\ sysfs' = [sysfs EXCEPT ![Cell(n)] = Default]
  BY DEF ApplyFastPath, SkipInsert, ResetFastPath, SkipRemove
<1>7. sysfs' \in [Resource \X Unit -> Node \cup {Default}]
  <2>1. sysfs \in [Resource \X Unit -> Node \cup {Default}]
    BY <1>1 DEF TypeOK
  <2> HIDE DEF n
  <2> QED BY <1>2, <1>5, <1>6, <2>1
<1>8. TypeOK'
  BY <1>1, <1>3, <1>7 DEF TypeOK
<1>9. ASSUME NEW r \in Resource, NEW u \in Unit, Listed(r)
      PROVE  sysfs'[<<r, u>>] = sysfs[<<r, u>>]
  <2>1. PassThrough(n) => <<r, u>> # Cell(n)
    BY <1>9 DEF Listed, PassThrough, Cell
  <2>2. sysfs \in [Resource \X Unit -> Node \cup {Default}]
    BY <1>1 DEF TypeOK
  <2> HIDE DEF n
  <2> QED BY <1>5, <1>6, <2>1, <2>2
<1>10. UnitsOf \in [Resource -> SUBSET Unit] /\ Supported \subseteq Resource
  BY ConstantsAssumption
<1>11. GlobalRecord'
  <2> SUFFICES ASSUME NEW r \in Supported, NEW u \in UnitsOf[r], Listed(r), Global(r)
               PROVE  RecordOK(r, u)'
    BY DEF GlobalRecord, Listed, Global
  <2>1. RecordOK(r, u)
    BY DEF IInv, GlobalRecord
  <2>2. sysfs'[<<r, u>>] = sysfs[<<r, u>>]
    BY <1>9, <1>10
  <2> QED BY <1>1, <2>1, <2>2 DEF RecordOK
<1>12. IdleUnitsRestored'
  <2> SUFFICES ASSUME NEW r \in Resource, NEW u \in UnitsOf[r], Listed(r),
                      Occupied(r, u)' = {}
               PROVE  sysfs'[<<r, u>>] = Default
    BY DEF IdleUnitsRestored, Listed
  <2>1. Occupied(r, u) = {}
    BY <1>1 DEF Occupied
  <2>2. sysfs[<<r, u>>] = Default
    BY <2>1 DEF IInv, IdleUnitsRestored
  <2>3. sysfs'[<<r, u>>] = sysfs[<<r, u>>]
    BY <1>9, <1>10
  <2> QED BY <2>2, <2>3
<1> QED BY <1>3, <1>4, <1>8, <1>11, <1>12 DEF IInv

\* NodesOf numbers the configurations of a request and stamps them with it.
LEMMA NodesOfFacts ==
    ASSUME NEW h \in Request, NEW b \in Offered
    PROVE  /\ NodesOf(h, b) \in Seq(Node) /\ NodesOf(h, b) # <<>>
           /\ \A i \in DOMAIN NodesOf(h, b) : NodesOf(h, b)[i].idx = i
           /\ \A n \in ToSet(NodesOf(h, b)) : n.req = h
<1>1. /\ b.prio \in Priority
      /\ b.confs \in Seq([res : Resource, unit : Unit, val : Value])
      /\ Len(b.confs) \in 1 .. MaxResources
  BY OfferedAssumption
<1>2. MaxResources \in Nat
  BY ConstantsAssumption
<1> DEFINE s == NodesOf(h, b)
           k == Len(b.confs)
           rec(i) == [req |-> h, idx |-> i, res |-> b.confs[i].res, unit |-> b.confs[i].unit,
                      val |-> b.confs[i].val, prio |-> b.prio]
<1>3. s = [i \in 1 .. k |-> rec(i)]
  BY DEF NodesOf
<1>4. ASSUME NEW i \in 1 .. k PROVE rec(i) \in Node
  <2> DEFINE Conf == [res : Resource, unit : Unit, val : Value]
             c == b.confs
  <2>0. i \in 1 .. MaxResources
    BY <1>1, <1>2
  <2>1. c[i] \in Conf
    <3>1. c \in Seq(Conf) /\ i \in 1 .. Len(c)
      BY <1>1
    <3> HIDE DEF Conf, c
    <3> QED BY <3>1
  <2> QED BY <1>1, <2>0, <2>1 DEF Node
<1>5. \A i \in 1 .. k : rec(i).idx = i /\ rec(i).req = h
  OBVIOUS
<1>6. k \in Nat /\ k >= 1
  BY <1>1, <1>2
<1> HIDE DEF s, rec, k
<1>7. s \in Seq(Node) /\ Len(s) = k /\ DOMAIN s = 1 .. k
  BY <1>3, <1>4, <1>6
<1>8. s # <<>>
  BY <1>6, <1>7
<1>9. \A i \in DOMAIN s : s[i].idx = i /\ s[i].req = h
  BY <1>3, <1>5, <1>7
<1>10. \A n \in ToSet(s) : n.req = h
  BY <1>9 DEF ToSet
<1> QED BY <1>7, <1>8, <1>9, <1>10 DEF s

\* The start of insertRequest: the nodes of the new request are still to be handled.
LEMMA BeginInsertStep ==
    ASSUME IInv, NEW h \in Request, NEW b \in Offered, BeginInsert(h, b)
    PROVE  IInv'
<1> DEFINE s == NodesOf(h, b)
<1>1. /\ s \in Seq(Node) /\ s # <<>>
      /\ \A i \in DOMAIN s : s[i].idx = i
      /\ \A n \in ToSet(s) : n.req = h
  BY NodesOfFacts
<1>2. /\ op = "idle" /\ op' = "insert" /\ request[h] = <<>>
      /\ request' = [request EXCEPT ![h] = s] /\ todo' = s
      /\ UNCHANGED <<table, applied, sysfs>>
  BY DEF BeginInsert
<1> HIDE DEF s
<1>3. TypeOK /\ LoopInv /\ TableMatchesRequests
  BY DEF IInv
<1>4. todo = <<>> /\ request \in [Request -> Seq(Node)]
  BY <1>2, <1>3 DEF LoopInv, TypeOK
<1>5. request'[h] = s /\ \A g \in Request : g # h => request'[g] = request[g]
  BY <1>2, <1>4
<1>6. TypeOK'
  BY <1>1, <1>2, <1>3 DEF TypeOK
<1>7. LoopInv'
  <2>1. \A g \in Request : \A n \in ToSet(request'[g]) : n.req = g
    BY <1>1, <1>3, <1>5 DEF LoopInv
  <2>2. \A g \in Request : \A i \in DOMAIN request'[g] : request'[g][i].idx = i
    BY <1>1, <1>3, <1>5 DEF LoopInv
  <2>3. \A n \in ToSet(todo') : n \in ToSet(request'[n.req])
    BY <1>1, <1>2, <1>5
  <2>4. \A i, j \in DOMAIN todo' : todo'[i].idx = todo'[j].idx => i = j
    BY <1>1, <1>2
  <2> QED BY <1>1, <1>2, <2>1, <2>2, <2>3, <2>4 DEF LoopInv
<1>8. ToSet(<<>>) = {}
  BY DEF ToSet
<1>9. ASSUME NEW m \in Node PROVE Due(m)' <=> Due(m)
  <2>0. m.req \in Request
    BY DEF Node
  <2>1. Due(m) <=> m \in ToSet(request[m.req])
    BY <1>2 DEF Due
  <2>2. Due(m)' <=> m \in ToSet(request'[m.req]) /\ m \notin ToSet(s)
    BY <1>2 DEF Due
  <2>3. CASE m.req = h
    BY <2>1, <2>2, <2>3, <1>2, <1>5, <1>8
  <2>4. CASE m.req # h
    BY <2>0, <2>1, <2>2, <2>4, <1>1, <1>5
  <2> QED BY <2>3, <2>4
<1>10. ListsHoldOnlyDue'
  <2> SUFFICES ASSUME NEW slot \in Slots
               PROVE  /\ IsInjective(table[slot])
                      /\ \A n \in ToSet(table[slot]) : /\ ListIndex(n) = slot /\ Due(n)'
                                                       /\ ~PassThrough(n) /\ InTable(n)
    BY <1>2 DEF ListsHoldOnlyDue, Slots, ListIndex, PassThrough, InTable
  <2>1. ToSet(table[slot]) \subseteq Node
    BY <1>3 DEF TypeOK, Slots, ToSet
  <2> QED BY <2>1, <1>3, <1>9 DEF TableMatchesRequests, ListsHoldOnlyDue, Slots
<1>11. DueAreListed'
  <2> SUFFICES ASSUME NEW g \in Request, NEW n \in ToSet(request'[g]) \cup ToSet(s),
                      Due(n)', ~PassThrough(n), InTable(n)
               PROVE  n \in ToSet(table[ListIndex(n)])
    BY <1>2 DEF DueAreListed, PassThrough, InTable, ListOf, ListIndex
  <2>1. n \in Node
    <3>1. ToSet(request'[g]) \subseteq Node /\ ToSet(s) \subseteq Node
      BY <1>1, <1>6 DEF TypeOK, ToSet
    <3> QED BY <3>1
  <2>2. Due(n) /\ n.req \in Request
    BY <2>1, <1>9 DEF Node
  <2>3. n \in ToSet(request[n.req])
    BY <2>2, <1>2 DEF Due
  <2> QED BY <2>2, <2>3, <1>3 DEF TableMatchesRequests, DueAreListed, ListOf
<1>12. GlobalRecord' /\ IdleUnitsRestored'
  BY <1>2 DEF IInv, GlobalRecord, RecordOK, Listed, Global, IdleUnitsRestored, Occupied
<1> QED BY <1>6, <1>7, <1>10, <1>11, <1>12 DEF IInv, TableMatchesRequests

\* The start of removeRequest: all nodes of the request are still to be unlinked.
LEMMA BeginRemoveStep ==
    ASSUME IInv, NEW h \in Request, BeginRemove(h)
    PROVE  IInv'
<1> DEFINE s == request[h]
<1>1. /\ op = "idle" /\ op' = "remove" /\ s # <<>>
      /\ request' = [request EXCEPT ![h] = <<>>] /\ todo' = s
      /\ UNCHANGED <<table, applied, sysfs>>
  BY DEF BeginRemove
<1>2. TypeOK /\ LoopInv /\ TableMatchesRequests
  BY DEF IInv
<1>3. /\ s \in Seq(Node)
      /\ \A i \in DOMAIN s : s[i].idx = i
      /\ \A n \in ToSet(s) : n.req = h
  BY <1>2 DEF TypeOK, LoopInv
<1>4. todo = <<>> /\ request \in [Request -> Seq(Node)]
  BY <1>1, <1>2 DEF LoopInv, TypeOK
<1>5. request'[h] = <<>> /\ \A g \in Request : g # h => request'[g] = request[g]
  BY <1>1, <1>4
<1>6. TypeOK'
  BY <1>1, <1>2, <1>3 DEF TypeOK
<1>7. ToSet(<<>>) = {} /\ DOMAIN <<>> = {}
  BY DEF ToSet
<1>8. LoopInv'
  <2>1. \A g \in Request : \A n \in ToSet(request'[g]) : n.req = g
    BY <1>2, <1>5, <1>7 DEF LoopInv
  <2>2. \A g \in Request : \A i \in DOMAIN request'[g] : request'[g][i].idx = i
    BY <1>2, <1>5, <1>7 DEF LoopInv
  <2>3. \A n \in ToSet(todo') : request'[n.req] = <<>>
    BY <1>1, <1>3, <1>5
  <2>4. \A i, j \in DOMAIN todo' : todo'[i].idx = todo'[j].idx => i = j
    BY <1>1, <1>3
  <2> QED BY <1>1, <2>1, <2>2, <2>3, <2>4 DEF LoopInv
<1>9. ASSUME NEW m \in Node PROVE Due(m)' <=> Due(m)
  <2>0. m.req \in Request
    BY DEF Node
  <2>1. Due(m) <=> m \in ToSet(request[m.req])
    BY <1>1 DEF Due
  <2>2. Due(m)' <=> m \in ToSet(s) \/ m \in ToSet(request'[m.req])
    BY <1>1 DEF Due
  <2>3. CASE m.req = h
    BY <2>1, <2>2, <2>3, <1>5, <1>7
  <2>4. CASE m.req # h
    BY <2>0, <2>1, <2>2, <2>4, <1>3, <1>5
  <2> QED BY <2>3, <2>4
<1>10. ListsHoldOnlyDue'
  <2> SUFFICES ASSUME NEW slot \in Slots
               PROVE  /\ IsInjective(table[slot])
                      /\ \A n \in ToSet(table[slot]) : /\ ListIndex(n) = slot /\ Due(n)'
                                                       /\ ~PassThrough(n) /\ InTable(n)
    BY <1>1 DEF ListsHoldOnlyDue, Slots, ListIndex, PassThrough, InTable
  <2>1. ToSet(table[slot]) \subseteq Node
    BY <1>2 DEF TypeOK, Slots, ToSet
  <2> QED BY <2>1, <1>2, <1>9 DEF TableMatchesRequests, ListsHoldOnlyDue, Slots
<1>11. DueAreListed'
  <2> SUFFICES ASSUME NEW g \in Request, NEW n \in ToSet(request'[g]) \cup ToSet(s),
                      Due(n)', ~PassThrough(n), InTable(n)
               PROVE  n \in ToSet(table[ListIndex(n)])
    BY <1>1 DEF DueAreListed, PassThrough, InTable, ListOf, ListIndex
  <2>1. n \in Node
    <3>1. ToSet(request'[g]) \subseteq Node /\ ToSet(s) \subseteq Node
      BY <1>3, <1>6 DEF TypeOK, ToSet
    <3> QED BY <3>1
  <2>2. Due(n) /\ n.req \in Request
    BY <2>1, <1>9 DEF Node
  <2>3. n \in ToSet(request[n.req])
    BY <2>2, <1>1 DEF Due
  <2> QED BY <2>2, <2>3, <1>2 DEF TableMatchesRequests, DueAreListed, ListOf
<1>12. GlobalRecord' /\ IdleUnitsRestored'
  BY <1>1 DEF IInv, GlobalRecord, RecordOK, Listed, Global, IdleUnitsRestored, Occupied
<1> QED BY <1>6, <1>8, <1>10, <1>11, <1>12 DEF IInv, TableMatchesRequests
\* insertInCocoTable with its applyAction: the node takes effect exactly when it
\* becomes the head of the highest non-empty list.
LEMMA InsertStep == ASSUME IInv, InsertInCocoTable PROVE IInv'
<1>0. PICK n \in Node : n = Head(todo)
  BY NextNode DEF IInv, InsertInCocoTable, Loop
<1> DEFINE r == n.res
           u == n.unit
           k == ListIndex(n)
           l == Link(table[k], n)
           c == applied[r]
<1>1. /\ TypeOK /\ LoopInv /\ TableMatchesRequests
      /\ todo # <<>> /\ Advance /\ Loop("insert")
      /\ ~PassThrough(n) /\ InTable(n)
      /\ table' = [table EXCEPT ![k] = Link(@, n)]
  BY <1>0 DEF IInv, InsertInCocoTable, Loop
<1>2. n \in Node
  OBVIOUS
<1>3. TableMatchesRequests' /\ table' \in [Slots -> Seq(Node)]
  BY InsertTable
<1>4. /\ LoopInv' /\ todo' \in Seq(Node) /\ request' = request
      /\ op' \in {"idle", "insert", "remove"}
  BY <1>1, AdvanceLoop
<1>5. /\ k \in Slots /\ k = <<r, u, n.prio>> /\ Cell(n) = <<r, u>> /\ Cell(n) \in Resource \X Unit
      /\ r \in Resource /\ u \in Unit /\ n.prio \in Priority
  BY <1>2, IndexTypes DEF ListIndex, Cell
<1>6. table \in [Slots -> Seq(Node)] /\ c \in Priority \cup {NotApplied}
      /\ applied \in [Resource -> Priority \cup {NotApplied}]
      /\ sysfs \in [Resource \X Unit -> Node \cup {Default}]
  BY <1>1, <1>5 DEF TypeOK, Slots
<1>7. /\ l \in Seq(Node) /\ l # <<>>
      /\ Head(l) # n => table[k] # <<>> /\ Head(l) = Head(table[k])
  BY <1>2, <1>5, <1>6, LinkFacts
<1>8. table'[k] = l /\ \A slot \in Slots : slot # k => table'[slot] = table[slot]
  BY <1>1, <1>5, <1>6
<1>9. IF Head(l) = n THEN ApplyAction(n, c) ELSE UNCHANGED <<applied, sysfs>>
  BY <1>0 DEF InsertInCocoTable, ListOf
<1> HIDE DEF r, u, k, l, c
<1>10. \/ ApplyAction(n, c) /\ Head(l) = n
       \/ UNCHANGED <<applied, sysfs>> /\ Head(l) # n
  BY <1>9
<1>11. /\ applied' \in [Resource -> Priority \cup {NotApplied}]
       /\ sysfs' \in [Resource \X Unit -> Node \cup {Default}]
       /\ \A q \in Resource : q # n.res => applied'[q] = applied[q]
       /\ \A s \in Resource \X Unit : s # Cell(n) => sysfs'[s] = sysfs[s]
  BY <1>1, <1>2, <1>6, <1>10, ApplyActionFacts
<1>12. TypeOK'
  BY <1>1, <1>3, <1>4, <1>11 DEF TypeOK, Slots
<1>13. \A q \in Priority : <<r, u, q>> \in Slots /\ (q # n.prio => <<r, u, q>> # k)
  BY <1>5 DEF Slots
<1>14. ASSUME r \in Supported, Listed(r), Global(r) PROVE RecordOK(r, u)'
  <2>1. RecordOK(r, u)
    <3>1. u \in UnitsOf[r]
      BY <1>1 DEF InTable, r, u
    <3> QED BY <3>1, <1>14 DEF IInv, GlobalRecord
  <2>2. \A q \in Priority : q # n.prio => table'[<<r, u, q>>] = table[<<r, u, q>>]
    BY <1>8, <1>13
  <2>3. table'[<<r, u, n.prio>>] = l /\ <<r, u, n.prio>> = k
    BY <1>5, <1>8
  <2>4. n.prio \in Int /\ Priority \subseteq Int /\ NotApplied \in Int /\ NotApplied \notin Priority
    BY <1>5 DEF Priority, TOTAL_PRIORITIES, NotApplied
  <2>5. CASE Head(l) = n /\ MayApply(c, n.prio)
    <3>1. applied'[r] = n.prio /\ sysfs'[<<r, u>>] = n
      BY <2>5, <1>1, <1>2, <1>5, <1>6, <1>10, <1>14, ApplyActionFacts DEF r
    <3>2. ASSUME NEW q \in Priority, q < n.prio PROVE table'[<<r, u, q>>] = <<>>
      <4>1. q # n.prio /\ q \in Int
        BY <3>2, <2>4
      <4>2. c \in Priority => q < c
        BY <2>5, <3>2, <2>4 DEF MayApply
      <4>3. table[<<r, u, q>>] = <<>>
        BY <4>2, <2>1 DEF RecordOK, c
      <4> QED BY <4>1, <4>3, <2>2
    <3> QED BY <3>1, <3>2, <2>3, <2>5, <1>5, <1>7 DEF RecordOK
  <2>6. CASE ~(Head(l) = n /\ MayApply(c, n.prio))
    <3>1. applied'[r] = c /\ sysfs' = sysfs
      <4>1. CASE Head(l) = n
        BY <4>1, <2>6, <1>1, <1>2, <1>6, <1>10, ApplyActionFacts DEF r
      <4>2. CASE Head(l) # n
        BY <4>2, <1>10 DEF c
      <4> QED BY <4>1, <4>2
    <3>2. /\ c \in Priority /\ c <= n.prio
          /\ c = n.prio => Head(l) = Head(table[k]) /\ table[k] # <<>>
      <4>1. CASE Head(l) # n
        <5>1. table[<<r, u, n.prio>>] # <<>>
          BY <4>1, <2>3, <1>7
        <5>2. c \in Priority /\ ~(n.prio < c)
          BY <5>1, <2>1, <1>5 DEF RecordOK, c
        <5>3. c \in Int
          BY <5>2, <2>4
        <5>4. c <= n.prio
          <6> DEFINE p == n.prio
          <6> HIDE DEF p
          <6>1. p \in Int /\ ~(p < c)
            BY <5>2, <2>4 DEF p
          <6>2. c <= p
            BY <6>1, <5>3
          <6> QED BY <6>2 DEF p
        <5> QED BY <4>1, <5>2, <5>4, <1>7
      <4>2. CASE Head(l) = n
        <5>1. ~(c >= n.prio) /\ c # NotApplied
          BY <4>2, <2>6 DEF MayApply
        <5>2. c \in Priority /\ c < n.prio
          BY <5>1, <1>6, <2>4
        <5> QED BY <5>2, <2>4
      <4> QED BY <4>1, <4>2
    <3>3. /\ table[<<r, u, c>>] # <<>>
          /\ \A p \in Priority : p < c => table[<<r, u, p>>] = <<>>
          /\ sysfs[<<r, u>>] = Head(table[<<r, u, c>>])
      <4>1. c # NotApplied
        BY <3>2, <2>4
      <4> QED BY <4>1, <2>1 DEF RecordOK, c
    <3>4. table'[<<r, u, c>>] # <<>> /\ Head(table'[<<r, u, c>>]) = Head(table[<<r, u, c>>])
      <4>1. CASE c = n.prio
        BY <4>1, <2>3, <3>2, <1>7
      <4>2. CASE c # n.prio
        BY <4>2, <2>2, <3>2, <3>3
      <4> QED BY <4>1, <4>2
    <3>5. ASSUME NEW p \in Priority, p < c PROVE table'[<<r, u, p>>] = <<>>
      <4>1. p # n.prio
        BY <3>2, <3>5, <2>4
      <4> QED BY <4>1, <2>2, <3>3, <3>5
    <3> QED BY <3>1, <3>2, <3>3, <3>4, <3>5 DEF RecordOK
  <2> QED BY <2>5, <2>6
<1>15. Occupied(r, u)' # {}
  BY <1>5, <1>7, <1>8 DEF Occupied
<1>16. \A q \in Resource, v \in Unit, p \in Priority :
          <<q, v>> # Cell(n) => table'[<<q, v, p>>] = table[<<q, v, p>>]
  BY <1>5, <1>8 DEF Slots
<1>17. GlobalRecord' /\ IdleUnitsRestored'
  <2>1. \A q \in Resource, v \in Unit : <<q, v>> # Cell(n) => sysfs'[<<q, v>>] = sysfs[<<q, v>>]
    BY <1>11
  <2>2. n.res \in Supported /\ Listed(n.res) /\ Global(n.res) => RecordOK(n.res, n.unit)'
    BY <1>14 DEF r, u
  <2>3. Occupied(n.res, n.unit)' # {}
    BY <1>15 DEF r, u
  <2>4. InTable(n)
    BY <1>1
  <2> QED BY <1>2, <1>11, <1>16, <2>1, <2>2, <2>3, <2>4, LocalStep
<1> QED BY <1>3, <1>4, <1>12, <1>17 DEF IInv

\* What the three removal actions have in common: the node n leaves its list.
LEMMA UnlinkStep ==
    ASSUME IInv, NEW n, UnlinkHead(n)
    PROVE  /\ n \in Node /\ InTable(n)
           /\ LoopInv' /\ TableMatchesRequests'
           /\ applied' \in [Resource -> Priority \cup {NotApplied}]
              /\ sysfs' \in [Resource \X Unit -> Node \cup {Default}] => TypeOK'
           /\ Unlink(ListOf(n), n) \in Seq(Node)
           /\ Unlink(ListOf(n), n) # <<>> => ListOf(n) # <<>>
           /\ ToSet(Unlink(ListOf(n), n)) \subseteq ToSet(ListOf(n))
           /\ Head(ListOf(n)) # n => /\ Unlink(ListOf(n), n) # <<>>
                                     /\ Head(Unlink(ListOf(n), n)) = Head(ListOf(n))
           /\ \A m \in ToSet(ListOf(n)) : ListIndex(m) = ListIndex(n)
           /\ ListOf(n) # <<>>
           /\ table'[<<n.res, n.unit, n.prio>>] = Unlink(ListOf(n), n)
           /\ \A p \in Priority : p # n.prio =>
                 table'[<<n.res, n.unit, p>>] = table[<<n.res, n.unit, p>>]
           /\ \A q \in Resource, v \in Unit, p \in Priority :
                 <<q, v>> # Cell(n) => table'[<<q, v, p>>] = table[<<q, v, p>>]
<1> DEFINE k == ListIndex(n)
           l == Unlink(table[k], n)
<1>1. /\ TypeOK /\ LoopInv /\ TableMatchesRequests
      /\ todo # <<>> /\ Advance /\ Loop("remove") /\ n = Head(todo)
      /\ ~PassThrough(n) /\ InTable(n)
      /\ table' = [table EXCEPT ![k] = Unlink(@, n)]
  BY DEF IInv, UnlinkHead, Loop
<1>2. n \in Node
  BY <1>1, NextNode
<1>3. TableMatchesRequests' /\ table' \in [Slots -> Seq(Node)]
  BY <1>1, UnlinkTable
<1>4. /\ LoopInv' /\ todo' \in Seq(Node) /\ request' = request
      /\ op' \in {"idle", "insert", "remove"}
  BY <1>1, AdvanceLoop
<1>5. /\ k \in Slots /\ k = <<n.res, n.unit, n.prio>> /\ Cell(n) = <<n.res, n.unit>>
      /\ n.res \in Resource /\ n.unit \in Unit /\ n.prio \in Priority
  BY <1>2, IndexTypes DEF ListIndex, Cell
<1>6. table \in [Slots -> Seq(Node)]
  BY <1>1 DEF TypeOK, Slots
<1>7. n \in ToSet(table[k]) /\ IsInjective(table[k])
      /\ \A m \in ToSet(table[k]) : ListIndex(m) = k
  BY <1>1, <1>5, HeadListed DEF TableMatchesRequests, ListsHoldOnlyDue, Slots, ListOf
<1>8. /\ l \in Seq(Node) /\ ToSet(l) \subseteq ToSet(table[k])
      /\ Head(table[k]) # n => l # <<>> /\ Head(l) = Head(table[k])
  BY <1>5, <1>6, <1>7, UnlinkFacts
<1>9. table[k] # <<>>
  BY <1>7 DEF ToSet
<1> HIDE DEF l
<1>10. table'[k] = l /\ \A slot \in Slots : slot # k => table'[slot] = table[slot]
  BY <1>1, <1>5, <1>6 DEF l
<1> HIDE DEF k
<1>11. \A p \in Priority : p # n.prio =>
          table'[<<n.res, n.unit, p>>] = table[<<n.res, n.unit, p>>]
  BY <1>5, <1>10 DEF Slots
<1>12. \A q \in Resource, v \in Unit, p \in Priority :
          <<q, v>> # Cell(n) => table'[<<q, v, p>>] = table[<<q, v, p>>]
  BY <1>5, <1>10 DEF Slots
<1>13. applied' \in [Resource -> Priority \cup {NotApplied}]
       /\ sysfs' \in [Resource \X Unit -> Node \cup {Default}] => TypeOK'
  BY <1>1, <1>3, <1>4 DEF TypeOK, Slots
<1>14. ListOf(n) = table[k] /\ Unlink(ListOf(n), n) = l /\ ListIndex(n) = k
  BY DEF ListOf, k, l
<1>15. table'[<<n.res, n.unit, n.prio>>] = l
  BY <1>5, <1>10
<1> QED
  BY <1>1, <1>2, <1>3, <1>4, <1>7, <1>8, <1>9, <1>11, <1>12, <1>13, <1>14, <1>15

\* A removal that leaves other nodes in the list: a new head takes effect if the
\* list was the one in effect.
LEMMA RemoveFromListStep == ASSUME IInv, RemoveFromList PROVE IInv'
<1>0. PICK n : n = Head(todo)
  OBVIOUS
<1> DEFINE r == n.res
           u == n.unit
           s == ListOf(n)
           rest == Unlink(ListOf(n), n)
           c == applied[r]
<1>1. /\ UnlinkHead(n) /\ rest # <<>>
      /\ IF Head(s) = n THEN ApplyAction(Head(rest), c) ELSE UNCHANGED <<applied, sysfs>>
  BY <1>0 DEF RemoveFromList
<1>2. /\ n \in Node /\ InTable(n) /\ LoopInv' /\ TableMatchesRequests'
      /\ applied' \in [Resource -> Priority \cup {NotApplied}]
         /\ sysfs' \in [Resource \X Unit -> Node \cup {Default}] => TypeOK'
      /\ rest \in Seq(Node) /\ ToSet(rest) \subseteq ToSet(s)
      /\ Head(s) # n => Head(rest) = Head(s)
      /\ \A m \in ToSet(s) : ListIndex(m) = ListIndex(n)
      /\ s # <<>>
      /\ table'[<<n.res, n.unit, n.prio>>] = rest
      /\ \A p \in Priority : p # n.prio =>
            table'[<<n.res, n.unit, p>>] = table[<<n.res, n.unit, p>>]
      /\ \A q \in Resource, v \in Unit, p \in Priority :
            <<q, v>> # Cell(n) => table'[<<q, v, p>>] = table[<<q, v, p>>]
  BY <1>1, UnlinkStep
<1>3. /\ n.res \in Resource /\ n.unit \in Unit /\ n.prio \in Priority
      /\ s = table[<<r, u, n.prio>>] /\ Cell(n) = <<r, u>> /\ Cell(n) \in Resource \X Unit
  BY <1>2, IndexTypes DEF ListOf, ListIndex, Cell
<1>4. TypeOK /\ c \in Priority \cup {NotApplied}
      /\ applied \in [Resource -> Priority \cup {NotApplied}]
      /\ sysfs \in [Resource \X Unit -> Node \cup {Default}]
  BY <1>3 DEF IInv, TypeOK
<1> HIDE DEF rest, s
<1>5. PICK m \in Node : m = Head(rest)
  BY <1>1, <1>2
<1>6. ListIndex(m) = ListIndex(n)
  <2>1. rest[1] = m /\ 1 \in DOMAIN rest
    BY <1>1, <1>2, <1>5
  <2>2. m \in ToSet(rest)
    BY <2>1 DEF ToSet
  <2> QED BY <1>2, <2>2
<1>7. m.res = n.res /\ m.unit = n.unit /\ m.prio = n.prio /\ Cell(m) = Cell(n)
  BY <1>6 DEF ListIndex, Cell
<1>8. /\ applied' \in [Resource -> Priority \cup {NotApplied}]
      /\ sysfs' \in [Resource \X Unit -> Node \cup {Default}]
      /\ \A q \in Resource : q # n.res => applied'[q] = applied[q]
      /\ \A w \in Resource \X Unit : w # Cell(n) => sysfs'[w] = sysfs[w]
  <2>1. CASE Head(s) = n
    BY <2>1, <1>1, <1>4, <1>5, <1>7, ApplyActionFacts
  <2>2. CASE Head(s) # n
    BY <2>2, <1>1, <1>4
  <2> QED BY <2>1, <2>2
<1>9. Occupied(r, u)' # {}
  BY <1>1, <1>2, <1>3 DEF Occupied
<1>10. ASSUME r \in Supported, Listed(r), Global(r) PROVE RecordOK(r, u)'
  <2>1. RecordOK(r, u)
    <3>1. u \in UnitsOf[r]
      BY <1>2 DEF InTable
    <3> QED BY <3>1, <1>10 DEF IInv, GlobalRecord
  <2>2. Priority \subseteq Int /\ NotApplied \notin Priority
    BY DEF Priority, TOTAL_PRIORITIES, NotApplied
  <2>3. /\ c \in Priority /\ table[<<r, u, c>>] # <<>>
        /\ \A p \in Priority : p < c => table[<<r, u, p>>] = <<>>
        /\ sysfs[<<r, u>>] = Head(table[<<r, u, c>>])
    BY <2>1, <1>2, <1>3 DEF RecordOK
  <2>4. ~(n.prio < c)
    BY <2>3, <1>2, <1>3
  <2> HIDE DEF c
  <2>5. c <= n.prio
    <3>1. PICK p \in Int : p = n.prio
      BY <1>3, <2>2
    <3>2. ~(p < c) /\ c \in Int
      BY <3>1, <2>2, <2>3, <2>4
    <3>3. c <= p
      BY <3>2
    <3> QED BY <3>1, <3>3
  <2>6. MayApply(c, m.prio) <=> c = n.prio
    <3>1. PICK p \in Int : p = n.prio
      BY <1>3, <2>2
    <3>2. c \in Int /\ c <= p /\ c # NotApplied
      BY <3>1, <2>2, <2>3, <2>5
    <3>3. c >= p <=> c = p
      BY <3>2
    <3> QED BY <3>1, <3>2, <3>3, <1>7 DEF MayApply
  <2>7. applied'[r] = c
    <3>1. CASE Head(s) # n
      BY <3>1, <1>1 DEF c
    <3>2. CASE Head(s) = n /\ c = n.prio
      BY <3>2, <2>6, <1>1, <1>4, <1>5, <1>7, <1>10, ApplyActionFacts
    <3>3. CASE Head(s) = n /\ c # n.prio
      BY <3>3, <2>6, <1>1, <1>4, <1>5, <1>7, ApplyActionFacts
    <3> QED BY <3>1, <3>2, <3>3
  <2>8. table'[<<r, u, c>>] # <<>> /\ sysfs'[<<r, u>>] = Head(table'[<<r, u, c>>])
    <3>1. CASE c # n.prio
      <4>1. sysfs' = sysfs
        <5>1. CASE Head(s) # n
          BY <5>1, <1>1
        <5>2. CASE Head(s) = n
          BY <3>1, <5>2, <2>6, <1>1, <1>4, <1>5, ApplyActionFacts
        <5> QED BY <5>1, <5>2
      <4> QED BY <3>1, <4>1, <2>3, <1>2
    <3>2. CASE c = n.prio /\ Head(s) # n
      BY <3>2, <1>1, <1>2, <1>3, <2>3
    <3>3. CASE c = n.prio /\ Head(s) = n
      <4>1. sysfs'[Cell(m)] = m
        BY <3>3, <2>6, <1>1, <1>4, <1>5, <1>7, <1>10, ApplyActionFacts
      <4>2. sysfs'[<<r, u>>] = m
        BY <4>1, <1>3, <1>7
      <4>3. table'[<<r, u, c>>] = rest /\ rest # <<>>
        BY <3>3, <1>1, <1>2
      <4> QED BY <4>2, <4>3, <1>5
    <3> QED BY <3>1, <3>2, <3>3
  <2>9. ASSUME NEW p \in Priority, p < c PROVE table'[<<r, u, p>>] = <<>>
    <3>1. p # n.prio
      BY <2>4, <2>9
    <3> QED BY <3>1, <2>3, <2>9, <1>2
  <2> QED BY <2>3, <2>7, <2>8, <2>9 DEF RecordOK
<1>11. GlobalRecord' /\ IdleUnitsRestored'
  <2>1. \A q \in Resource, v \in Unit : <<q, v>> # Cell(n) => sysfs'[<<q, v>>] = sysfs[<<q, v>>]
    BY <1>8
  <2> QED BY <1>2, <1>8, <1>9, <1>10, <2>1, LocalStep
<1> QED BY <1>2, <1>8, <1>11 DEF IInv
\* A removal that empties a list of a unit with others: the highest remaining list
\* takes over.
LEMMA RemoveLastOfListStep == ASSUME IInv, RemoveLastOfList PROVE IInv'
<1>0. PICK n : n = Head(todo)
  OBVIOUS
<1>1. PICK level : level = FirstLevel(Remaining(n))
  OBVIOUS
<1> DEFINE r == n.res
           u == n.unit
           t == table[<<n.res, n.unit, level>>]
<1>2. /\ UnlinkHead(n) /\ Unlink(ListOf(n), n) = <<>> /\ Remaining(n) # {}
      /\ ApplyAction(Head(t), level)
  BY <1>0, <1>1 DEF RemoveLastOfList
<1>3. /\ n \in Node /\ InTable(n) /\ LoopInv' /\ TableMatchesRequests'
      /\ applied' \in [Resource -> Priority \cup {NotApplied}]
         /\ sysfs' \in [Resource \X Unit -> Node \cup {Default}] => TypeOK'
      /\ table'[<<n.res, n.unit, n.prio>>] = <<>>
      /\ \A p \in Priority : p # n.prio =>
            table'[<<n.res, n.unit, p>>] = table[<<n.res, n.unit, p>>]
      /\ \A q \in Resource, v \in Unit, p \in Priority :
            <<q, v>> # Cell(n) => table'[<<q, v, p>>] = table[<<q, v, p>>]
  BY <1>2, UnlinkStep
<1>4. /\ r \in Resource /\ u \in Unit /\ n.prio \in Priority
      /\ Cell(n) = <<r, u>> /\ Cell(n) \in Resource \X Unit
  BY <1>3, IndexTypes DEF Cell
<1>5. /\ level \in Priority /\ level # n.prio /\ t # <<>>
      /\ \A q \in Remaining(n) : level <= q
  <2>1. Remaining(n) \in SUBSET Priority
    BY DEF Remaining
  <2>2. level \in Remaining(n) /\ \A q \in Remaining(n) : level <= q
    BY <1>1, <1>2, <2>1, FirstLevelFacts
  <2> QED BY <2>2 DEF Remaining
<1>6. /\ TypeOK /\ ListsHoldOnlyDue /\ <<r, u, level>> \in Slots /\ t \in Seq(Node)
      /\ table \in [Slots -> Seq(Node)]
  BY <1>4, <1>5 DEF IInv, TypeOK, Slots, TableMatchesRequests
<1> HIDE DEF t
<1>7. PICK m \in Node : m = Head(t)
  BY <1>5, <1>6
<1>8. m.res = r /\ m.unit = u /\ m.prio = level /\ Cell(m) = Cell(n)
  <2>1. 1 \in DOMAIN t /\ t[1] = m
    BY <1>5, <1>6, <1>7
  <2>2. m \in ToSet(t)
    BY <2>1 DEF ToSet
  <2>3. ListIndex(m) = <<r, u, level>>
    BY <2>2, <1>6 DEF ListsHoldOnlyDue, Slots, t
  <2> QED BY <2>3 DEF ListIndex, Cell
<1>9. /\ applied' \in [Resource -> Priority \cup {NotApplied}]
      /\ sysfs' \in [Resource \X Unit -> Node \cup {Default}]
      /\ \A q \in Resource : q # n.res => applied'[q] = applied[q]
      /\ \A w \in Resource \X Unit : w # Cell(n) => sysfs'[w] = sysfs[w]
      /\ MayApply(level, level) /\ r \in Supported =>
            applied'[r] = level /\ sysfs'[Cell(n)] = m
  <2>1. /\ TypeOK /\ m \in Node /\ level \in Priority \cup {NotApplied}
        /\ ApplyAction(m, level)
    BY <1>2, <1>5, <1>6, <1>7
  <2>2. /\ applied' \in [Resource -> Priority \cup {NotApplied}]
        /\ sysfs' \in [Resource \X Unit -> Node \cup {Default}]
        /\ \A q \in Resource : q # m.res => applied'[q] = applied[q]
        /\ \A w \in Resource \X Unit : w # Cell(m) => sysfs'[w] = sysfs[w]
        /\ MayApply(level, m.prio) /\ m.res \in Supported =>
              applied'[m.res] = m.prio /\ sysfs'[Cell(m)] = m
    BY <2>1, ApplyActionFacts
  <2> QED BY <1>8, <2>2
<1>10. MayApply(level, level)
  BY <1>5 DEF MayApply, Priority, TOTAL_PRIORITIES
<1>11. table'[<<r, u, level>>] = t
  BY <1>3, <1>5 DEF t
<1>12. Occupied(r, u)' # {}
  BY <1>5, <1>11 DEF Occupied
<1>13. ASSUME r \in Supported, Listed(r), Global(r) PROVE RecordOK(r, u)'
  <2>1. applied'[r] = level /\ sysfs'[<<r, u>>] = Head(t)
    BY <1>4, <1>7, <1>9, <1>10, <1>13
  <2>2. ASSUME NEW p \in Priority, p < level PROVE table'[<<r, u, p>>] = <<>>
    <3>1. CASE p = n.prio
      BY <3>1, <1>3
    <3>2. CASE p # n.prio
      <4>1. p \in Int /\ level \in Int
        BY <1>5 DEF Priority, TOTAL_PRIORITIES
      <4>2. ~(level <= p)
        BY <2>2, <4>1
      <4>3. p \notin Remaining(n)
        BY <4>2, <1>5
      <4>4. table[<<r, u, p>>] = <<>>
        BY <3>2, <4>3 DEF Remaining
      <4> QED BY <3>2, <4>4, <1>3
    <3> QED BY <3>1, <3>2
  <2> QED BY <2>1, <2>2, <1>5, <1>11 DEF RecordOK
<1>14. GlobalRecord' /\ IdleUnitsRestored'
  <2>1. \A q \in Resource, v \in Unit : <<q, v>> # Cell(n) => sysfs'[<<q, v>>] = sysfs[<<q, v>>]
    BY <1>9
  <2> QED BY <1>3, <1>9, <1>12, <1>13, <2>1, LocalStep
<1> QED BY <1>3, <1>9, <1>14 DEF IInv

\* A removal that empties the unit: its original value comes back.
LEMMA RemoveLastOfUnitStep == ASSUME IInv, RemoveLastOfUnit PROVE IInv'
<1>0. PICK n : n = Head(todo)
  OBVIOUS
<1> DEFINE r == n.res
           u == n.unit
<1>1. /\ UnlinkHead(n) /\ Unlink(ListOf(n), n) = <<>> /\ Remaining(n) = {}
      /\ sysfs' = [sysfs EXCEPT ![Cell(n)] = Default]
      /\ applied' = [applied EXCEPT ![n.res] = NotApplied]
  BY <1>0 DEF RemoveLastOfUnit, RemoveAction
<1>2. /\ n \in Node /\ InTable(n) /\ LoopInv' /\ TableMatchesRequests'
      /\ applied' \in [Resource -> Priority \cup {NotApplied}]
         /\ sysfs' \in [Resource \X Unit -> Node \cup {Default}] => TypeOK'
      /\ table'[<<n.res, n.unit, n.prio>>] = <<>>
      /\ \A p \in Priority : p # n.prio =>
            table'[<<n.res, n.unit, p>>] = table[<<n.res, n.unit, p>>]
      /\ \A q \in Resource, v \in Unit, p \in Priority :
            <<q, v>> # Cell(n) => table'[<<q, v, p>>] = table[<<q, v, p>>]
  BY <1>1, UnlinkStep
<1>3. /\ r \in Resource /\ u \in Unit
      /\ Cell(n) = <<r, u>> /\ Cell(n) \in Resource \X Unit
  BY <1>2, IndexTypes DEF Cell
<1>4. /\ applied' \in [Resource -> Priority \cup {NotApplied}]
      /\ sysfs' \in [Resource \X Unit -> Node \cup {Default}]
      /\ \A q \in Resource : q # n.res => applied'[q] = applied[q]
      /\ \A w \in Resource \X Unit : w # Cell(n) => sysfs'[w] = sysfs[w]
      /\ applied'[r] = NotApplied /\ sysfs'[Cell(n)] = Default
  <2>1. /\ applied \in [Resource -> Priority \cup {NotApplied}]
        /\ sysfs \in [Resource \X Unit -> Node \cup {Default}]
    BY DEF IInv, TypeOK
  <2> QED BY <1>1, <1>3, <2>1
<1>5. \A p \in Priority : table'[<<r, u, p>>] = <<>>
  BY <1>1, <1>2 DEF Remaining
<1>6. RecordOK(r, u)'
  BY <1>3, <1>4, <1>5 DEF RecordOK
<1>7. GlobalRecord' /\ IdleUnitsRestored'
  <2>1. \A q \in Resource, v \in Unit : <<q, v>> # Cell(n) => sysfs'[<<q, v>>] = sysfs[<<q, v>>]
    BY <1>4
  <2> QED BY <1>2, <1>4, <1>6, <2>1, LocalStep
<1> QED BY <1>2, <1>4, <1>7 DEF IInv

\* Every step of the coordinator preserves the invariant.
LEMMA NextIInv == IInv /\ [Next]_vars => IInv'
<1> SUFFICES ASSUME IInv, [Next]_vars PROVE IInv'
  OBVIOUS
<1>1. ASSUME NEW h \in Request, NEW body \in Offered, BeginInsert(h, body) PROVE IInv'
  BY <1>1, BeginInsertStep
<1>2. CASE ApplyFastPath \/ SkipInsert \/ ResetFastPath \/ SkipRemove
  BY <1>2, PassBySteps
<1>3. CASE InsertInCocoTable
  BY <1>3, InsertStep
<1>4. ASSUME NEW h \in Request, BeginRemove(h) PROVE IInv'
  BY <1>4, BeginRemoveStep
<1>5. CASE RemoveFromList
  BY <1>5, RemoveFromListStep
<1>6. CASE RemoveLastOfList
  BY <1>6, RemoveLastOfListStep
<1>7. CASE RemoveLastOfUnit
  BY <1>7, RemoveLastOfUnitStep
<1>8. CASE UNCHANGED vars
  BY <1>8 DEF vars, IInv, TypeOK, LoopInv, TableMatchesRequests, ListsHoldOnlyDue,
              DueAreListed, Due, ListOf, ListIndex, PassThrough, InTable, GlobalRecord,
              RecordOK, IdleUnitsRestored, Listed, Global, Occupied
<1> QED BY <1>1, <1>2, <1>3, <1>4, <1>5, <1>6, <1>7, <1>8 DEF Next

\* The invariant holds in every reachable state.
LEMMA SpecIInv == Spec => []IInv
BY InitIInv, NextIInv, PTL DEF Spec

----------------------------------------------------------------------------
(* The theorems *)

\* The type invariant: whatever sequence of insertRequest and removeRequest the
\* consumer runs, the lists, the recorded priorities and the sysfs nodes keep
\* their shape.
THEOREM TypeCorrect == Spec => []TypeOK
<1>1. IInv => TypeOK
  BY DEF IInv
<1> QED BY <1>1, SpecIInv, PTL

\* The lists of mCocoTable hold exactly the configurations of the admitted
\* requests, each once, at every iteration of the loops of insertRequest and
\* removeRequest: nothing is lost, doubled or left dangling.
THEOREM TableIsExact == Spec => []TableMatchesRequests
<1>1. IInv => TableMatchesRequests
  BY DEF IInv
<1> QED BY <1>1, SpecIInv, PTL

\* For a resource with one unit of conflict, applyAction and the priority scan of
\* removeRequest keep the head of the highest non-empty list in effect, for any
\* number of requests, priorities in use, policies and values.
THEOREM GlobalEffect == Spec => []GlobalEffectIsBest
<1>1. IInv => GlobalEffectIsBest
  <2> SUFFICES ASSUME IInv, NEW r \in Supported, NEW u \in UnitsOf[r], Listed(r), Global(r)
               PROVE  EffectIsBest(r, u)
    BY DEF GlobalEffectIsBest
  <2>1. r \in Resource /\ u \in Unit
    BY ConstantsAssumption
  <2>2. TypeOK /\ RecordOK(r, u)
    BY DEF IInv, GlobalRecord
  <2> QED BY <2>1, <2>2, RecordGivesEffect
<1> QED BY <1>1, SpecIInv, PTL

\* removeAction runs whenever the last configuration of a unit goes: a unit
\* without configurations carries its original value, for every resource.
THEOREM IdleRestored == Spec => []IdleUnitsRestored
<1>1. IInv => IdleUnitsRestored
  BY DEF IInv
<1> QED BY <1>1, SpecIInv, PTL

----------------------------------------------------------------------------
(* The order of the lists. *)

\* The lists of the value policies stay sorted, for every set of requests and
\* values.  The order of a list is preserved by Link and Unlink alone; IInv
\* provides that the nodes of a list belong to one resource, so
\* that one policy compares them, and that a removal finds its node.

Sorted(s) == \A i, j \in 1 .. Len(s) : i < j => ~Precedes(s[j], s[i])

\* Fields of nodes in arithmetic.
LEMMA NodeValue ==
    ASSUME NEW n \in Node
    PROVE  n.val \in Int
BY ConstantsAssumption DEF Node

\* A node that precedes m precedes what does not precede m, in a list of one
\* resource: the comparison of the value policies is a weak order.
LEMMA PrecedesTransfers ==
    ASSUME NEW n \in Node, NEW m \in Node, NEW q \in Node,
           n.res = q.res, m.res = q.res,
           Precedes(n, m), ~Precedes(q, m)
    PROVE  ~Precedes(q, n)
<1>1. PICK x \in Int, y \in Int, z \in Int : x = n.val /\ y = m.val /\ z = q.val
  BY NodeValue
<1>2. "higher_is_better" # "lower_is_better"
  OBVIOUS
<1>3. CASE Policy[q.res] = "higher_is_better"
  <2>1. x > y /\ ~(z > y)
    BY <1>1, <1>2, <1>3 DEF Precedes
  <2>2. ~(z > x)
    BY <2>1
  <2> QED BY <1>1, <1>2, <1>3, <2>2 DEF Precedes
<1>4. CASE Policy[q.res] = "lower_is_better"
  <2>1. x < y /\ ~(z < y)
    BY <1>1, <1>2, <1>4 DEF Precedes
  <2>2. ~(z < x)
    BY <2>1
  <2> QED BY <1>1, <1>2, <1>4, <2>2 DEF Precedes
<1> QED BY <1>3, <1>4 DEF Precedes

\* Where insertWithPolicy puts a node: behind nothing that it precedes, and, if
\* anything follows, before something that it precedes or in front of all.
LEMMA InsertPositionFacts ==
    ASSUME NEW s \in Seq(Node), NEW n, Policy[n.res] # "instant_apply"
    PROVE  LET k == InsertPosition(s, n)
           IN  /\ \A i \in 1 .. Len(s) : i < k => ~Precedes(n, s[i])
               /\ k <= Len(s) => Precedes(n, s[k])
<1> DEFINE after == {i \in 1 .. Len(s) : Precedes(n, s[i])}
           k == InsertPosition(s, n)
<1>0. Len(s) \in Nat
  OBVIOUS
<1>1. CASE after = {}
  <2>1. k = Len(s) + 1
    BY <1>1 DEF InsertPosition
  <2> QED BY <1>0, <1>1, <2>1
<1>2. CASE after # {}
  <2>1. after \in SUBSET Nat
    BY <1>0
  <2>2. k = CHOOSE i \in after : \A j \in after : i <= j
    BY <1>2 DEF InsertPosition
  <2>3. k \in after /\ \A j \in after : k <= j
    <3> HIDE DEF after, k
    <3>1. \E i \in after : \A j \in after : i <= j
      BY <1>2, <2>1, LeastElement
    <3> QED BY <2>2, <3>1
  <2> HIDE DEF k
  <2>4. \A i \in 1 .. Len(s) : i < k => i \notin after
    BY <2>1, <2>3
  <2> QED BY <2>3, <2>4 DEF k
<1> QED BY <1>1, <1>2

\* insertWithPolicy keeps a sorted list sorted.
LEMMA LinkSorted ==
    ASSUME NEW s \in Seq(Node), NEW n \in Node, Sorted(s),
           \A i \in 1 .. Len(s) : s[i].res = n.res
    PROVE  Sorted(Link(s, n))
<1>1. PICK k \in 1 .. Len(s) + 1 : k = InsertPosition(s, n)
  BY InsertPositionRange
<1> DEFINE t == Link(s, n)
<1>2. /\ Len(t) = Len(s) + 1
      /\ \A j \in 1 .. Len(s) + 1 : t[j] = IF j < k THEN s[j] ELSE IF j = k THEN n ELSE s[j - 1]
  BY <1>1, InsertAtFacts DEF Link
<1>3. Len(s) \in Nat /\ \A i \in 1 .. Len(s) : s[i] \in Node
  OBVIOUS
<1> HIDE DEF t
<1>4. CASE Policy[n.res] = "instant_apply"
  <2>1. \A j \in 1 .. Len(s) + 1 : t[j].res = n.res
    <3> SUFFICES ASSUME NEW j \in 1 .. Len(s) + 1 PROVE t[j].res = n.res
      OBVIOUS
    <3>1. CASE j < k
      <4>1. j \in 1 .. Len(s) /\ t[j] = s[j]
        BY <3>1, <1>2, <1>3
      <4> QED BY <4>1
    <3>2. CASE j = k
      BY <3>2, <1>2
    <3>3. CASE j > k
      <4>1. j - 1 \in 1 .. Len(s) /\ t[j] = s[j - 1]
        BY <3>3, <1>2, <1>3
      <4> QED BY <4>1
    <3> QED BY <3>1, <3>2, <3>3, <1>3
  <2> QED BY <2>1, <1>2, <1>4 DEF Sorted, Precedes, t
<1>5. CASE Policy[n.res] # "instant_apply"
  <2>1. /\ \A i \in 1 .. Len(s) : i < k => ~Precedes(n, s[i])
        /\ k <= Len(s) => Precedes(n, s[k])
    BY <1>1, <1>5, InsertPositionFacts
  <2>2. \A i \in 1 .. Len(s) : i >= k => ~Precedes(s[i], n)
    <3> SUFFICES ASSUME NEW i \in 1 .. Len(s), i >= k PROVE ~Precedes(s[i], n)
      OBVIOUS
    <3>1. k \in 1 .. Len(s) /\ Precedes(n, s[k])
      BY <2>1, <1>3
    <3>2. CASE i = k
      <4>1. PICK x \in Int, y \in Int : x = n.val /\ y = s[k].val
        BY <1>3, <3>1, NodeValue
      <4>2. s[k].res = n.res
        BY <3>1
      <4> QED BY <3>1, <3>2, <4>1, <4>2 DEF Precedes
    <3>3. CASE i # k
      <4>1. ~Precedes(s[i], s[k])
        BY <3>1, <3>3, <1>3 DEF Sorted
      <4>2. s[i] \in Node /\ s[k] \in Node /\ s[k].res = s[i].res /\ n.res = s[i].res
        BY <1>3, <3>1
      <4> QED BY <3>1, <4>1, <4>2, PrecedesTransfers
    <3> QED BY <3>2, <3>3
  <2>3. ASSUME NEW i \in 1 .. Len(s) + 1, NEW j \in 1 .. Len(s) + 1, i < j
        PROVE  ~Precedes(t[j], t[i])
    <3>1. CASE j < k
      <4>1. i \in 1 .. Len(s) /\ j \in 1 .. Len(s) /\ t[i] = s[i] /\ t[j] = s[j]
        BY <3>1, <2>3, <1>2, <1>3
      <4> QED BY <4>1, <2>3 DEF Sorted
    <3>2. CASE j = k
      <4>1. i \in 1 .. Len(s) /\ i < k /\ t[i] = s[i] /\ t[j] = n
        BY <3>2, <2>3, <1>2, <1>3
      <4> QED BY <4>1, <2>1
    <3>3. CASE i = k
      <4>1. j - 1 \in 1 .. Len(s) /\ j - 1 >= k /\ t[i] = n /\ t[j] = s[j - 1]
        BY <3>3, <2>3, <1>2, <1>3
      <4> QED BY <4>1, <2>2
    <3>4. CASE i < k /\ j > k
      <4>1. /\ i \in 1 .. Len(s) /\ j - 1 \in 1 .. Len(s) /\ i < j - 1
            /\ t[i] = s[i] /\ t[j] = s[j - 1]
        BY <3>4, <2>3, <1>2, <1>3
      <4> QED BY <4>1 DEF Sorted
    <3>5. CASE i > k
      <4>1. /\ i - 1 \in 1 .. Len(s) /\ j - 1 \in 1 .. Len(s) /\ i - 1 < j - 1
            /\ t[i] = s[i - 1] /\ t[j] = s[j - 1]
        BY <3>5, <2>3, <1>2, <1>3
      <4> QED BY <4>1 DEF Sorted
    <3>6. j < k \/ j = k \/ i = k \/ (i < k /\ j > k) \/ i > k
      BY <1>3
    <3> QED BY <3>1, <3>2, <3>3, <3>4, <3>5, <3>6
  <2> QED BY <2>3, <1>2 DEF Sorted, t
<1> QED BY <1>4, <1>5

\* deleteNode keeps a sorted list sorted.
LEMMA UnlinkSorted ==
    ASSUME NEW s \in Seq(Node), NEW n \in ToSet(s), Sorted(s)
    PROVE  Sorted(Unlink(s, n))
<1>0. Len(s) \in Nat /\ DOMAIN s = 1 .. Len(s)
  OBVIOUS
<1>1. PICK k \in 1 .. Len(s) : k = PositionOf(s, n)
  BY <1>0 DEF PositionOf, ToSet
<1> DEFINE t == Unlink(s, n)
<1>2. /\ Len(t) = Len(s) - 1
      /\ \A j \in 1 .. Len(s) - 1 : t[j] = IF j < k THEN s[j] ELSE s[j + 1]
  BY <1>1, RemoveAtFacts DEF Unlink
<1> HIDE DEF t
<1> DEFINE old(j) == IF j < k THEN j ELSE j + 1
<1>3. \A j \in 1 .. Len(s) - 1 : old(j) \in 1 .. Len(s) /\ t[j] = s[old(j)]
  <2> SUFFICES ASSUME NEW j \in 1 .. Len(s) - 1
               PROVE  old(j) \in 1 .. Len(s) /\ t[j] = s[old(j)]
    OBVIOUS
  <2>1. old(j) \in 1 .. Len(s)
    BY <1>0
  <2>2. t[j] = s[old(j)]
    BY <1>2
  <2> QED BY <2>1, <2>2
<1>4. \A i, j \in 1 .. Len(s) - 1 : i < j => old(i) < old(j)
  BY <1>0
<1> HIDE DEF old
<1> QED BY <1>2, <1>3, <1>4 DEF Sorted, t

\* Every step of the coordinator keeps the lists sorted.
LEMMA NextSorted ==
    ASSUME IInv, ListsFollowPolicy, [Next]_vars
    PROVE  ListsFollowPolicy'
<1>1. TypeOK /\ LoopInv /\ TableMatchesRequests /\ table \in [Slots -> Seq(Node)]
  BY DEF IInv, TypeOK, Slots
<1>2. \A slot \in Slots : Sorted(table[slot])
  BY DEF ListsFollowPolicy, Slots, Sorted
<1>3. SUFFICES ASSUME NEW slot \in Slots PROVE Sorted(table'[slot])
  BY DEF ListsFollowPolicy, Slots, Sorted, Precedes
<1>4. CASE UNCHANGED table
  BY <1>2, <1>4
<1>5. CASE InsertInCocoTable
  <2>1. PICK n \in Node : n = Head(todo)
    BY <1>1, <1>5, NextNode DEF InsertInCocoTable, Loop
  <2>2. PICK k \in Slots : k = ListIndex(n)
    BY <2>1, IndexTypes
  <2>3. table' = [table EXCEPT ![k] = Link(@, n)]
    BY <1>5, <2>1, <2>2 DEF InsertInCocoTable
  <2>4. \A i \in 1 .. Len(table[k]) : table[k][i].res = n.res
    <3>1. \A m \in ToSet(table[k]) : ListIndex(m) = k
      BY <1>1 DEF TableMatchesRequests, ListsHoldOnlyDue, Slots
    <3>2. \A i \in 1 .. Len(table[k]) : table[k][i] \in ToSet(table[k])
      BY <1>1 DEF ToSet
    <3> QED BY <2>2, <3>1, <3>2 DEF ListIndex
  <2>5. Sorted(Link(table[k], n))
    BY <1>1, <1>2, <2>4, LinkSorted
  <2> QED BY <1>1, <1>2, <2>3, <2>5
<1>6. CASE RemoveFromList \/ RemoveLastOfList \/ RemoveLastOfUnit
  <2>1. UnlinkHead(Head(todo))
    BY <1>6 DEF RemoveFromList, RemoveLastOfList, RemoveLastOfUnit
  <2>2. PICK n \in Node : n = Head(todo)
    BY <1>1, <2>1, NextNode DEF UnlinkHead, Loop
  <2>3. PICK k \in Slots : k = ListIndex(n)
    BY <2>2, IndexTypes
  <2>4. table' = [table EXCEPT ![k] = Unlink(@, n)]
    BY <2>1, <2>2, <2>3 DEF UnlinkHead
  <2>5. n \in ToSet(table[k])
    BY <1>1, <2>1, <2>2, <2>3, HeadListed DEF UnlinkHead, ListOf
  <2>6. Sorted(Unlink(table[k], n))
    BY <1>1, <1>2, <2>5, UnlinkSorted
  <2> QED BY <1>1, <1>2, <2>4, <2>6
<1>7. \/ UNCHANGED table \/ InsertInCocoTable
      \/ RemoveFromList \/ RemoveLastOfList \/ RemoveLastOfUnit
  BY DEF Next, vars, BeginInsert, ApplyFastPath, SkipInsert, BeginRemove, ResetFastPath, SkipRemove
<1> QED BY <1>4, <1>5, <1>6, <1>7

\* In every list no configuration stands behind one that it precedes under its
\* policy, whatever insertWithPolicy inserted and deleteNode took out of the middle
\* before: the head of a list of a value policy has the best value.
THEOREM ListsSorted == Spec => []ListsFollowPolicy
<1>1. Init => ListsFollowPolicy
  BY DEF Init, ListsFollowPolicy
<1>2. IInv /\ ListsFollowPolicy /\ [Next]_vars => ListsFollowPolicy'
  BY NextSorted
<1> QED BY <1>1, <1>2, SpecIInv, PTL DEF Spec

----------------------------------------------------------------------------
(* The coordinator implements ResourceArbiter. *)

\* The step simulation behind ArbiterSpec.  The record of IInv makes the value in
\* effect a function of the lists, before and after each step: the head of the
\* highest non-empty list.  Linking a node is then an Acquire because the node is
\* the new head of that list exactly when it outranks the old one; unlinking is a
\* Release because the next head is a best claim, which needs ListsFollowPolicy.

\* The state functions of the refinement mapping.
HoldersOf(r) == UNION {ToSet(table[<<r, TheUnit(r), p>>]) : p \in Priority}
WinnerOf(r) == sysfs[<<r, TheUnit(r)>>]

\* An insertion that changes the mapped state like Acquire is an Acquire.
LEMMA MapsToAcquire ==
    ASSUME NEW n \in Claims, n.res \in Arbitrated, n \notin HoldersOf(n.res),
           \A r \in Arbitrated : HoldersOf(r)' =
               IF r = n.res THEN HoldersOf(r) \cup {n} ELSE HoldersOf(r),
           \A r \in Arbitrated : WinnerOf(r)' =
               IF r # n.res THEN WinnerOf(r)
               ELSE IF WinnerOf(r) = Default THEN n
               ELSE IF Arbiter!Outranks(Policy[n.res], n, WinnerOf(r)) THEN n
               ELSE WinnerOf(r)
    PROVE  Arbiter!Acquire(n)
<1> DEFINE holders == [r \in Arbitrated |-> HoldersOf(r)]
           winner == [r \in Arbitrated |-> WinnerOf(r)]
<1>1. holders' = [holders EXCEPT ![n.res] = @ \cup {n}]
  OBVIOUS
<1>2. winner' = [winner EXCEPT ![n.res] =
                    IF @ = Default THEN n
                    ELSE IF Arbiter!Outranks(Policy[n.res], n, @) THEN n ELSE @]
  OBVIOUS
<1>3. n \notin holders[n.res]
  OBVIOUS
<1> QED BY <1>1, <1>2, <1>3, Zenon DEF Arbiter!Acquire, HoldersOf, WinnerOf

\* A step that leaves the mapped state alone is a stuttering step.
LEMMA MapsToStutter ==
    ASSUME \A r \in Arbitrated : HoldersOf(r)' = HoldersOf(r),
           \A r \in Arbitrated : WinnerOf(r)' = WinnerOf(r)
    PROVE  UNCHANGED Arbiter!arbiterVars
BY DEF Arbiter!arbiterVars, HoldersOf, WinnerOf

\* A removal that changes the mapped state like Release is a Release.
LEMMA MapsToRelease ==
    ASSUME NEW n \in Claims, n.res \in Arbitrated, n \in HoldersOf(n.res), NEW d,
           \A r \in Arbitrated : HoldersOf(r)' =
               IF r = n.res THEN HoldersOf(r) \ {n} ELSE HoldersOf(r),
           \A r \in Arbitrated : WinnerOf(r)' = IF r = n.res THEN d ELSE WinnerOf(r),
           \/ WinnerOf(n.res) # n /\ d = WinnerOf(n.res)
           \/ WinnerOf(n.res) = n /\ HoldersOf(n.res) = {n} /\ d = Default
           \/ WinnerOf(n.res) = n
              /\ d \in Arbiter!BestOf(Policy[n.res], HoldersOf(n.res) \ {n})
    PROVE  Arbiter!Release(n)
<1> DEFINE holders == [r \in Arbitrated |-> HoldersOf(r)]
           winner == [r \in Arbitrated |-> WinnerOf(r)]
<1>1. holders' = [holders EXCEPT ![n.res] = @ \ {n}]
  OBVIOUS
<1>2. winner' = [winner EXCEPT ![n.res] = d]
  OBVIOUS
<1>3. holders[n.res] = HoldersOf(n.res) /\ winner[n.res] = WinnerOf(n.res)
  OBVIOUS
<1>4. n \in holders[n.res]
  BY <1>3
<1>5. CASE WinnerOf(n.res) # n /\ d = WinnerOf(n.res)
  <2>1. winner' = winner
    BY <1>2, <1>3, <1>5
  <2>2. winner[n.res] # n
    BY <1>3, <1>5
  <2> QED BY <1>1, <1>4, <2>1, <2>2, Zenon DEF Arbiter!Release, HoldersOf, WinnerOf
<1>6. CASE WinnerOf(n.res) = n /\ HoldersOf(n.res) = {n} /\ d = Default
  <2>1. winner[n.res] = n /\ holders[n.res] = {n} /\ winner' = [winner EXCEPT ![n.res] = Default]
    BY <1>2, <1>3, <1>6
  <2> QED BY <1>1, <1>4, <2>1, Zenon DEF Arbiter!Release, HoldersOf, WinnerOf
<1>7. CASE WinnerOf(n.res) = n
           /\ d \in Arbiter!BestOf(Policy[n.res], HoldersOf(n.res) \ {n})
  <2>1. winner[n.res] = n /\ d \in Arbiter!BestOf(Policy[n.res], holders[n.res] \ {n})
    BY <1>3, <1>7
  <2> QED BY <1>1, <1>2, <1>4, <2>1, Zenon DEF Arbiter!Release, HoldersOf, WinnerOf
<1> QED BY <1>5, <1>6, <1>7

\* An arbitrated resource has one unit, and the record of IInv applies to it.
LEMMA ArbitratedFacts ==
    ASSUME NEW r \in Arbitrated
    PROVE  /\ r \in Resource /\ r \in Supported /\ Listed(r) /\ Global(r)
           /\ TheUnit(r) \in UnitsOf[r] /\ TheUnit(r) \in Unit
           /\ \A u \in UnitsOf[r] : u = TheUnit(r)
<1>1. r \in Supported /\ r \in Resource /\ Listed(r) /\ Global(r) /\ UnitsOf[r] # {}
  BY ConstantsAssumption DEF Arbitrated
<1>2. TheUnit(r) \in UnitsOf[r]
  BY <1>1 DEF TheUnit
<1>3. UnitsOf[r] \subseteq Unit
  BY <1>1, ConstantsAssumption
<1> QED BY <1>1, <1>2, <1>3 DEF Global

\* A change of one list changes the holders of its resource accordingly.
LEMMA HoldersGain ==
    ASSUME NEW n \in Node, InTable(n),
           \A slot \in Slots : slot # ListIndex(n) => table'[slot] = table[slot],
           ToSet(table'[ListIndex(n)]) = ToSet(table[ListIndex(n)]) \cup {n},
           NEW r \in Arbitrated
    PROVE  HoldersOf(r)' = IF r = n.res THEN HoldersOf(r) \cup {n} ELSE HoldersOf(r)
<1>1. r \in Resource /\ TheUnit(r) \in Unit /\ \A u \in UnitsOf[r] : u = TheUnit(r)
  BY ArbitratedFacts
<1>2. n.prio \in Priority /\ ListIndex(n) = <<n.res, n.unit, n.prio>>
  BY IndexTypes DEF ListIndex
<1>3. HoldersOf(r)' = UNION {ToSet(table'[<<r, TheUnit(r), p>>]) : p \in Priority}
  BY DEF HoldersOf
<1>4. \A p \in Priority : <<r, TheUnit(r), p>> \in Slots
  BY <1>1 DEF Slots
<1>5. CASE r = n.res
  <2>1. n.unit = TheUnit(r)
    BY <1>1, <1>5 DEF InTable
  <2>2. \A p \in Priority : ToSet(table'[<<r, TheUnit(r), p>>]) =
            IF p = n.prio THEN ToSet(table[<<r, TheUnit(r), p>>]) \cup {n}
            ELSE ToSet(table[<<r, TheUnit(r), p>>])
    <3> TAKE p \in Priority
    <3>1. CASE p = n.prio
      BY <3>1, <2>1, <1>2, <1>5
    <3>2. CASE p # n.prio
      <4>1. <<r, TheUnit(r), p>> # ListIndex(n)
        BY <3>2, <1>2
      <4> QED BY <4>1, <3>2, <1>4
    <3> QED BY <3>1, <3>2
  <2>3. \A m : m \in HoldersOf(r)' <=> \E p \in Priority : m \in ToSet(table'[<<r, TheUnit(r), p>>])
    BY <1>3
  <2>4. \A m : m \in HoldersOf(r) <=> \E p \in Priority : m \in ToSet(table[<<r, TheUnit(r), p>>])
    BY DEF HoldersOf
  <2>5. \A m : m \in HoldersOf(r)' <=> m \in HoldersOf(r) \/ m = n
    BY <1>2, <2>2, <2>3, <2>4
  <2>6. HoldersOf(r)' = HoldersOf(r) \cup {n}
    BY <2>5
  <2> QED BY <1>5, <2>6
<1>6. CASE r # n.res
  <2>1. \A p \in Priority : table'[<<r, TheUnit(r), p>>] = table[<<r, TheUnit(r), p>>]
    BY <1>2, <1>4, <1>6
  <2> QED BY <1>3, <1>6, <2>1 DEF HoldersOf
<1> QED BY <1>5, <1>6

\* As HoldersGain, for a node that leaves its list and is in no other.
LEMMA HoldersLose ==
    ASSUME NEW n \in Node, InTable(n), TableMatchesRequests,
           \A slot \in Slots : slot # ListIndex(n) => table'[slot] = table[slot],
           ToSet(table'[ListIndex(n)]) = ToSet(table[ListIndex(n)]) \ {n},
           NEW r \in Arbitrated
    PROVE  HoldersOf(r)' = IF r = n.res THEN HoldersOf(r) \ {n} ELSE HoldersOf(r)
<1>1. r \in Resource /\ TheUnit(r) \in Unit /\ \A u \in UnitsOf[r] : u = TheUnit(r)
  BY ArbitratedFacts
<1>2. n.prio \in Priority /\ ListIndex(n) = <<n.res, n.unit, n.prio>>
  BY IndexTypes DEF ListIndex
<1>3. HoldersOf(r)' = UNION {ToSet(table'[<<r, TheUnit(r), p>>]) : p \in Priority}
  BY DEF HoldersOf
<1>4. \A p \in Priority : <<r, TheUnit(r), p>> \in Slots
  BY <1>1 DEF Slots
<1>5. CASE r = n.res
  <2>1. n.unit = TheUnit(r)
    BY <1>1, <1>5 DEF InTable
  <2>2. \A p \in Priority : ToSet(table'[<<r, TheUnit(r), p>>]) =
            ToSet(table[<<r, TheUnit(r), p>>]) \ {n}
    <3> TAKE p \in Priority
    <3>1. CASE p = n.prio
      BY <3>1, <2>1, <1>2, <1>5
    <3>2. CASE p # n.prio
      <4>1. <<r, TheUnit(r), p>> # ListIndex(n)
        BY <3>2, <1>2
      <4>2. n \notin ToSet(table[<<r, TheUnit(r), p>>])
        BY <4>1, <1>4 DEF TableMatchesRequests, ListsHoldOnlyDue, Slots
      <4> QED BY <4>1, <4>2, <1>4
    <3> QED BY <3>1, <3>2
  <2>3. \A m : m \in HoldersOf(r)' <=> \E p \in Priority : m \in ToSet(table'[<<r, TheUnit(r), p>>])
    BY <1>3
  <2>4. \A m : m \in HoldersOf(r) <=> \E p \in Priority : m \in ToSet(table[<<r, TheUnit(r), p>>])
    BY DEF HoldersOf
  <2>5. \A m : m \in HoldersOf(r)' <=> m \in HoldersOf(r) /\ m # n
    <3> SUFFICES ASSUME NEW m PROVE m \in HoldersOf(r)' <=> m \in HoldersOf(r) /\ m # n
      OBVIOUS
    <3>1. \A p \in Priority : m \in ToSet(table'[<<r, TheUnit(r), p>>])
              <=> m \in ToSet(table[<<r, TheUnit(r), p>>]) /\ m # n
      BY <2>2
    <3> QED BY <2>3, <2>4, <3>1
  <2>6. HoldersOf(r)' = HoldersOf(r) \ {n}
    BY <2>5
  <2> QED BY <1>5, <2>6
<1>6. CASE r # n.res
  <2>1. \A p \in Priority : table'[<<r, TheUnit(r), p>>] = table[<<r, TheUnit(r), p>>]
    BY <1>2, <1>4, <1>6
  <2> QED BY <1>3, <1>6, <2>1 DEF HoldersOf
<1> QED BY <1>5, <1>6

----------------------------------------------------------------------------
(* The nodes in play stem from requests that clients may send *)

Offers == UNION {ToSet(NodesOf(h, b)) : h \in Request, b \in Offered}
Genuine ==
    /\ ToSet(todo) \subseteq Offers
    /\ \A h \in Request : ToSet(request[h]) \subseteq Offers

\* insertRequest takes its nodes from a request body, removeRequest from the
\* request it inserted.
LEMMA NextGenuine ==
    ASSUME IInv, Genuine, [Next]_vars
    PROVE  Genuine'
<1>1. request \in [Request -> Seq(Node)] /\ todo \in Seq(Node) /\ TypeOK /\ LoopInv
  BY DEF IInv, TypeOK
<1>2. ASSUME NEW h \in Request, NEW b \in Offered, BeginInsert(h, b) PROVE Genuine'
  <2>1. ToSet(NodesOf(h, b)) \subseteq Offers
    BY DEF Offers
  <2>2. todo' = NodesOf(h, b) /\ request' = [request EXCEPT ![h] = NodesOf(h, b)]
    BY <1>2 DEF BeginInsert
  <2> HIDE DEF Offers
  <2> QED BY <1>1, <2>1, <2>2 DEF Genuine
<1>3. ASSUME NEW h \in Request, BeginRemove(h) PROVE Genuine'
  <2>1. todo' = request[h] /\ request' = [request EXCEPT ![h] = <<>>]
    BY <1>3 DEF BeginRemove
  <2>2. ToSet(<<>>) = {}
    BY DEF ToSet
  <2> QED BY <1>1, <2>1, <2>2 DEF Genuine
<1>4. CASE todo # <<>> /\ Advance
  <2>1. ToSet(Tail(todo)) \subseteq ToSet(todo)
    BY <1>1, <1>4, NextNode
  <2> QED BY <1>4, <2>1 DEF Advance, Genuine
<1>5. CASE UNCHANGED vars
  BY <1>5 DEF vars, Genuine
<1>6. \/ \E h \in Request, b \in Offered : BeginInsert(h, b)
      \/ \E h \in Request : BeginRemove(h)
      \/ todo # <<>> /\ Advance
      \/ UNCHANGED vars
  BY DEF Next, ApplyFastPath, SkipInsert, InsertInCocoTable, ResetFastPath, SkipRemove,
         RemoveFromList, RemoveLastOfList, RemoveLastOfUnit, UnlinkHead, Loop
<1> QED BY <1>2, <1>3, <1>4, <1>5, <1>6

\* The next node of a loop is a claim, if its resource is arbitrated.
LEMMA HeadIsClaim ==
    ASSUME IInv, Genuine, todo # <<>>, NEW n, n = Head(todo), InTable(n), n.res \in Arbitrated
    PROVE  n \in Claims
<1>1. n \in ToSet(todo)
  BY NextNode DEF IInv
<1>2. n \in Offers
  BY <1>1 DEF Genuine
<1> QED BY <1>2 DEF Claims, Offers, InTable

----------------------------------------------------------------------------
(* Heads of lists *)

\* The new head of a list after insertWithPolicy.
LEMMA LinkHead ==
    ASSUME NEW s \in Seq(Node), NEW n \in Node, s # <<>>
    PROVE  Head(Link(s, n)) =
             IF Policy[n.res] = "instant_apply" \/ Precedes(n, Head(s)) THEN n ELSE Head(s)
<1>1. PICK k \in 1 .. Len(s) + 1 : k = InsertPosition(s, n)
  BY InsertPositionRange
<1>2. /\ Link(s, n) \in Seq(Node) /\ Len(Link(s, n)) = Len(s) + 1
      /\ \A j \in 1 .. Len(s) + 1 : Link(s, n)[j] =
            IF j < k THEN s[j] ELSE IF j = k THEN n ELSE s[j - 1]
  BY <1>1, InsertAtFacts DEF Link
<1>3. Len(s) \in Nat /\ Len(s) >= 1 /\ Head(s) = s[1]
  OBVIOUS
<1>4. Head(Link(s, n)) = IF k = 1 THEN n ELSE Head(s)
  <2>1. Head(Link(s, n)) = Link(s, n)[1]
    BY <1>2, <1>3
  <2> QED BY <1>2, <1>3, <2>1
<1>5. CASE Policy[n.res] = "instant_apply"
  <2>1. k = 1
    BY <1>1, <1>5 DEF InsertPosition
  <2> QED BY <1>4, <1>5, <2>1
<1>6. CASE Policy[n.res] # "instant_apply"
  <2>1. /\ \A i \in 1 .. Len(s) : i < k => ~Precedes(n, s[i])
        /\ k <= Len(s) => Precedes(n, s[k])
    BY <1>1, <1>6, InsertPositionFacts
  <2>2. k = 1 <=> Precedes(n, s[1])
    BY <1>3, <2>1
  <2> QED BY <1>3, <1>4, <1>6, <2>2
<1> QED BY <1>5, <1>6

\* A list with one element has it as its head.
LEMMA SingletonHead ==
    ASSUME NEW s \in Seq(Node), NEW n, ToSet(s) = {n}, s # <<>>
    PROVE  Head(s) = n
<1>1. s[1] \in ToSet(s) /\ Head(s) = s[1]
  BY DEF ToSet
<1> QED BY <1>1

\* The nodes of a list belong to its resource, unit and priority.
LEMMA ListedFields ==
    ASSUME TypeOK, TableMatchesRequests, NEW r \in Resource, NEW u \in Unit, NEW p \in Priority,
           NEW m \in ToSet(table[<<r, u, p>>])
    PROVE  m \in Node /\ m.res = r /\ m.unit = u /\ m.prio = p
<1>1. <<r, u, p>> \in Slots /\ table \in [Slots -> Seq(Node)]
  BY DEF Slots, TypeOK
<1>2. ListIndex(m) = <<r, u, p>>
  BY <1>1 DEF TableMatchesRequests, ListsHoldOnlyDue, Slots
<1>3. m \in Node
  BY <1>1 DEF ToSet
<1> QED BY <1>2, <1>3 DEF ListIndex

\* A non-empty list holds its head.
LEMMA HeadInList ==
    ASSUME NEW s \in Seq(Node), s # <<>>
    PROVE  Head(s) \in ToSet(s) /\ Head(s) \in Node
<1>1. Head(s) = s[1] /\ 1 \in DOMAIN s /\ s[1] \in Node
  OBVIOUS
<1> QED BY <1>1 DEF ToSet

----------------------------------------------------------------------------
(* The winner after an insertion *)

\* The record is right before and after, so that the heads of the highest lists
\* decide: the new node takes over exactly when it outranks the winner.
LEMMA InsertWinner ==
    ASSUME TypeOK, TypeOK', TableMatchesRequests, NEW n \in Node,
           RecordOK(n.res, n.unit), RecordOK(n.res, n.unit)',
           table'[ListIndex(n)] = Link(table[ListIndex(n)], n),
           \A slot \in Slots : slot # ListIndex(n) => table'[slot] = table[slot]
    PROVE  sysfs'[Cell(n)] =
             IF sysfs[Cell(n)] = Default THEN n
             ELSE IF Arbiter!Outranks(Policy[n.res], n, sysfs[Cell(n)]) THEN n
             ELSE sysfs[Cell(n)]
<1> DEFINE L(p) == table[<<n.res, n.unit, p>>]
           M(p) == table'[<<n.res, n.unit, p>>]
<1>0. Default \notin Node
  BY ConstantsAssumption
<1>1. /\ n.res \in Resource /\ n.unit \in Unit /\ n.prio \in Priority
      /\ ListIndex(n) = <<n.res, n.unit, n.prio>> /\ Cell(n) = <<n.res, n.unit>>
  BY IndexTypes DEF ListIndex, Cell
<1>2. \A p \in Priority : L(p) \in Seq(Node) /\ M(p) \in Seq(Node)
  BY <1>1 DEF TypeOK
<1>3. M(n.prio) = Link(L(n.prio), n) /\ \A p \in Priority : p # n.prio => M(p) = L(p)
  <2>1. \A p \in Priority : <<n.res, n.unit, p>> \in Slots
    BY <1>1 DEF Slots
  <2> QED BY <1>1, <2>1
<1>4. M(n.prio) # <<>> /\ ToSet(M(n.prio)) = ToSet(L(n.prio)) \cup {n}
  BY <1>1, <1>2, <1>3, LinkFacts
<1>5. PICK a \in Priority : /\ applied'[n.res] = a /\ M(a) # <<>>
                            /\ \A p \in Priority : p < a => M(p) = <<>>
                            /\ sysfs'[Cell(n)] = Head(M(a))
  BY <1>1, <1>4 DEF RecordOK
<1>6. ToSet(<<>>) = {}
  BY DEF ToSet
<1>7. L(n.prio) = <<>> => Head(M(n.prio)) = n
  <2>1. PICK t \in Seq(Node) : t = M(n.prio)
    BY <1>1, <1>2
  <2>2. t # <<>> /\ (L(n.prio) = <<>> => ToSet(t) = {n})
    BY <1>4, <1>6, <2>1
  <2>3. L(n.prio) = <<>> => Head(t) = n
    BY <2>2, SingletonHead
  <2> QED BY <2>1, <2>3
<1> HIDE DEF L, M
<1>8. CASE \A p \in Priority : L(p) = <<>>
  <2>1. sysfs[Cell(n)] = Default
    BY <1>1, <1>8 DEF RecordOK, L
  <2>2. a = n.prio
    BY <1>3, <1>5, <1>8
  <2> QED BY <1>1, <1>5, <1>7, <1>8, <2>1, <2>2
<1>9. CASE ~ \A p \in Priority : L(p) = <<>>
  <2>1. PICK b \in Priority : /\ L(b) # <<>>
                              /\ \A p \in Priority : p < b => L(p) = <<>>
                              /\ sysfs[Cell(n)] = Head(L(b))
    BY <1>1, <1>9 DEF RecordOK, L
  <2>2. PICK w \in Node : w = Head(L(b))
    BY <1>2, <2>1, HeadInList
  <2>3. w.res = n.res /\ w.prio = b /\ w # Default /\ sysfs[Cell(n)] = w
    <3>1. w \in ToSet(L(b))
      BY <1>2, <2>1, <2>2, HeadInList
    <3> QED BY <1>0, <1>1, <2>1, <2>2, <3>1, ListedFields DEF L
  <2>4. PICK p \in Priority : p = n.prio
    BY <1>1
  <2>5. a \in Int /\ b \in Int /\ p \in Int
    BY DEF Priority, TOTAL_PRIORITIES
  <2>6. CASE p < b
    <3>1. L(p) = <<>>
      BY <2>1, <2>6
    <3>2. M(p) # <<>> /\ Head(M(p)) = n
      BY <1>4, <1>7, <2>4, <3>1
    <3>3. a = p
      <4>1. ~(p < a)
        BY <1>5, <3>2
      <4>2. ~(a < p)
        BY <1>3, <1>5, <2>1, <2>4, <2>5, <2>6
      <4> QED BY <2>5, <4>1, <4>2
    <3>4. Arbiter!Outranks(Policy[n.res], n, w)
      BY <2>3, <2>4, <2>6 DEF Arbiter!Outranks
    <3> QED BY <1>5, <2>3, <3>2, <3>3, <3>4
  <2>7. CASE p = b
    <3>1. a = b
      <4>1. ~(b < a)
        BY <1>4, <1>5, <2>4, <2>7
      <4>2. ~(a < b)
        BY <1>3, <1>5, <2>1, <2>4, <2>5, <2>7
      <4> QED BY <2>5, <4>1, <4>2
    <3>2. Head(M(b)) = IF Policy[n.res] = "instant_apply" \/ Precedes(n, w) THEN n ELSE w
      BY <1>2, <1>3, <2>1, <2>2, <2>4, <2>7, LinkHead
    <3>3. Arbiter!Outranks(Policy[n.res], n, w)
            <=> Policy[n.res] = "instant_apply" \/ Precedes(n, w)
      <4>1. n.prio = w.prio /\ ~(n.prio < w.prio)
        BY <2>3, <2>4, <2>5, <2>7
      <4> QED BY <4>1 DEF Arbiter!Outranks, Arbiter!Better, Precedes
    <3> QED BY <1>5, <2>3, <3>1, <3>2, <3>3
  <2>8. CASE p > b
    <3>1. M(b) = L(b)
      BY <1>3, <2>4, <2>5, <2>8
    <3>2. a = b
      <4>1. ~(b < a)
        BY <1>5, <2>1, <3>1
      <4>2. ~(a < b)
        BY <1>3, <1>5, <2>1, <2>4, <2>5, <2>8
      <4> QED BY <2>5, <4>1, <4>2
    <3>3. ~Arbiter!Outranks(Policy[n.res], n, w)
      <4>1. n.prio > w.prio /\ n.prio \in Int /\ w.prio \in Int
        BY <2>3, <2>4, <2>5, <2>8
      <4>2. n.prio # w.prio /\ ~(n.prio < w.prio)
        BY <4>1
      <4> QED BY <4>2 DEF Arbiter!Outranks
    <3> QED BY <1>5, <2>2, <2>3, <3>1, <3>2, <3>3
  <2> QED BY <2>5, <2>6, <2>7, <2>8
<1> QED BY <1>8, <1>9

\* insertInCocoTable is an Acquire of the arbiter, or invisible to it.
LEMMA InsertMaps ==
    ASSUME IInv, Genuine, InsertInCocoTable
    PROVE  Arbiter!Next \/ UNCHANGED Arbiter!arbiterVars
<1>1. TypeOK /\ LoopInv /\ TableMatchesRequests /\ Loop("insert") /\ todo # <<>>
  BY DEF IInv, InsertInCocoTable, Loop
<1>2. PICK n \in Node : n = Head(todo)
  BY <1>1, NextNode
<1>3. /\ ~PassThrough(n) /\ InTable(n)
      /\ table' = [table EXCEPT ![ListIndex(n)] = Link(@, n)]
      /\ ApplyAction(n, applied[n.res]) \/ UNCHANGED <<applied, sysfs>>
  BY <1>2 DEF InsertInCocoTable
<1>4. IInv' /\ TypeOK' /\ GlobalRecord' /\ GlobalRecord
  BY InsertStep DEF IInv
<1>5. ListIndex(n) \in Slots /\ table \in [Slots -> Seq(Node)] /\ Cell(n) = <<n.res, n.unit>>
      /\ n.res \in Resource /\ n.unit \in Unit
  BY <1>1, IndexTypes DEF TypeOK, Slots, Cell
<1>6. /\ table'[ListIndex(n)] = Link(table[ListIndex(n)], n)
      /\ \A slot \in Slots : slot # ListIndex(n) => table'[slot] = table[slot]
  BY <1>3, <1>5
<1>7. /\ ToSet(table'[ListIndex(n)]) = ToSet(table[ListIndex(n)]) \cup {n}
  BY <1>5, <1>6, LinkFacts
<1>8. \A q \in Resource, v \in Unit : <<q, v>> # Cell(n) => sysfs'[<<q, v>>] = sysfs[<<q, v>>]
  <2>1. applied[n.res] \in Priority \cup {NotApplied}
    BY <1>1, <1>5 DEF TypeOK
  <2>2. CASE ApplyAction(n, applied[n.res])
    BY <1>1, <2>1, <2>2, ApplyActionFacts
  <2>3. CASE UNCHANGED <<applied, sysfs>>
    BY <2>3
  <2> QED BY <1>3, <2>2, <2>3
<1>9. \A q \in Arbitrated : q # n.res => WinnerOf(q)' = WinnerOf(q)
  <2> SUFFICES ASSUME NEW q \in Arbitrated, q # n.res PROVE WinnerOf(q)' = WinnerOf(q)
    OBVIOUS
  <2>1. q \in Resource /\ TheUnit(q) \in Unit
    BY ArbitratedFacts
  <2>2. sysfs'[<<q, TheUnit(q)>>] = sysfs[<<q, TheUnit(q)>>]
    BY <1>5, <1>8, <2>1
  <2> QED BY <2>2 DEF WinnerOf
<1>10. \A q \in Arbitrated : HoldersOf(q)' =
           IF q = n.res THEN HoldersOf(q) \cup {n} ELSE HoldersOf(q)
  BY <1>3, <1>6, <1>7, HoldersGain
<1>11. CASE n.res \notin Arbitrated
  <2>1. \A q \in Arbitrated : HoldersOf(q)' = HoldersOf(q) /\ WinnerOf(q)' = WinnerOf(q)
    BY <1>9, <1>10, <1>11
  <2> QED BY <2>1, MapsToStutter
<1>12. CASE n.res \in Arbitrated
  <2>1. /\ n.unit = TheUnit(n.res) /\ n.res \in Supported /\ n.unit \in UnitsOf[n.res]
        /\ Listed(n.res) /\ Global(n.res)
    BY <1>3, <1>12, ArbitratedFacts DEF InTable
  <2>2. RecordOK(n.res, n.unit) /\ RecordOK(n.res, n.unit)'
    BY <1>4, <2>1 DEF GlobalRecord, Listed, Global
  <2>3. WinnerOf(n.res)' = IF WinnerOf(n.res) = Default THEN n
                           ELSE IF Arbiter!Outranks(Policy[n.res], n, WinnerOf(n.res)) THEN n
                           ELSE WinnerOf(n.res)
    BY <1>1, <1>4, <1>5, <1>6, <2>1, <2>2, InsertWinner DEF WinnerOf
  <2>4. n \notin HoldersOf(n.res)
    <3>1. \A p \in Priority : <<n.res, TheUnit(n.res), p>> \in Slots
      BY <1>5, <2>1 DEF Slots
    <3>2. \A slot \in Slots : n \notin ToSet(table[slot])
      BY <1>1, <1>2, HeadNotListedYet
    <3> QED BY <3>1, <3>2 DEF HoldersOf
  <2>5. n \in Claims
    BY <1>1, <1>2, <1>3, <1>12, HeadIsClaim
  <2>6. Arbiter!Acquire(n)
    BY <1>9, <1>10, <1>12, <2>3, <2>4, <2>5, MapsToAcquire
  <2> QED BY <2>5, <2>6 DEF Arbiter!Next
<1> QED BY <1>11, <1>12

----------------------------------------------------------------------------
(* The winner after a removal *)

\* The head of the highest list is a best claim, the lists being sorted.  Stated for
\* any table T, to be used for the table after a step.
LEMMA HeadIsBest ==
    ASSUME NEW T \in [Slots -> Seq(Node)],
           \A slot \in Slots : Sorted(T[slot]) /\ \A m \in ToSet(T[slot]) : ListIndex(m) = slot,
           NEW r \in Resource, NEW u \in Unit, NEW a \in Priority, T[<<r, u, a>>] # <<>>,
           \A p \in Priority : p < a => T[<<r, u, p>>] = <<>>
    PROVE  Head(T[<<r, u, a>>])
             \in Arbiter!BestOf(Policy[r], UNION {ToSet(T[<<r, u, p>>]) : p \in Priority})
<1> DEFINE s == T[<<r, u, a>>]
           H == UNION {ToSet(T[<<r, u, p>>]) : p \in Priority}
<1>1. \A p \in Priority : <<r, u, p>> \in Slots
  BY DEF Slots
<1>2. s \in Seq(Node) /\ Sorted(s)
  BY <1>1
<1>3. PICK c \in ToSet(s) : c = Head(s) /\ c = s[1]
  BY <1>2, HeadInList
<1>4. \A p \in Priority : \A m \in ToSet(T[<<r, u, p>>]) : m \in Node /\ m.res = r /\ m.prio = p
  <2> SUFFICES ASSUME NEW p \in Priority, NEW m \in ToSet(T[<<r, u, p>>])
               PROVE  m \in Node /\ m.res = r /\ m.prio = p
    OBVIOUS
  <2>1. ListIndex(m) = <<r, u, p>>
    BY <1>1
  <2>2. T[<<r, u, p>>] \in Seq(Node)
    BY <1>1
  <2>3. m \in Node
    BY <2>2 DEF ToSet
  <2> QED BY <2>1, <2>3 DEF ListIndex
<1>5. c \in Node /\ c.res = r /\ c.prio = a /\ c \in H
  BY <1>3, <1>4
<1>6. ToSet(<<>>) = {} /\ Priority \subseteq Int
  BY DEF ToSet, Priority, TOTAL_PRIORITIES
<1>7. ASSUME NEW d \in H
      PROVE  c.prio <= d.prio /\ (c.prio = d.prio => ~Arbiter!Better(Policy[r], d, c))
  <2>1. PICK p \in Priority : d \in ToSet(T[<<r, u, p>>])
    BY <1>7
  <2>2. d \in Node /\ d.res = r /\ d.prio = p
    BY <1>4, <2>1
  <2>3. ~(p < a)
    BY <1>6, <2>1
  <2>4. c.prio <= d.prio
    BY <1>5, <1>6, <2>2, <2>3
  <2>5. ASSUME p = a PROVE ~Precedes(d, c)
    <3>0. d \in ToSet(s)
      BY <2>1, <2>5
    <3> HIDE DEF s
    <3>1. PICK j \in 1 .. Len(s) : d = s[j]
      BY <1>2, <3>0 DEF ToSet
    <3>2. CASE j = 1
      <4>1. d = c /\ d.val \in Int
        BY <1>3, <2>2, <3>1, <3>2, NodeValue
      <4> QED BY <4>1 DEF Precedes
    <3>3. CASE j # 1
      <4>1. 1 \in 1 .. Len(s) /\ 1 < j
        BY <1>2, <3>1, <3>3
      <4> QED BY <1>2, <1>3, <3>1, <4>1 DEF Sorted
    <3> QED BY <3>2, <3>3
  <2>6. Precedes(d, c) <=> Arbiter!Better(Policy[r], d, c)
    BY <2>2 DEF Precedes, Arbiter!Better
  <2> QED BY <1>5, <2>2, <2>4, <2>5, <2>6
<1> QED BY <1>3, <1>5, <1>7 DEF Arbiter!BestOf

\* Unlinking a node that is not the winner leaves the winner in effect.
LEMMA RemoveWinner ==
    ASSUME TypeOK, TypeOK', TableMatchesRequests, NEW n \in Node,
           n \in ToSet(table[ListIndex(n)]),
           RecordOK(n.res, n.unit), RecordOK(n.res, n.unit)',
           table'[ListIndex(n)] = Unlink(table[ListIndex(n)], n),
           \A slot \in Slots : slot # ListIndex(n) => table'[slot] = table[slot]
    PROVE  sysfs[Cell(n)] # n => sysfs'[Cell(n)] = sysfs[Cell(n)]
<1> DEFINE L(p) == table[<<n.res, n.unit, p>>]
           M(p) == table'[<<n.res, n.unit, p>>]
<1>1. /\ n.res \in Resource /\ n.unit \in Unit
      /\ ListIndex(n) = <<n.res, n.unit, n.prio>> /\ Cell(n) = <<n.res, n.unit>>
  BY IndexTypes DEF ListIndex, Cell
<1>2. PICK p \in Priority : p = n.prio
  BY IndexTypes
<1>3. \A q \in Priority : L(q) \in Seq(Node) /\ M(q) \in Seq(Node)
  BY <1>1 DEF TypeOK
<1>4. M(p) = Unlink(L(p), n) /\ \A q \in Priority : q # p => M(q) = L(q)
  <2>1. \A q \in Priority : <<n.res, n.unit, q>> \in Slots
    BY <1>1 DEF Slots
  <2> QED BY <1>1, <1>2, <2>1
<1>5. n \in ToSet(L(p)) /\ IsInjective(L(p)) /\ L(p) # <<>>
  <2>1. n \in ToSet(L(p)) /\ IsInjective(L(p))
    BY <1>1, <1>2 DEF TableMatchesRequests, ListsHoldOnlyDue
  <2> QED BY <2>1 DEF ToSet
<1>6. Head(L(p)) # n => M(p) # <<>> /\ Head(M(p)) = Head(L(p))
  BY <1>3, <1>4, <1>5, UnlinkFacts
<1> HIDE DEF L, M
<1>8. PICK b \in Priority : /\ L(b) # <<>>
                            /\ \A q \in Priority : q < b => L(q) = <<>>
                            /\ sysfs[Cell(n)] = Head(L(b))
  BY <1>1, <1>5 DEF RecordOK, L
<1>9. SUFFICES ASSUME sysfs[Cell(n)] # n PROVE sysfs'[Cell(n)] = Head(L(b))
  BY <1>8
<1>10. M(b) # <<>> /\ Head(M(b)) = Head(L(b))
  BY <1>4, <1>6, <1>8, <1>9
<1>11. PICK a \in Priority : /\ M(a) # <<>>
                             /\ \A q \in Priority : q < a => M(q) = <<>>
                             /\ sysfs'[Cell(n)] = Head(M(a))
  BY <1>1, <1>10 DEF RecordOK, M
<1>12. a = b
  <2>1. a \in Int /\ b \in Int /\ p \in Int
    BY DEF Priority, TOTAL_PRIORITIES
  <2>2. ~(b < a)
    BY <1>10, <1>11
  <2>3. ~(a < b)
    <3>1. a # p => M(a) = L(a)
      BY <1>4
    <3> QED BY <1>5, <1>8, <1>11, <3>1
  <2> QED BY <2>1, <2>2, <2>3
<1> QED BY <1>10, <1>11, <1>12

\* The iterations of removeRequest that unlink a node are Releases of the arbiter,
\* or invisible to it.
LEMMA RemoveMaps ==
    ASSUME IInv, IInv', ListsFollowPolicy', Genuine,
           RemoveFromList \/ RemoveLastOfList \/ RemoveLastOfUnit
    PROVE  Arbiter!Next \/ UNCHANGED Arbiter!arbiterVars
<1>1. /\ TypeOK /\ LoopInv /\ TableMatchesRequests /\ Loop("remove") /\ todo # <<>>
      /\ UnlinkHead(Head(todo))
  BY DEF IInv, RemoveFromList, RemoveLastOfList, RemoveLastOfUnit, UnlinkHead, Loop
<1>2. PICK n \in Node : n = Head(todo)
  BY <1>1, NextNode
<1>3. /\ ~PassThrough(n) /\ InTable(n)
      /\ table' = [table EXCEPT ![ListIndex(n)] = Unlink(@, n)]
  BY <1>1, <1>2 DEF UnlinkHead
<1>4. TypeOK' /\ TableMatchesRequests' /\ GlobalRecord' /\ GlobalRecord
  BY DEF IInv
<1>5. /\ ListIndex(n) \in Slots /\ table \in [Slots -> Seq(Node)]
      /\ ListIndex(n) = <<n.res, n.unit, n.prio>> /\ Cell(n) = <<n.res, n.unit>>
      /\ n.res \in Resource /\ n.unit \in Unit /\ n.prio \in Priority
  BY <1>1, IndexTypes DEF TypeOK, Slots, Cell, ListIndex
<1>6. /\ table'[ListIndex(n)] = Unlink(table[ListIndex(n)], n)
      /\ \A slot \in Slots : slot # ListIndex(n) => table'[slot] = table[slot]
  BY <1>3, <1>5
<1>7. n \in ToSet(table[ListIndex(n)]) /\ IsInjective(table[ListIndex(n)])
  <2>1. n \in ToSet(table[ListIndex(n)])
    BY <1>1, <1>2, <1>3, HeadListed DEF ListOf
  <2> QED BY <1>1, <1>5, <2>1 DEF TableMatchesRequests, ListsHoldOnlyDue, Slots
<1>8. /\ Unlink(table[ListIndex(n)], n) \in Seq(Node)
      /\ ToSet(table'[ListIndex(n)]) = ToSet(table[ListIndex(n)]) \ {n}
  BY <1>5, <1>6, <1>7, UnlinkFacts
<1>9. \A q \in Resource, v \in Unit : <<q, v>> # Cell(n) => sysfs'[<<q, v>>] = sysfs[<<q, v>>]
  <2>1. ASSUME NEW m \in Node, NEW c \in Priority \cup {NotApplied},
               ApplyAction(m, c), m.res = n.res, m.unit = n.unit
        PROVE  \A q \in Resource, v \in Unit :
                   <<q, v>> # Cell(n) => sysfs'[<<q, v>>] = sysfs[<<q, v>>]
    <3>1. Cell(m) = Cell(n)
      BY <2>1 DEF Cell
    <3> QED BY <1>1, <2>1, <3>1, ApplyActionFacts
  <2>2. applied[n.res] \in Priority \cup {NotApplied}
    BY <1>1, <1>5 DEF TypeOK
  <2>3. CASE RemoveFromList
    <3> DEFINE rest == Unlink(table[ListIndex(n)], n)
    <3>1. rest # <<>> /\ (ApplyAction(Head(rest), applied[n.res]) \/ UNCHANGED <<applied, sysfs>>)
      BY <1>2, <2>3 DEF RemoveFromList, ListOf
    <3>2. Head(rest) \in ToSet(table[ListIndex(n)])
      BY <1>6, <1>8, <3>1, HeadInList
    <3>3. Head(rest) \in Node /\ Head(rest).res = n.res /\ Head(rest).unit = n.unit
      BY <1>1, <1>5, <3>2, ListedFields
    <3> HIDE DEF rest
    <3>4. CASE ApplyAction(Head(rest), applied[n.res])
      BY <2>1, <2>2, <3>3, <3>4
    <3>5. CASE UNCHANGED <<applied, sysfs>>
      BY <3>5
    <3> QED BY <3>1, <3>4, <3>5
  <2>4. CASE RemoveLastOfList
    <3>1. PICK level : level = FirstLevel(Remaining(n))
      OBVIOUS
    <3>2. Remaining(n) # {} /\ ApplyAction(Head(table[<<n.res, n.unit, level>>]), level)
      BY <1>2, <2>4, <3>1 DEF RemoveLastOfList
    <3>3. level \in Priority /\ table[<<n.res, n.unit, level>>] # <<>>
      <4>1. Remaining(n) \in SUBSET Priority
        BY DEF Remaining
      <4>2. level \in Remaining(n)
        BY <3>1, <3>2, <4>1, FirstLevelFacts
      <4> QED BY <4>2 DEF Remaining
    <3>4. table[<<n.res, n.unit, level>>] \in Seq(Node)
      BY <1>5, <3>3 DEF Slots
    <3>5. PICK m \in ToSet(table[<<n.res, n.unit, level>>]) :
              m = Head(table[<<n.res, n.unit, level>>])
      BY <3>3, <3>4, HeadInList
    <3>6. m \in Node /\ m.res = n.res /\ m.unit = n.unit
      BY <1>1, <1>5, <3>3, <3>5, ListedFields
    <3> QED BY <2>1, <3>2, <3>3, <3>5, <3>6
  <2>5. CASE RemoveLastOfUnit
    <3>1. sysfs' = [sysfs EXCEPT ![Cell(n)] = Default]
      BY <1>2, <2>5 DEF RemoveLastOfUnit, RemoveAction
    <3> QED BY <1>1, <3>1 DEF TypeOK
  <2> QED BY <2>3, <2>4, <2>5
<1>10. \A q \in Arbitrated : q # n.res => WinnerOf(q)' = WinnerOf(q)
  <2> SUFFICES ASSUME NEW q \in Arbitrated, q # n.res PROVE WinnerOf(q)' = WinnerOf(q)
    OBVIOUS
  <2>1. q \in Resource /\ TheUnit(q) \in Unit
    BY ArbitratedFacts
  <2>2. sysfs'[<<q, TheUnit(q)>>] = sysfs[<<q, TheUnit(q)>>]
    BY <1>5, <1>9, <2>1
  <2> QED BY <2>2 DEF WinnerOf
<1>11. \A q \in Arbitrated : HoldersOf(q)' =
           IF q = n.res THEN HoldersOf(q) \ {n} ELSE HoldersOf(q)
  BY <1>1, <1>3, <1>6, <1>8, HoldersLose
<1>12. CASE n.res \notin Arbitrated
  <2>1. \A q \in Arbitrated : HoldersOf(q)' = HoldersOf(q) /\ WinnerOf(q)' = WinnerOf(q)
    BY <1>10, <1>11, <1>12
  <2> QED BY <2>1, MapsToStutter
<1>13. CASE n.res \in Arbitrated
  <2>1. /\ n.unit = TheUnit(n.res) /\ n.res \in Supported /\ n.unit \in UnitsOf[n.res]
        /\ Listed(n.res) /\ Global(n.res)
    BY <1>3, <1>13, ArbitratedFacts DEF InTable
  <2>2. RecordOK(n.res, n.unit) /\ RecordOK(n.res, n.unit)'
    BY <1>4, <2>1 DEF GlobalRecord, Listed, Global
  <2>3. n \in HoldersOf(n.res)
    BY <1>5, <1>7, <2>1 DEF HoldersOf
  <2>4. n \in Claims
    BY <1>1, <1>2, <1>3, <1>13, HeadIsClaim
  <2>5. PICK d : d = sysfs'[Cell(n)]
    OBVIOUS
  <2>6. /\ WinnerOf(n.res) = sysfs[Cell(n)]
        /\ \A q \in Arbitrated : WinnerOf(q)' = IF q = n.res THEN d ELSE WinnerOf(q)
    <3>1. WinnerOf(n.res)' = d
      BY <1>5, <2>1, <2>5 DEF WinnerOf
    <3>2. WinnerOf(n.res) = sysfs[Cell(n)]
      BY <1>5, <2>1 DEF WinnerOf
    <3> QED BY <1>10, <3>1, <3>2
  <2>7. CASE sysfs[Cell(n)] # n
    <3>1. d = WinnerOf(n.res)
      BY <1>1, <1>4, <1>6, <1>7, <2>2, <2>5, <2>6, <2>7, RemoveWinner
    <3>2. Arbiter!Release(n)
      BY <1>11, <1>13, <2>3, <2>4, <2>6, <2>7, <3>1, MapsToRelease
    <3> QED BY <2>4, <3>2 DEF Arbiter!Next
  <2>8. CASE sysfs[Cell(n)] = n
    <3>1. PICK T \in [Slots -> Seq(Node)] : T = table'
      BY <1>4 DEF TypeOK, Slots
    <3>2. HoldersOf(n.res) \ {n} = UNION {ToSet(T[<<n.res, n.unit, p>>]) : p \in Priority}
      <4>1. HoldersOf(n.res)' = UNION {ToSet(T[<<n.res, n.unit, p>>]) : p \in Priority}
        BY <2>1, <3>1 DEF HoldersOf
      <4> QED BY <1>11, <1>13, <4>1
    <3>3. CASE \A p \in Priority : T[<<n.res, n.unit, p>>] = <<>>
      <4>1. ToSet(<<>>) = {}
        BY DEF ToSet
      <4>2. HoldersOf(n.res) \ {n} = {}
        BY <3>2, <3>3, <4>1
      <4>3. HoldersOf(n.res) = {n}
        BY <2>3, <4>2
      <4>4. d = Default
        BY <1>5, <2>2, <2>5, <3>1, <3>3 DEF RecordOK
      <4>5. Arbiter!Release(n)
        BY <1>11, <1>13, <2>3, <2>4, <2>6, <2>8, <4>3, <4>4, MapsToRelease
      <4> QED BY <2>4, <4>5 DEF Arbiter!Next
    <3>4. CASE ~ \A p \in Priority : T[<<n.res, n.unit, p>>] = <<>>
      <4>1. PICK a \in Priority : /\ T[<<n.res, n.unit, a>>] # <<>>
                                  /\ \A p \in Priority : p < a => T[<<n.res, n.unit, p>>] = <<>>
                                  /\ d = Head(T[<<n.res, n.unit, a>>])
        BY <1>5, <2>2, <2>5, <3>1, <3>4 DEF RecordOK
      <4>2. \A slot \in Slots : Sorted(T[slot]) /\ \A m \in ToSet(T[slot]) : ListIndex(m) = slot
        <5>1. \A slot \in Slots : Sorted(T[slot])
          BY <3>1 DEF ListsFollowPolicy, Slots, Sorted, Precedes
        <5>2. \A slot \in Slots : \A m \in ToSet(T[slot]) : ListIndex(m) = slot
          BY <1>4, <3>1 DEF TableMatchesRequests, ListsHoldOnlyDue, Slots, ListIndex
        <5> QED BY <5>1, <5>2
      <4>3. d \in Arbiter!BestOf(Policy[n.res], HoldersOf(n.res) \ {n})
        <5>1. PICK r \in Resource, u \in Unit : r = n.res /\ u = n.unit
          BY <1>5
        <5>2. T[<<r, u, a>>] # <<>> /\ \A p \in Priority : p < a => T[<<r, u, p>>] = <<>>
          BY <4>1, <5>1
        <5>3. Head(T[<<r, u, a>>])
                \in Arbiter!BestOf(Policy[r], UNION {ToSet(T[<<r, u, p>>]) : p \in Priority})
          BY <4>2, <5>2, HeadIsBest
        <5> QED BY <3>2, <4>1, <5>1, <5>3
      <4>4. Arbiter!Release(n)
        BY <1>11, <1>13, <2>3, <2>4, <2>6, <2>8, <4>3, MapsToRelease
      <4> QED BY <2>4, <4>4 DEF Arbiter!Next
    <3> QED BY <3>3, <3>4
  <2> QED BY <2>7, <2>8
<1> QED BY <1>12, <1>13

----------------------------------------------------------------------------
(* The refinement *)

\* Steps that touch no list leave the arbiter alone: pass-through resources, whose
\* nodes fastPathApply and fastPathReset write, are not arbitrated.
LEMMA OtherMaps ==
    ASSUME IInv, UNCHANGED table,
           UNCHANGED sysfs \/ ApplyFastPath \/ ResetFastPath
    PROVE  UNCHANGED Arbiter!arbiterVars
<1>1. \A q \in Arbitrated : HoldersOf(q)' = HoldersOf(q)
  BY DEF HoldersOf
<1>2. \A q \in Arbitrated : WinnerOf(q)' = WinnerOf(q)
  <2>1. CASE UNCHANGED sysfs
    BY <2>1 DEF WinnerOf
  <2>2. CASE ApplyFastPath \/ ResetFastPath
    <3>1. PICK n \in Node : n = Head(todo)
      BY <2>2, NextNode DEF IInv, ApplyFastPath, ResetFastPath, Loop
    <3>2. PassThrough(n) /\ \E x : sysfs' = sysfs \/ sysfs' = [sysfs EXCEPT ![Cell(n)] = x]
      BY <2>2, <3>1 DEF ApplyFastPath, ResetFastPath
    <3> SUFFICES ASSUME NEW q \in Arbitrated PROVE WinnerOf(q)' = WinnerOf(q)
      OBVIOUS
    <3>3. q # n.res /\ q \in Resource /\ TheUnit(q) \in Unit
      BY <3>2, ArbitratedFacts DEF PassThrough, Listed
    <3>4. <<q, TheUnit(q)>> # Cell(n) /\ <<q, TheUnit(q)>> \in Resource \X Unit
      BY <3>3 DEF Cell
    <3>5. sysfs'[<<q, TheUnit(q)>>] = sysfs[<<q, TheUnit(q)>>]
      BY <3>2, <3>4 DEF IInv, TypeOK
    <3> QED BY <3>5 DEF WinnerOf
  <2> QED BY <2>1, <2>2
<1> QED BY <1>1, <1>2, MapsToStutter

\* Every step of the coordinator is a step of the arbiter or invisible to it.
LEMMA StepMaps ==
    ASSUME IInv, ListsFollowPolicy, Genuine, [Next]_vars
    PROVE  [Arbiter!Next]_(Arbiter!arbiterVars)
<1>1. IInv' /\ ListsFollowPolicy'
  BY NextIInv, NextSorted
<1>2. CASE InsertInCocoTable
  BY <1>2, InsertMaps
<1>3. CASE RemoveFromList \/ RemoveLastOfList \/ RemoveLastOfUnit
  BY <1>1, <1>3, RemoveMaps
<1>4. CASE UNCHANGED table /\ (UNCHANGED sysfs \/ ApplyFastPath \/ ResetFastPath)
  BY <1>4, OtherMaps
<1>5. \/ InsertInCocoTable \/ RemoveFromList \/ RemoveLastOfList \/ RemoveLastOfUnit
      \/ UNCHANGED table /\ (UNCHANGED sysfs \/ ApplyFastPath \/ ResetFastPath)
  BY DEF Next, vars, BeginInsert, ApplyFastPath, SkipInsert, BeginRemove, ResetFastPath, SkipRemove
<1> QED BY <1>2, <1>3, <1>4, <1>5

\* The constructor of CocoTable leaves every resource unclaimed.
LEMMA InitMaps == Init => Arbiter!Init /\ Genuine
<1> SUFFICES ASSUME Init PROVE Arbiter!Init /\ Genuine
  OBVIOUS
<1>1. ToSet(<<>>) = {}
  BY DEF ToSet
<1>2. Genuine
  BY <1>1 DEF Init, Genuine
<1>3. \A r \in Arbitrated : HoldersOf(r) = {} /\ WinnerOf(r) = Default
  <2> SUFFICES ASSUME NEW r \in Arbitrated PROVE HoldersOf(r) = {} /\ WinnerOf(r) = Default
    OBVIOUS
  <2>1. r \in Resource /\ TheUnit(r) \in Unit
    BY ArbitratedFacts
  <2> QED BY <1>1, <2>1 DEF Init, HoldersOf, WinnerOf
<1>4. [r \in Arbitrated |-> HoldersOf(r)] = [r \in Arbitrated |-> {}]
      /\ [r \in Arbitrated |-> WinnerOf(r)] = [r \in Arbitrated |-> Default]
  BY <1>3
<1> QED BY <1>2, <1>4, Zenon DEF Arbiter!Init, HoldersOf, WinnerOf

\* The coordinator implements the arbiter: for any requests, policies and values,
\* each insertion into and each removal from the lists of a global resource changes
\* the value in effect exactly as ResourceArbiter promises.
THEOREM CocoImplementsArbiter == Spec => ArbiterSpec
<1>1. Init => Arbiter!Init /\ Genuine
  BY InitMaps
<1>2. IInv /\ Genuine /\ [Next]_vars => Genuine'
  BY NextGenuine
<1>3. IInv /\ ListsFollowPolicy /\ Genuine /\ [Next]_vars
        => [Arbiter!Next]_(Arbiter!arbiterVars)
  BY StepMaps
<1> QED BY <1>1, <1>2, <1>3, SpecIInv, ListsSorted, PTL DEF Spec, ArbiterSpec, Arbiter!Spec
============================================================================
