---------------------------- MODULE Timer_proofs ----------------------------
(****************************************************************************)
(* Proofs about Timer, for any timers, periods, places and bounds, and for    *)
(* any use of them: the multiset and its worker are the timers that           *)
(* TimerService promises, up to where that promise ends.                     *)
(****************************************************************************)
EXTENDS Timer, SequenceTheorems, TLAPS

(* A timer is scheduled at most once, and no two nodes have one place.        *)
Distinct(set) ==
    \A i, j \in DOMAIN set : i # j => set[i].timer # set[j].timer /\ set[i].place # set[j].place

(* The nodes of a set.                                                       *)
In(n, set) == \E i \in DOMAIN set : set[i] = n

Entries == [Timers -> [alive : BOOLEAN, timeout : Nat, repeat : Nat]]

(* The worker has a running timer in a callback, and a node and a time only   *)
(* while it waits.                                                          *)
WorkerState ==
    /\ at = "callback" <=> running # None
    /\ at # "wait" => iter = End
    /\ iter = End <=> until = None

(* No node expires before the worker's wait ends, unless its timer was set    *)
(* since; a node where that of iter was has the timeout that the wait ends at, *)
(* unless its timer was set since; and the node of iter is in the set, unless  *)
(* its timer was set or cancelled since.                                     *)
WaitsForFirst ==
    /\ at = "wait" => \A n : In(n, timer_set) =>
          n.timer \in notified \/ (until # None /\ until <= Key(timer_map, n))
    /\ iter # End => \A n : In(n, timer_set) /\ n.place = iter.place =>
          n.timer \in notified \/ Key(timer_map, n) = until
    /\ iter # End => iter.timer \in notified \/ In(iter, timer_set)

(* What is so until an entry is confused with another or the program ends.    *)
Good ==
    /\ Ordered(timer_map, timer_set)
    /\ Distinct(timer_set)
    /\ WaitsForFirst

IInv ==
    /\ TypeOK
    /\ WorkerState
    /\ sound /\ ~crashed => Good

-----------------------------------------------------------------------------
(* Sequences                                                                *)

(* What is left of a sequence without one of its elements.                   *)
LEMMA RemoveAtProperties ==
    ASSUME NEW S, NEW s \in Seq(S), NEW i \in 1..Len(s)
    PROVE  /\ RemoveAt(s, i) \in Seq(S)
           /\ Len(RemoveAt(s, i)) = Len(s) - 1
           /\ \A j \in 1..(Len(s) - 1) : RemoveAt(s, i)[j] = IF j < i THEN s[j] ELSE s[j + 1]
<1> DEFINE a == SubSeq(s, 1, i - 1)
           b == SubSeq(s, i + 1, Len(s))
<1>1. Len(s) \in Nat /\ \A j \in 1..Len(s) : s[j] \in S
  BY LenProperties, ElementOfSeq
<1>2. a \in Seq(S) /\ Len(a) = i - 1 /\ \A j \in 1..(i - 1) : a[j] = s[j]
  BY <1>1, SubSeqProperties
<1>3. b \in Seq(S) /\ Len(b) = Len(s) - i /\ \A j \in 1..(Len(s) - i) : b[j] = s[i + j]
  <2>1. i + 1 \in Int /\ Len(s) \in Int /\ \A j \in (i + 1)..Len(s) : s[j] \in S
    BY <1>1
  <2>2. /\ b \in Seq(S)
        /\ Len(b) = IF i + 1 <= Len(s) THEN Len(s) - (i + 1) + 1 ELSE 0
        /\ \A j \in 1..(Len(s) - (i + 1) + 1) : b[j] = s[(i + 1) + j - 1]
    BY <2>1, SubSeqProperties
  <2> HIDE DEF b
  <2> QED BY <1>1, <2>2
<1> HIDE DEF a, b
<1>4. /\ a \o b \in Seq(S) /\ Len(a \o b) = Len(a) + Len(b)
      /\ \A j \in 1..(Len(a) + Len(b)) : (a \o b)[j] = IF j <= Len(a) THEN a[j] ELSE b[j - Len(a)]
  BY <1>2, <1>3, ConcatProperties
<1>5. RemoveAt(s, i) = a \o b
  BY DEF RemoveAt, a, b
<1>6. ASSUME NEW j \in 1..(Len(s) - 1) PROVE (a \o b)[j] = IF j < i THEN s[j] ELSE s[j + 1]
  <2>1. CASE j < i BY <1>1, <1>2, <1>3, <1>4, <2>1
  <2>2. CASE j >= i
    <3>1. j - Len(a) \in 1..(Len(s) - i) /\ j <= Len(a) + Len(b) /\ ~(j <= Len(a))
      BY <1>1, <1>2, <1>3, <2>2
    <3>2. (a \o b)[j] = b[j - Len(a)] /\ b[j - Len(a)] = s[i + (j - Len(a))]
      BY <1>1, <1>2, <1>3, <1>4, <3>1
    <3>3. i + (j - Len(a)) = j + 1
      BY <1>1, <1>2
    <3> QED BY <1>1, <2>2, <3>2, <3>3
  <2>3. j < i \/ j >= i
    BY <1>1
  <2> QED BY <2>1, <2>2, <2>3
<1> QED BY <1>1, <1>2, <1>3, <1>4, <1>5, <1>6

(* A sequence with an element put before its i-th.                           *)
LEMMA InsertAtProperties ==
    ASSUME NEW S, NEW s \in Seq(S), NEW e \in S, NEW i \in 1..(Len(s) + 1)
    PROVE  /\ InsertAt(s, i, e) \in Seq(S)
           /\ Len(InsertAt(s, i, e)) = Len(s) + 1
           /\ \A j \in 1..(Len(s) + 1) :
                InsertAt(s, i, e)[j] = IF j < i THEN s[j] ELSE IF j = i THEN e ELSE s[j - 1]
<1> DEFINE a == SubSeq(s, 1, i - 1)
           b == SubSeq(s, i, Len(s))
           c == a \o <<e>>
<1>1. Len(s) \in Nat /\ \A j \in 1..Len(s) : s[j] \in S
  BY LenProperties, ElementOfSeq
<1>2. a \in Seq(S) /\ Len(a) = i - 1 /\ \A j \in 1..(i - 1) : a[j] = s[j]
  BY <1>1, SubSeqProperties
<1>3. b \in Seq(S) /\ Len(b) = Len(s) - i + 1 /\ \A j \in 1..(Len(s) - i + 1) : b[j] = s[i + j - 1]
  <2>1. i \in Int /\ Len(s) \in Int /\ \A j \in i..Len(s) : s[j] \in S
    BY <1>1
  <2>2. /\ b \in Seq(S)
        /\ Len(b) = IF i <= Len(s) THEN Len(s) - i + 1 ELSE 0
        /\ \A j \in 1..(Len(s) - i + 1) : b[j] = s[i + j - 1]
    BY <2>1, SubSeqProperties
  <2> HIDE DEF b
  <2> QED BY <1>1, <2>2
<1> HIDE DEF a, b
<1>4. c \in Seq(S) /\ Len(c) = i /\ \A j \in 1..i : c[j] = IF j < i THEN s[j] ELSE e
  <2>1. <<e>> \in Seq(S) /\ Len(<<e>>) = 1 /\ <<e>>[1] = e
    OBVIOUS
  <2>2. /\ c \in Seq(S) /\ Len(c) = Len(a) + Len(<<e>>)
        /\ \A j \in 1..(Len(a) + Len(<<e>>)) : c[j] = IF j <= Len(a) THEN a[j] ELSE <<e>>[j - Len(a)]
    BY <1>2, <2>1, ConcatProperties
  <2> HIDE DEF c
  <2>3. ASSUME NEW j \in 1..i PROVE c[j] = IF j < i THEN s[j] ELSE e
    BY <1>2, <2>1, <2>2
  <2> QED BY <1>2, <2>1, <2>2, <2>3
<1>5. InsertAt(s, i, e) = c \o b
  BY DEF InsertAt, a, b
<1> HIDE DEF c
<1>6. /\ c \o b \in Seq(S) /\ Len(c \o b) = Len(c) + Len(b)
      /\ \A j \in 1..(Len(c) + Len(b)) : (c \o b)[j] = IF j <= Len(c) THEN c[j] ELSE b[j - Len(c)]
  BY <1>3, <1>4, ConcatProperties
<1> QED BY <1>1, <1>3, <1>4, <1>5, <1>6

-----------------------------------------------------------------------------
(* The multiset                                                             *)

(* A node that is erased leaves the others, in their order.                  *)
LEMMA RemoveNode ==
    ASSUME NEW s \in Seq(Node), Distinct(s), NEW i \in DOMAIN s
    PROVE  /\ RemoveAt(s, i) \in Seq(Node)
           /\ Distinct(RemoveAt(s, i))
           /\ \A n : In(n, RemoveAt(s, i)) <=> In(n, s) /\ n.timer # s[i].timer
           /\ \A map : Ordered(map, s) => Ordered(map, RemoveAt(s, i))
<1> DEFINE r == RemoveAt(s, i)
<1>1. Len(s) \in Nat /\ DOMAIN s = 1..Len(s)
  BY LenProperties
<1>2. /\ r \in Seq(Node) /\ Len(r) = Len(s) - 1
      /\ \A j \in 1..(Len(s) - 1) : r[j] = IF j < i THEN s[j] ELSE s[j + 1]
  BY <1>1, RemoveAtProperties
<1> HIDE DEF r
<1>3. DOMAIN r = 1..(Len(s) - 1)
  BY <1>1, <1>2, LenProperties
<1>4. Distinct(r)
  <2> SUFFICES ASSUME NEW j \in DOMAIN r, NEW k \in DOMAIN r, j # k
               PROVE  r[j].timer # r[k].timer /\ r[j].place # r[k].place
    BY DEF Distinct
  <2> DEFINE old(l) == IF l < i THEN l ELSE l + 1
  <2>1. old(j) \in DOMAIN s /\ old(k) \in DOMAIN s /\ old(j) # old(k)
    BY <1>1, <1>3
  <2>2. r[j] = s[old(j)] /\ r[k] = s[old(k)]
    BY <1>2, <1>3
  <2> HIDE DEF old
  <2> QED BY <2>1, <2>2 DEF Distinct
<1>5. ASSUME NEW n PROVE In(n, r) <=> In(n, s) /\ n.timer # s[i].timer
  <2>1. ASSUME In(n, r) PROVE In(n, s) /\ n.timer # s[i].timer
    <3>1. PICK j \in DOMAIN r : r[j] = n BY <2>1 DEF In
    <3>2. PICK k \in DOMAIN s : k # i /\ s[k] = n BY <1>1, <1>2, <1>3, <3>1
    <3> QED BY <3>2 DEF In, Distinct
  <2>2. ASSUME In(n, s), n.timer # s[i].timer PROVE In(n, r)
    <3>1. PICK k \in DOMAIN s : s[k] = n /\ k # i BY <2>2 DEF In
    <3>2. CASE k < i BY <1>1, <1>2, <1>3, <3>1, <3>2 DEF In
    <3>3. CASE k > i
      <4>1. k - 1 \in DOMAIN r /\ r[k - 1] = n BY <1>1, <1>2, <1>3, <3>1, <3>3
      <4> QED BY <4>1 DEF In
    <3> QED BY <1>1, <3>1, <3>2, <3>3
  <2> QED BY <2>1, <2>2
<1>6. ASSUME NEW map, Ordered(map, s) PROVE Ordered(map, r)
  <2> SUFFICES ASSUME NEW j \in DOMAIN r, NEW k \in DOMAIN r, j < k
               PROVE  Key(map, r[j]) <= Key(map, r[k])
    BY DEF Ordered
  <2> DEFINE old(l) == IF l < i THEN l ELSE l + 1
  <2>1. old(j) \in DOMAIN s /\ old(k) \in DOMAIN s /\ old(j) < old(k)
    BY <1>1, <1>3
  <2>2. r[j] = s[old(j)] /\ r[k] = s[old(k)]
    BY <1>2, <1>3
  <2> HIDE DEF old
  <2> QED BY <1>6, <2>1, <2>2 DEF Ordered
<1> QED BY <1>2, <1>4, <1>5, <1>6 DEF r

(* A node that is inserted keeps an ordered set ordered.                      *)
LEMMA InsertNode ==
    ASSUME NEW map \in Entries, NEW s \in Seq(Node), Distinct(s), Ordered(map, s),
           NEW t \in Timers, NEW new \in Insert(map, s, t),
           \A n : In(n, s) => n.timer # t
    PROVE  \E p \in Places :
             /\ new \in Seq(Node)
             /\ Distinct(new)
             /\ Ordered(map, new)
             /\ \A n : In(n, new) <=> In(n, s) \/ n = [timer |-> t, place |-> p]
<1>1. Len(s) \in Nat /\ DOMAIN s = 1..Len(s) /\ \A j \in DOMAIN s : s[j] \in Node
  BY LenProperties, ElementOfSeq
<1>13. PICK i \in Positions(map, s, t), p \in Memory(s) : new = InsertAt(s, i, [timer |-> t, place |-> p])
  BY DEF Insert
<1>2. /\ i \in 1..(Len(s) + 1) /\ p \in Places
      /\ \A j \in DOMAIN s : j < i <=> Key(map, s[j]) <= map[t].timeout
      /\ \A j \in DOMAIN s : s[j].place # p
  BY DEF Positions, Memory
<1> DEFINE node == [timer |-> t, place |-> p]
<1>14. node \in Node
  BY <1>2 DEF Node
<1>3. /\ new \in Seq(Node) /\ Len(new) = Len(s) + 1
      /\ \A j \in 1..(Len(s) + 1) : new[j] = IF j < i THEN s[j] ELSE IF j = i THEN node ELSE s[j - 1]
  <2>1. i \in 1..(Len(s) + 1) /\ new = InsertAt(s, i, node)
    BY <1>2, <1>13
  <2> HIDE DEF node
  <2>2. i \in 1..(Len(s) + 1) /\ s \in Seq(Node) /\ node \in Node
    BY <1>14, <2>1
  <2>3. /\ InsertAt(s, i, node) \in Seq(Node) /\ Len(InsertAt(s, i, node)) = Len(s) + 1
        /\ \A j \in 1..(Len(s) + 1) :
             InsertAt(s, i, node)[j] = IF j < i THEN s[j] ELSE IF j = i THEN node ELSE s[j - 1]
    BY <2>2, InsertAtProperties
  <2> QED BY <2>1, <2>3
<1>4. DOMAIN new = 1..(Len(s) + 1)
  BY <1>1, <1>3, LenProperties
<1>5. \A j \in DOMAIN s : s[j].timer # t /\ s[j].place # p
  BY <1>2 DEF In
<1>6. node.timer = t /\ node.place = p
  OBVIOUS
<1> HIDE DEF node
<1> DEFINE old(l) == IF l < i THEN l ELSE l - 1
<1>7. \A j \in DOMAIN new : j # i => old(j) \in DOMAIN s /\ new[j] = s[old(j)]
  BY <1>1, <1>2, <1>3, <1>4
<1>8. \A j, k \in DOMAIN new : j # i /\ k # i => (j = k <=> old(j) = old(k)) /\ (j < k => old(j) < old(k))
  BY <1>1, <1>2, <1>4
<1>9. new[i] = node /\ i \in DOMAIN new
  BY <1>1, <1>2, <1>3, <1>4
<1>10. Distinct(new)
  <2> SUFFICES ASSUME NEW j \in DOMAIN new, NEW k \in DOMAIN new, j # k
               PROVE  new[j].timer # new[k].timer /\ new[j].place # new[k].place
    BY DEF Distinct
  <2> HIDE DEF old
  <2>1. CASE j = i BY <1>5, <1>6, <1>7, <1>9, <2>1
  <2>2. CASE k = i BY <1>5, <1>6, <1>7, <1>9, <2>2
  <2>3. CASE j # i /\ k # i BY <1>7, <1>8, <2>3 DEF Distinct
  <2> QED BY <2>1, <2>2, <2>3
<1>11. Ordered(map, new)
  <2> SUFFICES ASSUME NEW j \in DOMAIN new, NEW k \in DOMAIN new, j < k
               PROVE  Key(map, new[j]) <= Key(map, new[k])
    BY DEF Ordered
  <2>1. Key(map, node) = map[t].timeout /\ map[t].timeout \in Nat
    BY <1>6 DEF Key, Entries
  <2>2. CASE j = i
    <3>1. k > i /\ k - 1 \in DOMAIN s /\ new[k] = s[k - 1] /\ ~(k - 1 < i) BY <1>1, <1>2, <1>3, <1>4, <2>2
    <3>2. Key(map, s[k - 1]) \in Nat BY <1>1, <3>1 DEF Key, Entries, Node
    <3> QED BY <1>2, <1>9, <2>1, <2>2, <3>1, <3>2
  <2>3. CASE k = i
    <3>1. j < i /\ j \in DOMAIN s /\ new[j] = s[j] BY <1>1, <1>2, <1>3, <1>4, <2>3
    <3> QED BY <1>2, <1>9, <2>1, <2>3, <3>1
  <2>4. CASE j # i /\ k # i
    <3> HIDE DEF old
    <3> QED BY <1>7, <1>8, <2>4 DEF Ordered
  <2> QED BY <2>2, <2>3, <2>4
<1>12. ASSUME NEW n PROVE In(n, new) <=> In(n, s) \/ n = node
  <2>1. ASSUME In(n, new) PROVE In(n, s) \/ n = node
    <3> HIDE DEF old
    <3> QED BY <1>7, <1>9, <2>1 DEF In
  <2>2. ASSUME In(n, s) PROVE In(n, new)
    <3>1. PICK k \in DOMAIN s : s[k] = n BY <2>2 DEF In
    <3>2. CASE k < i BY <1>1, <1>2, <1>3, <1>4, <3>1, <3>2 DEF In
    <3>3. CASE k >= i
      <4>1. k + 1 \in DOMAIN new /\ new[k + 1] = n BY <1>1, <1>2, <1>3, <1>4, <3>1, <3>3
      <4> QED BY <4>1 DEF In
    <3> QED BY <1>1, <1>2, <3>1, <3>2, <3>3
  <2> QED BY <1>9, <2>1, <2>2 DEF In
<1> QED BY <1>2, <1>3, <1>10, <1>11, <1>12 DEF node

(* The lookup of a timeout finds a node that has it or none, and none only if  *)
(* there is none or the set is out of order.                                 *)
LEMMA Found ==
    ASSUME NEW map, NEW s \in Seq(Node), NEW time, NEW pos \in Find(map, s, time)
    PROVE  /\ pos = 0 \/ (pos \in DOMAIN s /\ pos # 0 /\ Key(map, s[pos]) = time)
           /\ Ordered(map, s) /\ pos = 0 => \A i \in DOMAIN s : Key(map, s[i]) # time
           /\ (IF pos = 0 THEN s ELSE RemoveAt(s, pos)) \in Seq(Node)
<1> DEFINE equal == {i \in DOMAIN s : Key(map, s[i]) = time}
<1>1. Len(s) \in Nat /\ DOMAIN s = 1..Len(s)
  BY LenProperties
<1>2. pos = 0 \/ pos \in equal
  BY DEF Find
<1>3. Ordered(map, s) /\ pos = 0 => equal = {}
  <2> SUFFICES ASSUME Ordered(map, s), pos = 0, equal # {} PROVE FALSE
    OBVIOUS
  <2>1. pos \in equal
    BY DEF Find
  <2> QED BY <1>1, <2>1
<1>4. pos # 0 => pos \in 1..Len(s)
  BY <1>1, <1>2
<1>5. pos # 0 => RemoveAt(s, pos) \in Seq(Node)
  BY <1>4, RemoveAtProperties
<1> QED BY <1>1, <1>2, <1>3, <1>4, <1>5

(* An insertion adds a node, wherever it is put.                              *)
LEMMA Inserted ==
    ASSUME NEW map, NEW s \in Seq(Node), NEW t \in Timers, NEW new \in Insert(map, s, t)
    PROVE  new \in Seq(Node)
<1>1. PICK i \in Positions(map, s, t), p \in Memory(s) : new = InsertAt(s, i, [timer |-> t, place |-> p])
  BY DEF Insert
<1>2. i \in 1..(Len(s) + 1) /\ [timer |-> t, place |-> p] \in Node
  BY DEF Positions, Memory, Node
<1> QED BY <1>1, <1>2, InsertAtProperties

(* A lookup for a timer that finds its node or, if it has none, nothing makes  *)
(* the erasure take that node and no other.                                  *)
LEMMA EraseOwn ==
    ASSUME NEW s \in Seq(Node), Distinct(s), NEW t, NEW pos,
           IF pos = 0 THEN \A i \in DOMAIN s : s[i].timer # t
                      ELSE pos \in DOMAIN s /\ s[pos].timer = t,
           NEW r, r = IF pos = 0 THEN s ELSE RemoveAt(s, pos)
    PROVE  /\ r \in Seq(Node) /\ Distinct(r)
           /\ \A n : In(n, r) <=> In(n, s) /\ n.timer # t
           /\ \A map : Ordered(map, s) => Ordered(map, r)
<1>1. CASE pos = 0 BY <1>1 DEF In
<1>2. CASE pos # 0 BY <1>2, RemoveNode
<1> QED BY <1>1, <1>2

(* An entry without a node may change.                                       *)
LEMMA OtherEntry ==
    ASSUME NEW map, NEW next, NEW r \in Seq(Node), NEW t, Ordered(map, r),
           \A n : In(n, r) => n.timer # t,
           \A u \in Timers : u # t => next[u] = map[u]
    PROVE  Ordered(next, r)
<1>1. \A i \in DOMAIN r : r[i] \in Node /\ r[i].timer # t
  BY LenProperties, ElementOfSeq DEF In
<1> QED BY <1>1 DEF Ordered, Key, Node

(* The multiset of a state of the invariant.                                 *)
LEMMA SetOfInv ==
    ASSUME IInv
    PROVE  /\ timer_map \in Entries /\ timer_set \in Seq(Node)
           /\ Len(timer_set) \in Nat /\ DOMAIN timer_set = 1..Len(timer_set)
           /\ \A i \in DOMAIN timer_set : timer_set[i] \in Node
           /\ \A n : In(n, timer_set) => n \in Node /\ n.timer \in Timers
           /\ sound => \A n : In(n, timer_set) => timer_map[n.timer].alive
<1>1. timer_map \in Entries /\ timer_set \in Seq(Node)
  BY DEF IInv, TypeOK, Entries
<1>2. Len(timer_set) \in Nat /\ DOMAIN timer_set = 1..Len(timer_set)
  BY <1>1, LenProperties
<1>3. \A i \in DOMAIN timer_set : timer_set[i] \in Node
  BY <1>1, <1>2, ElementOfSeq
<1>4. sound => \A i \in DOMAIN timer_set : timer_map[timer_set[i].timer].alive
  BY DEF IInv, TypeOK
<1> QED BY <1>1, <1>2, <1>3, <1>4 DEF In, Node

(* A timer is scheduled if a node of it is in the multiset.                   *)
LEMMA ScheduledIn ==
    ASSUME NEW t
    PROVE  /\ Scheduled(t) <=> \E n : In(n, timer_set) /\ n.timer = t
           /\ Scheduled(t)' <=> \E n : In(n, timer_set') /\ n.timer = t
BY DEF Scheduled, In

-----------------------------------------------------------------------------
(* What the operations do to the multiset                                    *)

(* set() in any state keeps the types of the map and of the multiset.         *)
LEMMA SetTyped ==
    ASSUME IInv, NEW t \in Timers, Schedule(t)
    PROVE  \E timeout \in clock..MaxTime, repeat \in Periods :
             /\ timer_map' = [timer_map EXCEPT ![t].timeout = timeout, ![t].repeat = repeat]
             /\ timer_map' \in Entries
             /\ timer_map'[t].timeout = timeout /\ timer_map'[t].repeat = repeat
             /\ timer_map'[t].alive
             /\ \A u \in Timers : u # t => timer_map'[u] = timer_map[u]
             /\ timer_set' \in Seq(Node)
             /\ \E pos \in Find(timer_map', timer_set, timeout) :
                  /\ timer_set' \in Insert(timer_map', IF pos = 0 THEN timer_set
                                                      ELSE RemoveAt(timer_set, pos), t)
                  /\ sound' = (sound /\ FoundOwn(t, pos))
<1>1. PICK timeout \in clock..MaxTime, repeat \in Periods :
        LET map == [timer_map EXCEPT ![t].timeout = timeout, ![t].repeat = repeat]
        IN /\ timer_map' = map
           /\ \E pos \in Find(map, timer_set, timeout) :
                /\ timer_set' \in Insert(map, IF pos = 0 THEN timer_set
                                             ELSE RemoveAt(timer_set, pos), t)
                /\ sound' = (sound /\ FoundOwn(t, pos))
  BY DEF Schedule
<1>2. timer_map \in Entries /\ timer_set \in Seq(Node)
  BY SetOfInv
<1>3. timeout \in Nat /\ repeat \in Nat /\ timer_map[t].alive
  BY TimerAssumption DEF IInv, TypeOK, Schedule
<1>4. timer_map' = [timer_map EXCEPT ![t].timeout = timeout, ![t].repeat = repeat]
  BY <1>1
<1>5. /\ timer_map' \in Entries
      /\ timer_map'[t].timeout = timeout /\ timer_map'[t].repeat = repeat
      /\ timer_map'[t].alive
      /\ \A u \in Timers : u # t => timer_map'[u] = timer_map[u]
  BY <1>2, <1>3, <1>4 DEF Entries
<1>6. PICK pos \in Find(timer_map', timer_set, timeout) :
        /\ timer_set' \in Insert(timer_map', IF pos = 0 THEN timer_set
                                            ELSE RemoveAt(timer_set, pos), t)
        /\ sound' = (sound /\ FoundOwn(t, pos))
  BY <1>1, <1>4
<1>7. timer_set' \in Seq(Node)
  BY <1>2, <1>6, Found, Inserted
<1> QED BY <1>4, <1>5, <1>6, <1>7

(* set() gives the timer a new node, its only one, unless it confuses it.     *)
LEMMA SetEffect ==
    ASSUME IInv, Good, NEW t \in Timers, Schedule(t), sound'
    PROVE  /\ Distinct(timer_set') /\ Ordered(timer_map', timer_set')
           /\ \A n : n.timer # t => (In(n, timer_set') <=> In(n, timer_set))
           /\ Scheduled(t)'
<1>1. PICK timeout \in clock..MaxTime, repeat \in Periods :
             /\ timer_map' \in Entries
             /\ \A u \in Timers : u # t => timer_map'[u] = timer_map[u]
             /\ \E pos \in Find(timer_map', timer_set, timeout) :
                  /\ timer_set' \in Insert(timer_map', IF pos = 0 THEN timer_set
                                                      ELSE RemoveAt(timer_set, pos), t)
                  /\ sound' = (sound /\ FoundOwn(t, pos))
  BY SetTyped
<1>2. PICK pos \in Find(timer_map', timer_set, timeout) :
        /\ timer_set' \in Insert(timer_map', IF pos = 0 THEN timer_set
                                            ELSE RemoveAt(timer_set, pos), t)
        /\ FoundOwn(t, pos)
  BY <1>1
<1>3. timer_map \in Entries /\ timer_set \in Seq(Node) /\ Distinct(timer_set) /\ Ordered(timer_map, timer_set)
  BY SetOfInv DEF Good
<1>4. IF pos = 0 THEN \A i \in DOMAIN timer_set : timer_set[i].timer # t
                 ELSE pos \in DOMAIN timer_set /\ timer_set[pos].timer = t
  BY <1>2, <1>3, Found DEF FoundOwn, Scheduled
<1> DEFINE r == IF pos = 0 THEN timer_set ELSE RemoveAt(timer_set, pos)
<1>5. timer_set' \in Insert(timer_map', r, t)
  BY <1>2
<1>6. /\ r \in Seq(Node) /\ Distinct(r) /\ Ordered(timer_map, r)
      /\ \A n : In(n, r) <=> In(n, timer_set) /\ n.timer # t
  BY <1>3, <1>4, EraseOwn
<1> HIDE DEF r
<1>7. Ordered(timer_map', r)
  BY <1>1, <1>6, OtherEntry
<1>8. PICK p \in Places :
        /\ Distinct(timer_set') /\ Ordered(timer_map', timer_set')
        /\ \A n : In(n, timer_set') <=> In(n, r) \/ n = [timer |-> t, place |-> p]
  <2>1. \A n : In(n, r) => n.timer # t
    BY <1>6
  <2> QED BY <1>1, <1>5, <1>6, <1>7, <2>1, InsertNode
<1>9. \A n : n.timer # t => (In(n, timer_set') <=> In(n, timer_set))
  BY <1>6, <1>8
<1>10. Scheduled(t)'
  <2>1. In([timer |-> t, place |-> p], timer_set')
    BY <1>8
  <2> QED BY <2>1, ScheduledIn
<1> QED BY <1>8, <1>9, <1>10

(* cancel() in any state keeps the type of the multiset.                      *)
LEMMA UnscheduleTyped ==
    ASSUME IInv, NEW t \in Timers, Unschedule(t)
    PROVE  /\ timer_set' \in Seq(Node)
           /\ notified' \in {notified, notified \cup {t}}
           /\ sound' \in BOOLEAN /\ (sound' => sound)
<1>1. PICK pos \in Find(timer_map, timer_set, timer_map[t].timeout) :
         /\ IF pos = 0
            THEN UNCHANGED <<timer_set, notified>>
            ELSE timer_set' = RemoveAt(timer_set, pos) /\ notified' = notified \cup {t}
         /\ sound' = (sound /\ FoundOwn(t, pos))
  BY DEF Unschedule
<1>2. timer_set' = IF pos = 0 THEN timer_set ELSE RemoveAt(timer_set, pos)
  BY <1>1
<1>3. timer_set \in Seq(Node)
  BY SetOfInv
<1>4. timer_set' \in Seq(Node)
  BY <1>2, <1>3, Found
<1>5. sound' \in BOOLEAN /\ (sound' => sound)
  BY <1>1 DEF IInv, TypeOK
<1> QED BY <1>1, <1>4, <1>5

(* cancel() leaves the timer without a node, unless it confuses it.           *)
LEMMA UnscheduleEffect ==
    ASSUME IInv, Good, NEW t \in Timers, Unschedule(t), sound'
    PROVE  /\ Distinct(timer_set') /\ Ordered(timer_map, timer_set')
           /\ \A n : In(n, timer_set') <=> In(n, timer_set) /\ n.timer # t
           /\ notified' = IF Scheduled(t) THEN notified \cup {t} ELSE notified
<1>1. PICK pos \in Find(timer_map, timer_set, timer_map[t].timeout) :
         /\ IF pos = 0
            THEN UNCHANGED <<timer_set, notified>>
            ELSE timer_set' = RemoveAt(timer_set, pos) /\ notified' = notified \cup {t}
         /\ FoundOwn(t, pos)
  BY DEF Unschedule
<1>2. timer_set \in Seq(Node) /\ Distinct(timer_set) /\ Ordered(timer_map, timer_set)
  BY SetOfInv DEF Good
<1>3. IF pos = 0 THEN \A i \in DOMAIN timer_set : timer_set[i].timer # t
                 ELSE pos \in DOMAIN timer_set /\ timer_set[pos].timer = t
  BY <1>1, <1>2, Found DEF FoundOwn, Scheduled
<1>4. timer_set' = IF pos = 0 THEN timer_set ELSE RemoveAt(timer_set, pos)
  BY <1>1
<1>5. pos # 0 <=> Scheduled(t)
  BY <1>3 DEF Scheduled
<1>6. notified' = IF Scheduled(t) THEN notified \cup {t} ELSE notified
  BY <1>1, <1>5
<1> QED BY <1>2, <1>3, <1>4, <1>6, EraseOwn

(* The entry that expires stays one of the type, whatever the state.          *)
LEMMA RenewTyped ==
    ASSUME timer_map \in Entries, NEW t \in Timers, NEW left \in Seq(Node), Renew(t, left)
    PROVE  /\ timer_map' \in Entries /\ timer_set' \in Seq(Node)
           /\ timer_map'[t].alive = timer_map[t].alive
           /\ \A u \in Timers : u # t => timer_map'[u] = timer_map[u]
<1> DEFINE next == [timer_map EXCEPT ![t].timeout = @ + timer_map[t].repeat]
<1>1. CASE timer_set' = left /\ UNCHANGED timer_map
  BY <1>1
<1>2. CASE timer_map' = next /\ timer_set' \in Insert(next, left, t)
  <2>1. timer_map[t].timeout + timer_map[t].repeat \in Nat
    BY DEF Entries
  <2>2. /\ next \in Entries /\ next[t].alive = timer_map[t].alive
        /\ \A u \in Timers : u # t => next[u] = timer_map[u]
    BY <2>1 DEF Entries
  <2>3. timer_set' \in Seq(Node)
    BY <1>2, Inserted
  <2> QED BY <1>2, <2>2, <2>3
<1> QED BY <1>1, <1>2 DEF Renew

(* The timer that expires is taken from the set or, if it is periodic, has a   *)
(* new node.                                                                *)
LEMMA RenewEffect ==
    ASSUME IInv, Good, NEW i \in DOMAIN timer_set, NEW t, t = timer_set[i].timer,
           Renew(t, RemoveAt(timer_set, i))
    PROVE  /\ Distinct(timer_set') /\ Ordered(timer_map', timer_set')
           /\ \A n : n.timer # t => (In(n, timer_set') <=> In(n, timer_set))
           /\ IF timer_map[t].repeat = 0
              THEN timer_map' = timer_map /\ ~Scheduled(t)'
              ELSE /\ timer_map' = [timer_map EXCEPT ![t].timeout = @ + timer_map[t].repeat]
                   /\ Scheduled(t)'
<1> DEFINE r    == RemoveAt(timer_set, i)
           next == [timer_map EXCEPT ![t].timeout = @ + timer_map[t].repeat]
<1>1. /\ timer_map \in Entries /\ timer_set \in Seq(Node) /\ t \in Timers
      /\ Distinct(timer_set) /\ Ordered(timer_map, timer_set)
  BY SetOfInv DEF Good, Node
<1>2. /\ r \in Seq(Node) /\ Distinct(r) /\ Ordered(timer_map, r)
      /\ \A n : In(n, r) <=> In(n, timer_set) /\ n.timer # t
  BY <1>1, RemoveNode
<1>3. \/ timer_map[t].repeat = 0 /\ timer_set' = r /\ UNCHANGED timer_map
      \/ timer_map[t].repeat # 0 /\ timer_map' = next /\ timer_set' \in Insert(next, r, t)
  BY DEF Renew
<1> HIDE DEF r
<1>4. CASE timer_map[t].repeat = 0
  <2>1. timer_set' = r /\ timer_map' = timer_map
    BY <1>3, <1>4
  <2>2. ~Scheduled(t)'
    BY <1>2, <2>1, ScheduledIn
  <2> QED BY <1>2, <1>4, <2>1, <2>2
<1>5. CASE timer_map[t].repeat # 0
  <2>1. timer_map' = next /\ timer_set' \in Insert(next, r, t)
    BY <1>3, <1>5
  <2>2. next \in Entries /\ \A u \in Timers : u # t => next[u] = timer_map[u]
    <3>1. timer_map[t].timeout + timer_map[t].repeat \in Nat
      BY <1>1 DEF Entries
    <3> QED BY <1>1, <3>1 DEF Entries
  <2> HIDE DEF next
  <2>3. Ordered(next, r)
    BY <1>2, <2>2, OtherEntry
  <2>4. PICK p \in Places :
          /\ Distinct(timer_set') /\ Ordered(next, timer_set')
          /\ \A n : In(n, timer_set') <=> In(n, r) \/ n = [timer |-> t, place |-> p]
    <3>1. \A n : In(n, r) => n.timer # t
      BY <1>2
    <3> QED BY <1>1, <1>2, <2>1, <2>2, <2>3, <3>1, InsertNode
  <2>5. Scheduled(t)'
    <3>1. In([timer |-> t, place |-> p], timer_set')
      BY <2>4
    <3> QED BY <3>1, ScheduledIn
  <2> QED BY <1>2, <1>5, <2>1, <2>4, <2>5 DEF next
<1> QED BY <1>4, <1>5

-----------------------------------------------------------------------------
(* The invariant                                                            *)

(* The multiset starts empty and the worker has not looked at it.             *)
LEMMA InitInv == Init => IInv
<1> SUFFICES ASSUME Init PROVE IInv
  OBVIOUS
<1>1. 1 \in 1..MaxTime /\ MaxSet \in Nat /\ None \notin Nat
  BY TimerAssumption
<1>2. timer_set = <<>> /\ DOMAIN timer_set = {} /\ timer_set \in Seq(Node)
  BY DEF Init
<1>3. TypeOK
  <2>1. timer_map \in [Timers -> [alive : BOOLEAN, timeout : Nat, repeat : Nat]]
    BY DEF Init
  <2>2. clock \in 1..MaxTime /\ sets \in 0..MaxSet /\ at \in {"look", "wait", "callback"}
    BY <1>1 DEF Init
  <2>3. /\ iter \in Node \cup {End} /\ until \in Nat \cup {None} /\ running \in Timers \cup {None}
        /\ notified \subseteq Timers /\ sound \in BOOLEAN /\ crashed \in BOOLEAN
    BY DEF Init
  <2> QED BY <1>2, <2>1, <2>2, <2>3 DEF TypeOK
<1>4. Ordered(timer_map, timer_set) /\ Distinct(timer_set) /\ \A n : ~In(n, timer_set)
  BY <1>2 DEF Ordered, Distinct, In
<1>5. WorkerState /\ WaitsForFirst
  BY <1>4 DEF Init, WorkerState, WaitsForFirst
<1> QED BY <1>3, <1>4, <1>5 DEF IInv, Good

(* What a call of the application has to keep of the invariant: it changes    *)
(* the entry and the node of one timer, and tells the worker if there was one. *)
LEMMA AppStep ==
    ASSUME IInv, ~crashed, NEW t \in Timers, UNCHANGED <<clock, at, iter, until, running, crashed>>,
           timer_map' \in Entries, timer_set' \in Seq(Node), sets' \in 0..MaxSet,
           notified' \in {notified, notified \cup {t}},
           sound' \in BOOLEAN, sound' => sound,
           \A u \in Timers : u # t => timer_map'[u] = timer_map[u],
           sound' => /\ Distinct(timer_set') /\ Ordered(timer_map', timer_set')
                     /\ \A n : n.timer # t => (In(n, timer_set') <=> In(n, timer_set))
                     /\ \A n : In(n, timer_set') /\ n.timer = t => timer_map'[t].alive
                     /\ t \in notified' \/ \A n : In(n, timer_set) \/ In(n, timer_set') => n.timer # t
    PROVE  IInv'
<1>1. TypeOK /\ WorkerState /\ (sound => Good)
  BY DEF IInv
<1>2. notified' \subseteq Timers /\ notified \subseteq notified'
  BY <1>1 DEF TypeOK
<1>3. \A n : In(n, timer_set) => n.timer \in Timers
  BY SetOfInv
<1>4. sound' => \A i \in DOMAIN timer_set' : timer_map'[timer_set'[i].timer].alive
  <2> SUFFICES ASSUME sound', NEW i \in DOMAIN timer_set'
               PROVE  timer_map'[timer_set'[i].timer].alive
    OBVIOUS
  <2> DEFINE n == timer_set'[i]
  <2>1. In(n, timer_set')
    BY DEF In
  <2>2. CASE n.timer = t BY <2>1, <2>2
  <2>3. CASE n.timer # t
    <3>1. In(n, timer_set)
      BY <2>1, <2>3
    <3> QED BY <1>3, <2>3, <3>1, SetOfInv
  <2> QED BY <2>2, <2>3
<1>5. TypeOK'
  BY <1>1, <1>2, <1>4 DEF TypeOK, Entries
<1>6. WorkerState'
  BY <1>1 DEF WorkerState
<1>7. ASSUME sound' PROVE Good'
  <2>1. ASSUME NEW n, In(n, timer_set'), n.timer \notin notified'
        PROVE  In(n, timer_set) /\ n.timer \notin notified /\ Key(timer_map', n) = Key(timer_map, n)
    <3>1. n.timer # t
      BY <1>7, <2>1
    <3>2. In(n, timer_set)
      BY <1>7, <2>1, <3>1
    <3> QED BY <1>2, <1>3, <2>1, <3>1, <3>2 DEF Key
  <2>2. WaitsForFirst
    BY <1>1, <1>7 DEF Good
  <2>3. ASSUME at' = "wait", NEW n, In(n, timer_set')
        PROVE  n.timer \in notified' \/ (until' # None /\ until' <= Key(timer_map', n))
    BY <2>1, <2>2, <2>3 DEF WaitsForFirst
  <2>4. ASSUME iter' # End', NEW n, In(n, timer_set'), n.place = iter'.place
        PROVE  n.timer \in notified' \/ Key(timer_map', n) = until'
    <3>1. iter # End
      BY <2>4 DEF End
    <3> QED BY <2>1, <2>2, <2>4, <3>1 DEF WaitsForFirst
  <2>5. ASSUME iter' # End' PROVE iter'.timer \in notified' \/ In(iter', timer_set')
    <3>1. iter # End
      BY <2>5 DEF End
    <3>2. iter.timer \in notified \/ In(iter, timer_set)
      BY <2>2, <3>1 DEF WaitsForFirst
    <3>3. CASE iter.timer \in notified BY <1>2, <3>3
    <3>4. CASE In(iter, timer_set)
      <4>1. iter.timer = t => t \in notified'
        BY <1>7, <3>4
      <4> QED BY <1>7, <3>4, <4>1
    <3> QED BY <3>2, <3>3, <3>4
  <2>6. WaitsForFirst'
    BY <2>3, <2>4, <2>5 DEF WaitsForFirst
  <2> QED BY <1>7, <2>6 DEF Good
<1> QED BY <1>5, <1>6, <1>7 DEF IInv

(* A new timer has no node yet.                                              *)
LEMMA ConstructStep ==
    ASSUME IInv, NEW t \in Timers, Construct(t)
    PROVE  IInv' /\ (sound => \A n : In(n, timer_set) => n.timer # t)
<1>1. timer_map \in Entries /\ timer_set \in Seq(Node)
  BY SetOfInv
<1>2. sound => \A n : In(n, timer_set) => n.timer # t
  BY SetOfInv DEF Construct
<1>3. timer_map' \in Entries /\ \A u \in Timers : u # t => timer_map'[u] = timer_map[u]
  BY <1>1 DEF Construct, Entries
<1>4. /\ timer_set' = timer_set /\ ~crashed
      /\ UNCHANGED <<clock, sets, at, iter, until, running, notified, sound, crashed>>
  BY DEF Construct, workerVars
<1>5. sets' \in 0..MaxSet /\ sound' \in BOOLEAN
  BY <1>4 DEF IInv, TypeOK
<1>6. sound' => Distinct(timer_set') /\ Ordered(timer_map', timer_set')
  <2> SUFFICES ASSUME sound PROVE Distinct(timer_set) /\ Ordered(timer_map', timer_set)
    BY <1>4
  <2>1. Distinct(timer_set) /\ Ordered(timer_map, timer_set)
    BY <1>4 DEF IInv, Good
  <2>2. \A n : In(n, timer_set) => n.timer # t
    BY <1>2
  <2>3. Ordered(timer_map', timer_set)
    <3>1. \A i \in DOMAIN timer_set : timer_set[i] \in Node /\ timer_set[i].timer # t
      BY <2>2, SetOfInv DEF In
    <3> QED BY <1>3, <2>1, <3>1 DEF Ordered, Key, Node
  <2> QED BY <2>1, <2>3
<1> QED BY <1>1, <1>2, <1>3, <1>4, <1>5, <1>6, AppStep

(* A timer that is set has its new node, and the others theirs.               *)
LEMMA SetStep ==
    ASSUME IInv, NEW t \in Timers, Set(t)
    PROVE  IInv'
<1>1. Schedule(t) /\ notified' = notified \cup {t}
  BY DEF Set
<1>2. /\ UNCHANGED <<clock, at, iter, until, running, crashed>>
      /\ ~crashed /\ sets < MaxSet /\ sets' = sets + 1
  BY <1>1 DEF Schedule, workerVars
<1>3. /\ timer_map' \in Entries /\ timer_set' \in Seq(Node) /\ timer_map'[t].alive
      /\ \A u \in Timers : u # t => timer_map'[u] = timer_map[u]
      /\ sound' \in BOOLEAN /\ (sound' => sound)
  BY <1>1, SetTyped DEF IInv, TypeOK
<1>4. sets' \in 0..MaxSet
  BY <1>2, TimerAssumption DEF IInv, TypeOK
<1>5. sound' => /\ Distinct(timer_set') /\ Ordered(timer_map', timer_set')
                /\ \A n : n.timer # t => (In(n, timer_set') <=> In(n, timer_set))
  BY <1>1, <1>2, <1>3, SetEffect DEF IInv
<1> QED BY <1>1, <1>2, <1>3, <1>4, <1>5, AppStep

(* A timer that is cancelled or destroyed has no node, and the others theirs. *)
LEMMA CancelStep ==
    ASSUME IInv, NEW t \in Timers, Cancel(t) \/ Destroy(t)
    PROVE  IInv'
<1>1. Unschedule(t) /\ UNCHANGED <<clock, sets, at, iter, until, running, crashed>> /\ ~crashed
  BY DEF Cancel, Destroy, workerVars
<1>2. /\ timer_set' \in Seq(Node)
      /\ notified' \in {notified, notified \cup {t}}
      /\ sound' \in BOOLEAN /\ (sound' => sound)
  BY <1>1, UnscheduleTyped
<1>3. timer_map \in Entries
  BY SetOfInv
<1>4. timer_map' \in Entries /\ \A u \in Timers : u # t => timer_map'[u] = timer_map[u]
  <2>1. CASE Cancel(t) BY <1>3, <2>1 DEF Cancel, Entries
  <2>2. CASE Destroy(t) BY <1>3, <2>2 DEF Destroy, Entries
  <2> QED BY <2>1, <2>2
<1>5. sets' \in 0..MaxSet
  BY <1>1 DEF IInv, TypeOK
<1>6. ASSUME sound'
      PROVE  /\ Distinct(timer_set') /\ Ordered(timer_map', timer_set')
             /\ \A n : In(n, timer_set') <=> In(n, timer_set) /\ n.timer # t
             /\ t \in notified' \/ ~Scheduled(t)
  <2>1. /\ Distinct(timer_set') /\ Ordered(timer_map, timer_set')
        /\ \A n : In(n, timer_set') <=> In(n, timer_set) /\ n.timer # t
        /\ notified' = IF Scheduled(t) THEN notified \cup {t} ELSE notified
    BY <1>1, <1>2, <1>6, UnscheduleEffect DEF IInv
  <2>2. Ordered(timer_map', timer_set')
    BY <1>2, <1>4, <2>1, OtherEntry
  <2> QED BY <2>1, <2>2
<1>7. sound' => t \in notified' \/ \A n : In(n, timer_set) \/ In(n, timer_set') => n.timer # t
  BY <1>6, ScheduledIn
<1> QED BY <1>1, <1>2, <1>4, <1>5, <1>6, <1>7, AppStep

(* A step of the clock or of the worker that changes no entry.                *)
LEMMA QuietStep ==
    ASSUME IInv, Look \/ Modified \/ CallbackDone \/ Tick \/ UNCHANGED vars
    PROVE  IInv'
<1>1. UNCHANGED <<timer_map, timer_set, sets, sound>>
  BY DEF Look, Modified, CallbackDone, Tick, vars
<1>2. TypeOK /\ WorkerState /\ (sound /\ ~crashed => Good)
  BY DEF IInv
<1>3. None \notin Timers /\ None \notin Nat /\ MaxTime \in Nat
  BY TimerAssumption
<1>4. crashed' \in BOOLEAN /\ (crashed => crashed') /\ End' = End
  BY <1>2 DEF Look, Modified, CallbackDone, Tick, vars, TypeOK, WorkerState, End
<1>5. CASE Look
  <2>1. ASSUME timer_set # <<>>
        PROVE  /\ Head(timer_set) = timer_set[1] /\ 1 \in DOMAIN timer_set
               /\ Head(timer_set) \in Node /\ Head(timer_set) # End
               /\ Key(timer_map, Head(timer_set)) \in Nat
    <3>1. /\ timer_map \in Entries /\ timer_set \in Seq(Node)
          /\ \A i \in DOMAIN timer_set : timer_set[i] \in Node
      BY SetOfInv
    <3>2. 1 \in DOMAIN timer_set /\ Head(timer_set) = timer_set[1]
      BY <2>1, <3>1, EmptySeq, LenProperties
    <3>3. Head(timer_set) \in Node /\ Head(timer_set).timer \in Timers
      BY <3>1, <3>2 DEF Node
    <3> QED BY <1>3, <3>1, <3>2, <3>3 DEF Key, Entries, End
  <2>2. (iter' = End <=> until' = None) /\ iter' \in Node \cup {End} /\ until' \in Nat \cup {None}
    <3>1. CASE timer_set = <<>> BY <1>5, <3>1 DEF Look
    <3>2. CASE timer_set # <<>> BY <1>3, <1>5, <2>1, <3>2 DEF Look
    <3> QED BY <3>1, <3>2
  <2>3. at' = "wait" /\ notified' = {} /\ UNCHANGED <<clock, running, crashed>> /\ running = None
    BY <1>2, <1>5 DEF Look, WorkerState
  <2>4. TypeOK'
    BY <1>1, <1>2, <2>2, <2>3 DEF TypeOK
  <2>5. WorkerState'
    BY <1>4, <2>2, <2>3 DEF WorkerState
  <2>6. ASSUME sound', ~crashed' PROVE Good'
    <3>1. Ordered(timer_map, timer_set) /\ Distinct(timer_set)
      BY <1>1, <1>2, <2>3, <2>6 DEF Good
    <3>2. ASSUME NEW n, In(n, timer_set')
          PROVE  timer_set # <<>> /\ until' # None /\ until' <= Key(timer_map', n)
      <4>1. PICK i \in DOMAIN timer_set : timer_set[i] = n
        BY <1>1, <3>2 DEF In
      <4>2. timer_set # <<>> /\ DOMAIN timer_set = 1..Len(timer_set) /\ timer_set \in Seq(Node)
        BY <4>1, SetOfInv
      <4>3. until' = Key(timer_map, timer_set[1]) /\ until' # None /\ until' \in Nat
        BY <1>3, <1>5, <2>1, <4>2 DEF Look
      <4>4. 1 = i \/ 1 < i
        BY <4>1, <4>2
      <4> QED BY <1>1, <2>1, <3>1, <4>1, <4>2, <4>3, <4>4 DEF Ordered
    <3>3. ASSUME iter' # End', NEW n, In(n, timer_set'), n.place = iter'.place
          PROVE  Key(timer_map', n) = until'
      <4>1. timer_set # <<>> /\ iter' = timer_set[1] /\ until' = Key(timer_map, timer_set[1])
        BY <1>5, <2>1, <3>2, <3>3 DEF Look
      <4>2. n = timer_set[1]
        BY <1>1, <2>1, <3>1, <3>3, <4>1 DEF Distinct, In
      <4> QED BY <1>1, <4>1, <4>2
    <3>4. ASSUME iter' # End' PROVE In(iter', timer_set')
      BY <1>1, <1>4, <1>5, <2>1, <3>4 DEF Look, In
    <3>5. WaitsForFirst'
      BY <3>2, <3>3, <3>4 DEF WaitsForFirst
    <3> QED BY <1>1, <3>1, <3>5 DEF Good
  <2> QED BY <2>4, <2>5, <2>6 DEF IInv
<1>6. CASE Modified \/ CallbackDone
  <2>1. at' = "look" /\ UNCHANGED <<clock, notified>>
    BY <1>6 DEF Modified, CallbackDone
  <2>2. running' = None /\ iter' = End /\ until' = None
    BY <1>2, <1>6 DEF Modified, CallbackDone, WorkerState
  <2>3. TypeOK'
    BY <1>1, <1>2, <1>4, <2>1, <2>2 DEF TypeOK
  <2>4. WorkerState' /\ WaitsForFirst'
    BY <1>4, <2>1, <2>2 DEF WorkerState, WaitsForFirst
  <2>5. Good => Good'
    BY <1>1, <2>4 DEF Good
  <2> QED BY <1>1, <1>2, <1>4, <2>3, <2>4, <2>5 DEF IInv
<1>7. CASE Tick \/ UNCHANGED vars
  <2>1. UNCHANGED <<at, iter, until, running, notified, crashed>>
    BY <1>7 DEF Tick, vars, workerVars
  <2>2. clock' \in 1..MaxTime
    BY <1>2, <1>3, <1>7 DEF Tick, vars, TypeOK
  <2>3. TypeOK' /\ WorkerState'
    BY <1>1, <1>2, <1>4, <2>1, <2>2 DEF TypeOK, WorkerState
  <2>4. Good => Good'
    BY <1>1, <1>4, <2>1 DEF Good, WaitsForFirst
  <2> QED BY <1>1, <1>2, <2>1, <2>3, <2>4 DEF IInv
<1> QED BY <1>5, <1>6, <1>7

(* The node whose time is up, where that of iter was, is renewed; or there is  *)
(* none any more.                                                            *)
LEMMA ExpireCases ==
    ASSUME IInv, Expire
    PROVE  \/ StaleIter
           \/ \E i \in DOMAIN timer_set :
                /\ timer_set[i].place = iter.place
                /\ Renew(timer_set[i].timer, RemoveAt(timer_set, i))
                /\ at' = "callback" /\ running' = timer_set[i].timer
                /\ UNCHANGED <<sound, crashed>>
BY DEF Expire

(* The timer that expires has no node, or a new one.                          *)
LEMMA ExpireStep ==
    ASSUME IInv, Expire
    PROVE  IInv'
<1>1. /\ timer_map \in Entries /\ timer_set \in Seq(Node) /\ DOMAIN timer_set = 1..Len(timer_set)
      /\ \A i \in DOMAIN timer_set : timer_set[i] \in Node
      /\ \A n : In(n, timer_set) => n \in Node /\ n.timer \in Timers
      /\ sound => \A n : In(n, timer_set) => timer_map[n.timer].alive
  BY SetOfInv
<1>2. /\ UNCHANGED <<clock, sets, notified>> /\ iter' = End /\ until' = None
      /\ at = "wait" /\ ~crashed
  BY DEF Expire
<1>3. TypeOK /\ WorkerState /\ running = None
  BY <1>2 DEF IInv, WorkerState
<1>4. clock' \in 1..MaxTime /\ sets' \in 0..MaxSet /\ notified' \subseteq Timers
      /\ iter' \in Node \cup {End} /\ until' \in Nat \cup {None} /\ End' = End
  BY <1>2, <1>3 DEF TypeOK, End
<1>5. CASE /\ crashed' = TRUE
           /\ UNCHANGED <<timer_map, timer_set, at, running, sound>>
  <2>1. TypeOK'
    BY <1>3, <1>4, <1>5 DEF TypeOK
  <2>2. WorkerState'
    BY <1>2, <1>3, <1>4, <1>5 DEF WorkerState
  <2> QED BY <1>5, <2>1, <2>2 DEF IInv
<1>6. ASSUME NEW t \in Timers, NEW left \in Seq(Node), Renew(t, left),
             at' = "callback", running' = t, sound' \in BOOLEAN, crashed' = crashed,
             sound' => \A n : In(n, timer_set') => timer_map'[n.timer].alive
      PROVE  TypeOK' /\ WorkerState' /\ WaitsForFirst'
  <2>1. timer_map' \in Entries /\ timer_set' \in Seq(Node)
    BY <1>1, <1>6, RenewTyped
  <2>2. sound' => \A i \in DOMAIN timer_set' : timer_map'[timer_set'[i].timer].alive
    BY <1>6 DEF In
  <2>3. TypeOK'
    BY <1>3, <1>4, <1>6, <2>1, <2>2 DEF TypeOK, Entries
  <2>4. running' # None
    BY <1>6, TimerAssumption
  <2> QED BY <1>2, <1>4, <1>6, <2>3, <2>4 DEF WorkerState, WaitsForFirst
<1>7. CASE StaleIter /\ ~crashed'
  <2>1. /\ iter # End /\ Renew(iter.timer, timer_set)
        /\ at' = "callback" /\ running' = iter.timer /\ sound' = FALSE /\ crashed' = crashed
    BY <1>7 DEF StaleIter
  <2>2. iter.timer \in Timers
    BY <1>3, <2>1 DEF TypeOK, Node
  <2> QED BY <1>1, <1>6, <2>1, <2>2 DEF IInv
<1>8. ASSUME NEW i \in DOMAIN timer_set,
             Renew(timer_set[i].timer, RemoveAt(timer_set, i)),
             at' = "callback", running' = timer_set[i].timer, UNCHANGED <<sound, crashed>>
      PROVE  IInv'
  <2> DEFINE t == timer_set[i].timer
  <2>1. t \in Timers /\ RemoveAt(timer_set, i) \in Seq(Node) /\ In(timer_set[i], timer_set)
    BY <1>1, RemoveAtProperties DEF Node, In
  <2>2. /\ timer_map'[t].alive = timer_map[t].alive
        /\ \A u \in Timers : u # t => timer_map'[u] = timer_map[u]
    BY <1>1, <1>8, <2>1, RenewTyped
  <2>3. ASSUME sound
        PROVE  /\ Distinct(timer_set') /\ Ordered(timer_map', timer_set')
               /\ \A n : n.timer # t => (In(n, timer_set') <=> In(n, timer_set))
    <3>1. Good
      BY <1>2, <2>3 DEF IInv
    <3> QED BY <1>8, <3>1, RenewEffect
  <2>4. sound' => \A n : In(n, timer_set') => timer_map'[n.timer].alive
    <3> SUFFICES ASSUME sound, NEW n, In(n, timer_set') PROVE timer_map'[n.timer].alive
      BY <1>8
    <3>1. CASE n.timer = t BY <1>1, <2>1, <2>2, <3>1
    <3>2. CASE n.timer # t BY <1>1, <2>2, <2>3, <3>2
    <3> QED BY <3>1, <3>2
  <2>5. sound' \in BOOLEAN
    BY <1>3, <1>8 DEF TypeOK
  <2>6. TypeOK' /\ WorkerState' /\ WaitsForFirst'
    BY <1>6, <1>8, <2>1, <2>4, <2>5
  <2>7. sound' /\ ~crashed' => Good'
    BY <1>8, <2>3, <2>6 DEF Good
  <2> QED BY <2>6, <2>7 DEF IInv
<1>9. StaleIter => ~crashed' \/ (crashed' = TRUE /\ UNCHANGED <<timer_map, timer_set, at, running, sound>>)
  BY <1>2 DEF StaleIter
<1> QED BY <1>5, <1>7, <1>8, <1>9, ExpireCases

(* The invariant is kept by every step.                                      *)
LEMMA NextInv ==
    ASSUME IInv, [Next]_vars
    PROVE  IInv'
<1>1. CASE Worker
  <2>1. CASE Look \/ Modified \/ CallbackDone BY <2>1, QuietStep
  <2>2. CASE Expire BY <2>2, ExpireStep
  <2> QED BY <1>1, <2>1, <2>2 DEF Worker
<1>2. CASE Tick \/ UNCHANGED vars BY <1>2, QuietStep
<1>3. ASSUME NEW t \in Timers, Construct(t) \/ Set(t) \/ Cancel(t) \/ Destroy(t) PROVE IInv'
  BY <1>3, ConstructStep, SetStep, CancelStep
<1> QED BY <1>1, <1>2, <1>3 DEF Next

(* Whatever the application sets, cancels and destroys, and until an entry is *)
(* confused with another: the multiset is ordered by the timeouts of its      *)
(* entries, no timer is scheduled twice, and no timer that was not set since  *)
(* the worker fell asleep expires before its wait ends.                      *)
THEOREM Invariant == Spec => []IInv
<1>1. Init => IInv
  BY InitInv
<1>2. IInv /\ [Next]_vars => IInv'
  BY NextInv
<1> QED BY <1>1, <1>2, PTL DEF Spec

(* The variables have their types, and until an entry is confused with        *)
(* another every scheduled timer lives: the destructor's cancel() leaves no    *)
(* entry of it in the multiset.                                              *)
THEOREM TypeCorrect == Spec => []TypeOK
<1>1. IInv => TypeOK
  BY DEF IInv
<1> QED BY <1>1, Invariant, PTL

-----------------------------------------------------------------------------
(* The refinement of TimerService                                            *)

(* The state of the service.                                                 *)
Deadline == [t \in Timers |-> timer_map[t].timeout]
Period   == [t \in Timers |-> timer_map[t].repeat]
Pending  == {t \in Timers : Scheduled(t)}

(* What the entries and the nodes leave of that state.                        *)
LEMMA ServiceKept ==
    ASSUME UNCHANGED <<timer_map, timer_set>>
    PROVE  Deadline' = Deadline /\ Period' = Period /\ Pending' = Pending
BY DEF Deadline, Period, Pending, Scheduled

(* The empty multiset is that of timers that are not set.                     *)
LEMMA InitService == Init => Service!Init
<1> SUFFICES ASSUME Init PROVE Service!Init
  OBVIOUS
<1>1. \A t \in Timers : ~Scheduled(t)
  BY DEF Init, Scheduled
<1> QED BY <1>1 DEF Init, Service!Init

(* A node of the multiset is that of a timer that is pending.                 *)
LEMMA PendingNode ==
    ASSUME IInv, NEW i \in DOMAIN timer_set
    PROVE  /\ timer_set[i] \in Node /\ timer_set[i].timer \in Pending
           /\ Deadline[timer_set[i].timer] = Key(timer_map, timer_set[i])
           /\ Key(timer_map, timer_set[i]) \in Nat
BY SetOfInv DEF Node, Pending, Scheduled, Deadline, Key, Entries

(* set() is the service's, for one of its periods.                           *)
LEMMA SetService ==
    ASSUME IInv, Good, NEW t \in Timers, Set(t), sound, sound'
    PROVE  Service!Set(t)
<1>1. Schedule(t) /\ notified' = notified \cup {t}
  BY DEF Set
<1>2. PICK timeout \in clock..MaxTime, repeat \in Periods :
             /\ timer_map'[t].timeout = timeout /\ timer_map'[t].repeat = repeat
             /\ \A u \in Timers : u # t => timer_map'[u] = timer_map[u]
  BY <1>1, SetTyped
<1>3. /\ \A n : n.timer # t => (In(n, timer_set') <=> In(n, timer_set))
      /\ Scheduled(t)'
  BY <1>1, SetEffect
<1>4. ASSUME NEW u \in Timers, u # t PROVE (Scheduled(u)' <=> Scheduled(u))
  BY <1>3, <1>4, ScheduledIn
<1>5. /\ Deadline' = [Deadline EXCEPT ![t] = timeout] /\ Period' = [Period EXCEPT ![t] = repeat]
      /\ Pending' = Pending \cup {t}
  BY <1>2, <1>3, <1>4 DEF Deadline, Period, Pending
<1>6. UNCHANGED <<clock, running, until>>
  BY <1>1 DEF Schedule, workerVars
<1> QED BY <1>1, <1>5, <1>6 DEF Service!Set, Deadline, Period, Pending

(* A set() that finds the node of another timer, or misses its own, is one of  *)
(* a timer that can be confused: it has a timeout of another, or is moved past *)
(* another.                                                                 *)
LEMMA SetConfused ==
    ASSUME IInv, Good, NEW t \in Timers, Set(t), sound, ~sound'
    PROVE  Service!Confused(t, Deadline'[t])
<1>1. PICK timeout \in clock..MaxTime, repeat \in Periods :
             /\ timer_map' \in Entries
             /\ timer_map'[t].timeout = timeout
             /\ \A u \in Timers : u # t => timer_map'[u] = timer_map[u]
             /\ \E pos \in Find(timer_map', timer_set, timeout) : ~FoundOwn(t, pos)
  BY SetTyped DEF Set
<1>2. PICK pos \in Find(timer_map', timer_set, timeout) : ~FoundOwn(t, pos)
  BY <1>1
<1>3. Deadline'[t] = timeout /\ timeout \in Nat /\ Deadline[t] = timer_map[t].timeout
  BY <1>1 DEF Deadline, Entries
<1>4. \A i \in DOMAIN timer_set :
         timer_set[i].timer # t => Key(timer_map', timer_set[i]) = Key(timer_map, timer_set[i])
  BY <1>1, SetOfInv DEF Key, Node
<1>5. /\ timer_set \in Seq(Node)
      /\ pos = 0 \/ (pos \in DOMAIN timer_set /\ pos # 0 /\ Key(timer_map', timer_set[pos]) = timeout)
      /\ Ordered(timer_map', timer_set) /\ pos = 0 =>
           \A i \in DOMAIN timer_set : Key(timer_map', timer_set[i]) # timeout
  <2>1. timer_set \in Seq(Node)
    BY SetOfInv
  <2> DEFINE map == timer_map'
  <2>2. pos \in Find(map, timer_set, timeout)
    BY <1>2
  <2> HIDE DEF map
  <2>3. /\ pos = 0 \/ (pos \in DOMAIN timer_set /\ pos # 0 /\ Key(map, timer_set[pos]) = timeout)
        /\ Ordered(map, timer_set) /\ pos = 0 => \A i \in DOMAIN timer_set : Key(map, timer_set[i]) # timeout
    <3>1. Len(timer_set) \in Nat /\ DOMAIN timer_set = 1..Len(timer_set)
      BY <2>1, LenProperties
    <3> DEFINE equal == {i \in DOMAIN timer_set : Key(map, timer_set[i]) = timeout}
    <3>2. pos = 0 \/ pos \in equal
      BY <2>2 DEF Find
    <3>3. Ordered(map, timer_set) /\ pos = 0 => equal = {}
      <4> SUFFICES ASSUME Ordered(map, timer_set), pos = 0, equal # {} PROVE FALSE
        OBVIOUS
      <4>1. pos \in equal
        BY <2>2 DEF Find
      <4> QED BY <3>1, <4>1
    <3> QED BY <3>1, <3>2, <3>3
  <2> QED BY <2>1, <2>3 DEF map
<1>6. SUFFICES \E u \in Pending \ {t} :
                  LET a == IF t \in Pending THEN Deadline[t] ELSE timeout
                  IN \/ a <= Deadline[u] /\ Deadline[u] <= timeout
                     \/ timeout <= Deadline[u] /\ Deadline[u] <= a
  BY <1>3 DEF Service!Confused, Service!Between, Deadline, Pending
<1>7. Deadline[t] \in Nat
  BY SetOfInv DEF Deadline, Entries
<1>8. CASE pos # 0
  <2>1. timer_set[pos].timer # t /\ pos \in DOMAIN timer_set
    BY <1>2, <1>5, <1>8 DEF FoundOwn
  <2> DEFINE u == timer_set[pos].timer
  <2>2. u \in Pending \ {t} /\ Deadline[u] = timeout
    BY <1>4, <1>5, <2>1, PendingNode
  <2> HIDE DEF u
  <2>3. timeout <= timeout /\ (Deadline[t] <= timeout \/ timeout <= Deadline[t])
    BY <1>3, <1>7
  <2> QED BY <2>2, <2>3
<1>9. CASE pos = 0
  <2>1. PICK k \in DOMAIN timer_set : timer_set[k].timer = t
    BY <1>2, <1>9 DEF FoundOwn, Scheduled
  <2>2. t \in Pending /\ Key(timer_map, timer_set[k]) = Deadline[t]
    BY <2>1, PendingNode
  <2>3. Key(timer_map', timer_set[k]) = timeout
    BY <1>1, <2>1 DEF Key
  <2>4. PICK i, j \in DOMAIN timer_set :
          i < j /\ ~(Key(timer_map', timer_set[i]) <= Key(timer_map', timer_set[j]))
    BY <1>5, <1>9, <2>3 DEF Ordered
  <2>5. Key(timer_map, timer_set[i]) <= Key(timer_map, timer_set[j])
    BY <2>4 DEF Good, Ordered
  <2>6. \A m \in DOMAIN timer_set : timer_set[m].timer = t => m = k
    BY <2>1 DEF Good, Distinct
  <2>7. i = k \/ j = k
    <3> SUFFICES ASSUME i # k, j # k PROVE FALSE
      OBVIOUS
    <3>1. timer_set[i].timer # t /\ timer_set[j].timer # t
      BY <2>6
    <3> QED BY <1>4, <2>4, <2>5, <3>1
  <2>8. i \in Nat /\ j \in Nat
    BY SetOfInv
  <2>9. CASE i = k
    <3>1. j # k /\ timer_set[j].timer # t
      BY <2>4, <2>6, <2>8, <2>9
    <3> DEFINE u == timer_set[j].timer
    <3>2. u \in Pending \ {t} /\ Deadline[u] = Key(timer_map, timer_set[j]) /\ Deadline[u] \in Nat
      BY <3>1, PendingNode
    <3>3. Deadline[t] <= Deadline[u] /\ ~(timeout <= Deadline[u])
      BY <1>4, <2>2, <2>3, <2>4, <2>5, <2>9, <3>1, <3>2
    <3> HIDE DEF u
    <3> QED BY <1>3, <2>2, <3>2, <3>3
  <2>10. CASE j = k
    <3>1. i # k /\ timer_set[i].timer # t
      BY <2>4, <2>6, <2>8, <2>10
    <3> DEFINE u == timer_set[i].timer
    <3>2. u \in Pending \ {t} /\ Deadline[u] = Key(timer_map, timer_set[i]) /\ Deadline[u] \in Nat
      BY <3>1, PendingNode
    <3>3. Deadline[u] <= Deadline[t] /\ ~(Deadline[u] <= timeout)
      BY <1>4, <2>2, <2>3, <2>4, <2>5, <2>10, <3>1, <3>2
    <3> HIDE DEF u
    <3> QED BY <1>3, <2>2, <3>2, <3>3
  <2> QED BY <2>7, <2>9, <2>10
<1> QED BY <1>8, <1>9

(* cancel() and the destructor are the service's Cancel.                      *)
LEMMA CancelService ==
    ASSUME IInv, Good, NEW t \in Timers, Cancel(t) \/ Destroy(t), sound, sound'
    PROVE  Service!Cancel(t)
<1>1. Unschedule(t) /\ UNCHANGED <<clock, running, until>>
  BY DEF Cancel, Destroy, workerVars
<1>2. /\ \A n : In(n, timer_set') <=> In(n, timer_set) /\ n.timer # t
      /\ notified' = IF Scheduled(t) THEN notified \cup {t} ELSE notified
  BY <1>1, UnscheduleEffect
<1>3. \A u \in Timers : /\ timer_map'[u].timeout = timer_map[u].timeout
                        /\ timer_map'[u].repeat = timer_map[u].repeat
  <2>1. CASE Cancel(t) BY <2>1 DEF Cancel
  <2>2. CASE Destroy(t)
    <3>1. timer_map \in Entries /\ timer_map' = [timer_map EXCEPT ![t].alive = FALSE]
      BY <2>2, SetOfInv DEF Destroy
    <3> QED BY <3>1 DEF Entries
  <2> QED BY <2>1, <2>2
<1>4. ~Scheduled(t)'
  BY <1>2, ScheduledIn
<1>5. ASSUME NEW u \in Timers, u # t PROVE (Scheduled(u)' <=> Scheduled(u))
  BY <1>2, <1>5, ScheduledIn
<1>6. Deadline' = Deadline /\ Period' = Period /\ Pending' = Pending \ {t}
  BY <1>3, <1>4, <1>5 DEF Deadline, Period, Pending
<1>7. notified' = IF t \in Pending THEN notified \cup {t} ELSE notified
  BY <1>2 DEF Pending
<1> QED BY <1>1, <1>6, <1>7 DEF Service!Cancel, Deadline, Period, Pending

(* A cancel() that finds the node of another timer is one of a timer whose    *)
(* timeout another has.                                                     *)
LEMMA CancelConfused ==
    ASSUME IInv, Good, NEW t \in Timers, Cancel(t) \/ Destroy(t), sound, ~sound'
    PROVE  Service!Confused(t, Deadline'[t])
<1>1. PICK pos \in Find(timer_map, timer_set, timer_map[t].timeout) : ~FoundOwn(t, pos)
  BY DEF Cancel, Destroy, Unschedule
<1>2. timer_map \in Entries /\ timer_map'[t].timeout = timer_map[t].timeout
  <2>1. timer_map \in Entries
    BY SetOfInv
  <2>2. CASE Cancel(t) BY <2>1, <2>2 DEF Cancel
  <2>3. CASE Destroy(t)
    <3>1. timer_map' = [timer_map EXCEPT ![t].alive = FALSE]
      BY <2>3 DEF Destroy
    <3> QED BY <2>1, <3>1 DEF Entries
  <2> QED BY <2>2, <2>3
<1>3. Deadline'[t] = timer_map[t].timeout /\ Deadline[t] = timer_map[t].timeout /\ Deadline[t] \in Nat
  BY <1>2, SetOfInv DEF Deadline, Entries
<1>4. /\ timer_set \in Seq(Node) /\ Ordered(timer_map, timer_set)
      /\ pos = 0 \/ (pos \in DOMAIN timer_set /\ pos # 0 /\ Key(timer_map, timer_set[pos]) = Deadline[t])
      /\ pos = 0 => \A i \in DOMAIN timer_set : Key(timer_map, timer_set[i]) # Deadline[t]
  BY <1>3, SetOfInv, Found DEF Good
<1>5. pos # 0 /\ pos \in DOMAIN timer_set /\ timer_set[pos].timer # t
  <2>1. ASSUME NEW i \in DOMAIN timer_set, timer_set[i].timer = t
        PROVE  Key(timer_map, timer_set[i]) = Deadline[t]
    BY <1>3, <2>1 DEF Key
  <2> QED BY <1>1, <1>4, <2>1 DEF FoundOwn, Scheduled
<1> DEFINE u == timer_set[pos].timer
<1>6. u \in Pending \ {t} /\ Deadline[u] = Deadline[t]
  BY <1>4, <1>5, PendingNode
<1> HIDE DEF u
<1>7. Deadline[t] <= Deadline[t]
  BY <1>3
<1> QED BY <1>3, <1>6, <1>7 DEF Service!Confused, Service!Between, Deadline, Pending

(* A worker that waits for a node has waited for as long as the service.      *)
LEMMA UpService ==
    ASSUME IInv, Expire, iter # End
    PROVE  Service!Up /\ running = None /\ until \in Nat
<1>1. until # None /\ until \in Nat /\ clock \in Nat /\ at = "wait"
  BY DEF Expire, IInv, TypeOK, WorkerState
<1>2. until <= clock
  BY <1>1 DEF Expire, TimeIsUp
<1> QED BY <1>1, <1>2 DEF Service!Up, IInv, WorkerState

(* An expiry of a node is that of a pending timer; one of a node that was      *)
(* erased ends the promise, or the program.                                  *)
LEMMA ExpireService ==
    ASSUME IInv, Good, Expire, sound, ~crashed
    PROVE  [Service!Next]_(Service!serviceVars)
<1>1. /\ timer_map \in Entries /\ timer_set \in Seq(Node)
      /\ \A i \in DOMAIN timer_set : timer_set[i] \in Node
  BY SetOfInv
<1>2. UNCHANGED <<clock, notified>> /\ until' = None /\ at = "wait" /\ running = None
  BY DEF Expire, IInv, WorkerState
<1>3. WaitsForFirst
  BY DEF Good
<1>4. CASE StaleIter
  <2>1. iter # End => iter.timer \in notified
    <3> SUFFICES ASSUME iter # End, In(iter, timer_set) PROVE FALSE
      BY <1>3 DEF WaitsForFirst
    <3> QED BY <1>4 DEF StaleIter, In
  <2>2. CASE UNCHANGED <<timer_map, timer_set, at, running, sound>>
    <3>1. Deadline' = Deadline /\ Period' = Period /\ Pending' = Pending
      BY <2>2, ServiceKept
    <3>2. CASE until = None
      <4>1. UNCHANGED Service!serviceVars
        BY <1>2, <2>2, <3>1, <3>2 DEF Service!serviceVars, Deadline, Period, Pending
      <4> QED BY <4>1
    <3>3. CASE until # None
      <4>1. notified # {}
        BY <2>1, <3>3 DEF IInv, WorkerState
      <4>2. Service!Wake
        BY <1>2, <2>2, <3>1, <4>1 DEF Service!Wake, Service!promise, Deadline, Period, Pending
      <4> QED BY <4>2 DEF Service!Next, Service!Promised
    <3> QED BY <3>2, <3>3
  <2>3. CASE iter # End /\ running' = iter.timer /\ sound' = FALSE
    <3>1. iter.timer \in Timers /\ iter.timer \in notified
      BY <2>1, <2>3 DEF IInv, TypeOK, Node
    <3>2. Service!Up
      BY <2>3, UpService
    <3>3. Service!End
      BY <1>2, <2>3, <3>1, <3>2 DEF Service!End
    <3> QED BY <3>3 DEF Service!Next
  <2> QED BY <1>4, <2>2, <2>3 DEF StaleIter
<1>5. ASSUME NEW i \in DOMAIN timer_set, timer_set[i].place = iter.place,
             Renew(timer_set[i].timer, RemoveAt(timer_set, i)),
             running' = timer_set[i].timer, UNCHANGED sound
      PROVE  Service!Next
  <2>0. PICK t, n : t = timer_set[i].timer /\ n = timer_set[i]
    OBVIOUS
  <2>1. /\ t \in Pending /\ t \in Timers /\ n \in Node /\ In(n, timer_set)
        /\ Deadline[t] = Key(timer_map, n) /\ Key(timer_map, n) \in Nat
    BY <2>0, PendingNode DEF Pending, In
  <2>2. iter # End
    <3>1. n.place \in Nat /\ n.place = iter.place
      BY <1>5, <2>0, <2>1, TimerAssumption DEF Node
    <3>2. End.place = None /\ None \notin Nat
      BY TimerAssumption DEF End
    <3> QED BY <3>1, <3>2
  <2>3. Service!Up /\ until \in Nat /\ until <= clock /\ clock \in Nat
    BY <2>2, UpService DEF Service!Up, IInv, TypeOK
  <2>4. t \in notified \/ Deadline[t] = until
    BY <1>3, <1>5, <2>0, <2>1, <2>2 DEF WaitsForFirst, Key
  <2>5. ASSUME NEW u \in Pending \ notified PROVE until <= Deadline[u]
    <3>1. PICK m : In(m, timer_set) /\ m.timer = u
      BY ScheduledIn DEF Pending
    <3>2. until <= Key(timer_map, m)
      BY <1>2, <1>3, <2>5, <3>1 DEF WaitsForFirst
    <3> QED BY <3>1, <3>2 DEF Deadline, Key, Pending
  <2>6. \/ Deadline[t] <= clock /\ \A u \in Pending \ notified : Deadline[t] <= Deadline[u]
        \/ t \in notified
    BY <2>3, <2>4, <2>5
  <2>7. /\ \A m : m.timer # t => (In(m, timer_set') <=> In(m, timer_set))
        /\ IF timer_map[t].repeat = 0
           THEN timer_map' = timer_map /\ ~Scheduled(t)'
           ELSE /\ timer_map' = [timer_map EXCEPT ![t].timeout = @ + timer_map[t].repeat]
                /\ Scheduled(t)'
    BY <1>5, <2>0, RenewEffect
  <2>8. ASSUME NEW u \in Timers, u # t PROVE (Scheduled(u)' <=> Scheduled(u))
    BY <2>7, <2>8, ScheduledIn
  <2>9. Period[t] = timer_map[t].repeat /\ Scheduled(t)
    BY <2>1 DEF Period, Pending
  <2>10. /\ IF Period[t] = 0
            THEN Pending' = Pending \ {t} /\ Deadline' = Deadline
            ELSE Deadline' = [Deadline EXCEPT ![t] = @ + Period[t]] /\ Pending' = Pending
         /\ Period' = Period
    <3>1. CASE timer_map[t].repeat = 0
      <4>1. timer_map' = timer_map /\ ~Scheduled(t)'
        BY <2>7, <3>1
      <4>2. Pending' = Pending \ {t}
        BY <2>8, <4>1 DEF Pending
      <4>3. Deadline' = Deadline /\ Period' = Period
        BY <4>1 DEF Deadline, Period
      <4> QED BY <2>9, <3>1, <4>2, <4>3
    <3>2. CASE timer_map[t].repeat # 0
      <4>1. /\ timer_map' = [timer_map EXCEPT ![t].timeout = @ + timer_map[t].repeat]
            /\ Scheduled(t)'
        BY <2>7, <3>2
      <4>2. Pending' = Pending
        BY <2>8, <2>9, <4>1 DEF Pending
      <4>3. /\ timer_map'[t].timeout = timer_map[t].timeout + timer_map[t].repeat
            /\ timer_map'[t].repeat = timer_map[t].repeat
            /\ \A u \in Timers : u # t => timer_map'[u] = timer_map[u]
        BY <1>1, <2>1, <4>1 DEF Entries
      <4>4. Deadline' = [Deadline EXCEPT ![t] = @ + Period[t]]
        BY <2>1, <2>9, <4>3 DEF Deadline
      <4>5. Period' = Period
        BY <4>3 DEF Period
      <4> QED BY <2>9, <3>2, <4>2, <4>4, <4>5
    <3> QED BY <3>1, <3>2
  <2>11. running' = t
    BY <1>5, <2>0
  <2>12. Service!Expire(t)
    BY <1>2, <1>5, <2>1, <2>3, <2>6, <2>10, <2>11 DEF Service!Expire, Deadline, Period, Pending
  <2> QED BY <2>1, <2>12 DEF Service!Next, Service!Promised
<1> QED BY <1>4, <1>5, ExpireCases

(* The worker that looks at the set sleeps for the first of the service.      *)
LEMMA LookService ==
    ASSUME IInv, Good, Look
    PROVE  Service!Sleep
<1>1. /\ UNCHANGED <<clock, timer_map, timer_set, running, sound>> /\ notified' = {} /\ running = None
  BY DEF Look, IInv, WorkerState
<1>2. Deadline' = Deadline /\ Period' = Period /\ Pending' = Pending
  BY <1>1, ServiceKept
<1>3. timer_set \in Seq(Node) /\ DOMAIN timer_set = 1..Len(timer_set) /\ Len(timer_set) \in Nat
  BY SetOfInv
<1>4. /\ until' \in {Deadline[t] : t \in Pending} \cup {None}
      /\ until' = None <=> Pending = {}
      /\ \A t \in Pending : until' <= Deadline[t]
  <2>1. CASE timer_set = <<>>
    <3>1. Pending = {}
      BY <2>1 DEF Pending, Scheduled
    <3> QED BY <2>1, <3>1 DEF Look
  <2>2. CASE timer_set # <<>>
    <3>1. 1 \in DOMAIN timer_set /\ Head(timer_set) = timer_set[1]
      BY <1>3, <2>2, EmptySeq
    <3>2. /\ timer_set[1].timer \in Pending /\ Deadline[timer_set[1].timer] = Key(timer_map, timer_set[1])
          /\ Key(timer_map, timer_set[1]) \in Nat
      BY <3>1, PendingNode
    <3>3. until' = Key(timer_map, timer_set[1])
      BY <2>2, <3>1 DEF Look
    <3>4. ASSUME NEW t \in Pending PROVE until' <= Deadline[t]
      <4>1. PICK i \in DOMAIN timer_set : timer_set[i].timer = t
        BY DEF Pending, Scheduled
      <4>2. Deadline[t] = Key(timer_map, timer_set[i]) /\ Deadline[t] \in Nat
        BY <4>1, PendingNode
      <4>3. i = 1 \/ 1 < i
        BY <1>3
      <4> QED BY <3>1, <3>2, <3>3, <4>2, <4>3 DEF Good, Ordered
    <3> QED BY <3>2, <3>3, <3>4, TimerAssumption
  <2> QED BY <2>1, <2>2
<1> QED BY <1>1, <1>2, <1>4 DEF Service!Sleep, Service!promise, Deadline, Period, Pending

(* Every step of the timers is a step of the service or a stutter.            *)
LEMMA NextService ==
    ASSUME IInv, [Next]_vars
    PROVE  [Service!Next]_(Service!serviceVars)
<1>1. ASSUME ~sound PROVE [Service!Next]_(Service!serviceVars)
  <2>1. ~sound'
    <3>1. ASSUME NEW t \in Timers, Construct(t) \/ Set(t) \/ Cancel(t) \/ Destroy(t) PROVE ~sound'
      BY <1>1, <3>1 DEF Construct, Set, Schedule, Cancel, Destroy, Unschedule
    <3>2. CASE Worker
      BY <1>1, <3>2 DEF Worker, Look, Modified, Expire, StaleIter, CallbackDone
    <3> QED BY <1>1, <3>1, <3>2 DEF Next, Tick, vars
  <2> QED BY <1>1, <2>1 DEF Service!Next
<1>2. CASE UNCHANGED vars
  <2>1. Deadline' = Deadline /\ Period' = Period /\ Pending' = Pending
    BY <1>2, ServiceKept DEF vars
  <2> QED BY <1>2, <2>1 DEF vars, workerVars, Service!serviceVars, Deadline, Period, Pending
<1>3. ASSUME sound, Next PROVE [Service!Next]_(Service!serviceVars)
  <2>1. ~crashed /\ Good
    <3>1. ~crashed
      BY <1>3 DEF Next, Worker, Look, Modified, Expire, CallbackDone, Tick, Construct, Set,
                  Schedule, Cancel, Destroy
    <3> QED BY <1>3, <3>1 DEF IInv
  <2>2. CASE Look
    BY <1>3, <2>1, <2>2, LookService DEF Service!Next, Service!Promised
  <2>3. CASE Expire
    BY <1>3, <2>1, <2>3, ExpireService
  <2>4. CASE Modified
    <3>1. UNCHANGED <<clock, timer_map, timer_set, running, sound, notified>> /\ until' = None /\ notified # {}
      BY <2>4 DEF Modified
    <3>2. Deadline' = Deadline /\ Period' = Period /\ Pending' = Pending
      BY <3>1, ServiceKept
    <3>3. Service!Wake
      BY <3>1, <3>2 DEF Service!Wake, Service!promise, Deadline, Period, Pending
    <3> QED BY <1>3, <3>3 DEF Service!Next, Service!Promised
  <2>5. CASE CallbackDone
    <3>1. /\ UNCHANGED <<clock, timer_map, timer_set, until, sound, notified>>
          /\ running # None /\ running' = None
      BY <2>5 DEF CallbackDone, IInv, WorkerState
    <3>2. Deadline' = Deadline /\ Period' = Period /\ Pending' = Pending
      BY <3>1, ServiceKept
    <3>3. Service!Return
      BY <3>1, <3>2 DEF Service!Return, Service!promise, Deadline, Period, Pending
    <3> QED BY <1>3, <3>3 DEF Service!Next, Service!Promised
  <2>6. CASE Tick
    <3>1. /\ UNCHANGED <<timer_map, timer_set, until, sound, notified, running>>
          /\ clock < MaxTime /\ clock' = clock + 1
      BY <2>6 DEF Tick, workerVars
    <3>2. Deadline' = Deadline /\ Period' = Period /\ Pending' = Pending
      BY <3>1, ServiceKept
    <3>3. Service!Tick
      BY <3>1, <3>2 DEF Service!Tick, Service!promise, Deadline, Period, Pending
    <3> QED BY <1>3, <3>3 DEF Service!Next, Service!Promised
  <2>7. ASSUME NEW t \in Timers, Construct(t) PROVE Service!Next
    <3>1. UNCHANGED <<clock, timer_set, running, until, notified, sound>>
      BY <2>7 DEF Construct, workerVars
    <3>2. t \notin Pending
      BY <1>3, <2>7, ConstructStep, ScheduledIn DEF Pending
    <3>3. timer_map \in Entries /\ timer_map' = [timer_map EXCEPT ![t] = [alive |-> TRUE, timeout |-> 0, repeat |-> 0]]
      BY <2>7, SetOfInv DEF Construct
    <3>4. Deadline' = [Deadline EXCEPT ![t] = 0] /\ Period' = [Period EXCEPT ![t] = 0]
      BY <3>3 DEF Deadline, Period, Entries
    <3>5. Pending' = Pending
      BY <3>1 DEF Pending, Scheduled
    <3>6. Service!New(t)
      BY <3>1, <3>2, <3>4, <3>5 DEF Service!New, Deadline, Period, Pending
    <3> QED BY <1>3, <3>6 DEF Service!Next, Service!Promised
  <2>8. ASSUME NEW t \in Timers, Set(t) \/ Cancel(t) \/ Destroy(t) PROVE Service!Next
    <3>1. CASE sound'
      <4>1. Service!Set(t) \/ Service!Cancel(t)
        BY <1>3, <2>1, <2>8, <3>1, SetService, CancelService
      <4> QED BY <1>3, <4>1 DEF Service!Next, Service!Promised
    <3>2. CASE ~sound'
      <4>1. Service!Confused(t, Deadline'[t])
        BY <1>3, <2>1, <2>8, <3>2, SetConfused, CancelConfused
      <4>2. IInv'
        BY <2>8, SetStep, CancelStep
      <4>3. sound' = FALSE
        BY <3>2, <4>2 DEF IInv, TypeOK
      <4>4. Service!End
        BY <4>1, <4>3 DEF Service!End, Deadline
      <4> QED BY <1>3, <4>4 DEF Service!Next
    <3> QED BY <3>1, <3>2
  <2> QED BY <1>3, <2>2, <2>3, <2>4, <2>5, <2>6, <2>7, <2>8 DEF Next, Worker
<1> QED BY <1>1, <1>2, <1>3 DEF IInv, TypeOK

(* Timer.hpp's promise, kept by the multiset and its worker for every use of  *)
(* them, whatever is called when and whatever a callback destroys: a callback  *)
(* is called only for a timer that is set, the earliest first, not before its  *)
(* time, once or once a period, one at a time, and never for a timer that was  *)
(* cancelled, set again to later, or destroyed. It is kept until a timer is    *)
(* set or cancelled whose timeout another has, or that is moved past another,  *)
(* or one that was set or cancelled while the worker slept is called by way of *)
(* a node that was erased; and such a timer may be called out of turn.         *)
THEOREM ImplementsService == Spec => TimerServiceSpec
<1>1. Init => Service!Init
  BY InitService
<1>2. IInv /\ [Next]_vars => [Service!Next]_(Service!serviceVars)
  BY NextService
<1>3. Spec => []IInv
  BY Invariant
<1> QED BY <1>1, <1>2, <1>3, PTL DEF Spec, TimerServiceSpec, Service!Spec
=============================================================================
