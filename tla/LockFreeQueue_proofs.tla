----------------------- MODULE LockFreeQueue_proofs -----------------------
(***************************************************************************)
(* Proofs about LockFreeQueue for any set of threads, any number of nodes  *)
(* and any number of calls: the inductive invariant QueueInv, that every   *)
(* node is accounted for, and the refinement of FifoQueue.                 *)
(***************************************************************************)
EXTENDS LockFreeQueue, FiniteSetTheorems, WellFoundedInduction, TLAPS

-----------------------------------------------------------------------------
(* The inductive invariant.  It says of some assignment of the nodes where *)
(* each one is: kind[n] is the place, owner[n] the thread of a node that   *)
(* one call has to itself, pos[n] how far n is from the first node of its  *)
(* list and age[n] when it was allocated.                                  *)

Kinds == {"free", "list", "private", "popped"}
Owners == Threads \cup {None}

\* The steps at which a push relies on the last node it saw.
Aiming == {"push_next", "push_verify", "push_link"}

Together(kind, owner, m, n) ==
  kind[m] = kind[n] /\ (kind[n] = "private" => owner[m] = owner[n])

\* The nodes whose link is meant: a push has still to clear the one it copies to.
Linked(kind, owner, n) ==
  kind[n] = "list" \/ (kind[n] = "private" /\ pc[owner[n]] \in Linking)

FreeNodes(kind, s) ==
  /\ \A i \in 1 .. Len(s) : kind[s[i]] = "free"
  /\ \A i, j \in 1 .. Len(s) : s[i] = s[j] => i = j
  /\ \A n \in Node : kind[n] = "free" => \E i \in 1 .. Len(s) : s[i] = n

ListEnds(kind, pos) ==
  /\ front.handle \in Node /\ kind[front.handle] = "list" /\ pos[front.handle] = 0
  /\ back.handle \in Node /\ kind[back.handle] = "list"

PrivateNodes(kind, owner, pos) ==
  /\ \A t \in Threads : pc[t] \in Copying \cup Linking =>
       /\ node[t] \in Node
       /\ kind[node[t]] = "private" /\ owner[node[t]] = t /\ pos[node[t]] = 0
  /\ \A n \in Node : kind[n] = "private" =>
       /\ owner[n] \in Threads /\ pc[owner[n]] \in Copying \cup Linking
       /\ pc[owner[n]] \in Copying => n = node[owner[n]]

PoppedNodes(kind, owner) ==
  /\ \A t \in Threads : pc[t] = "pop_free" =>
       /\ seenFront[t].handle \in Node
       /\ kind[seenFront[t].handle] = "popped" /\ owner[seenFront[t].handle] = t
  /\ \A n \in Node : kind[n] = "popped" =>
       /\ owner[n] \in Threads /\ pc[owner[n]] = "pop_free"
       /\ n = seenFront[owner[n]].handle
       /\ next[n].handle # Null

\* No two nodes of a list have the same position; a link leads to the next position;
\* the node with no link is the last one.
Apart(kind, owner, pos) ==
  \A m, n \in Node :
    kind[n] \in {"list", "private"} /\ Together(kind, owner, m, n) /\ pos[m] = pos[n] => m = n

Onward(kind, owner, pos) ==
  \A n \in Node : Linked(kind, owner, n) /\ next[n].handle # Null =>
    /\ Together(kind, owner, next[n].handle, n)
    /\ pos[next[n].handle] = pos[n] + 1

Ended(kind, owner, pos) ==
  \A m, n \in Node :
    Linked(kind, owner, n) /\ next[n].handle = Null /\ Together(kind, owner, m, n)
      => pos[m] <= pos[n]

Chained(kind, owner, pos) ==
  Apart(kind, owner, pos) /\ Onward(kind, owner, pos) /\ Ended(kind, owner, pos)

Filled(kind, owner, pos) ==
  \A n \in Node : Linked(kind, owner, n) /\ (kind[n] = "list" => pos[n] # 0) => elements[n] \in Value

\* Why a push that links behind a node it saw as the last one long ago makes no
\* loop: that node can be private again only if it was allocated after its own.
Aims(kind, owner, age, t) ==
  pc[t] \in Aiming =>
    /\ seenBack[t].handle \in Node
    /\ Linked(kind, owner, seenBack[t].handle) \/ next[seenBack[t].handle].handle # Null
    /\ kind[seenBack[t].handle] = "private" => age[node[t]] < age[seenBack[t].handle]

Staleness(kind, owner, pos, age, clock) ==
  /\ \A n \in Node : age[n] <= clock
  /\ \A m, n \in Node :
       kind[n] = "private" /\ Together(kind, owner, m, n) /\ pos[m] < pos[n] => age[n] < age[m]
  /\ \A t \in Threads : Aims(kind, owner, age, t)

Layout(kind, owner, pos) ==
  /\ FreeNodes(kind, free) /\ ListEnds(kind, pos)
  /\ PrivateNodes(kind, owner, pos) /\ PoppedNodes(kind, owner)
  /\ Chained(kind, owner, pos) /\ Filled(kind, owner, pos)

NodesPlaced ==
  \E kind \in [Node -> Kinds], owner \in [Node -> Owners], pos, age \in [Node -> Nat], clock \in Nat :
    Layout(kind, owner, pos) /\ Staleness(kind, owner, pos, age, clock)

\* Tags only grow, so a handle read with the tag that is there now is there now.
TagsCountOf(t) ==
  /\ seenFront[t].handle # Null =>
       /\ seenFront[t].tag <= front.tag
       /\ seenFront[t].tag = front.tag => seenFront[t] = front
  /\ seenBack[t].handle # Null =>
       /\ seenBack[t].tag <= back.tag
       /\ seenBack[t].tag = back.tag => seenBack[t] = back

Holding == {"pop_copy", "pop_copied", "pop_take", "peek_verify"}

\* What a call has read by the time it is at a step.
LocalsOf(t) ==
  /\ pc[t] # "idle" => calls[t] # 0
  /\ pc[t] \in Aiming \cup {"push_help", "push_swing"} =>
       seenBack[t].handle # Null /\ node[t] # Null
  /\ pc[t] \in Popping \ {"pop_front"} => seenFront[t].handle # Null
  /\ pc[t] \in Popping \ {"pop_front", "pop_back"} => seenBack[t].handle # Null
  /\ pc[t] = "push_link" => seenNext[t].handle = Null
  /\ pc[t] \in Holding \cup {"push_help", "pop_help"} => seenNext[t].handle # Null
  /\ pc[t] = "pop_help" => seenFront[t].handle = seenBack[t].handle
  /\ pc[t] \in Holding => seenFront[t].handle # seenBack[t].handle
  /\ pc[t] \in Popping => op[t] # "push"
  /\ pc[t] \in Popping \ {"pop_free"} => result[t] = None
  /\ pc[t] \in {"pop_copy", "pop_copied", "peek_verify"} => op[t] # "drop"
  /\ pc[t] = "peek_verify" => op[t] = "peek"
  /\ pc[t] = "pop_take" => op[t] # "peek"
  /\ pc[t] = "idle" \/ op[t] = "drop" => copy[t] = None

\* While m_back is what a call saw, the node it would move it to is the next one.
BackSeenOf(t) ==
  back = seenBack[t] =>
    /\ pc[t] = "push_swing" => next[back.handle].handle = node[t]
    /\ pc[t] \in {"push_verify", "push_help"} =>
         seenNext[t].handle \in {Null, next[back.handle].handle}
    /\ pc[t] \in {"pop_verify", "pop_help"} /\ seenFront[t].handle = seenBack[t].handle =>
         seenNext[t].handle \in {Null, next[back.handle].handle}

\* While m_front is what a pop or peek saw, there is an element behind it, the one
\* it has seen and copied.
FrontSeenOf(t) ==
  front = seenFront[t] /\ seenFront[t].handle # seenBack[t].handle =>
    /\ pc[t] \in {"pop_next", "pop_verify"} \cup Holding => back.handle # front.handle
    /\ pc[t] \in {"pop_verify"} \cup Holding =>
         seenNext[t].handle # Null /\ next[front.handle].handle = seenNext[t].handle
    /\ pc[t] \in {"pop_copied", "peek_verify"} \/ (pc[t] = "pop_take" /\ op[t] = "pop") =>
         copy[t] = elements[seenNext[t].handle]

TagsCount == \A t \in Threads : TagsCountOf(t)
Locals == \A t \in Threads : LocalsOf(t)
BackSeen == \A t \in Threads : BackSeenOf(t)
FrontSeen == \A t \in Threads : FrontSeenOf(t)

QueueInv ==
  /\ TypeOK /\ Locals /\ TagsCount /\ NodesPlaced /\ BackSeen /\ FrontSeen
-----------------------------------------------------------------------------
(* Following the links                                                     *)

\* A set of naturals that has a member has a least one.
LEMMA LeastMember ==
  ASSUME NEW S \in SUBSET Nat, S # {}
  PROVE  \E m \in S : \A k \in S : m <= k
<1>1. PICK m \in S : \A k \in S : ~(<<k, m>> \in OpToRel(<, Nat))
  BY NatLessThanWellFounded, WFMin
<1>2. \A k \in S : ~(k < m)
  BY <1>1 DEF OpToRel
<1> QED
  BY <1>2

LinkTypes == next \in [Node -> [tag : Nat, handle : Node \cup {Null}]]

\* The equations that define Walk have a solution.
LEMMA WalkEquations ==
  ASSUME LinkTypes, NEW h \in Node
  PROVE  /\ Walk(h)[0] = h
         /\ \A i \in 1 .. NodeCount :
              Walk(h)[i] = IF Walk(h)[i - 1] = Null THEN Null ELSE next[Walk(h)[i - 1]].handle
         /\ \A i \in 0 .. NodeCount : Walk(h)[i] \in Node \cup {Null}
<1> USE QueueAssumption
<1> DEFINE Step(f, i) == IF i = 0 THEN h
                         ELSE IF f[i - 1] = Null THEN Null ELSE next[f[i - 1]].handle
           Solves(f, k) == /\ f \in [0 .. k -> Node \cup {Null}]
                           /\ \A i \in 0 .. k : f[i] = Step(f, i)
           Failing == {k \in 0 .. NodeCount : ~ \E f : Solves(f, k)}
<1>1. ASSUME NEW k \in Nat, NEW f, Solves(f, k) PROVE \E g : Solves(g, k + 1)
  <2> DEFINE g == [i \in 0 .. k + 1 |-> IF i \in 0 .. k THEN f[i] ELSE Step(f, k + 1)]
  <2>1. f[k] \in Node \cup {Null}
    BY <1>1
  <2>2. Step(f, k + 1) \in Node \cup {Null}
    <3>1. (k + 1) - 1 = k /\ k + 1 # 0
      OBVIOUS
    <3>2. Step(f, k + 1) = IF f[k] = Null THEN Null ELSE next[f[k]].handle
      BY <3>1
    <3> QED
      BY <2>1, <3>2 DEF LinkTypes
  <2> HIDE DEF Step
  <2>3. g \in [0 .. k + 1 -> Node \cup {Null}]
    BY <1>1, <2>2
  <2>4. ASSUME NEW i \in 0 .. k + 1 PROVE g[i] = Step(g, i)
    <3>1. i # 0 => i - 1 \in 0 .. k /\ g[i - 1] = f[i - 1]
      OBVIOUS
    <3>2. Step(g, i) = Step(f, i)
      BY <3>1 DEF Step
    <3>3. g[i] = Step(f, i)
      <4>1. CASE i \in 0 .. k
        BY <1>1, <4>1
      <4>2. CASE i = k + 1
        BY <4>2
      <4> QED
        BY <4>1, <4>2
    <3> QED
      BY <3>2, <3>3
  <2> HIDE DEF g
  <2> QED
    BY <2>3, <2>4
<1>2. \E f : Solves(f, 0)
  <2> DEFINE f == [i \in 0 .. 0 |-> h]
  <2>1. Solves(f, 0)
    OBVIOUS
  <2> QED
    BY <2>1
<1> HIDE DEF Solves
<1>3. Failing = {}
  <2> SUFFICES ASSUME Failing # {} PROVE FALSE
    OBVIOUS
  <2> Failing \in SUBSET Nat
    OBVIOUS
  <2> HIDE DEF Failing
  <2>1. PICK k \in Failing : \A j \in Failing : k <= j
    BY LeastMember
  <2> USE DEF Failing
  <2>2. k # 0
    BY <1>2, <2>1
  <2>3. k - 1 \in Nat /\ k - 1 \in 0 .. NodeCount /\ k - 1 \notin Failing
    BY <2>1, <2>2
  <2>4. PICK f : Solves(f, k - 1)
    BY <2>3
  <2>5. \E g : Solves(g, (k - 1) + 1)
    BY <1>1, <2>3, <2>4
  <2>6. (k - 1) + 1 = k
    BY <2>1
  <2> QED
    BY <2>1, <2>5, <2>6
<1>4. NodeCount \in 0 .. NodeCount /\ NodeCount \notin Failing
  BY <1>3
<1>5. PICK f : Solves(f, NodeCount)
  BY <1>4
<1> DEFINE Whole(w) == w = [i \in 0 .. NodeCount |->
             IF i = 0 THEN h ELSE IF w[i - 1] = Null THEN Null ELSE next[w[i - 1]].handle]
<1>6. Whole(f)
  BY <1>5 DEF Solves
<1>7. Walk(h) = CHOOSE w : Whole(w)
  BY Zenon DEF Walk
<1> HIDE DEF Whole
<1>8. Whole(Walk(h))
  BY <1>6, <1>7
<1> USE DEF Whole
<1>9. \A i \in 0 .. NodeCount : Walk(h)[i] = Step(Walk(h), i)
  BY <1>8
<1>10. Walk(h)[0] = h
  BY <1>9
<1>11. \A i \in 1 .. NodeCount : Walk(h)[i] = Step(Walk(h), i)
  BY <1>9
<1> DEFINE Odd == {i \in 0 .. NodeCount : Walk(h)[i] \notin Node \cup {Null}}
<1>12. Odd = {}
  <2> HIDE DEF Whole
  <2> SUFFICES ASSUME Odd # {} PROVE FALSE
    OBVIOUS
  <2> Odd \in SUBSET Nat
    OBVIOUS
  <2> HIDE DEF Odd
  <2>1. PICK k \in Odd : \A j \in Odd : k <= j
    BY LeastMember
  <2> USE DEF Odd
  <2>2. k # 0 /\ k \in 1 .. NodeCount
    BY <1>10, <2>1
  <2>3. k - 1 \in 0 .. NodeCount /\ k - 1 \notin Odd
    BY <2>1, <2>2
  <2>4. Walk(h)[k - 1] \in Node \cup {Null}
    BY <2>3
  <2>5. Walk(h)[k] = IF Walk(h)[k - 1] = Null THEN Null ELSE next[Walk(h)[k - 1]].handle
    BY <1>11, <2>2
  <2> QED
    BY <2>1, <2>4, <2>5 DEF LinkTypes
<1> QED
  BY <1>10, <1>11, <1>12
\* A walk over nodes that the links number from 0 on visits them in that order.
LEMMA WalkVisits ==
  ASSUME LinkTypes, NEW h \in Node, NEW P \in SUBSET Node, NEW pos \in [Node -> Nat],
         h \in P, pos[h] = 0,
         \A m, n \in P : pos[m] = pos[n] => m = n,
         \A n \in P : next[n].handle # Null =>
           next[n].handle \in P /\ pos[next[n].handle] = pos[n] + 1,
         \A m, n \in P : next[n].handle = Null => pos[m] <= pos[n]
  PROVE  /\ \A i \in 0 .. NodeCount : Walk(h)[i] # Null => Walk(h)[i] \in P /\ pos[Walk(h)[i]] = i
         /\ \A m \in P : pos[m] \in 0 .. NodeCount - 1 /\ Walk(h)[pos[m]] = m
         /\ Walk(h)[NodeCount] = Null
         /\ Reach(h) = P
<1> USE QueueAssumption
<1> DEFINE w == Walk(h)
           Right(i) == /\ w[i] # Null => w[i] \in P /\ pos[w[i]] = i
                       /\ w[i] = Null => \A m \in P : pos[m] < i
           Wrong == {i \in 0 .. NodeCount : ~Right(i)}
<1>1. /\ w[0] = h
      /\ \A i \in 1 .. NodeCount : w[i] = IF w[i - 1] = Null THEN Null ELSE next[w[i - 1]].handle
      /\ \A i \in 0 .. NodeCount : w[i] \in Node \cup {Null}
  BY WalkEquations
<1>2. Null \notin Node
  BY DEF Null, Node
<1> HIDE DEF w
<1>3. Wrong = {}
  <2> SUFFICES ASSUME Wrong # {} PROVE FALSE
    OBVIOUS
  <2> Wrong \in SUBSET Nat
    OBVIOUS
  <2> HIDE DEF Wrong
  <2>1. PICK k \in Wrong : \A j \in Wrong : k <= j
    BY LeastMember
  <2> USE DEF Wrong
  <2>2. k # 0
    BY <1>1, <1>2, <2>1
  <2>3. k \in 1 .. NodeCount /\ k - 1 \in 0 .. NodeCount /\ k - 1 \notin Wrong
    BY <2>1, <2>2
  <2>4. Right(k - 1)
    BY <2>3
  <2>5. w[k] = IF w[k - 1] = Null THEN Null ELSE next[w[k - 1]].handle
    BY <1>1, <2>3
  <2>6. CASE w[k - 1] = Null
    <3>1. \A m \in P : pos[m] < k
      BY <2>3, <2>4, <2>6
    <3> QED
      BY <2>1, <2>5, <2>6, <3>1
  <2>7. CASE w[k - 1] # Null
    <3>1. w[k - 1] \in P /\ pos[w[k - 1]] = k - 1 /\ w[k] = next[w[k - 1]].handle
      BY <2>4, <2>5, <2>7
    <3>2. w[k] # Null => w[k] \in P /\ pos[w[k]] = k
      BY <2>3, <3>1
    <3>3. ASSUME w[k] = Null, NEW m \in P PROVE pos[m] < k
      <4>1. pos[m] <= pos[w[k - 1]]
        BY <3>1, <3>3
      <4> QED
        BY <2>3, <3>1, <4>1
    <3> QED
      BY <2>1, <3>2, <3>3
  <2> QED
    BY <2>6, <2>7
<1>4. \A i \in 0 .. NodeCount : Right(i)
  BY <1>3
<1> HIDE DEF Wrong
<1>5. w[NodeCount] = Null
  <2> SUFFICES ASSUME w[NodeCount] # Null PROVE FALSE
    OBVIOUS
  <2> DEFINE f == [i \in 0 .. NodeCount |-> w[i]]
  <2>1. w[NodeCount] \in P /\ pos[w[NodeCount]] = NodeCount
    BY <1>4
  <2>2. \A i \in 0 .. NodeCount : w[i] # Null
    <3> SUFFICES ASSUME NEW i \in 0 .. NodeCount, w[i] = Null PROVE FALSE
      OBVIOUS
    <3>1. pos[w[NodeCount]] < i
      BY <1>4, <2>1
    <3> QED
      BY <2>1, <3>1
  <2>3. f \in [0 .. NodeCount -> Node]
    BY <1>1, <2>2
  <2>4. IsFiniteSet(0 .. NodeCount) /\ Cardinality(0 .. NodeCount) = NodeCount + 1
    BY FS_Interval
  <2>5. IsFiniteSet(Node) /\ Cardinality(Node) = NodeCount
    BY FS_Interval DEF Node
  <2> HIDE DEF f
  <2>9. Cardinality(Node) < Cardinality(0 .. NodeCount)
    BY <2>4, <2>5
  <2>6. PICK i, j \in 0 .. NodeCount : i # j /\ f[i] = f[j]
    BY <2>3, <2>4, <2>5, <2>9, FS_PigeonHole
  <2>7. w[i] = w[j]
    BY <2>6 DEF f
  <2>8. pos[w[i]] = i /\ pos[w[j]] = j
    BY <1>4, <2>2
  <2> QED
    BY <2>6, <2>7, <2>8
<1>6. ASSUME NEW m \in P PROVE pos[m] \in 0 .. NodeCount - 1 /\ w[pos[m]] = m
  <2>1. pos[m] \in Nat /\ pos[m] < NodeCount
    BY <1>4, <1>5
  <2>2. w[pos[m]] # Null
    <3>1. pos[m] \in 0 .. NodeCount /\ ~(pos[m] < pos[m])
      BY <2>1
    <3> QED
      BY <1>4, <3>1
  <2>3. w[pos[m]] \in P /\ pos[w[pos[m]]] = pos[m]
    BY <1>4, <2>1, <2>2
  <2> QED
    BY <2>1, <2>3
<1>7. Reach(h) = P
  <2>1. Reach(h) = {w[i] : i \in 0 .. NodeCount} \ {Null}
    BY DEF Reach, w
  <2>2. \A m \in P : m \in {w[i] : i \in 0 .. NodeCount}
    BY <1>6
  <2>3. \A i \in 0 .. NodeCount : w[i] # Null => w[i] \in P
    BY <1>4
  <2> QED
    BY <1>2, <2>1, <2>2, <2>3
<1> QED
  BY <1>4, <1>5, <1>6, <1>7 DEF w
-----------------------------------------------------------------------------
(* Types, and what each call has read                                      *)

Handle == Node \cup {Null}
TaggedHandle == [tag : Nat, handle : Handle]
Steps == {"idle", "push_swing"} \cup Copying \cup Linking \cup Popping

\* TypeOK, one conjunct for each variable.
LEMMA TypeParts ==
  TypeOK <=>
    /\ front \in TaggedHandle /\ back \in TaggedHandle
    /\ next \in [Node -> TaggedHandle]
    /\ elements \in [Node -> Value \cup {Torn}]
    /\ free \in Seq(Node)
    /\ pc \in [Threads -> Steps]
    /\ op \in [Threads -> {"push", "pop", "drop", "peek"}]
    /\ node \in [Threads -> Handle]
    /\ seenFront \in [Threads -> TaggedHandle]
    /\ seenBack \in [Threads -> TaggedHandle]
    /\ seenNext \in [Threads -> TaggedHandle]
    /\ copy \in [Threads -> Value \cup {Torn, None}]
    /\ result \in [Threads -> Value \cup {None}]
    /\ calls \in [Threads -> 0 .. MaxCalls]
    /\ stored \subseteq Value /\ taken \subseteq Value
    /\ due \in [Threads -> SUBSET Value]
BY Zenon DEF TypeOK, TaggedHandle, Handle, Steps

\* A handle in the list or in a local is a tag and a node or null.
LEMMA TaggedParts ==
  ASSUME NEW x \in TaggedHandle
  PROVE  x.tag \in Nat /\ x.handle \in Handle /\ x = Tagged(x.tag, x.handle)
BY DEF TaggedHandle, Tagged

\* What Tagged makes.
LEMMA TaggedType ==
  ASSUME NEW tag \in Nat, NEW handle \in Handle
  PROVE  /\ Tagged(tag, handle) \in TaggedHandle
         /\ Tagged(tag, handle).tag = tag
         /\ Tagged(tag, handle).handle = handle
BY DEF TaggedHandle, Tagged

\* The handle a local has before it is read.
LEMMA UnsetType == Unset \in TaggedHandle /\ Unset.handle = Null /\ Null \in Handle /\ Null \notin Node
BY DEF Unset, TaggedHandle, Tagged, Handle, Null, Node

\* No element is None or Torn, so neither is taken for one.
LEMMA NothingIsNoValue == None \notin Value /\ Torn \notin Value /\ None # Torn
<1>1. \A v \in Value : v[1] \in Threads /\ v[2] \in 1 .. MaxCalls /\ v = <<v[1], v[2]>>
  BY DEF Value
<1> QED
  BY <1>1 DEF None, Torn

\* What a running call pushes is an element.
LEMMA ElementType ==
  ASSUME TypeOK, Locals, NEW t \in Threads, pc[t] # "idle"
  PROVE  Element(t) \in Value
<1>1. calls[t] \in 0 .. MaxCalls /\ calls[t] # 0
  BY TypeParts DEF Locals, LocalsOf
<1>2. calls[t] \in 1 .. MaxCalls
  BY <1>1, QueueAssumption
<1> QED
  BY <1>2 DEF Element, Value

\* A pop that finds m_front as it saw it finds an element in the node behind it.
LEMMA OldestElement ==
  ASSUME TypeOK, Locals, FrontSeen, NodesPlaced, NEW t \in Threads,
         pc[t] \in Holding, front = seenFront[t]
  PROVE  /\ seenNext[t].handle \in Node /\ seenNext[t].handle # front.handle
         /\ elements[seenNext[t].handle] \in Value
         /\ next[front.handle].handle = seenNext[t].handle
<1> DEFINE first == front.handle
           second == seenNext[t].handle
<1>1. PICK kind \in [Node -> Kinds], owner \in [Node -> Owners], pos \in [Node -> Nat] :
        Layout(kind, owner, pos)
  BY DEF NodesPlaced
<1>2. first \in Node /\ kind[first] = "list" /\ pos[first] = 0
  BY <1>1 DEF Layout, ListEnds
<1>3. second \in Handle
  BY TypeParts, TaggedParts
<1>4. next[first].handle = second /\ second # Null
  BY DEF Locals, LocalsOf, FrontSeen, FrontSeenOf
<1>5. second \in Node
  BY <1>3, <1>4 DEF Handle
<1>6. Linked(kind, owner, first)
  BY <1>2 DEF Linked
<1>7. Together(kind, owner, second, first) /\ pos[second] = pos[first] + 1
  BY <1>1, <1>2, <1>4, <1>6 DEF Layout, Chained, Apart, Onward, Ended
<1>8. kind[second] = "list" /\ pos[second] = 1
  BY <1>2, <1>7 DEF Together
<1>9. elements[second] \in Value
  BY <1>1, <1>5, <1>8 DEF Layout, Filled, Linked
<1> QED
  BY <1>2, <1>4, <1>5, <1>8, <1>9

\* A push that has a node to itself knows which.
LEMMA OwnNode ==
  ASSUME NodesPlaced, NEW t \in Threads, pc[t] \in Copying \cup Linking
  PROVE  node[t] \in Node
BY DEF NodesPlaced, Layout, PrivateNodes

\* A call's pop frees the dummy it took.
LEMMA OwnDummy ==
  ASSUME NodesPlaced, NEW t \in Threads, pc[t] = "pop_free"
  PROVE  seenFront[t].handle \in Node
BY DEF NodesPlaced, Layout, PoppedNodes

\* A call that ends leaves its locals typed.
LEMMA ReturnTypes ==
  ASSUME TypeOK, NEW t \in Threads, Return(t)
  PROVE  /\ pc' \in [Threads -> Steps] /\ node' \in [Threads -> Handle]
         /\ seenFront' \in [Threads -> TaggedHandle]
         /\ seenBack' \in [Threads -> TaggedHandle]
         /\ seenNext' \in [Threads -> TaggedHandle]
         /\ copy' \in [Threads -> Value \cup {Torn, None}]
         /\ due' \in [Threads -> SUBSET Value]
<1>1. "idle" \in Steps
  BY DEF Steps
<1> QED
  BY <1>1, TypeParts, UnsetType DEF Return, Goto

\* A call that begins leaves its counters typed.
LEMMA CallTypes ==
  ASSUME TypeOK, NEW t \in Threads, NEW o \in {"push", "pop", "drop", "peek"}, Call(t, o)
  PROVE  /\ calls' \in [Threads -> 0 .. MaxCalls]
         /\ op' \in [Threads -> {"push", "pop", "drop", "peek"}]
         /\ result' \in [Threads -> Value \cup {None}]
<1>1. calls[t] + 1 \in 0 .. MaxCalls
  <2>1. calls[t] \in 0 .. MaxCalls /\ calls[t] < MaxCalls
    BY TypeParts DEF Call
  <2> QED
    BY <2>1, QueueAssumption
<1> QED
  BY <1>1, TypeParts DEF Call
\* What a pop or peek that finds m_front as it saw it has copied; pop without element
\* copies nothing.
LEMMA CopiedElement ==
  ASSUME TypeOK, Locals, FrontSeen, NEW t \in Threads,
         pc[t] \in {"pop_take", "peek_verify"}, front = seenFront[t]
  PROVE  \/ op[t] = "drop" /\ copy[t] = None
         \/ op[t] # "drop" /\ copy[t] = elements[seenNext[t].handle]
<1>1. pc[t] \in Holding /\ pc[t] \in Popping /\ seenFront[t].handle # seenBack[t].handle
  BY DEF Locals, LocalsOf, Holding, Popping
<1>2. op[t] \in {"push", "pop", "drop", "peek"}
  BY TypeParts
<1>3. CASE op[t] = "drop"
  BY <1>3 DEF Locals, LocalsOf
<1>4. CASE op[t] # "drop"
  <2>1. pc[t] = "peek_verify" \/ (pc[t] = "pop_take" /\ op[t] = "pop")
    BY <1>1, <1>2, <1>4 DEF Locals, LocalsOf
  <2>2. copy[t] = elements[seenNext[t].handle]
    BY <1>1, <2>1 DEF FrontSeen, FrontSeenOf
  <2> QED
    BY <1>4, <2>2
<1> QED
  BY <1>3, <1>4

\* TypeOK after a step, from the types of the variables a step may change.
LEMMA NextTypes ==
  ASSUME /\ front' \in TaggedHandle /\ back' \in TaggedHandle
         /\ next' \in [Node -> TaggedHandle]
         /\ elements' \in [Node -> Value \cup {Torn}]
         /\ free' \in Seq(Node)
         /\ pc' \in [Threads -> Steps]
         /\ op' \in [Threads -> {"push", "pop", "drop", "peek"}]
         /\ node' \in [Threads -> Handle]
         /\ seenFront' \in [Threads -> TaggedHandle]
         /\ seenBack' \in [Threads -> TaggedHandle]
         /\ seenNext' \in [Threads -> TaggedHandle]
         /\ copy' \in [Threads -> Value \cup {Torn, None}]
         /\ result' \in [Threads -> Value \cup {None}]
         /\ calls' \in [Threads -> 0 .. MaxCalls]
         /\ stored' \subseteq Value /\ taken' \subseteq Value
         /\ due' \in [Threads -> SUBSET Value]
  PROVE  TypeOK'
BY Zenon DEF TypeOK, TaggedHandle, Handle, Steps

\* Every action keeps the types.
LEMMA TypeStep == QueueInv /\ [Next]_vars => TypeOK'
<1> SUFFICES ASSUME QueueInv, [Next]_vars PROVE TypeOK'
  OBVIOUS
<1>0. TypeOK /\ Locals /\ NodesPlaced /\ FrontSeen
  BY DEF QueueInv
<1> USE <1>0, TypeParts DEF Goto
<1>1. ASSUME NEW t \in Threads, PushAllocate(t) PROVE TypeOK'
  <2>1. "push_copy" \in Steps
    BY DEF Steps, Copying
  <2>2. CASE free # <<>>
    <3>1. Head(free) \in Node /\ Tail(free) \in Seq(Node)
      BY <2>2
    <3>2. /\ calls' \in [Threads -> 0 .. MaxCalls]
          /\ op' \in [Threads -> {"push", "pop", "drop", "peek"}]
          /\ result' \in [Threads -> Value \cup {None}]
      BY <1>1, CallTypes DEF PushAllocate
    <3>3. Head(free) \in Handle
      BY <3>1 DEF Handle
    <3>4. node' \in [Threads -> Handle] /\ free' \in Seq(Node)
      <4>1. node' = [node EXCEPT ![t] = Head(free)] /\ free' = Tail(free)
        BY <1>1, <2>2 DEF PushAllocate
      <4> QED
        BY <3>1, <3>3, <4>1
    <3>5. pc' \in [Threads -> Steps]
      BY <1>1, <2>1, <2>2 DEF PushAllocate
    <3> QED
      BY <1>1, <3>2, <3>4, <3>5, NextTypes DEF PushAllocate, seen, history
  <2>3. CASE free = <<>>
    <3>1. /\ calls' \in [Threads -> 0 .. MaxCalls]
          /\ op' \in [Threads -> {"push", "pop", "drop", "peek"}]
          /\ result' \in [Threads -> Value \cup {None}]
      BY <1>1, CallTypes DEF PushAllocate
    <3> QED
      BY <1>1, <2>3, <3>1, NextTypes DEF PushAllocate, seen, history
  <2> QED
    BY <2>2, <2>3
<1>2. ASSUME NEW t \in Threads, PushCopy(t) PROVE TypeOK'
  <2>1. "push_reset" \in Steps
    BY DEF Steps, Copying, Linking, Popping
  <2> QED
    BY <1>2, <2>1, NextTypes DEF PushCopy, shared, seen, history
<1>3. ASSUME NEW t \in Threads, PushReset(t) PROVE TypeOK'
  <2>1. "push_back" \in Steps
    BY DEF Steps, Linking
  <2>2. Element(t) \in Value
    BY <1>3, ElementType DEF PushReset
  <2> QED
    BY <1>3, <2>1, <2>2, UnsetType, NextTypes DEF PushReset, seen, history
<1>4. ASSUME NEW t \in Threads, PushBack(t) PROVE TypeOK'
  <2>1. "push_next" \in Steps
    BY DEF Steps, Copying, Linking, Popping
  <2> QED
    BY <1>4, <2>1, NextTypes DEF PushBack, shared, seen, history
<1>5. ASSUME NEW t \in Threads, PushNext(t) PROVE TypeOK'
  <2>1. "push_verify" \in Steps
    BY DEF Steps, Linking
  <2>2. seenBack[t].handle # Null
    BY <1>5 DEF PushNext, Locals, LocalsOf, Aiming
  <2>3. seenBack[t].handle \in Node
    BY <2>2, TaggedParts DEF Handle
  <2>4. next[seenBack[t].handle] \in TaggedHandle
    BY <2>3
  <2> QED
    BY <1>5, <2>1, <2>4, NextTypes DEF PushNext, shared, history
<1>6. ASSUME NEW t \in Threads, PushVerify(t) PROVE TypeOK'
  <2>1. {"push_back", "push_link", "push_help"} \subseteq Steps
    BY DEF Steps, Linking
  <2>2. pc' \in [Threads -> Steps]
    BY <1>6, <2>1 DEF PushVerify
  <2> QED
    BY <1>6, <2>2, NextTypes DEF PushVerify, shared, seen, history
<1>7. ASSUME NEW t \in Threads, PushLink(t) PROVE TypeOK'
  <2>1. {"push_swing", "push_back"} \subseteq Steps
    BY DEF Steps, Linking
  <2>2. node[t] \in Handle /\ seenNext[t].tag + 1 \in Nat
    BY TaggedParts
  <2>3. Tagged(seenNext[t].tag + 1, node[t]) \in TaggedHandle
    BY <2>2, TaggedType
  <2>4. next' \in [Node -> TaggedHandle]
    BY <1>7, <2>3 DEF PushLink
  <2>5. pc' \in [Threads -> Steps]
    BY <1>7, <2>1 DEF PushLink
  <2> QED
    BY <1>7, <2>4, <2>5, NextTypes DEF PushLink, seen, history
<1>8. ASSUME NEW t \in Threads, PushHelp(t) PROVE TypeOK'
  <2>1. "push_back" \in Steps
    BY DEF Steps, Linking, Popping
  <2>2. seenNext[t].handle \in Handle /\ back.tag + 1 \in Nat
    BY TaggedParts
  <2>3. Tagged(back.tag + 1, seenNext[t].handle) \in TaggedHandle
    BY <2>2, TaggedType
  <2>4. back' \in TaggedHandle
    BY <1>8, <2>3 DEF PushHelp, SwingBack
  <2> QED
    BY <1>8, <2>1, <2>4, NextTypes DEF PushHelp, seen, history
<1>9. ASSUME NEW t \in Threads, PushSwing(t) PROVE TypeOK'
  <2>1. node[t] \in Handle /\ back.tag + 1 \in Nat
    BY TaggedParts
  <2>2. Tagged(back.tag + 1, node[t]) \in TaggedHandle
    BY <2>1, TaggedType
  <2>3. back' \in TaggedHandle
    BY <1>9, <2>2 DEF PushSwing, SwingBack
  <2>4. Element(t) \in Value
    BY <1>9, ElementType DEF PushSwing
  <2>5. /\ pc' \in [Threads -> Steps] /\ node' \in [Threads -> Handle]
        /\ seenFront' \in [Threads -> TaggedHandle]
        /\ seenBack' \in [Threads -> TaggedHandle]
        /\ seenNext' \in [Threads -> TaggedHandle]
        /\ copy' \in [Threads -> Value \cup {Torn, None}]
        /\ due' \in [Threads -> SUBSET Value]
    BY <1>9, ReturnTypes DEF PushSwing
  <2> QED
    BY <1>9, <2>3, <2>4, <2>5, NextTypes DEF PushSwing
<1>10. ASSUME NEW t \in Threads, ReadCall(t) PROVE TypeOK'
  <2>1. "pop_front" \in Steps
    BY DEF Steps, Popping
  <2>2. PICK o \in Reads[t] : Call(t, o)
    BY <1>10 DEF ReadCall
  <2>3. o \in {"push", "pop", "drop", "peek"}
    BY <1>10, <2>2, QueueAssumption DEF ReadCall
  <2>4. /\ calls' \in [Threads -> 0 .. MaxCalls]
        /\ op' \in [Threads -> {"push", "pop", "drop", "peek"}]
        /\ result' \in [Threads -> Value \cup {None}]
    BY <2>2, <2>3, CallTypes
  <2>5. stored \ taken \in SUBSET Value
    OBVIOUS
  <2>6. due' \in [Threads -> SUBSET Value]
    BY <1>10, <2>5 DEF ReadCall
  <2> QED
    BY <1>10, <2>1, <2>4, <2>6, NextTypes DEF ReadCall, shared, seen
<1>11. ASSUME NEW t \in Threads, PopFront(t) PROVE TypeOK'
  <2>1. "pop_back" \in Steps
    BY DEF Steps, Copying, Linking, Popping
  <2> QED
    BY <1>11, <2>1, NextTypes DEF PopFront, shared, seen, history
<1>12. ASSUME NEW t \in Threads, PopBack(t) PROVE TypeOK'
  <2>1. "pop_next" \in Steps
    BY DEF Steps, Copying, Linking, Popping
  <2> QED
    BY <1>12, <2>1, NextTypes DEF PopBack, shared, seen, history
<1>13. ASSUME NEW t \in Threads, PopNext(t) PROVE TypeOK'
  <2>1. "pop_verify" \in Steps
    BY DEF Steps, Popping
  <2>2. seenFront[t].handle # Null
    BY <1>13 DEF PopNext, Locals, LocalsOf, Popping
  <2>3. seenFront[t].handle \in Node
    BY <2>2, TaggedParts DEF Handle
  <2>4. next[seenFront[t].handle] \in TaggedHandle
    BY <2>3
  <2> QED
    BY <1>13, <2>1, <2>4, NextTypes DEF PopNext, shared, history
<1>14. ASSUME NEW t \in Threads, PopVerify(t) PROVE TypeOK'
  <2>1. {"pop_front", "pop_empty", "pop_help", "pop_take", "pop_copy"} \subseteq Steps
    BY DEF Steps, Popping
  <2>2. pc' \in [Threads -> Steps]
    BY <1>14, <2>1 DEF PopVerify
  <2> QED
    BY <1>14, <2>2, NextTypes DEF PopVerify, shared, seen, history
<1>15. ASSUME NEW t \in Threads, PopEmpty(t) PROVE TypeOK'
  <2>1. /\ pc' \in [Threads -> Steps] /\ node' \in [Threads -> Handle]
        /\ seenFront' \in [Threads -> TaggedHandle]
        /\ seenBack' \in [Threads -> TaggedHandle]
        /\ seenNext' \in [Threads -> TaggedHandle]
        /\ copy' \in [Threads -> Value \cup {Torn, None}]
        /\ due' \in [Threads -> SUBSET Value]
    BY <1>15, ReturnTypes DEF PopEmpty
  <2> QED
    BY <1>15, <2>1, NextTypes DEF PopEmpty, shared
<1>16. ASSUME NEW t \in Threads, PopHelp(t) PROVE TypeOK'
  <2>1. "pop_front" \in Steps
    BY DEF Steps, Linking, Popping
  <2>2. seenNext[t].handle \in Handle /\ back.tag + 1 \in Nat
    BY TaggedParts
  <2>3. Tagged(back.tag + 1, seenNext[t].handle) \in TaggedHandle
    BY <2>2, TaggedType
  <2>4. back' \in TaggedHandle
    BY <1>16, <2>3 DEF PopHelp, SwingBack
  <2> QED
    BY <1>16, <2>1, <2>4, NextTypes DEF PopHelp, seen, history
<1>17. ASSUME NEW t \in Threads, PopCopy(t) PROVE TypeOK'
  <2>1. "pop_copied" \in Steps
    BY DEF Steps, Popping
  <2>2. seenNext[t].handle # Null
    BY <1>17 DEF PopCopy, Locals, LocalsOf, Holding
  <2>3. seenNext[t].handle \in Node
    BY <2>2, TaggedParts DEF Handle
  <2>4. elements[seenNext[t].handle] \in Value \cup {Torn, None}
    BY <2>3
  <2> QED
    BY <1>17, <2>1, <2>4, NextTypes DEF PopCopy, shared, seen, history
<1>18. ASSUME NEW t \in Threads, PopCopied(t) PROVE TypeOK'
  <2>1. {"peek_verify", "pop_take"} \subseteq Steps
    BY DEF Steps, Popping
  <2>2. pc' \in [Threads -> Steps]
    BY <1>18, <2>1 DEF PopCopied
  <2>3. copy' \in [Threads -> Value \cup {Torn, None}]
    BY <1>18 DEF PopCopied
  <2> QED
    BY <1>18, <2>2, <2>3, NextTypes DEF PopCopied, shared, seen, history
<1>19. ASSUME NEW t \in Threads, PopTake(t) PROVE TypeOK'
  <2>1. {"pop_free", "pop_front"} \subseteq Steps
    BY DEF Steps, Popping
  <2>2. pc' \in [Threads -> Steps]
    BY <1>19, <2>1 DEF PopTake
  <2>3. CASE front = seenFront[t]
    <3>1. seenNext[t].handle \in Node /\ elements[seenNext[t].handle] \in Value
      BY <1>19, <2>3, OldestElement DEF PopTake, Holding
    <3>2. seenNext[t].handle \in Handle /\ front.tag + 1 \in Nat
      BY TaggedParts
    <3>3. Tagged(front.tag + 1, seenNext[t].handle) \in TaggedHandle
      BY <3>2, TaggedType
    <3>4. copy[t] \in Value \cup {None}
      BY <1>19, <2>3, <3>1, CopiedElement DEF PopTake
    <3>5. result' \in [Threads -> Value \cup {None}]
      BY <1>19, <2>3, <3>4 DEF PopTake
    <3> QED
      BY <1>19, <2>2, <2>3, <3>1, <3>3, <3>5, NextTypes DEF PopTake, seen
  <2>4. CASE front # seenFront[t]
    BY <1>19, <2>2, <2>4, NextTypes DEF PopTake, seen
  <2> QED
    BY <2>3, <2>4
<1>20. ASSUME NEW t \in Threads, PopFree(t) PROVE TypeOK'
  <2>1. /\ pc' \in [Threads -> Steps] /\ node' \in [Threads -> Handle]
        /\ seenFront' \in [Threads -> TaggedHandle]
        /\ seenBack' \in [Threads -> TaggedHandle]
        /\ seenNext' \in [Threads -> TaggedHandle]
        /\ copy' \in [Threads -> Value \cup {Torn, None}]
        /\ due' \in [Threads -> SUBSET Value]
    BY <1>20, ReturnTypes DEF PopFree
  <2>2. seenFront[t].handle \in Node
    BY <1>20, OwnDummy DEF PopFree
  <2>3. <<seenFront[t].handle>> \o free \in Seq(Node)
    BY <2>2
  <2> QED
    BY <1>20, <2>1, <2>3, NextTypes DEF PopFree
<1>21. ASSUME NEW t \in Threads, PeekVerify(t) PROVE TypeOK'
  <2>1. CASE front = seenFront[t]
    <3>1. /\ pc' \in [Threads -> Steps] /\ node' \in [Threads -> Handle]
        /\ seenFront' \in [Threads -> TaggedHandle]
        /\ seenBack' \in [Threads -> TaggedHandle]
        /\ seenNext' \in [Threads -> TaggedHandle]
        /\ copy' \in [Threads -> Value \cup {Torn, None}]
        /\ due' \in [Threads -> SUBSET Value]
      BY <1>21, <2>1, ReturnTypes DEF PeekVerify
    <3>4. pc[t] = "peek_verify" /\ op[t] # "drop"
      BY <1>21 DEF PeekVerify, Locals, LocalsOf
    <3>5. elements[seenNext[t].handle] \in Value
      BY <2>1, <3>4, OldestElement DEF Holding
    <3>2. copy[t] \in Value
      BY <2>1, <3>4, <3>5, CopiedElement
    <3>3. result' \in [Threads -> Value \cup {None}]
      BY <1>21, <2>1, <3>2 DEF PeekVerify
    <3> QED
      BY <1>21, <3>1, <3>3, NextTypes DEF PeekVerify, shared
  <2>2. CASE front # seenFront[t]
    <3>1. "pop_front" \in Steps
      BY DEF Steps, Popping
    <3>2. pc' \in [Threads -> Steps]
      BY <1>21, <2>2, <3>1 DEF PeekVerify
    <3> QED
      BY <1>21, <2>2, <3>2, NextTypes DEF PeekVerify, shared, seen
  <2> QED
    BY <2>1, <2>2
<1>22. CASE UNCHANGED vars
  BY <1>22, NextTypes DEF vars, shared, seen, history
<1> QED
  BY <1>1, <1>2, <1>3, <1>4, <1>5, <1>6, <1>7, <1>8, <1>9, <1>10, <1>11,
     <1>12, <1>13, <1>14, <1>15, <1>16, <1>17, <1>18, <1>19, <1>20, <1>21, <1>22 DEF Next, Running

\* m_front and m_back are handles of nodes.
LEMMA ListHandles ==
  ASSUME NodesPlaced
  PROVE  front.handle \in Node /\ back.handle \in Node
BY DEF NodesPlaced, Layout, ListEnds

-----------------------------------------------------------------------------
(* What a step leaves alone                                                *)

Act(t) == PushAllocate(t) \/ ReadCall(t) \/ Running(t)

\* A call does not touch the locals of another.
LEMMA OthersStand ==
  ASSUME TypeOK, NEW t \in Threads, Act(t), NEW u \in Threads, u # t
  PROVE  /\ pc'[u] = pc[u] /\ op'[u] = op[u] /\ node'[u] = node[u]
         /\ seenFront'[u] = seenFront[u] /\ seenBack'[u] = seenBack[u]
         /\ seenNext'[u] = seenNext[u] /\ copy'[u] = copy[u]
         /\ result'[u] = result[u] /\ calls'[u] = calls[u]
<1> DEFINE Stand == /\ pc'[u] = pc[u] /\ op'[u] = op[u] /\ node'[u] = node[u]
                    /\ seenFront'[u] = seenFront[u] /\ seenBack'[u] = seenBack[u]
                    /\ seenNext'[u] = seenNext[u] /\ copy'[u] = copy[u]
                    /\ result'[u] = result[u] /\ calls'[u] = calls[u]
<1> USE TypeParts DEF Goto, seen, history, shared
<1>1. CASE PushAllocate(t)
  BY <1>1 DEF PushAllocate, Call
<1>2. CASE PushCopy(t)
  BY <1>2 DEF PushCopy
<1>3. CASE PushReset(t)
  BY <1>3 DEF PushReset
<1>4. CASE PushBack(t)
  BY <1>4 DEF PushBack
<1>5. CASE PushNext(t)
  BY <1>5 DEF PushNext
<1>6. CASE PushVerify(t)
  BY <1>6 DEF PushVerify
<1>7. CASE PushLink(t)
  BY <1>7 DEF PushLink
<1>8. CASE PushHelp(t)
  BY <1>8 DEF PushHelp
<1>9. CASE PushSwing(t)
  BY <1>9 DEF PushSwing, Return
<1>10. CASE ReadCall(t)
  BY <1>10 DEF ReadCall, Call
<1>11. CASE PopFront(t)
  BY <1>11 DEF PopFront
<1>12. CASE PopBack(t)
  BY <1>12 DEF PopBack
<1>13. CASE PopNext(t)
  BY <1>13 DEF PopNext
<1>14. CASE PopVerify(t)
  BY <1>14 DEF PopVerify
<1>15. CASE PopEmpty(t)
  BY <1>15 DEF PopEmpty, Return
<1>16. CASE PopHelp(t)
  BY <1>16 DEF PopHelp
<1>17. CASE PopCopy(t)
  BY <1>17 DEF PopCopy
<1>18. CASE PopCopied(t)
  BY <1>18 DEF PopCopied
<1>19. CASE PopTake(t)
  BY <1>19 DEF PopTake
<1>20. CASE PopFree(t)
  BY <1>20 DEF PopFree, Return
<1>21. CASE PeekVerify(t)
  BY <1>21 DEF PeekVerify, Return
<1> QED
  BY <1>1, <1>2, <1>3, <1>4, <1>5, <1>6, <1>7, <1>8, <1>9, <1>10, <1>11,
     <1>12, <1>13, <1>14, <1>15, <1>16, <1>17, <1>18, <1>19, <1>20, <1>21 DEF Act, Running

\* A step is a step of one thread or none.
LEMMA NextCases ==
  ASSUME [Next]_vars
  PROVE  (\E t \in Threads : Act(t)) \/ UNCHANGED vars
BY DEF Next, Act

-----------------------------------------------------------------------------
(* What a call has read                                                    *)

\* A call whose locals stand still knows what it knew.
LEMMA SameLocals ==
  ASSUME NEW u \in Threads, LocalsOf(u),
         pc'[u] = pc[u], op'[u] = op[u], node'[u] = node[u],
         seenFront'[u] = seenFront[u], seenBack'[u] = seenBack[u],
         seenNext'[u] = seenNext[u], copy'[u] = copy[u],
         result'[u] = result[u], calls'[u] = calls[u]
  PROVE  LocalsOf(u)'
BY DEF LocalsOf

\* A call that is over has only its result.
LEMMA ReturnLocals ==
  ASSUME TypeOK, NEW t \in Threads, Return(t)
  PROVE  LocalsOf(t)'
BY TypeParts DEF Return, Goto, LocalsOf, Aiming, Popping, Holding

\* Each step of a call leaves it with what its next step relies on.
LEMMA LocalsStep ==
  ASSUME QueueInv, NEW t \in Threads, Act(t)
  PROVE  LocalsOf(t)'
<1>0. TypeOK /\ LocalsOf(t) /\ NodesPlaced /\ FrontSeen /\ BackSeen /\ FrontSeenOf(t)
  BY DEF QueueInv, Locals, FrontSeen
<1> USE <1>0, TypeParts DEF Goto, seen, history, shared
<1>1. CASE PushAllocate(t)
  <2>1. calls[t] \in 0 .. MaxCalls
    OBVIOUS
  <2>2. calls'[t] # 0 /\ op'[t] = "push" /\ pc'[t] \in {"push_copy", "idle"}
    BY <1>1, <2>1, QueueAssumption DEF PushAllocate, Call
  <2>3. pc[t] = "idle" /\ copy'[t] = copy[t]
    BY <1>1 DEF PushAllocate, Call
  <2> QED
    BY <2>2, <2>3 DEF LocalsOf, Aiming, Popping, Holding
<1>2. CASE PushCopy(t)
  BY <1>2 DEF PushCopy, LocalsOf, Aiming, Popping, Holding
<1>3. CASE PushReset(t)
  BY <1>3 DEF PushReset, LocalsOf, Aiming, Popping, Holding
<1>4. CASE PushBack(t)
  <2>1. node[t] # Null
    BY <1>4, OwnNode, UnsetType DEF PushBack, Linking
  <2>2. back.handle # Null
    BY ListHandles, UnsetType
  <2> QED
    BY <1>4, <2>1, <2>2 DEF PushBack, LocalsOf, Aiming, Popping, Holding
<1>5. CASE PushNext(t)
  BY <1>5 DEF PushNext, LocalsOf, Aiming, Popping, Holding
<1>6. CASE PushVerify(t)
  BY <1>6 DEF PushVerify, LocalsOf, Aiming, Popping, Holding
<1>7. CASE PushLink(t)
  BY <1>7 DEF PushLink, LocalsOf, Aiming, Popping, Holding
<1>8. CASE PushHelp(t)
  BY <1>8 DEF PushHelp, LocalsOf, Aiming, Popping, Holding
<1>9. CASE PushSwing(t)
  BY <1>9, ReturnLocals DEF PushSwing
<1>10. CASE ReadCall(t)
  <2>1. calls[t] \in 0 .. MaxCalls
    OBVIOUS
  <2>2. PICK o \in Reads[t] : Call(t, o)
    BY <1>10 DEF ReadCall
  <2>3. o \in {"pop", "drop", "peek"}
    BY <1>10, <2>2, QueueAssumption DEF ReadCall
  <2>4. calls'[t] # 0 /\ op'[t] = o /\ result'[t] = None
    BY <2>1, <2>2, QueueAssumption DEF Call
  <2>5. pc'[t] = "pop_front" /\ copy'[t] = copy[t]
    BY <1>10 DEF ReadCall
  <2>6. copy[t] = None
    BY <1>10, <2>2 DEF LocalsOf, Call
  <2> QED
    BY <2>3, <2>4, <2>5, <2>6 DEF LocalsOf, Aiming, Popping, Holding
<1>11. CASE PopFront(t)
  <2>2. front.handle # Null
    BY ListHandles, UnsetType
  <2> QED
    BY <1>11, <2>2 DEF PopFront, LocalsOf, Aiming, Popping, Holding
<1>12. CASE PopBack(t)
  <2>2. back.handle # Null
    BY ListHandles, UnsetType
  <2> QED
    BY <1>12, <2>2 DEF PopBack, LocalsOf, Aiming, Popping, Holding
<1>13. CASE PopNext(t)
  BY <1>13 DEF PopNext, LocalsOf, Aiming, Popping, Holding
<1>14. CASE PopVerify(t)
  <2>1. CASE front = seenFront[t]
    BY <1>14, <2>1 DEF PopVerify, LocalsOf, FrontSeenOf, Aiming, Popping, Holding
  <2>2. CASE front # seenFront[t]
    BY <1>14, <2>2 DEF PopVerify, LocalsOf, Aiming, Popping, Holding
  <2> QED
    BY <2>1, <2>2
<1>15. CASE PopEmpty(t)
  BY <1>15, ReturnLocals DEF PopEmpty
<1>16. CASE PopHelp(t)
  BY <1>16 DEF PopHelp, LocalsOf, Aiming, Popping, Holding
<1>17. CASE PopCopy(t)
  BY <1>17 DEF PopCopy, LocalsOf, Aiming, Popping, Holding
<1>18. CASE PopCopied(t)
  <2>1. op[t] \in {"pop", "peek"} /\ pc'[t] = (IF op[t] = "peek" THEN "peek_verify" ELSE "pop_take")
    BY <1>18 DEF PopCopied, LocalsOf, Popping
  <2> QED
    BY <1>18, <2>1 DEF PopCopied, LocalsOf, Aiming, Popping, Holding
<1>19. CASE PopTake(t)
  <2>1. CASE front = seenFront[t]
    BY <1>19, <2>1 DEF PopTake, LocalsOf, Aiming, Popping, Holding
  <2>2. CASE front # seenFront[t]
    BY <1>19, <2>2 DEF PopTake, LocalsOf, Aiming, Popping, Holding
  <2> QED
    BY <2>1, <2>2
<1>20. CASE PopFree(t)
  BY <1>20, ReturnLocals DEF PopFree
<1>21. CASE PeekVerify(t)
  <2>1. CASE front = seenFront[t]
    <3>1. Return(t)
      BY <1>21, <2>1 DEF PeekVerify
    <3> QED
      BY <3>1, ReturnLocals
  <2>2. CASE front # seenFront[t]
    BY <1>21, <2>2 DEF PeekVerify, LocalsOf, Aiming, Popping, Holding
  <2> QED
    BY <2>1, <2>2
<1> QED
  BY <1>1, <1>2, <1>3, <1>4, <1>5, <1>6, <1>7, <1>8, <1>9, <1>10, <1>11,
     <1>12, <1>13, <1>14, <1>15, <1>16, <1>17, <1>18, <1>19, <1>20, <1>21 DEF Act, Running

-----------------------------------------------------------------------------
(* Tags                                                                    *)

\* The handles of the list change only together with their tags.
LEMMA TagsGrow ==
  ASSUME NEW t \in Threads, Act(t)
  PROVE  /\ front' = front \/ front'.tag = front.tag + 1
         /\ back' = back \/ back'.tag = back.tag + 1
<1>1. front' = front \/ front'.tag = front.tag + 1
  <2>1. CASE PopTake(t)
    BY <2>1 DEF PopTake, Tagged
  <2>2. CASE ~PopTake(t)
    BY <2>2 DEF Act, Running, PushAllocate, PushCopy, PushReset, PushBack, PushNext, PushVerify,
         PushLink, PushHelp, PushSwing, ReadCall, PopFront, PopBack, PopNext, PopVerify,
         PopEmpty, PopHelp, PopCopy, PopCopied, PopFree, PeekVerify, shared
  <2> QED
    BY <2>1, <2>2
<1>2. back' = back \/ back'.tag = back.tag + 1
  <2>1. CASE \E handle : SwingBack(t, handle)
    BY <2>1 DEF SwingBack, Tagged
  <2>2. CASE ~ \E handle : SwingBack(t, handle)
    BY <2>2 DEF Act, Running, PushAllocate, PushCopy, PushReset, PushBack, PushNext, PushVerify,
         PushLink, PushHelp, PushSwing, ReadCall, PopFront, PopBack, PopNext, PopVerify,
         PopEmpty, PopHelp, PopCopy, PopCopied, PopTake, PopFree, PeekVerify, shared
  <2> QED
    BY <2>1, <2>2
<1> QED
  BY <1>1, <1>2

\* A call that has read a handle of the list holds it as it was then.
LEMMA TagsStep ==
  ASSUME QueueInv, NEW t \in Threads, Act(t)
  PROVE  TagsCount'
<1>0. TypeOK /\ TagsCount /\ NodesPlaced
  BY DEF QueueInv
<1> USE TypeParts, <1>0
<1>1. front \in TaggedHandle /\ back \in TaggedHandle /\ front.tag \in Nat /\ back.tag \in Nat
  BY TaggedParts
<1>2. seenFront'[t] = seenFront[t] \/ seenFront'[t] = Unset \/ (seenFront'[t] = front /\ front' = front)
  BY DEF Act, Running, PushAllocate, PushCopy, PushReset, PushBack, PushNext, PushVerify,
         PushLink, PushHelp, PushSwing, ReadCall, PopFront, PopBack, PopNext, PopVerify,
         PopEmpty, PopHelp, PopCopy, PopCopied, PopTake, PopFree, PeekVerify,
         Call, Return, seen, shared
<1>3. seenBack'[t] = seenBack[t] \/ seenBack'[t] = Unset \/ (seenBack'[t] = back /\ back' = back)
  BY DEF Act, Running, PushAllocate, PushCopy, PushReset, PushBack, PushNext, PushVerify,
         PushLink, PushHelp, PushSwing, ReadCall, PopFront, PopBack, PopNext, PopVerify,
         PopEmpty, PopHelp, PopCopy, PopCopied, PopTake, PopFree, PeekVerify,
         Call, Return, seen, shared
<1>4. ASSUME NEW u \in Threads PROVE TagsCountOf(u)'
  <2>1. seenFront'[u] = seenFront[u] \/ seenFront'[u] = Unset \/ (seenFront'[u] = front /\ front' = front)
    BY <1>2, OthersStand
  <2>2. seenBack'[u] = seenBack[u] \/ seenBack'[u] = Unset \/ (seenBack'[u] = back /\ back' = back)
    BY <1>3, OthersStand
  <2>3. TagsCountOf(u) /\ seenFront[u].tag \in Nat /\ seenBack[u].tag \in Nat
    BY TaggedParts DEF TagsCount
  <2>4. seenFront'[u].handle # Null =>
          /\ seenFront'[u].tag <= front'.tag
          /\ seenFront'[u].tag = front'.tag => seenFront'[u] = front'
    BY <1>1, TagsGrow, <2>1, <2>3, UnsetType DEF TagsCountOf
  <2>5. seenBack'[u].handle # Null =>
          /\ seenBack'[u].tag <= back'.tag
          /\ seenBack'[u].tag = back'.tag => seenBack'[u] = back'
    BY <1>1, TagsGrow, <2>2, <2>3, UnsetType DEF TagsCountOf
  <2> QED
    BY <2>4, <2>5 DEF TagsCountOf
<1> QED
  BY <1>4 DEF TagsCount

-----------------------------------------------------------------------------
(* Where the nodes are                                                     *)

\* A step that moves no node: it may read, return, advance m_back by one, or write
\* to a node that one push is copying to.
LEMMA SamePlaces ==
  ASSUME NodesPlaced, LinkTypes, front' = front, next' = next, free' = free,
         back'.handle = back.handle
           \/ (back'.handle = next[back.handle].handle /\ next[back.handle].handle # Null),
         \A n \in Node : elements'[n] = elements[n]
           \/ \E u \in Threads : pc[u] \in Copying /\ n = node[u],
         \A u \in Threads : pc'[u] \in Copying <=> pc[u] \in Copying,
         \A u \in Threads : pc'[u] \in Linking <=> pc[u] \in Linking,
         \A u \in Threads : pc'[u] = "pop_free" <=> pc[u] = "pop_free",
         \A u \in Threads : pc[u] \in Copying \cup Linking => node'[u] = node[u],
         \A u \in Threads : pc[u] = "pop_free" => seenFront'[u] = seenFront[u],
         \A u \in Threads : pc'[u] \in Aiming =>
           \/ pc[u] \in Aiming /\ seenBack'[u] = seenBack[u]
           \/ seenBack'[u] = back
  PROVE  NodesPlaced'
<1>1. PICK kind \in [Node -> Kinds], owner \in [Node -> Owners], pos \in [Node -> Nat],
           age \in [Node -> Nat], clock \in Nat :
        Layout(kind, owner, pos) /\ Staleness(kind, owner, pos, age, clock)
  BY DEF NodesPlaced
<1>2. FreeNodes(kind, free)'
  BY <1>1 DEF Layout, FreeNodes
<1>3. ListEnds(kind, pos)'
  <2>1. ListEnds(kind, pos) /\ Chained(kind, owner, pos)
    BY <1>1 DEF Layout
  <2>2. Linked(kind, owner, back.handle)
    BY <2>1 DEF ListEnds, Linked
  <2>3. next[back.handle].handle # Null =>
          next[back.handle].handle \in Node /\ Together(kind, owner, next[back.handle].handle, back.handle)
    BY <2>1, <2>2 DEF ListEnds, Chained, Apart, Onward, Ended, LinkTypes
  <2>4. next[back.handle].handle # Null => kind[next[back.handle].handle] = "list"
    BY <2>1, <2>3 DEF Together, ListEnds
  <2> QED
    BY <2>1, <2>3, <2>4 DEF ListEnds
<1>4. PrivateNodes(kind, owner, pos)'
  BY <1>1 DEF Layout, PrivateNodes
<1>5. PoppedNodes(kind, owner)'
  BY <1>1 DEF Layout, PoppedNodes
<1>6. ASSUME NEW n \in Node PROVE Linked(kind, owner, n)' <=> Linked(kind, owner, n)
  BY <1>1 DEF Linked, Layout, PrivateNodes
<1>7. Chained(kind, owner, pos)'
  <2>1. Chained(kind, owner, pos)
    BY <1>1 DEF Layout
  <2> QED
    BY <1>6, <2>1 DEF Chained, Apart, Onward, Ended, Together
<1>8. Filled(kind, owner, pos)'
  <2>1. Filled(kind, owner, pos) /\ PrivateNodes(kind, owner, pos)
    BY <1>1 DEF Layout
  <2>2. ASSUME NEW n \in Node, Linked(kind, owner, n) PROVE elements'[n] = elements[n]
    <3> SUFFICES ASSUME NEW u \in Threads, pc[u] \in Copying, n = node[u] PROVE FALSE
      OBVIOUS
    <3>1. kind[n] = "private" /\ owner[n] = u
      BY <2>1 DEF PrivateNodes
    <3> QED
      BY <2>2, <3>1 DEF Linked, Linking, Copying
  <2> QED
    BY <1>6, <2>1, <2>2 DEF Filled
<1>9. Staleness(kind, owner, pos, age, clock)'
  <2>1. ASSUME NEW u \in Threads PROVE Aims(kind, owner, age, u)'
    <3>1. CASE pc'[u] \notin Aiming
      BY <3>1 DEF Aims
    <3>2. CASE pc'[u] \in Aiming /\ pc[u] \in Aiming /\ seenBack'[u] = seenBack[u]
      <4>1. node'[u] = node[u]
        BY <3>2 DEF Aiming, Linking
      <4>2. Aims(kind, owner, age, u)
        BY <1>1 DEF Staleness
      <4>3. seenBack[u].handle \in Node
        BY <3>2, <4>2 DEF Aims
      <4>4. Linked(kind, owner, seenBack[u].handle)' <=> Linked(kind, owner, seenBack[u].handle)
        <5> DEFINE n == seenBack[u].handle
        <5>1. kind[n] = "private" => owner[n] \in Threads
          BY <1>1, <4>3 DEF Layout, PrivateNodes
        <5> QED
          BY <3>2, <5>1 DEF Linked
      <4> QED
        BY <3>2, <4>1, <4>2, <4>3, <4>4 DEF Aims
    <3>3. CASE seenBack'[u] = back
      BY <1>1, <3>3 DEF Layout, ListEnds, Linked, Aims, Kinds
    <3> QED
      BY <3>1, <3>2, <3>3
  <2>2. \A n \in Node : age[n] <= clock
    BY <1>1 DEF Staleness
  <2>3. \A m, n \in Node :
          kind[n] = "private" /\ Together(kind, owner, m, n) /\ pos[m] < pos[n] => age[n] < age[m]
    BY <1>1 DEF Staleness
  <2> QED
    BY <2>1, <2>2, <2>3 DEF Staleness, Together
<1> QED
  BY <1>2, <1>3, <1>4, <1>5, <1>7, <1>8, <1>9 DEF NodesPlaced, Layout

\* A link leads to a node.
LEMMA LinksLead ==
  ASSUME TypeOK
  PROVE  \A x \in Node : next[x].handle # Null => next[x].handle \in Node
BY TypeParts, TaggedParts DEF Handle

\* The free list after a node is put in front of it.
LEMMA FreeFirst ==
  ASSUME NEW kind \in [Node -> Kinds], NEW kind2 \in [Node -> Kinds], NEW n \in Node,
         NEW s \in Seq(Node),
         FreeNodes(kind, s), kind[n] # "free", kind2[n] = "free",
         \A x \in Node : x # n => kind2[x] = kind[x]
  PROVE  FreeNodes(kind2, <<n>> \o s)
<1> DEFINE r == <<n>> \o s
<1>1. /\ Len(s) \in Nat /\ Len(r) = Len(s) + 1 /\ r[1] = n
      /\ \A i \in 1 .. Len(s) : s[i] \in Node /\ r[i + 1] = s[i]
  <2>1. Len(s) \in Nat /\ \A i \in 1 .. Len(s) : s[i] \in Node
    OBVIOUS
  <2>2. Len(r) = Len(s) + 1 /\ r[1] = n
    OBVIOUS
  <2>3. \A i \in 1 .. Len(s) : r[i + 1] = s[i]
    OBVIOUS
  <2> QED
    BY <2>1, <2>2, <2>3
<1> HIDE DEF r
<1>2. ASSUME NEW i \in 1 .. Len(r), i # 1 PROVE i - 1 \in 1 .. Len(s) /\ r[i] = s[i - 1]
  <2>1. i - 1 \in 1 .. Len(s) /\ (i - 1) + 1 = i
    BY <1>1, <1>2
  <2> QED
    BY <1>1, <2>1
<1>3. \A i \in 1 .. Len(s) : s[i] # n /\ kind[s[i]] = "free"
  BY DEF FreeNodes
<1>4. \A i \in 1 .. Len(r) : kind2[r[i]] = "free"
  BY <1>1, <1>2, <1>3
<1>5. ASSUME NEW i \in 1 .. Len(r), NEW j \in 1 .. Len(r), r[i] = r[j] PROVE i = j
  <2>1. CASE i = 1 /\ j = 1
    BY <2>1
  <2>2. CASE i # 1 /\ j # 1
    <3>1. /\ i - 1 \in 1 .. Len(s) /\ j - 1 \in 1 .. Len(s) /\ s[i - 1] = s[j - 1]
      BY <1>2, <1>5, <2>2
    <3>2. i - 1 = j - 1
      BY <3>1 DEF FreeNodes
    <3> QED
      BY <3>2
  <2>3. CASE i # 1 /\ j = 1
    BY <1>1, <1>2, <1>3, <1>5, <2>3
  <2>4. CASE i = 1 /\ j # 1
    BY <1>1, <1>2, <1>3, <1>5, <2>4
  <2> QED
    BY <2>1, <2>2, <2>3, <2>4
<1>6. ASSUME NEW x \in Node, kind2[x] = "free" PROVE \E i \in 1 .. Len(r) : r[i] = x
  <2>1. CASE x = n
    BY <1>1, <2>1
  <2>2. CASE x # n
    <3>1. PICK i \in 1 .. Len(s) : s[i] = x
      BY <1>6, <2>2 DEF FreeNodes
    <3>2. i + 1 \in 1 .. Len(r) /\ r[i + 1] = x
      BY <1>1, <3>1
    <3> QED
      BY <3>2
  <2> QED
    BY <2>1, <2>2
<1>7. FreeNodes(kind2, r)
  BY <1>4, <1>5, <1>6 DEF FreeNodes
<1> QED
  BY <1>7 DEF r

\* The free list after its first node is taken.
LEMMA FreeRest ==
  ASSUME NEW kind \in [Node -> Kinds], NEW kind2 \in [Node -> Kinds],
         NEW s \in Seq(Node), s # <<>>, FreeNodes(kind, s), kind2[Head(s)] # "free",
         \A x \in Node : x # Head(s) => kind2[x] = kind[x]
  PROVE  FreeNodes(kind2, Tail(s))
<1> DEFINE n == Head(s)
           r == Tail(s)
<1>1. /\ Len(s) \in Nat \ {0} /\ Len(r) = Len(s) - 1 /\ n = s[1] /\ n \in Node
      /\ \A i \in 1 .. Len(r) : i + 1 \in 1 .. Len(s) /\ r[i] = s[i + 1]
      /\ \A i \in 1 .. Len(s) : s[i] \in Node
  OBVIOUS
<1> HIDE DEF n, r
<1>2. \A i \in 1 .. Len(s) : kind[s[i]] = "free" /\ (i # 1 => s[i] # n)
  BY <1>1 DEF FreeNodes
<1>3. \A i \in 1 .. Len(r) : kind2[r[i]] = "free"
  BY <1>1, <1>2 DEF n
<1>4. ASSUME NEW i \in 1 .. Len(r), NEW j \in 1 .. Len(r), r[i] = r[j] PROVE i = j
  <2>0. /\ i + 1 \in 1 .. Len(s) /\ j + 1 \in 1 .. Len(s) /\ s[i + 1] = s[j + 1]
    BY <1>1, <1>4
  <2>1. i + 1 = j + 1
    BY <2>0 DEF FreeNodes
  <2> QED
    BY <2>1
<1>5. ASSUME NEW x \in Node, kind2[x] = "free" PROVE \E i \in 1 .. Len(r) : r[i] = x
  <2>1. x # n
    BY <1>5 DEF n
  <2>2. PICK i \in 1 .. Len(s) : s[i] = x
    BY <1>5, <2>1 DEF FreeNodes, n
  <2>3. i - 1 \in 1 .. Len(r) /\ r[i - 1] = x
    BY <1>1, <2>1, <2>2
  <2> QED
    BY <2>3
<1> QED
  BY <1>3, <1>4, <1>5 DEF FreeNodes, r

\* The calls whose locals matter to the places of the nodes stay where they are when
\* another one steps.
LEMMA OtherAims ==
  ASSUME NEW kind \in [Node -> Kinds], NEW owner \in [Node -> Owners], NEW age \in [Node -> Nat],
         NEW kind2 \in [Node -> Kinds], NEW owner2 \in [Node -> Owners], NEW age2 \in [Node -> Nat],
         NEW u \in Threads, Aims(kind, owner, age, u),
         pc'[u] = pc[u], seenBack'[u] = seenBack[u], node'[u] = node[u],
         \A x \in Node : Linked(kind, owner, x) \/ next[x].handle # Null =>
           Linked(kind2, owner2, x)' \/ next'[x].handle # Null,
         \A x \in Node : pc[u] \in Aiming /\ kind2[x] = "private" /\ (kind[x] = "private" => age[node[u]] < age[x])
           => age2[node[u]] < age2[x]
  PROVE  Aims(kind2, owner2, age2, u)'
<1> SUFFICES ASSUME pc[u] \in Aiming PROVE Aims(kind2, owner2, age2, u)'
  BY DEF Aims
<1> DEFINE x == seenBack[u].handle
<1>1. /\ x \in Node
      /\ Linked(kind, owner, x) \/ next[x].handle # Null
      /\ kind[x] = "private" => age[node[u]] < age[x]
  BY DEF Aims
<1>2. Linked(kind2, owner2, x)' \/ next'[x].handle # Null
  BY <1>1
<1>3. kind2[x] = "private" => age2[node[u]] < age2[x]
  BY <1>1
<1> QED
  BY <1>1, <1>2, <1>3 DEF Aims

\* PushReset: the node of a push has no link, so it is a list of its own from then on.
LEMMA PushResetPlaces ==
  ASSUME QueueInv, NEW t \in Threads, PushReset(t)
  PROVE  NodesPlaced'
<1>0. TypeOK /\ Locals /\ NodesPlaced /\ Act(t)
  BY DEF QueueInv, Act, Running
<1>1. PICK kind \in [Node -> Kinds], owner \in [Node -> Owners], pos \in [Node -> Nat],
           age \in [Node -> Nat], clock \in Nat :
        Layout(kind, owner, pos) /\ Staleness(kind, owner, pos, age, clock)
  BY <1>0 DEF NodesPlaced
<1> DEFINE n == node[t]
<1>2. /\ pc[t] = "push_reset" /\ pc[t] \in Copying /\ pc[t] \notin Linking /\ pc[t] # "pop_free"
      /\ pc'[t] = "push_back" /\ pc'[t] \notin Copying /\ pc'[t] \in Linking /\ pc'[t] # "pop_free"
      /\ pc'[t] \notin Aiming
  BY <1>0, TypeParts DEF PushReset, Goto, Copying, Linking, Aiming
<1>3. /\ n \in Node /\ kind[n] = "private" /\ owner[n] = t /\ pos[n] = 0
      /\ \A x \in Node : kind[x] = "private" /\ owner[x] = t => x = n
  BY <1>1, <1>2 DEF Layout, PrivateNodes
<1>4. /\ front' = front /\ back' = back /\ free' = free /\ node' = node
      /\ seenFront' = seenFront /\ seenBack' = seenBack
  BY DEF PushReset, seen
<1>5. \A u \in Threads : u # t => pc'[u] = pc[u]
  BY <1>0, OthersStand
<1>6. \A x \in Node : x # n => next'[x] = next[x] /\ elements'[x] = elements[x]
  BY <1>0, <1>3, TypeParts DEF PushReset
<1>7. next'[n].handle = Null /\ elements'[n] \in Value
  BY <1>0, <1>2, <1>3, TypeParts, UnsetType, ElementType DEF PushReset
<1> HIDE DEF n
<1>8. ASSUME NEW x \in Node PROVE Linked(kind, owner, x)' <=> Linked(kind, owner, x) \/ x = n
  <2>1. CASE x = n
    BY <1>2, <1>3, <2>1 DEF Linked
  <2>2. CASE x # n
    <3>1. kind[x] = "private" => owner[x] \in Threads /\ owner[x] # t
      BY <1>1, <1>3, <2>2 DEF Layout, PrivateNodes
    <3> QED
      BY <1>5, <2>2, <3>1 DEF Linked
  <2> QED
    BY <2>1, <2>2
<1>9. FreeNodes(kind, free)'
  BY <1>1, <1>4 DEF Layout, FreeNodes
<1>10. ListEnds(kind, pos)'
  BY <1>1, <1>4 DEF Layout, ListEnds
<1>11. PrivateNodes(kind, owner, pos)'
  BY <1>1, <1>2, <1>4, <1>5 DEF Layout, PrivateNodes
<1>12. PoppedNodes(kind, owner)'
  BY <1>1, <1>2, <1>3, <1>4, <1>5, <1>6 DEF Layout, PoppedNodes
<1>13. Chained(kind, owner, pos)'
  <2>1. Chained(kind, owner, pos)
    BY <1>1 DEF Layout
  <2>2. \A m \in Node : Together(kind, owner, m, n) => m = n
    BY <1>3 DEF Together
  <2> QED
    BY <1>3, <1>6, <1>7, <1>8, <2>1, <2>2 DEF Chained, Apart, Onward, Ended, Together
<1>14. Filled(kind, owner, pos)'
  BY <1>1, <1>6, <1>7, <1>8 DEF Layout, Filled
<1>15. Staleness(kind, owner, pos, age, clock)'
  <2>1. ASSUME NEW u \in Threads PROVE Aims(kind, owner, age, u)'
    <3>1. CASE u = t
      BY <1>2, <3>1 DEF Aims
    <3>2. CASE u # t
      <4>1. Aims(kind, owner, age, u)
        BY <1>1 DEF Staleness
      <4>2. pc'[u] = pc[u] /\ seenBack'[u] = seenBack[u] /\ node'[u] = node[u]
        BY <1>4, <1>5, <3>2
      <4>3. \A x \in Node : Linked(kind, owner, x) \/ next[x].handle # Null =>
              Linked(kind, owner, x)' \/ next'[x].handle # Null
        BY <1>6, <1>8
      <4> QED
        BY <4>1, <4>2, <4>3, OtherAims
    <3> QED
      BY <3>1, <3>2
  <2> QED
    BY <1>1, <2>1 DEF Staleness, Together
<1> QED
  BY <1>9, <1>10, <1>11, <1>12, <1>13, <1>14, <1>15 DEF NodesPlaced, Layout

\* PopFree: the old dummy is the first of the free nodes.
LEMMA PopFreePlaces ==
  ASSUME QueueInv, NEW t \in Threads, PopFree(t)
  PROVE  NodesPlaced'
<1>0. TypeOK /\ Locals /\ NodesPlaced /\ Act(t)
  BY DEF QueueInv, Act, Running
<1>1. PICK kind \in [Node -> Kinds], owner \in [Node -> Owners], pos \in [Node -> Nat],
           age \in [Node -> Nat], clock \in Nat :
        Layout(kind, owner, pos) /\ Staleness(kind, owner, pos, age, clock)
  BY <1>0 DEF NodesPlaced
<1>16. PICK n \in Node : n = seenFront[t].handle
  BY <1>0, OwnDummy DEF PopFree
<1>2. /\ pc[t] = "pop_free" /\ pc[t] \notin Copying /\ pc[t] \notin Linking
      /\ pc'[t] = "idle" /\ pc'[t] \notin Copying /\ pc'[t] \notin Linking /\ pc'[t] # "pop_free"
      /\ pc'[t] \notin Aiming
  BY <1>0, TypeParts DEF PopFree, Return, Goto, Copying, Linking, Aiming
<1>3. /\ n \in Node /\ kind[n] = "popped" /\ owner[n] = t
      /\ \A x \in Node : kind[x] = "popped" /\ owner[x] = t => x = n
  BY <1>1, <1>2, <1>16 DEF Layout, PoppedNodes
<1>4. front' = front /\ back' = back /\ next' = next /\ elements' = elements
  BY DEF PopFree
<1>5. \A u \in Threads : u # t => /\ pc'[u] = pc[u] /\ node'[u] = node[u]
                                  /\ seenFront'[u] = seenFront[u] /\ seenBack'[u] = seenBack[u]
  BY <1>0, OthersStand
<1>6. free \in Seq(Node) /\ free' = <<n>> \o free
  BY <1>0, <1>16, TypeParts DEF PopFree
<1>7. PICK kind2 \in [Node -> Kinds] :
        kind2[n] = "free" /\ \A x \in Node : x # n => kind2[x] = kind[x]
  <2>1. [kind EXCEPT ![n] = "free"] \in [Node -> Kinds]
    BY DEF Kinds
  <2> QED
    BY <2>1
<1>8. ASSUME NEW x \in Node PROVE Linked(kind2, owner, x)' <=> Linked(kind, owner, x)
  <2>1. CASE x = n
    BY <1>3, <1>7, <2>1 DEF Linked
  <2>2. CASE x # n
    <3>1. kind[x] = "private" => pc'[owner[x]] = pc[owner[x]]
      BY <1>1, <1>2, <1>5 DEF Layout, PrivateNodes
    <3> QED
      BY <1>7, <2>2, <3>1 DEF Linked
  <2> QED
    BY <2>1, <2>2
<1>9. FreeNodes(kind2, free)'
  <2>1. FreeNodes(kind, free)
    BY <1>1 DEF Layout
  <2>2. FreeNodes(kind2, free')
    <3>1. kind[n] # "free" /\ kind2[n] = "free"
      BY <1>3, <1>7
    <3>2. \A x \in Node : x # n => kind2[x] = kind[x]
      BY <1>7
    <3>3. free \in Seq(Node) /\ free' = <<n>> \o free
      BY <1>6
    <3> QED
      BY <2>1, <3>1, <3>2, <3>3, FreeFirst
  <2> QED
    BY <2>2 DEF FreeNodes
<1>10. ListEnds(kind2, pos)'
  BY <1>1, <1>3, <1>4, <1>7 DEF Layout, ListEnds
<1>11. PrivateNodes(kind2, owner, pos)'
  BY <1>1, <1>2, <1>3, <1>5, <1>7 DEF Layout, PrivateNodes
<1>12. PoppedNodes(kind2, owner)'
  BY <1>1, <1>2, <1>3, <1>4, <1>5, <1>7 DEF Layout, PoppedNodes
<1>13. Chained(kind2, owner, pos)'
  <2>1. Chained(kind, owner, pos)
    BY <1>1 DEF Layout
  <2>2. \A x \in Node : Linked(kind, owner, x) => x # n
    BY <1>3 DEF Linked
  <2>3. \A x \in Node : next[x].handle # Null => next[x].handle \in Node
    BY <1>0, LinksLead
  <2>4. \A x, y \in Node :
          y # n /\ kind[y] \in {"list", "private"} =>
            (Together(kind2, owner, x, y) <=> Together(kind, owner, x, y) /\ x # n)
    BY <1>3, <1>7 DEF Together
  <2>5. \A x \in Node : Linked(kind, owner, x) => kind[x] \in {"list", "private"}
    BY DEF Linked
  <2>6. Apart(kind2, owner, pos)'
    BY <1>3, <1>7, <2>1, <2>4 DEF Chained, Apart
  <2>7. Onward(kind2, owner, pos)'
    <3>1. ASSUME NEW x \in Node, Linked(kind, owner, x), next[x].handle # Null
          PROVE  Together(kind2, owner, next[x].handle, x) /\ pos[next[x].handle] = pos[x] + 1
      <4>1. /\ next[x].handle \in Node /\ Together(kind, owner, next[x].handle, x)
            /\ pos[next[x].handle] = pos[x] + 1
        BY <2>1, <2>3, <3>1 DEF Chained, Onward
      <4>2. next[x].handle # n
        BY <1>3, <2>5, <3>1, <4>1 DEF Together
      <4> QED
        BY <2>2, <2>4, <2>5, <3>1, <4>1, <4>2
    <3> QED
      BY <1>4, <1>8, <3>1 DEF Onward
  <2>8. Ended(kind2, owner, pos)'
    BY <1>4, <1>8, <2>1, <2>2, <2>4, <2>5 DEF Chained, Ended
  <2> QED
    BY <2>6, <2>7, <2>8 DEF Chained
<1>14. Filled(kind2, owner, pos)'
  BY <1>1, <1>3, <1>4, <1>7, <1>8 DEF Layout, Filled, Linked
<1>15. Staleness(kind2, owner, pos, age, clock)'
  <2>1. ASSUME NEW u \in Threads PROVE Aims(kind2, owner, age, u)'
    <3>1. CASE u = t
      BY <1>2, <3>1 DEF Aims
    <3>2. CASE u # t
      <4>1. Aims(kind, owner, age, u)
        BY <1>1 DEF Staleness
      <4>2. pc'[u] = pc[u] /\ seenBack'[u] = seenBack[u] /\ node'[u] = node[u]
        BY <1>5, <3>2
      <4>3. \A x \in Node : Linked(kind, owner, x) \/ next[x].handle # Null =>
              Linked(kind2, owner, x)' \/ next'[x].handle # Null
        BY <1>4, <1>8
      <4>4. \A x \in Node : kind2[x] = "private" => kind[x] = "private"
        BY <1>7
      <4> QED
        BY <1>7, <4>1, <4>2, <4>3, <4>4, OtherAims
    <3> QED
      BY <3>1, <3>2
  <2>2. \A x, y \in Node :
          kind2[y] = "private" /\ Together(kind2, owner, x, y) /\ pos[x] < pos[y] => age[y] < age[x]
    BY <1>1, <1>3, <1>7 DEF Staleness, Together
  <2>3. \A x \in Node : age[x] <= clock
    BY <1>1 DEF Staleness
  <2> QED
    BY <2>1, <2>2, <2>3 DEF Staleness, Together
<1> QED
  BY <1>7, <1>9, <1>10, <1>11, <1>12, <1>13, <1>14, <1>15 DEF NodesPlaced, Layout

\* A push that gets a node becomes its owner.
LEMMA PushAllocatePlaces ==
  ASSUME QueueInv, NEW t \in Threads, PushAllocate(t), free # <<>>
  PROVE  NodesPlaced'
<1>0. TypeOK /\ Locals /\ NodesPlaced /\ Act(t)
  BY DEF QueueInv, Act
<1>1. PICK kind \in [Node -> Kinds], owner \in [Node -> Owners], pos \in [Node -> Nat],
           age \in [Node -> Nat], clock \in Nat :
        Layout(kind, owner, pos) /\ Staleness(kind, owner, pos, age, clock)
  BY <1>0 DEF NodesPlaced
<1>2. /\ pc[t] = "idle" /\ pc[t] \notin Copying /\ pc[t] \notin Linking /\ pc[t] # "pop_free"
      /\ pc'[t] = "push_copy" /\ pc'[t] \in Copying /\ pc'[t] \notin Linking
      /\ pc'[t] # "pop_free" /\ pc'[t] \notin Aiming
  BY <1>0, TypeParts DEF PushAllocate, Call, Goto, Copying, Linking, Aiming
<1>3. free \in Seq(Node)
  BY <1>0, TypeParts
<1>4. PICK n \in Node : n = Head(free)
  BY <1>3
<1>5. kind[n] = "free"
  <2>1. n = free[1] /\ 1 \in 1 .. Len(free)
    BY <1>3, <1>4
  <2> QED
    BY <1>1, <2>1 DEF Layout, FreeNodes
<1>6. /\ front' = front /\ back' = back /\ next' = next /\ elements' = elements
      /\ free' = Tail(free) /\ node'[t] = n
  BY <1>0, <1>4, TypeParts DEF PushAllocate
<1>7. \A u \in Threads : u # t => /\ pc'[u] = pc[u] /\ node'[u] = node[u]
                                  /\ seenFront'[u] = seenFront[u] /\ seenBack'[u] = seenBack[u]
  BY <1>0, OthersStand
<1>21. PICK kind2 \in [Node -> Kinds] :
         kind2[n] = "private" /\ \A x \in Node : x # n => kind2[x] = kind[x]
  <2> DEFINE g == [kind EXCEPT ![n] = "private"]
  <2>1. g \in [Node -> Kinds] /\ g[n] = "private" /\ \A x \in Node : x # n => g[x] = kind[x]
    BY DEF Kinds
  <2> HIDE DEF g
  <2> QED
    BY <2>1
<1>22. PICK owner2 \in [Node -> Owners] :
         owner2[n] = t /\ \A x \in Node : x # n => owner2[x] = owner[x]
  <2> DEFINE g == [owner EXCEPT ![n] = t]
  <2>1. g \in [Node -> Owners] /\ g[n] = t /\ \A x \in Node : x # n => g[x] = owner[x]
    BY DEF Owners
  <2> HIDE DEF g
  <2> QED
    BY <2>1
<1>23. PICK pos2 \in [Node -> Nat] : pos2[n] = 0 /\ \A x \in Node : x # n => pos2[x] = pos[x]
  <2> DEFINE g == [pos EXCEPT ![n] = 0]
  <2>1. g \in [Node -> Nat] /\ g[n] = 0 /\ \A x \in Node : x # n => g[x] = pos[x]
    OBVIOUS
  <2> HIDE DEF g
  <2> QED
    BY <2>1
<1>24. PICK age2 \in [Node -> Nat] : age2[n] = clock + 1 /\ \A x \in Node : x # n => age2[x] = age[x]
  <2> DEFINE g == [age EXCEPT ![n] = clock + 1]
  <2>1. g \in [Node -> Nat] /\ g[n] = clock + 1 /\ \A x \in Node : x # n => g[x] = age[x]
    OBVIOUS
  <2> HIDE DEF g
  <2> QED
    BY <2>1
<1>8. /\ kind2[n] = "private" /\ owner2[n] = t /\ pos2[n] = 0 /\ age2[n] = clock + 1
      /\ \A x \in Node : x # n =>
           kind2[x] = kind[x] /\ owner2[x] = owner[x] /\ pos2[x] = pos[x] /\ age2[x] = age[x]
  BY <1>21, <1>22, <1>23, <1>24
<1>9. \A x \in Node : kind[x] = "private" => owner[x] \in Threads /\ owner[x] # t
  BY <1>1, <1>2 DEF Layout, PrivateNodes
<1>10. ASSUME NEW x \in Node
       PROVE  /\ Linked(kind2, owner2, x)' <=> Linked(kind, owner, x)
              /\ Linked(kind, owner, x) => x # n
  <2>1. CASE x = n
    BY <1>2, <1>5, <1>8, <2>1 DEF Linked
  <2>2. CASE x # n
    <3>1. kind[x] = "private" => pc'[owner[x]] = pc[owner[x]]
      BY <1>7, <1>9
    <3> QED
      BY <1>8, <2>2, <3>1 DEF Linked
  <2> QED
    BY <2>1, <2>2
<1>11. ASSUME NEW x \in Node, NEW y \in Node, kind2[y] \in {"list", "private"}
       PROVE  Together(kind2, owner2, x, y) <=>
                (x = n /\ y = n) \/ (x # n /\ y # n /\ Together(kind, owner, x, y))
  BY <1>5, <1>8, <1>9, <1>11 DEF Together
<1>12. FreeNodes(kind2, free)'
  <2>1. FreeNodes(kind, free)
    BY <1>1 DEF Layout
  <2>2. kind2[Head(free)] # "free" /\ \A x \in Node : x # Head(free) => kind2[x] = kind[x]
    BY <1>4, <1>8
  <2>3. FreeNodes(kind2, free')
    BY <1>3, <1>6, <2>1, <2>2, FreeRest
  <2> QED
    BY <2>3 DEF FreeNodes
<1>13. ListEnds(kind2, pos2)'
  BY <1>1, <1>5, <1>6, <1>8 DEF Layout, ListEnds
<1>14. PrivateNodes(kind2, owner2, pos2)'
  <2>1. PrivateNodes(kind, owner, pos)
    BY <1>1 DEF Layout
  <2>2. ASSUME NEW u \in Threads, pc'[u] \in Copying \cup Linking
        PROVE  /\ node'[u] \in Node
               /\ kind2[node'[u]] = "private" /\ owner2[node'[u]] = u /\ pos2[node'[u]] = 0
    <3>1. CASE u = t
      BY <1>6, <1>8, <3>1
    <3>2. CASE u # t
      <4>1. pc'[u] = pc[u] /\ node'[u] = node[u]
        BY <1>7, <3>2
      <4>2. /\ node[u] \in Node
            /\ kind[node[u]] = "private" /\ owner[node[u]] = u /\ pos[node[u]] = 0
        BY <2>1, <2>2, <4>1 DEF PrivateNodes
      <4> QED
        BY <1>5, <1>8, <4>1, <4>2
    <3> QED
      BY <3>1, <3>2
  <2>3. ASSUME NEW x \in Node, kind2[x] = "private"
        PROVE  /\ owner2[x] \in Threads /\ pc'[owner2[x]] \in Copying \cup Linking
               /\ pc'[owner2[x]] \in Copying => x = node'[owner2[x]]
    <3>1. CASE x = n
      BY <1>2, <1>6, <1>8, <3>1
    <3>2. CASE x # n
      <4>1. kind[x] = "private" /\ owner2[x] = owner[x]
        BY <1>8, <2>3, <3>2
      <4>2. /\ owner[x] \in Threads /\ pc[owner[x]] \in Copying \cup Linking
            /\ pc[owner[x]] \in Copying => x = node[owner[x]]
        BY <2>1, <4>1 DEF PrivateNodes
      <4>3. pc'[owner[x]] = pc[owner[x]] /\ node'[owner[x]] = node[owner[x]]
        BY <1>7, <1>9, <4>1, <4>2
      <4> QED
        BY <4>1, <4>2, <4>3
    <3> QED
      BY <3>1, <3>2
  <2> QED
    BY <2>2, <2>3 DEF PrivateNodes
<1>15. PoppedNodes(kind2, owner2)'
  <2>1. PoppedNodes(kind, owner)
    BY <1>1 DEF Layout
  <2>2. ASSUME NEW u \in Threads, pc'[u] = "pop_free"
        PROVE  /\ seenFront'[u].handle \in Node
               /\ kind2[seenFront'[u].handle] = "popped" /\ owner2[seenFront'[u].handle] = u
    <3>1. u # t /\ pc[u] = "pop_free" /\ seenFront'[u] = seenFront[u]
      BY <1>2, <1>7, <2>2
    <3>2. /\ seenFront[u].handle \in Node
          /\ kind[seenFront[u].handle] = "popped" /\ owner[seenFront[u].handle] = u
      BY <2>1, <3>1 DEF PoppedNodes
    <3> QED
      BY <1>5, <1>8, <3>1, <3>2
  <2>3. ASSUME NEW x \in Node, kind2[x] = "popped"
        PROVE  /\ owner2[x] \in Threads /\ pc'[owner2[x]] = "pop_free"
               /\ x = seenFront'[owner2[x]].handle
               /\ next'[x].handle # Null
    <3>1. x # n /\ kind[x] = "popped" /\ owner2[x] = owner[x]
      BY <1>8, <2>3
    <3>2. /\ owner[x] \in Threads /\ pc[owner[x]] = "pop_free"
          /\ x = seenFront[owner[x]].handle /\ next[x].handle # Null
      BY <2>1, <3>1 DEF PoppedNodes
    <3> QED
      BY <1>2, <1>6, <1>7, <3>1, <3>2
  <2> QED
    BY <2>2, <2>3 DEF PoppedNodes
<1>16. Chained(kind2, owner2, pos2)'
  <2>1. Chained(kind, owner, pos)
    BY <1>1 DEF Layout
  <2>2. \A x \in Node : next[x].handle # Null => next[x].handle \in Node
    BY <1>0, LinksLead
  <2>3. Apart(kind2, owner2, pos2)'
    BY <1>8, <1>11, <2>1 DEF Chained, Apart
  <2>4. ASSUME NEW x \in Node, Linked(kind, owner, x)
        PROVE  x # n /\ kind2[x] \in {"list", "private"}
    BY <1>8, <1>10, <2>4 DEF Linked
  <2>5. Onward(kind2, owner2, pos2)'
    <3>1. ASSUME NEW x \in Node, Linked(kind, owner, x), next[x].handle # Null
          PROVE  Together(kind2, owner2, next[x].handle, x) /\ pos2[next[x].handle] = pos2[x] + 1
      <4>1. /\ next[x].handle \in Node /\ Together(kind, owner, next[x].handle, x)
            /\ pos[next[x].handle] = pos[x] + 1
        BY <2>1, <2>2, <3>1 DEF Chained, Onward
      <4>2. next[x].handle # n
        BY <1>5, <1>8, <2>4, <3>1, <4>1 DEF Together
      <4> QED
        BY <1>8, <1>11, <2>4, <3>1, <4>1, <4>2
    <3> QED
      BY <1>6, <1>10, <3>1 DEF Onward
  <2>6. Ended(kind2, owner2, pos2)'
    BY <1>6, <1>8, <1>10, <1>11, <2>1, <2>4 DEF Chained, Ended
  <2> QED
    BY <2>3, <2>5, <2>6 DEF Chained
<1>17. Filled(kind2, owner2, pos2)'
  BY <1>1, <1>6, <1>8, <1>10 DEF Layout, Filled
<1>18. Staleness(kind2, owner2, pos2, age2, clock + 1)'
  <2>0. clock \in Nat /\ \A x \in Node : age[x] \in Nat /\ age[x] <= clock
    BY <1>1 DEF Staleness
  <2>1. ASSUME NEW u \in Threads PROVE Aims(kind2, owner2, age2, u)'
    <3>1. CASE u = t
      BY <1>2, <3>1 DEF Aims
    <3>2. CASE u # t
      <4>1. Aims(kind, owner, age, u)
        BY <1>1 DEF Staleness
      <4>2. pc'[u] = pc[u] /\ seenBack'[u] = seenBack[u] /\ node'[u] = node[u]
        BY <1>7, <3>2
      <4>3. \A x \in Node : Linked(kind, owner, x) \/ next[x].handle # Null =>
              Linked(kind2, owner2, x)' \/ next'[x].handle # Null
        BY <1>6, <1>10
      <4>4. ASSUME NEW x \in Node, pc[u] \in Aiming, kind2[x] = "private",
                   kind[x] = "private" => age[node[u]] < age[x]
            PROVE  age2[node[u]] < age2[x]
        <5>1. node[u] \in Node /\ kind[node[u]] = "private"
          BY <1>1, <4>4 DEF Layout, PrivateNodes, Aiming, Linking
        <5>2. node[u] # n
          BY <1>5, <5>1
        <5>3. age2[node[u]] = age[node[u]] /\ age[node[u]] <= clock
          BY <1>8, <2>0, <5>1, <5>2
        <5>4. CASE x = n
          BY <1>8, <2>0, <5>1, <5>3, <5>4
        <5>5. CASE x # n
          BY <1>8, <4>4, <5>3, <5>5
        <5> QED
          BY <5>4, <5>5
      <4> QED
        BY <4>1, <4>2, <4>3, <4>4, OtherAims
    <3> QED
      BY <3>1, <3>2
  <2>2. ASSUME NEW x \in Node, NEW y \in Node,
               kind2[y] = "private", Together(kind2, owner2, x, y), pos2[x] < pos2[y]
        PROVE  age2[y] < age2[x]
    <3>1. x # n /\ y # n /\ Together(kind, owner, x, y)
      BY <1>8, <1>11, <2>2
    <3> QED
      BY <1>1, <1>8, <2>2, <3>1 DEF Staleness
  <2>3. \A x \in Node : age2[x] <= clock + 1
    <3> SUFFICES ASSUME NEW x \in Node PROVE age2[x] <= clock + 1
      OBVIOUS
    <3>1. CASE x = n
      BY <1>8, <3>1
    <3>2. CASE x # n
      BY <1>8, <2>0, <3>2
    <3> QED
      BY <3>1, <3>2
  <2> QED
    BY <2>1, <2>2, <2>3 DEF Staleness, Together
<1>19. clock + 1 \in Nat
  OBVIOUS
<1> QED
  BY <1>8, <1>12, <1>13, <1>14, <1>15, <1>16, <1>17, <1>18, <1>19 DEF NodesPlaced, Layout

\* A pop makes the node of the element it takes the new dummy, and keeps the old one.
LEMMA PopTakePlaces ==
  ASSUME QueueInv, NEW t \in Threads, PopTake(t), front = seenFront[t]
  PROVE  NodesPlaced'
<1>0. TypeOK /\ Locals /\ FrontSeen /\ NodesPlaced /\ Act(t)
  BY DEF QueueInv, Act, Running
<1>1. PICK kind \in [Node -> Kinds], owner \in [Node -> Owners], pos \in [Node -> Nat],
           age \in [Node -> Nat], clock \in Nat :
        Layout(kind, owner, pos) /\ Staleness(kind, owner, pos, age, clock)
  BY <1>0 DEF NodesPlaced
<1>2. /\ pc[t] = "pop_take" /\ pc[t] \notin Copying /\ pc[t] \notin Linking /\ pc[t] # "pop_free"
      /\ pc'[t] = "pop_free" /\ pc'[t] \notin Copying /\ pc'[t] \notin Linking
      /\ pc'[t] \notin Aiming
  BY <1>0, TypeParts DEF PopTake, Goto, Copying, Linking, Aiming
<1>3. PICK n \in Node : n = front.handle
  BY <1>0, ListHandles
<1>4. PICK m \in Node : m = seenNext[t].handle
  BY <1>0, <1>2, OldestElement DEF Holding
<1>5. next[n].handle = m /\ m # n /\ m # Null
  BY <1>0, <1>2, <1>3, <1>4, OldestElement, UnsetType DEF Holding
<1>6. back.handle # n
  BY <1>0, <1>2, <1>3 DEF Locals, LocalsOf, FrontSeen, FrontSeenOf, Holding
<1>7. /\ back' = back /\ next' = next /\ elements' = elements /\ free' = free /\ node' = node
      /\ seenFront' = seenFront /\ seenBack' = seenBack /\ front'.handle = m
      /\ seenFront'[t].handle = n
  BY <1>3, <1>4 DEF PopTake, seen, Tagged
<1>8. \A u \in Threads : u # t => pc'[u] = pc[u]
  BY <1>0, OthersStand
<1>9. /\ kind[n] = "list" /\ pos[n] = 0 /\ Linked(kind, owner, n)
      /\ kind[m] = "list" /\ pos[m] = 1
  <2>1. kind[n] = "list" /\ pos[n] = 0 /\ Linked(kind, owner, n)
    BY <1>1, <1>3 DEF Layout, ListEnds, Linked
  <2>2. Together(kind, owner, m, n) /\ pos[m] = pos[n] + 1
    BY <1>1, <1>5, <2>1 DEF Layout, Chained, Onward
  <2> QED
    BY <2>1, <2>2 DEF Together
<1>10. \A x \in Node : kind[x] = "list" /\ x # n => pos[x] # 0
  BY <1>1, <1>9 DEF Layout, Chained, Apart, Together
<1>21. PICK kind2 \in [Node -> Kinds] :
         kind2[n] = "popped" /\ \A x \in Node : x # n => kind2[x] = kind[x]
  <2> DEFINE g == [kind EXCEPT ![n] = "popped"]
  <2>1. g \in [Node -> Kinds] /\ g[n] = "popped" /\ \A x \in Node : x # n => g[x] = kind[x]
    BY DEF Kinds
  <2> HIDE DEF g
  <2> QED
    BY <2>1
<1>22. PICK owner2 \in [Node -> Owners] :
         owner2[n] = t /\ \A x \in Node : x # n => owner2[x] = owner[x]
  <2> DEFINE g == [owner EXCEPT ![n] = t]
  <2>1. g \in [Node -> Owners] /\ g[n] = t /\ \A x \in Node : x # n => g[x] = owner[x]
    BY DEF Owners
  <2> HIDE DEF g
  <2> QED
    BY <2>1
<1>23. PICK pos2 \in [Node -> Nat] :
         \A x \in Node : pos2[x] = IF kind[x] = "list" /\ x # n THEN pos[x] - 1 ELSE pos[x]
  <2> DEFINE g == [x \in Node |-> IF kind[x] = "list" /\ x # n THEN pos[x] - 1 ELSE pos[x]]
  <2>1. g \in [Node -> Nat]
    BY <1>10
  <2> QED
    BY <2>1
<1>11. ASSUME NEW x \in Node
       PROVE  Linked(kind2, owner2, x)' <=> Linked(kind, owner, x) /\ x # n
  <2>1. CASE x = n
    BY <1>21, <2>1 DEF Linked
  <2>2. CASE x # n
    <3>1. kind[x] = "private" => owner[x] \in Threads /\ pc'[owner[x]] = pc[owner[x]]
      BY <1>1, <1>2, <1>8 DEF Layout, PrivateNodes
    <3> QED
      BY <1>21, <1>22, <2>2, <3>1 DEF Linked
  <2> QED
    BY <2>1, <2>2
<1>12. ASSUME NEW x \in Node, NEW y \in Node, kind2[y] \in {"list", "private"}
       PROVE  Together(kind2, owner2, x, y) <=> x # n /\ y # n /\ Together(kind, owner, x, y)
  BY <1>21, <1>22, <1>12 DEF Together
<1>13. FreeNodes(kind2, free)'
  <2>1. FreeNodes(kind, free)
    BY <1>1 DEF Layout
  <2>2. \A i \in 1 .. Len(free) : free[i] \in Node /\ free[i] # n
    <3>1. free \in Seq(Node)
      BY <1>0, TypeParts
    <3>2. \A i \in 1 .. Len(free) : free[i] \in Node
      BY <3>1
    <3>3. \A i \in 1 .. Len(free) : kind[free[i]] = "free"
      BY <2>1 DEF FreeNodes
    <3> QED
      BY <1>9, <3>2, <3>3
  <2>3. \A x \in Node : x # n => (kind2[x] = "free" <=> kind[x] = "free")
    BY <1>21
  <2>4. kind2[n] # "free"
    BY <1>21
  <2> QED
    BY <1>7, <2>1, <2>2, <2>3, <2>4 DEF FreeNodes
<1>14. ListEnds(kind2, pos2)'
  BY <1>1, <1>5, <1>6, <1>7, <1>9, <1>21, <1>23 DEF Layout, ListEnds
<1>15. PrivateNodes(kind2, owner2, pos2)'
  <2>1. PrivateNodes(kind, owner, pos)
    BY <1>1 DEF Layout
  <2>2. ASSUME NEW u \in Threads, pc'[u] \in Copying \cup Linking
        PROVE  /\ node'[u] \in Node
               /\ kind2[node'[u]] = "private" /\ owner2[node'[u]] = u /\ pos2[node'[u]] = 0
    <3>1. u # t /\ pc'[u] = pc[u] /\ node'[u] = node[u]
      BY <1>2, <1>7, <1>8, <2>2
    <3>2. /\ node[u] \in Node
          /\ kind[node[u]] = "private" /\ owner[node[u]] = u /\ pos[node[u]] = 0
      BY <2>1, <2>2, <3>1 DEF PrivateNodes
    <3> QED
      BY <1>9, <1>21, <1>22, <1>23, <3>1, <3>2
  <2>3. ASSUME NEW x \in Node, kind2[x] = "private"
        PROVE  /\ owner2[x] \in Threads /\ pc'[owner2[x]] \in Copying \cup Linking
               /\ pc'[owner2[x]] \in Copying => x = node'[owner2[x]]
    <3>1. kind[x] = "private" /\ owner2[x] = owner[x]
      BY <1>21, <1>22, <2>3
    <3>2. /\ owner[x] \in Threads /\ pc[owner[x]] \in Copying \cup Linking
          /\ pc[owner[x]] \in Copying => x = node[owner[x]]
      BY <2>1, <3>1 DEF PrivateNodes
    <3> QED
      BY <1>2, <1>7, <1>8, <3>1, <3>2
  <2> QED
    BY <2>2, <2>3 DEF PrivateNodes
<1>16. PoppedNodes(kind2, owner2)'
  <2>1. PoppedNodes(kind, owner)
    BY <1>1 DEF Layout
  <2>2. ASSUME NEW u \in Threads, pc'[u] = "pop_free"
        PROVE  /\ seenFront'[u].handle \in Node
               /\ kind2[seenFront'[u].handle] = "popped" /\ owner2[seenFront'[u].handle] = u
    <3>1. CASE u = t
      BY <1>7, <1>21, <1>22, <3>1
    <3>2. CASE u # t
      <4>1. pc[u] = "pop_free" /\ seenFront'[u] = seenFront[u]
        BY <1>7, <1>8, <2>2, <3>2
      <4>2. /\ seenFront[u].handle \in Node
            /\ kind[seenFront[u].handle] = "popped" /\ owner[seenFront[u].handle] = u
        BY <2>1, <4>1 DEF PoppedNodes
      <4> QED
        BY <1>9, <1>21, <1>22, <4>1, <4>2
    <3> QED
      BY <3>1, <3>2
  <2>3. ASSUME NEW x \in Node, kind2[x] = "popped"
        PROVE  /\ owner2[x] \in Threads /\ pc'[owner2[x]] = "pop_free"
               /\ x = seenFront'[owner2[x]].handle
               /\ next'[x].handle # Null
    <3>1. CASE x = n
      BY <1>2, <1>5, <1>7, <1>22, <3>1
    <3>2. CASE x # n
      <4>1. kind[x] = "popped" /\ owner2[x] = owner[x]
        BY <1>21, <1>22, <2>3, <3>2
      <4>2. /\ owner[x] \in Threads /\ pc[owner[x]] = "pop_free"
            /\ x = seenFront[owner[x]].handle /\ next[x].handle # Null
        BY <2>1, <4>1 DEF PoppedNodes
      <4> QED
        BY <1>2, <1>7, <1>8, <4>1, <4>2
    <3> QED
      BY <3>1, <3>2
  <2> QED
    BY <2>2, <2>3 DEF PoppedNodes
<1>17. Chained(kind2, owner2, pos2)'
  <2>1. Chained(kind, owner, pos)
    BY <1>1 DEF Layout
  <2>2. \A x \in Node : next[x].handle # Null => next[x].handle \in Node
    BY <1>0, LinksLead
  <2>3. ASSUME NEW x \in Node, NEW y \in Node,
               kind2[y] \in {"list", "private"}, Together(kind2, owner2, x, y)
        PROVE  /\ Together(kind, owner, x, y) /\ kind[y] \in {"list", "private"}
               /\ pos2[x] = pos2[y] <=> pos[x] = pos[y]
               /\ pos2[x] < pos2[y] <=> pos[x] < pos[y]
    <3>1. /\ x # n /\ y # n /\ Together(kind, owner, x, y) /\ kind[y] = kind2[y]
          /\ kind[x] = kind[y]
      BY <1>12, <1>21, <2>3 DEF Together
    <3>2. \/ pos2[x] = pos[x] /\ pos2[y] = pos[y]
          \/ pos2[x] = pos[x] - 1 /\ pos2[y] = pos[y] - 1
      BY <1>23, <3>1
    <3>3. pos[x] \in Nat /\ pos[y] \in Nat
      OBVIOUS
    <3> QED
      BY <2>3, <3>1, <3>2, <3>3
  <2>4. Apart(kind2, owner2, pos2)'
    BY <2>1, <2>3 DEF Chained, Apart, Together
  <2>5. ASSUME NEW x \in Node, Linked(kind, owner, x), x # n
        PROVE  kind2[x] = kind[x] /\ kind2[x] \in {"list", "private"}
    BY <1>21, <2>5 DEF Linked
  <2>6. ASSUME NEW x \in Node, Linked(kind, owner, x), x # n, next[x].handle # Null
        PROVE  Together(kind2, owner2, next[x].handle, x) /\ pos2[next[x].handle] = pos2[x] + 1
    <3> DEFINE y == next[x].handle
    <3>1. y \in Node /\ Together(kind, owner, y, x) /\ pos[y] = pos[x] + 1
      BY <2>1, <2>2, <2>6 DEF Chained, Onward
    <3>2. pos[x] \in Nat /\ y # n
      BY <1>9, <3>1
    <3>3. Together(kind2, owner2, y, x)
      BY <1>12, <2>5, <2>6, <3>1, <3>2
    <3>4. kind[y] = kind[x]
      BY <3>1 DEF Together
    <3>5. pos2[y] = pos2[x] + 1
      BY <1>23, <2>6, <3>1, <3>2, <3>4
    <3> QED
      BY <3>3, <3>5
  <2>7. Onward(kind2, owner2, pos2)'
    BY <1>7, <1>11, <2>6 DEF Onward, Together
  <2>8. Ended(kind2, owner2, pos2)'
    <3> SUFFICES ASSUME NEW y \in Node, NEW x \in Node,
                        Linked(kind, owner, x), x # n, next[x].handle = Null,
                        Together(kind2, owner2, y, x)
                 PROVE  pos2[y] <= pos2[x]
      BY <1>7, <1>11 DEF Ended, Together
    <3>1. kind2[x] \in {"list", "private"}
      BY <2>5
    <3>2. Together(kind2, owner2, x, x)
      BY DEF Together
    <3>3. y # n /\ Together(kind, owner, y, x) /\ kind[y] = kind[x]
      BY <1>12, <3>1 DEF Together
    <3>4. pos[y] <= pos[x]
      BY <2>1, <3>3 DEF Chained, Ended
    <3>5. \/ pos2[x] = pos[x] /\ pos2[y] = pos[y]
          \/ pos2[x] = pos[x] - 1 /\ pos2[y] = pos[y] - 1
      BY <1>23, <3>3
    <3>6. pos[x] \in Nat /\ pos[y] \in Nat
      OBVIOUS
    <3> QED
      BY <3>4, <3>5, <3>6
  <2> QED
    BY <2>4, <2>7, <2>8 DEF Chained
<1>18. Filled(kind2, owner2, pos2)'
  BY <1>1, <1>7, <1>10, <1>11, <1>21 DEF Layout, Filled
<1>19. Staleness(kind2, owner2, pos2, age, clock)'
  <2>1. ASSUME NEW u \in Threads PROVE Aims(kind2, owner2, age, u)'
    <3>1. CASE u = t
      BY <1>2, <3>1 DEF Aims
    <3>2. CASE u # t
      <4>1. Aims(kind, owner, age, u)
        BY <1>1 DEF Staleness
      <4>2. pc'[u] = pc[u] /\ seenBack'[u] = seenBack[u] /\ node'[u] = node[u]
        BY <1>7, <1>8, <3>2
      <4>3. \A x \in Node : Linked(kind, owner, x) \/ next[x].handle # Null =>
              Linked(kind2, owner2, x)' \/ next'[x].handle # Null
        BY <1>5, <1>7, <1>11
      <4>4. ASSUME NEW x \in Node, pc[u] \in Aiming, kind2[x] = "private",
                   kind[x] = "private" => age[node[u]] < age[x]
            PROVE  age[node[u]] < age[x]
        BY <1>21, <4>4
      <4> QED
        BY <4>1, <4>2, <4>3, <4>4, OtherAims
    <3> QED
      BY <3>1, <3>2
  <2>2. ASSUME NEW x \in Node, NEW y \in Node,
               kind2[y] = "private", Together(kind2, owner2, x, y), pos2[x] < pos2[y]
        PROVE  age[y] < age[x]
    <3>1. kind[y] = "private" /\ kind[x] = "private" /\ Together(kind, owner, x, y)
      BY <1>12, <1>21, <2>2 DEF Together
    <3>2. pos2[x] = pos[x] /\ pos2[y] = pos[y]
      BY <1>23, <3>1
    <3> QED
      BY <1>1, <2>2, <3>1, <3>2 DEF Staleness
  <2>3. \A x \in Node : age[x] <= clock
    BY <1>1 DEF Staleness
  <2> QED
    BY <2>1, <2>2, <2>3 DEF Staleness, Together
<1> QED
  BY <1>13, <1>14, <1>15, <1>16, <1>17, <1>18, <1>19 DEF NodesPlaced, Layout

\* A push that installs its link puts its node, and those linked behind it since, at
\* the end of the list its last node is in.
LEMMA PushLinkPlaces ==
  ASSUME QueueInv, NEW t \in Threads, PushLink(t), next[seenBack[t].handle] = seenNext[t]
  PROVE  NodesPlaced'
<1>0. TypeOK /\ Locals /\ NodesPlaced /\ Act(t)
  BY DEF QueueInv, Act, Running
<1>1. PICK kind \in [Node -> Kinds], owner \in [Node -> Owners], pos \in [Node -> Nat],
           age \in [Node -> Nat], clock \in Nat :
        Layout(kind, owner, pos) /\ Staleness(kind, owner, pos, age, clock)
  BY <1>0 DEF NodesPlaced
<1>2. /\ pc[t] = "push_link" /\ pc[t] \notin Copying /\ pc[t] \in Linking /\ pc[t] # "pop_free"
      /\ pc[t] \in Aiming
      /\ pc'[t] = "push_swing" /\ pc'[t] \notin Copying /\ pc'[t] \notin Linking
      /\ pc'[t] # "pop_free" /\ pc'[t] \notin Aiming
  BY <1>0, TypeParts DEF PushLink, Goto, Copying, Linking, Aiming
<1>3. PICK n \in Node : n = node[t]
  BY <1>0, <1>2, OwnNode
<1>4. PICK last \in Node : last = seenBack[t].handle
  BY <1>1, <1>2 DEF Staleness, Aims
<1>5. next[last].handle = Null
  BY <1>0, <1>2, <1>4 DEF Locals, LocalsOf
<1>6. /\ Linked(kind, owner, last) /\ (kind[last] = "private" => age[n] < age[last])
      /\ kind[last] \in {"list", "private"}
      /\ kind[last] = "private" => owner[last] \in Threads
  <2>1. /\ Linked(kind, owner, last) /\ (kind[last] = "private" => age[n] < age[last])
        /\ kind[last] \in {"list", "private"}
    BY <1>1, <1>2, <1>3, <1>4, <1>5 DEF Staleness, Aims, Linked
  <2>2. kind[last] = "private" => owner[last] \in Threads
    BY <1>1 DEF Layout, PrivateNodes
  <2> QED
    BY <2>1, <2>2
<1>7. /\ kind[n] = "private" /\ owner[n] = t /\ pos[n] = 0
  BY <1>1, <1>2, <1>3 DEF Layout, PrivateNodes
<1>8. /\ front' = front /\ back' = back /\ elements' = elements /\ free' = free /\ node' = node
      /\ seenFront' = seenFront /\ seenBack' = seenBack
      /\ next'[last].handle = n /\ \A x \in Node : x # last => next'[x] = next[x]
  BY <1>0, <1>3, <1>4, TypeParts DEF PushLink, seen, Tagged
<1>9. \A u \in Threads : u # t => pc'[u] = pc[u]
  BY <1>0, OthersStand
<1>10. n # Null /\ \A x \in Node : next[x].handle # Null => next[x].handle \in Node
  BY <1>0, LinksLead, UnsetType
<1> DEFINE Mine(x) == kind[x] = "private" /\ owner[x] = t
<1>11. ~Mine(last)
  <2> SUFFICES ASSUME Mine(last) PROVE FALSE
    OBVIOUS
  <2>1. Together(kind, owner, n, last) /\ age[n] < age[last] /\ age[n] \in Nat /\ age[last] \in Nat
    BY <1>6, <1>7 DEF Together
  <2>2. CASE pos[last] = 0
    <3>1. n = last
      BY <1>1, <1>6, <1>7, <2>1, <2>2 DEF Layout, Chained, Apart
    <3> QED
      BY <2>1, <3>1
  <2>3. CASE pos[last] # 0
    <3>1. pos[n] < pos[last]
      BY <1>7, <2>3
    <3>2. age[last] < age[n]
      BY <1>1, <2>1, <3>1 DEF Staleness
    <3> QED
      BY <2>1, <3>2
  <2> QED
    BY <2>2, <2>3
<1>21. PICK kind2 \in [Node -> Kinds] :
         \A x \in Node : kind2[x] = IF Mine(x) THEN kind[last] ELSE kind[x]
  <2> DEFINE g == [x \in Node |-> IF Mine(x) THEN kind[last] ELSE kind[x]]
  <2>1. g \in [Node -> Kinds]
    OBVIOUS
  <2> QED
    BY <2>1
<1>22. PICK owner2 \in [Node -> Owners] :
         \A x \in Node : owner2[x] = IF Mine(x) THEN owner[last] ELSE owner[x]
  <2> DEFINE g == [x \in Node |-> IF Mine(x) THEN owner[last] ELSE owner[x]]
  <2>1. g \in [Node -> Owners]
    OBVIOUS
  <2> QED
    BY <2>1
<1>23. PICK pos2 \in [Node -> Nat] :
         \A x \in Node : pos2[x] = IF Mine(x) THEN pos[last] + 1 + pos[x] ELSE pos[x]
  <2> DEFINE g == [x \in Node |-> IF Mine(x) THEN pos[last] + 1 + pos[x] ELSE pos[x]]
  <2>1. g \in [Node -> Nat]
    OBVIOUS
  <2> QED
    BY <2>1
<1> HIDE DEF Mine
<1>24. Mine(n) /\ \A x \in Node : kind[x] = "list" => ~Mine(x)
  BY <1>7 DEF Mine
<1>12. ASSUME NEW x \in Node
       PROVE  Linked(kind2, owner2, x)' <=> Linked(kind, owner, x)
  <2>1. CASE Mine(x)
    <3>1. Linked(kind, owner, x)
      BY <1>2, <2>1 DEF Linked, Mine
    <3>2. kind[last] = "private" => pc'[owner[last]] \in Linking
      BY <1>6, <1>9, <1>11 DEF Linked, Mine
    <3>3. kind2[x] = kind[last] /\ owner2[x] = owner[last]
      BY <1>21, <1>22, <2>1
    <3> QED
      BY <1>6, <3>1, <3>2, <3>3 DEF Linked
  <2>2. CASE ~Mine(x)
    <3>1. kind[x] = "private" => owner[x] \in Threads /\ pc'[owner[x]] = pc[owner[x]]
      BY <1>1, <1>9, <2>2 DEF Layout, PrivateNodes, Mine
    <3>2. kind2[x] = kind[x] /\ owner2[x] = owner[x]
      BY <1>21, <1>22, <2>2
    <3> QED
      BY <3>1, <3>2 DEF Linked
  <2> QED
    BY <2>1, <2>2
<1>13. ASSUME NEW x \in Node, NEW y \in Node, kind2[y] \in {"list", "private"},
              Together(kind2, owner2, x, y)
       PROVE  /\ kind[y] \in {"list", "private"}
              /\ Mine(x) /\ ~Mine(y) => Together(kind, owner, y, last)
              /\ ~Mine(x) /\ Mine(y) => Together(kind, owner, x, last)
              /\ (Mine(x) <=> Mine(y)) => Together(kind, owner, x, y)
  <2>1. CASE Mine(x) /\ Mine(y)
    BY <2>1 DEF Together, Mine
  <2>2. CASE Mine(x) /\ ~Mine(y)
    BY <1>13, <1>21, <1>22, <2>2 DEF Together
  <2>3. CASE ~Mine(x) /\ Mine(y)
    <3>1. kind[x] = kind[last] /\ (kind[last] = "private" => owner[x] = owner[last])
      BY <1>13, <1>21, <1>22, <2>3 DEF Together
    <3>2. kind[y] = "private"
      BY <2>3 DEF Mine
    <3> QED
      BY <2>3, <3>1, <3>2 DEF Together
  <2>4. CASE ~Mine(x) /\ ~Mine(y)
    BY <1>13, <1>21, <1>22, <2>4 DEF Together
  <2> QED
    BY <2>1, <2>2, <2>3, <2>4
<1>14. \A x \in Node : Together(kind, owner, x, last) => pos[x] <= pos[last] /\ pos[x] \in Nat
  BY <1>1, <1>5, <1>6 DEF Layout, Chained, Ended
<1>15. FreeNodes(kind2, free)'
  <2>1. FreeNodes(kind, free)
    BY <1>1 DEF Layout
  <2>2. \A x \in Node : kind2[x] = "free" <=> kind[x] = "free"
    BY <1>6, <1>21 DEF Mine
  <2>3. free \in Seq(Node)
    BY <1>0, TypeParts
  <2>4. \A i \in 1 .. Len(free) : free[i] \in Node
    BY <2>3
  <2> QED
    BY <1>8, <2>1, <2>2, <2>4 DEF FreeNodes
<1>16. ListEnds(kind2, pos2)'
  <2>1. ListEnds(kind, pos)
    BY <1>1 DEF Layout
  <2> QED
    BY <1>8, <1>21, <1>23, <1>24, <2>1 DEF ListEnds
<1>17. PrivateNodes(kind2, owner2, pos2)'
  <2>1. PrivateNodes(kind, owner, pos)
    BY <1>1 DEF Layout
  <2>2. ASSUME NEW u \in Threads, pc'[u] \in Copying \cup Linking
        PROVE  /\ node'[u] \in Node
               /\ kind2[node'[u]] = "private" /\ owner2[node'[u]] = u /\ pos2[node'[u]] = 0
    <3>1. u # t /\ pc'[u] = pc[u] /\ node'[u] = node[u]
      BY <1>2, <1>8, <1>9, <2>2
    <3>2. /\ node[u] \in Node
          /\ kind[node[u]] = "private" /\ owner[node[u]] = u /\ pos[node[u]] = 0
      BY <2>1, <2>2, <3>1 DEF PrivateNodes
    <3>3. ~Mine(node[u])
      BY <3>1, <3>2 DEF Mine
    <3> QED
      BY <1>21, <1>22, <1>23, <3>1, <3>2, <3>3
  <2>3. ASSUME NEW x \in Node, kind2[x] = "private"
        PROVE  /\ owner2[x] \in Threads /\ pc'[owner2[x]] \in Copying \cup Linking
               /\ pc'[owner2[x]] \in Copying => x = node'[owner2[x]]
    <3>1. CASE Mine(x)
      <4>1. kind[last] = "private" /\ owner2[x] = owner[last]
        BY <1>21, <1>22, <2>3, <3>1
      <4>2. owner[last] \in Threads /\ owner[last] # t /\ pc[owner[last]] \in Linking
        BY <1>6, <1>11, <4>1 DEF Linked, Mine
      <4>3. pc'[owner[last]] \in Linking
        BY <1>9, <4>2
      <4> QED
        BY <4>1, <4>2, <4>3 DEF Linking, Copying
    <3>2. CASE ~Mine(x)
      <4>1. kind[x] = "private" /\ owner2[x] = owner[x] /\ owner[x] # t
        BY <1>21, <1>22, <2>3, <3>2 DEF Mine
      <4>2. /\ owner[x] \in Threads /\ pc[owner[x]] \in Copying \cup Linking
            /\ pc[owner[x]] \in Copying => x = node[owner[x]]
        BY <2>1, <4>1 DEF PrivateNodes
      <4> QED
        BY <1>8, <1>9, <4>1, <4>2
    <3> QED
      BY <3>1, <3>2
  <2> QED
    BY <2>2, <2>3 DEF PrivateNodes
<1>18. PoppedNodes(kind2, owner2)'
  <2>1. PoppedNodes(kind, owner)
    BY <1>1 DEF Layout
  <2>2. ASSUME NEW u \in Threads, pc'[u] = "pop_free"
        PROVE  /\ seenFront'[u].handle \in Node
               /\ kind2[seenFront'[u].handle] = "popped" /\ owner2[seenFront'[u].handle] = u
    <3>1. pc[u] = "pop_free" /\ seenFront'[u] = seenFront[u]
      BY <1>2, <1>8, <1>9, <2>2
    <3>2. /\ seenFront[u].handle \in Node
          /\ kind[seenFront[u].handle] = "popped" /\ owner[seenFront[u].handle] = u
      BY <2>1, <3>1 DEF PoppedNodes
    <3>3. ~Mine(seenFront[u].handle)
      BY <3>2 DEF Mine
    <3> QED
      BY <1>21, <1>22, <3>1, <3>2, <3>3
  <2>3. ASSUME NEW x \in Node, kind2[x] = "popped"
        PROVE  /\ owner2[x] \in Threads /\ pc'[owner2[x]] = "pop_free"
               /\ x = seenFront'[owner2[x]].handle
               /\ next'[x].handle # Null
    <3>1. kind[x] = "popped" /\ owner2[x] = owner[x] /\ x # last
      BY <1>6, <1>21, <1>22, <2>3
    <3>2. /\ owner[x] \in Threads /\ pc[owner[x]] = "pop_free"
          /\ x = seenFront[owner[x]].handle /\ next[x].handle # Null
      BY <2>1, <3>1 DEF PoppedNodes
    <3> QED
      BY <1>2, <1>8, <1>9, <3>1, <3>2
  <2> QED
    BY <2>2, <2>3 DEF PoppedNodes
<1>19. Chained(kind2, owner2, pos2)'
  <2>1. Apart(kind, owner, pos) /\ Onward(kind, owner, pos) /\ Ended(kind, owner, pos)
    BY <1>1 DEF Layout, Chained
  <2>2. Apart(kind2, owner2, pos2)'
    <3> SUFFICES ASSUME NEW x \in Node, NEW y \in Node, kind2[y] \in {"list", "private"},
                        Together(kind2, owner2, x, y), pos2[x] = pos2[y]
                 PROVE  x = y
      BY DEF Apart, Together
    <3>0. pos[x] \in Nat /\ pos[y] \in Nat /\ pos[last] \in Nat
      OBVIOUS
    <3>1. CASE Mine(x) <=> Mine(y)
      <4>1. Together(kind, owner, x, y) /\ kind[y] \in {"list", "private"}
        BY <1>13, <3>1
      <4>2. pos[x] = pos[y]
        BY <1>23, <3>0, <3>1
      <4> QED
        BY <2>1, <4>1, <4>2 DEF Apart
    <3>2. CASE Mine(x) /\ ~Mine(y)
      <4>1. pos[y] <= pos[last]
        BY <1>13, <1>14, <3>2
      <4>2. pos2[x] = pos[last] + 1 + pos[x] /\ pos2[y] = pos[y]
        BY <1>23, <3>2
      <4>3. pos[y] # pos[last] + 1 + pos[x]
        BY <3>0, <4>1
      <4> QED
        BY <4>2, <4>3
    <3>3. CASE ~Mine(x) /\ Mine(y)
      <4>1. pos[x] <= pos[last]
        BY <1>13, <1>14, <3>3
      <4>2. pos2[y] = pos[last] + 1 + pos[y] /\ pos2[x] = pos[x]
        BY <1>23, <3>3
      <4>3. pos[x] # pos[last] + 1 + pos[y]
        BY <3>0, <4>1
      <4> QED
        BY <4>2, <4>3
    <3> QED
      BY <3>1, <3>2, <3>3
  <2>3. Onward(kind2, owner2, pos2)'
    <3>1. ASSUME NEW x \in Node, Linked(kind, owner, x), next'[x].handle # Null
          PROVE  Together(kind2, owner2, next'[x].handle, x) /\ pos2[next'[x].handle] = pos2[x] + 1
      <4>1. CASE x = last
        <5>1. /\ kind2[n] = kind[last] /\ owner2[n] = owner[last] /\ pos2[n] = pos[last] + 1 + 0
              /\ kind2[last] = kind[last] /\ owner2[last] = owner[last] /\ pos2[last] = pos[last]
          BY <1>7, <1>11, <1>21, <1>22, <1>23, <1>24
        <5> QED
          BY <1>8, <4>1, <5>1 DEF Together
      <4>2. CASE x # last
        <5>1. PICK y \in Node : y = next[x].handle
          BY <1>8, <1>10, <3>1, <4>2
        <5>2. next'[x].handle = y /\ Together(kind, owner, y, x) /\ pos[y] = pos[x] + 1
          BY <1>8, <1>10, <2>1, <3>1, <4>2, <5>1 DEF Onward
        <5>3. Mine(y) <=> Mine(x)
          BY <5>2 DEF Together, Mine
        <5>4. Together(kind2, owner2, y, x)
          BY <1>21, <1>22, <5>2, <5>3 DEF Together
        <5>5. pos[x] \in Nat /\ pos[last] \in Nat
          OBVIOUS
        <5>6. pos2[y] = pos2[x] + 1
          BY <1>23, <5>2, <5>3, <5>5
        <5> QED
          BY <5>2, <5>4, <5>6
      <4> QED
        BY <4>1, <4>2
    <3> QED
      BY <1>12, <3>1 DEF Onward, Together
  <2>4. Ended(kind2, owner2, pos2)'
    <3>1. ASSUME NEW y \in Node, NEW x \in Node, Linked(kind, owner, x), next'[x].handle = Null,
                 Together(kind2, owner2, y, x)
          PROVE  pos2[y] <= pos2[x]
      <4>0. pos[x] \in Nat /\ pos[y] \in Nat /\ pos[last] \in Nat
        OBVIOUS
      <4>1. x # last /\ next[x].handle = Null
        BY <1>8, <1>10, <3>1
      <4>2. kind2[x] \in {"list", "private"}
        BY <1>6, <1>21, <3>1 DEF Linked
      <4>3. CASE Mine(y) <=> Mine(x)
        <5>1. pos[y] <= pos[x]
          BY <1>13, <2>1, <3>1, <4>1, <4>2, <4>3 DEF Ended
        <5> QED
          BY <1>23, <4>0, <4>3, <5>1
      <4>4. CASE ~Mine(y) /\ Mine(x)
        <5>1. pos[y] <= pos[last]
          BY <1>13, <1>14, <3>1, <4>2, <4>4
        <5>2. pos2[x] = pos[last] + 1 + pos[x] /\ pos2[y] = pos[y]
          BY <1>23, <4>4
        <5> QED
          BY <4>0, <5>1, <5>2
      <4>5. CASE Mine(y) /\ ~Mine(x)
        <5>1. Together(kind, owner, x, last) /\ pos[x] <= pos[last]
          BY <1>13, <1>14, <3>1, <4>2, <4>5
        <5>2. Together(kind, owner, last, x)
          BY <5>1 DEF Together
        <5>3. pos[last] <= pos[x]
          BY <2>1, <3>1, <4>1, <5>2 DEF Ended
        <5>4. pos[x] = pos[last]
          BY <4>0, <5>1, <5>3
        <5>5. x = last
          BY <1>6, <2>1, <5>1, <5>4 DEF Apart
        <5> QED
          BY <4>1, <5>5
      <4> QED
        BY <4>3, <4>4, <4>5
    <3> QED
      BY <1>12, <3>1 DEF Ended, Together
  <2> QED
    BY <2>2, <2>3, <2>4 DEF Chained
<1>20. Filled(kind2, owner2, pos2)'
  <2>1. ASSUME NEW x \in Node, Linked(kind, owner, x), kind2[x] = "list" => pos2[x] # 0
        PROVE  elements[x] \in Value
    <3>1. Mine(x) => kind[x] = "private"
      BY DEF Mine
    <3>2. kind[x] = "list" => pos[x] # 0
      BY <1>21, <1>23, <1>24, <2>1
    <3> QED
      BY <1>1, <2>1, <3>2 DEF Layout, Filled
  <2> QED
    BY <1>8, <1>12, <2>1 DEF Filled
<1>25. Staleness(kind2, owner2, pos2, age, clock)'
  <2>1. ASSUME NEW u \in Threads PROVE Aims(kind2, owner2, age, u)'
    <3>1. CASE u = t
      BY <1>2, <3>1 DEF Aims
    <3>2. CASE u # t
      <4>1. Aims(kind, owner, age, u)
        BY <1>1 DEF Staleness
      <4>2. pc'[u] = pc[u] /\ seenBack'[u] = seenBack[u] /\ node'[u] = node[u]
        BY <1>8, <1>9, <3>2
      <4>3. \A x \in Node : Linked(kind, owner, x) \/ next[x].handle # Null =>
              Linked(kind2, owner2, x)' \/ next'[x].handle # Null
        BY <1>8, <1>10, <1>12
      <4>4. ASSUME NEW x \in Node, pc[u] \in Aiming, kind2[x] = "private",
                   kind[x] = "private" => age[node[u]] < age[x]
            PROVE  age[node[u]] < age[x]
        BY <1>21, <4>4 DEF Mine
      <4> QED
        BY <4>1, <4>2, <4>3, <4>4, OtherAims
    <3> QED
      BY <3>1, <3>2
  <2>2. ASSUME NEW x \in Node, NEW y \in Node,
               kind2[y] = "private", Together(kind2, owner2, x, y), pos2[x] < pos2[y]
        PROVE  age[y] < age[x]
    <3>0. /\ pos[x] \in Nat /\ pos[y] \in Nat /\ pos[last] \in Nat
          /\ age[x] \in Nat /\ age[y] \in Nat /\ age[last] \in Nat /\ age[n] \in Nat
      OBVIOUS
    <3>1. \A v, w \in Node :
            kind[w] = "private" /\ Together(kind, owner, v, w) /\ pos[v] < pos[w] => age[w] < age[v]
      BY <1>1 DEF Staleness
    <3>2. CASE Mine(x) <=> Mine(y)
      <4>1. Together(kind, owner, x, y) /\ kind[y] = "private"
        BY <1>13, <1>21, <2>2, <3>2 DEF Mine
      <4>2. pos[x] < pos[y]
        BY <1>23, <2>2, <3>0, <3>2
      <4> QED
        BY <3>1, <4>1, <4>2
    <3>3. CASE Mine(x) /\ ~Mine(y)
      <4>1. pos[y] <= pos[last]
        BY <1>13, <1>14, <2>2, <3>3
      <4>2. pos2[x] = pos[last] + 1 + pos[x] /\ pos2[y] = pos[y]
        BY <1>23, <3>3
      <4> QED
        BY <2>2, <3>0, <4>1, <4>2
    <3>4. CASE ~Mine(x) /\ Mine(y)
      <4>1. kind[last] = "private" /\ Together(kind, owner, x, last) /\ pos[x] <= pos[last]
        BY <1>13, <1>14, <1>21, <2>2, <3>4
      <4>2. age[last] <= age[x]
        <5>1. CASE pos[x] = pos[last]
          <6>1. x = last
            BY <1>1, <4>1, <5>1 DEF Layout, Chained, Apart
          <6> QED
            BY <3>0, <6>1
        <5>2. CASE pos[x] < pos[last]
          BY <3>0, <3>1, <4>1, <5>2
        <5> QED
          BY <3>0, <4>1, <5>1, <5>2
      <4>3. age[y] <= age[n]
        <5>1. kind[y] = "private" /\ Together(kind, owner, n, y)
          BY <1>7, <3>4 DEF Mine, Together
        <5>2. CASE pos[y] = 0
          <6>1. n = y
            BY <1>1, <1>7, <5>1, <5>2 DEF Layout, Chained, Apart
          <6> QED
            BY <3>0, <6>1
        <5>3. CASE pos[y] # 0
          <6>1. pos[n] < pos[y]
            BY <1>7, <3>0, <5>3
          <6> QED
            BY <3>0, <3>1, <5>1, <6>1
        <5> QED
          BY <5>2, <5>3
      <4>4. age[n] < age[last]
        BY <1>6, <4>1
      <4> QED
        BY <3>0, <4>2, <4>3, <4>4
    <3> QED
      BY <3>2, <3>3, <3>4
  <2>3. \A x \in Node : age[x] <= clock
    BY <1>1 DEF Staleness
  <2> QED
    BY <2>1, <2>2, <2>3 DEF Staleness, Together
<1> QED
  BY <1>15, <1>16, <1>17, <1>18, <1>19, <1>20, <1>25 DEF NodesPlaced, Layout

\* SamePlaces, with its conditions on the one call that steps.
LEMMA QuietPlaces ==
  ASSUME QueueInv, NEW t \in Threads, Act(t),
         front' = front, next' = next, free' = free,
         back'.handle = back.handle
           \/ (back'.handle = next[back.handle].handle /\ next[back.handle].handle # Null),
         \A n \in Node : elements'[n] = elements[n] \/ (pc[t] \in Copying /\ n = node[t]),
         pc'[t] \in Copying <=> pc[t] \in Copying,
         pc'[t] \in Linking <=> pc[t] \in Linking,
         pc'[t] = "pop_free" <=> pc[t] = "pop_free",
         pc[t] \in Copying \cup Linking => node'[t] = node[t],
         pc[t] = "pop_free" => seenFront'[t] = seenFront[t],
         pc'[t] \in Aiming => \/ pc[t] \in Aiming /\ seenBack'[t] = seenBack[t]
                              \/ seenBack'[t] = back
  PROVE  NodesPlaced'
<1>1. \A u \in Threads : u # t => /\ pc'[u] = pc[u] /\ node'[u] = node[u]
                                  /\ seenFront'[u] = seenFront[u] /\ seenBack'[u] = seenBack[u]
  BY OthersStand DEF QueueInv
<1>2. NodesPlaced /\ LinkTypes
  BY TypeParts DEF QueueInv, LinkTypes, TaggedHandle, Handle
<1>3. \A n \in Node : elements'[n] = elements[n]
        \/ \E u \in Threads : pc[u] \in Copying /\ n = node[u]
  OBVIOUS
<1>4. \A u \in Threads : pc'[u] \in Copying <=> pc[u] \in Copying
  BY <1>1
<1>5. \A u \in Threads : pc'[u] \in Linking <=> pc[u] \in Linking
  BY <1>1
<1>6. \A u \in Threads : pc'[u] = "pop_free" <=> pc[u] = "pop_free"
  BY <1>1
<1>7. \A u \in Threads : pc[u] \in Copying \cup Linking => node'[u] = node[u]
  BY <1>1
<1>8. \A u \in Threads : pc[u] = "pop_free" => seenFront'[u] = seenFront[u]
  BY <1>1
<1>9. \A u \in Threads : pc'[u] \in Aiming =>
        \/ pc[u] \in Aiming /\ seenBack'[u] = seenBack[u]
        \/ seenBack'[u] = back
  BY <1>1
<1> QED
  BY <1>2, <1>3, <1>4, <1>5, <1>6, <1>7, <1>8, <1>9, SamePlaces

\* m_back moves to the next node only.
LEMMA BackMoves ==
  ASSUME QueueInv, NEW t \in Threads, Act(t)
  PROVE  \/ back' = back
         \/ back'.handle = next[back.handle].handle /\ next[back.handle].handle # Null
<1>0. TypeOK /\ LocalsOf(t) /\ BackSeenOf(t) /\ NodesPlaced
  BY DEF QueueInv, Locals, BackSeen
<1> USE TypeParts, <1>0
<1>1. CASE PushHelp(t)
  BY <1>1 DEF PushHelp, SwingBack, LocalsOf, BackSeenOf, Tagged
<1>2. CASE PopHelp(t)
  BY <1>2 DEF PopHelp, SwingBack, LocalsOf, BackSeenOf, Tagged
<1>3. CASE PushSwing(t)
  BY <1>3 DEF PushSwing, SwingBack, LocalsOf, BackSeenOf, Tagged, Aiming
<1>4. CASE ~PushHelp(t) /\ ~PopHelp(t) /\ ~PushSwing(t)
  BY <1>4 DEF Act, Running, PushAllocate, PushCopy, PushReset, PushBack, PushNext, PushVerify,
       PushLink, ReadCall, PopFront, PopBack, PopNext, PopVerify,
       PopEmpty, PopCopy, PopCopied, PopTake, PopFree, PeekVerify, shared
<1> QED
  BY <1>1, <1>2, <1>3, <1>4

\* Every step leaves each node in one place.
LEMMA PlacesStep ==
  ASSUME QueueInv, NEW t \in Threads, Act(t)
  PROVE  NodesPlaced'
<1>0. TypeOK /\ Locals /\ NodesPlaced
  BY DEF QueueInv
<1>22. back'.handle = back.handle
         \/ (back'.handle = next[back.handle].handle /\ next[back.handle].handle # Null)
  BY BackMoves
<1> USE DEF Copying, Linking, Aiming
<1>1. CASE PushAllocate(t)
  <2>1. CASE free # <<>>
    BY <1>1, <2>1, PushAllocatePlaces
  <2>2. CASE free = <<>>
    <3>1. /\ front' = front /\ next' = next /\ free' = free /\ elements' = elements
          /\ pc[t] = "idle" /\ pc'[t] = "idle"
      BY <1>1, <2>2 DEF PushAllocate, Call
    <3> QED
      BY <1>22, <3>1, QuietPlaces
  <2> QED
    BY <2>1, <2>2
<1>2. CASE PushReset(t)
  BY <1>2, PushResetPlaces
<1>3. CASE PushLink(t)
  <2>1. CASE next[seenBack[t].handle] = seenNext[t]
    BY <1>3, <2>1, PushLinkPlaces
  <2>2. CASE next[seenBack[t].handle] # seenNext[t]
    <3>1. /\ front' = front /\ next' = next /\ free' = free /\ elements' = elements
          /\ pc[t] = "push_link" /\ pc'[t] = "push_back" /\ node'[t] = node[t]
      BY <1>0, <1>3, <2>2, TypeParts DEF PushLink, Goto
    <3> QED
      BY <1>22, <3>1, QuietPlaces
  <2> QED
    BY <2>1, <2>2
<1>4. CASE PopTake(t)
  <2>1. CASE front = seenFront[t]
    BY <1>4, <2>1, PopTakePlaces
  <2>2. CASE front # seenFront[t]
    <3>1. /\ front' = front /\ next' = next /\ free' = free /\ elements' = elements
          /\ pc[t] = "pop_take" /\ pc'[t] = "pop_front"
      BY <1>0, <1>4, <2>2, TypeParts DEF PopTake, Goto
    <3> QED
      BY <1>22, <3>1, QuietPlaces
  <2> QED
    BY <2>1, <2>2
<1>5. CASE PopFree(t)
  BY <1>5, PopFreePlaces
<1>6. CASE PushCopy(t)
  <2>1. /\ front' = front /\ next' = next /\ free' = free
        /\ pc[t] = "push_copy" /\ pc'[t] = "push_reset" /\ node'[t] = node[t]
        /\ \A n \in Node : n # node[t] => elements'[n] = elements[n]
    BY <1>0, <1>6, TypeParts DEF PushCopy, Goto
  <2> QED
    BY <1>22, <2>1, QuietPlaces
<1>7. CASE PushBack(t)
  <2>1. /\ front' = front /\ next' = next /\ free' = free /\ elements' = elements
        /\ pc[t] = "push_back" /\ pc'[t] = "push_next" /\ node'[t] = node[t] /\ seenBack'[t] = back
    BY <1>0, <1>7, TypeParts DEF PushBack, Goto, Return, Call, shared, seen
  <2> QED
    BY <1>22, <2>1, QuietPlaces
<1>8. CASE PushNext(t)
  <2>1. /\ front' = front /\ next' = next /\ free' = free /\ elements' = elements
        /\ pc[t] = "push_next" /\ pc'[t] = "push_verify" /\ node'[t] = node[t] /\ seenBack'[t] = seenBack[t]
    BY <1>0, <1>8, TypeParts DEF PushNext, Goto, Return, Call, shared, seen
  <2> QED
    BY <1>22, <2>1, QuietPlaces
<1>9. CASE PushVerify(t)
  <2>1. /\ front' = front /\ next' = next /\ free' = free /\ elements' = elements
        /\ pc[t] = "push_verify" /\ pc'[t] \in {"push_back", "push_link", "push_help"} /\ node'[t] = node[t] /\ seenBack'[t] = seenBack[t]
    BY <1>0, <1>9, TypeParts DEF PushVerify, Goto, Return, Call, shared, seen
  <2> QED
    BY <1>22, <2>1, QuietPlaces
<1>10. CASE PushHelp(t)
  <2>1. /\ front' = front /\ next' = next /\ free' = free /\ elements' = elements
        /\ pc[t] = "push_help" /\ pc'[t] = "push_back" /\ node'[t] = node[t]
    BY <1>0, <1>10, TypeParts DEF PushHelp, Goto, Return, Call, shared, seen
  <2> QED
    BY <1>22, <2>1, QuietPlaces
<1>11. CASE PushSwing(t)
  <2>1. /\ front' = front /\ next' = next /\ free' = free /\ elements' = elements
        /\ pc[t] = "push_swing" /\ pc'[t] = "idle"
    BY <1>0, <1>11, TypeParts DEF PushSwing, Goto, Return, Call, shared, seen
  <2> QED
    BY <1>22, <2>1, QuietPlaces
<1>12. CASE ReadCall(t)
  <2>1. /\ front' = front /\ next' = next /\ free' = free /\ elements' = elements
        /\ pc[t] = "idle" /\ pc'[t] = "pop_front"
    BY <1>0, <1>12, TypeParts DEF ReadCall, Goto, Return, Call, shared, seen
  <2> QED
    BY <1>22, <2>1, QuietPlaces
<1>13. CASE PopFront(t)
  <2>1. /\ front' = front /\ next' = next /\ free' = free /\ elements' = elements
        /\ pc[t] = "pop_front" /\ pc'[t] = "pop_back"
    BY <1>0, <1>13, TypeParts DEF PopFront, Goto, Return, Call, shared, seen
  <2> QED
    BY <1>22, <2>1, QuietPlaces
<1>14. CASE PopBack(t)
  <2>1. /\ front' = front /\ next' = next /\ free' = free /\ elements' = elements
        /\ pc[t] = "pop_back" /\ pc'[t] = "pop_next"
    BY <1>0, <1>14, TypeParts DEF PopBack, Goto, Return, Call, shared, seen
  <2> QED
    BY <1>22, <2>1, QuietPlaces
<1>15. CASE PopNext(t)
  <2>1. /\ front' = front /\ next' = next /\ free' = free /\ elements' = elements
        /\ pc[t] = "pop_next" /\ pc'[t] = "pop_verify"
    BY <1>0, <1>15, TypeParts DEF PopNext, Goto, Return, Call, shared, seen
  <2> QED
    BY <1>22, <2>1, QuietPlaces
<1>16. CASE PopVerify(t)
  <2>1. /\ front' = front /\ next' = next /\ free' = free /\ elements' = elements
        /\ pc[t] = "pop_verify" /\ pc'[t] \in {"pop_front", "pop_empty", "pop_help", "pop_take", "pop_copy"}
    BY <1>0, <1>16, TypeParts DEF PopVerify, Goto, Return, Call, shared, seen
  <2> QED
    BY <1>22, <2>1, QuietPlaces
<1>17. CASE PopEmpty(t)
  <2>1. /\ front' = front /\ next' = next /\ free' = free /\ elements' = elements
        /\ pc[t] = "pop_empty" /\ pc'[t] = "idle"
    BY <1>0, <1>17, TypeParts DEF PopEmpty, Goto, Return, Call, shared, seen
  <2> QED
    BY <1>22, <2>1, QuietPlaces
<1>18. CASE PopHelp(t)
  <2>1. /\ front' = front /\ next' = next /\ free' = free /\ elements' = elements
        /\ pc[t] = "pop_help" /\ pc'[t] = "pop_front"
    BY <1>0, <1>18, TypeParts DEF PopHelp, Goto, Return, Call, shared, seen
  <2> QED
    BY <1>22, <2>1, QuietPlaces
<1>19. CASE PopCopy(t)
  <2>1. /\ front' = front /\ next' = next /\ free' = free /\ elements' = elements
        /\ pc[t] = "pop_copy" /\ pc'[t] = "pop_copied"
    BY <1>0, <1>19, TypeParts DEF PopCopy, Goto, Return, Call, shared, seen
  <2> QED
    BY <1>22, <2>1, QuietPlaces
<1>20. CASE PopCopied(t)
  <2>1. /\ front' = front /\ next' = next /\ free' = free /\ elements' = elements
        /\ pc[t] = "pop_copied" /\ pc'[t] \in {"peek_verify", "pop_take"}
    BY <1>0, <1>20, TypeParts DEF PopCopied, Goto, Return, Call, shared, seen
  <2> QED
    BY <1>22, <2>1, QuietPlaces
<1>21. CASE PeekVerify(t)
  <2>1. /\ front' = front /\ next' = next /\ free' = free /\ elements' = elements
        /\ pc[t] = "peek_verify" /\ pc'[t] \in {"idle", "pop_front"}
    BY <1>0, <1>21, TypeParts DEF PeekVerify, Goto, Return, Call, shared, seen
  <2> QED
    BY <1>22, <2>1, QuietPlaces
<1> QED
  BY <1>1, <1>2, <1>3, <1>4, <1>5, <1>6, <1>7, <1>8, <1>9, <1>10, <1>11,
     <1>12, <1>13, <1>14, <1>15, <1>16, <1>17, <1>18, <1>19, <1>20, <1>21 DEF Act, Running

-----------------------------------------------------------------------------
(* What a call knows while the handles of the list are as it saw them      *)

\* A node of the list that has a link keeps it.
LEMMA LinkKept ==
  ASSUME QueueInv, NEW t \in Threads, Act(t), NEW x \in {front.handle, back.handle},
         next[x].handle # Null
  PROVE  next'[x].handle = next[x].handle
<1>0. TypeOK /\ LocalsOf(t) /\ NodesPlaced
  BY DEF QueueInv, Locals
<1>1. CASE PushReset(t)
  <2>1. PICK kind \in [Node -> Kinds], owner \in [Node -> Owners], pos \in [Node -> Nat] :
          Layout(kind, owner, pos)
    BY <1>0 DEF NodesPlaced
  <2>2. x \in Node /\ kind[x] = "list"
    BY <2>1 DEF Layout, ListEnds
  <2>3. kind[node[t]] = "private"
    BY <1>1, <2>1 DEF Layout, PrivateNodes, PushReset, Copying
  <2> QED
    BY <1>0, <1>1, <2>2, <2>3, TypeParts DEF PushReset
<1>2. CASE PushLink(t)
  <2>1. next' = next \/ (next[seenBack[t].handle].handle = Null
                         /\ \A y \in Node : y # seenBack[t].handle => next'[y] = next[y])
    BY <1>0, <1>2, TypeParts DEF PushLink, LocalsOf
  <2>2. x \in Node
    BY <1>0, ListHandles
  <2> QED
    BY <2>1, <2>2
<1>3. CASE ~PushReset(t) /\ ~PushLink(t)
  <2>1. next' = next
    BY <1>3 DEF Act, Running, PushAllocate, PushCopy, PushBack, PushNext, PushVerify,
         PushHelp, PushSwing, ReadCall, PopFront, PopBack, PopNext, PopVerify,
         PopEmpty, PopHelp, PopCopy, PopCopied, PopTake, PopFree, PeekVerify, shared
  <2> QED
    BY <2>1
<1> QED
  BY <1>1, <1>2, <1>3

\* m_front has a link when m_back is elsewhere, and that node keeps its element and
\* is never behind m_back.
LEMMA SecondKept ==
  ASSUME QueueInv, NEW t \in Threads, Act(t), back.handle # front.handle
  PROVE  /\ next[front.handle].handle # Null
         /\ elements'[next[front.handle].handle] = elements[next[front.handle].handle]
         /\ back'.handle # front.handle
<1>0. TypeOK /\ NodesPlaced
  BY DEF QueueInv
<1>1. PICK kind \in [Node -> Kinds], owner \in [Node -> Owners], pos \in [Node -> Nat] :
        Layout(kind, owner, pos)
  BY <1>0 DEF NodesPlaced
<1>2. /\ front.handle \in Node /\ kind[front.handle] = "list" /\ pos[front.handle] = 0
      /\ back.handle \in Node /\ kind[back.handle] = "list"
  BY <1>1 DEF Layout, ListEnds
<1>3. Together(kind, owner, back.handle, front.handle)
  BY <1>2 DEF Together
<1>4. /\ Linked(kind, owner, front.handle)
      /\ Linked(kind, owner, back.handle)
  BY <1>2 DEF Linked
<1>5. pos[back.handle] \in Nat /\ pos[back.handle] # 0
  BY <1>1, <1>2, <1>3 DEF Layout, Chained, Apart
<1>6. next[front.handle].handle # Null
  <2> SUFFICES ASSUME next[front.handle].handle = Null PROVE FALSE
    OBVIOUS
  <2>1. pos[back.handle] <= pos[front.handle]
    BY <1>1, <1>2, <1>3, <1>4 DEF Layout, Chained, Ended
  <2> QED
    BY <1>2, <1>5, <2>1
<1>7. PICK second \in Node : second = next[front.handle].handle
  BY <1>0, <1>2, <1>6, LinksLead
<1>8. kind[second] = "list"
  <2>1. Together(kind, owner, second, front.handle)
    BY <1>1, <1>2, <1>4, <1>6, <1>7 DEF Layout, Chained, Onward
  <2> QED
    BY <1>2, <2>1 DEF Together
<1>9. elements'[second] = elements[second]
  <2>1. pc[t] \in Copying => kind[node[t]] = "private"
    BY <1>1 DEF Layout, PrivateNodes
  <2>2. CASE PushCopy(t) \/ PushReset(t)
    BY <1>0, <1>8, <2>1, <2>2, TypeParts DEF PushCopy, PushReset, Copying
  <2>3. CASE ~PushCopy(t) /\ ~PushReset(t)
    BY <2>3 DEF Act, Running, PushAllocate, PushBack, PushNext, PushVerify, PushLink,
         PushHelp, PushSwing, ReadCall, PopFront, PopBack, PopNext, PopVerify,
         PopEmpty, PopHelp, PopCopy, PopCopied, PopTake, PopFree, PeekVerify, shared
  <2> QED
    BY <2>2, <2>3
<1>10. back'.handle # front.handle
  <2>1. CASE back' = back
    BY <2>1
  <2>2. CASE back'.handle = next[back.handle].handle /\ next[back.handle].handle # Null
    <3>1. pos[next[back.handle].handle] = pos[back.handle] + 1
      BY <1>1, <1>2, <1>4, <2>2 DEF Layout, Chained, Onward
    <3> QED
      BY <1>2, <1>5, <2>2, <3>1
  <2> QED
    BY <2>1, <2>2, BackMoves
<1> QED
  BY <1>6, <1>7, <1>9, <1>10

\* A handle that has changed is not one that was read before.
LEMMA SeenBefore ==
  ASSUME QueueInv, NEW t \in Threads, Act(t), NEW u \in Threads, NodesPlaced'
  PROVE  /\ back' = seenBack[u] => back' = back
         /\ front' = seenFront[u] => front' = front
<1>0. TypeOK /\ TagsCountOf(u) /\ NodesPlaced
  BY DEF QueueInv, TagsCount
<1>1. front.tag \in Nat /\ back.tag \in Nat
  BY <1>0, TypeParts, TaggedParts
<1>2. front'.handle \in Node /\ back'.handle \in Node
  BY DEF NodesPlaced, Layout, ListEnds
<1>3. front'.handle # Null /\ back'.handle # Null
  BY <1>2, UnsetType
<1> QED
  BY <1>0, <1>1, <1>3, TagsGrow DEF TagsCountOf

\* A call that still finds m_back as it saw it knows the node it may move it to.
LEMMA BackSeenStep ==
  ASSUME QueueInv, NEW t \in Threads, Act(t), NodesPlaced'
  PROVE  BackSeen'
<1>0. TypeOK /\ Locals /\ BackSeen /\ NodesPlaced
  BY DEF QueueInv
<1>1. ASSUME NEW u \in Threads, u # t PROVE BackSeenOf(u)'
  <2> SUFFICES ASSUME back' = seenBack'[u] PROVE BackSeenOf(u)'
    BY DEF BackSeenOf
  <2>1. /\ pc'[u] = pc[u] /\ node'[u] = node[u] /\ seenNext'[u] = seenNext[u]
        /\ seenFront'[u] = seenFront[u] /\ seenBack'[u] = seenBack[u]
    BY <1>0, <1>1, OthersStand
  <2>2. back' = back /\ back = seenBack[u]
    BY <2>1, SeenBefore
  <2>3. next[back.handle].handle # Null => next'[back.handle].handle = next[back.handle].handle
    BY LinkKept
  <2>4. pc[u] = "push_swing" => node[u] # Null
    BY <1>0 DEF Locals, LocalsOf
  <2> QED
    BY <1>0, <2>1, <2>2, <2>3, <2>4 DEF BackSeen, BackSeenOf
<1>2. BackSeenOf(t)'
  <2> SUFFICES ASSUME back' = seenBack'[t] PROVE BackSeenOf(t)'
    BY DEF BackSeenOf
  <2> USE <1>0, TypeParts
  <2>1. CASE PushNext(t)
    BY <2>1 DEF PushNext, Goto, shared, BackSeenOf
  <2>2. CASE PushVerify(t)
    <3>1. /\ back' = back /\ seenBack' = seenBack /\ seenFront' = seenFront
          /\ seenNext' = seenNext /\ next' = next
          /\ pc[t] = "push_verify" /\ pc'[t] \in {"push_back", "push_link", "push_help"}
      BY <2>2 DEF PushVerify, Goto, shared, seen
    <3> QED
      BY <3>1 DEF BackSeen, BackSeenOf
  <2>3. CASE PushLink(t)
    <3>1. seenBack[t].handle \in Node
      BY <2>3 DEF PushLink, NodesPlaced, Staleness, Aims, Aiming
    <3>2. pc'[t] = "push_swing" => next'[seenBack[t].handle].handle = node[t]
      BY <2>3, <3>1 DEF PushLink, Goto, Tagged
    <3>3. pc'[t] \in {"push_swing", "push_back"} /\ seenBack' = seenBack /\ node' = node
      BY <2>3 DEF PushLink, Goto, seen
    <3> QED
      BY <3>2, <3>3 DEF BackSeenOf
  <2>4. CASE PopNext(t)
    BY <2>4 DEF PopNext, Goto, shared, BackSeenOf
  <2>5. CASE PopVerify(t)
    <3>1. /\ back' = back /\ seenBack' = seenBack /\ seenFront' = seenFront
          /\ seenNext' = seenNext /\ next' = next /\ pc[t] = "pop_verify"
          /\ pc'[t] \in {"pop_front", "pop_empty", "pop_help", "pop_take", "pop_copy"}
      BY <2>5 DEF PopVerify, Goto, shared, seen
    <3> QED
      BY <3>1 DEF BackSeen, BackSeenOf
  <2>6. CASE ~PushNext(t) /\ ~PushVerify(t) /\ ~PushLink(t) /\ ~PopNext(t) /\ ~PopVerify(t)
    <3>1. pc'[t] \notin {"push_swing", "push_verify", "push_help", "pop_verify", "pop_help"}
      BY <2>6 DEF Act, Running, PushAllocate, PushCopy, PushReset, PushBack, PushHelp,
         PushSwing, ReadCall, PopFront, PopBack, PopEmpty, PopHelp, PopCopy, PopCopied,
         PopTake, PopFree, PeekVerify, Return, Call, Goto
    <3> QED
      BY <3>1 DEF BackSeenOf
  <2> QED
    BY <2>1, <2>2, <2>3, <2>4, <2>5, <2>6
<1> QED
  BY <1>1, <1>2 DEF BackSeen

\* A pop or peek that still finds m_front as it saw it has the oldest element.
LEMMA FrontSeenStep ==
  ASSUME QueueInv, NEW t \in Threads, Act(t), NodesPlaced'
  PROVE  FrontSeen'
<1>0. TypeOK /\ Locals /\ FrontSeen /\ NodesPlaced
  BY DEF QueueInv
<1> DEFINE Watching == {"pop_next", "pop_verify"} \cup Holding
<1>1. ASSUME NEW u \in Threads, u # t PROVE FrontSeenOf(u)'
  <2> SUFFICES ASSUME front' = seenFront'[u], pc'[u] \in Watching,
                      seenFront'[u].handle # seenBack'[u].handle
               PROVE  FrontSeenOf(u)'
    BY DEF FrontSeenOf, Holding
  <2>1. /\ pc'[u] = pc[u] /\ op'[u] = op[u] /\ copy'[u] = copy[u] /\ seenNext'[u] = seenNext[u]
        /\ seenFront'[u] = seenFront[u] /\ seenBack'[u] = seenBack[u]
    BY <1>0, <1>1, OthersStand
  <2>2. front' = front /\ front = seenFront[u]
    BY <2>1, SeenBefore
  <2>3. back.handle # front.handle /\ FrontSeenOf(u)
    BY <1>0, <2>1, <2>2 DEF FrontSeen, FrontSeenOf
  <2>4. /\ next'[front.handle].handle = next[front.handle].handle
        /\ elements'[next[front.handle].handle] = elements[next[front.handle].handle]
        /\ back'.handle # front.handle
    BY <2>3, LinkKept, SecondKept
  <2> QED
    BY <2>1, <2>2, <2>3, <2>4 DEF FrontSeenOf, Holding
<1>2. FrontSeenOf(t)'
  <2> SUFFICES ASSUME front' = seenFront'[t], seenFront'[t].handle # seenBack'[t].handle
               PROVE  FrontSeenOf(t)'
    BY DEF FrontSeenOf
  <2> USE <1>0, TypeParts
  <2>1. CASE PopBack(t)
    <3>1. /\ pc'[t] = "pop_next" /\ front' = front /\ back' = back /\ seenFront' = seenFront
          /\ seenBack'[t] = back
      BY <2>1 DEF PopBack, Goto, shared
    <3> QED
      BY <3>1 DEF FrontSeenOf, Holding
  <2>2. CASE PopNext(t)
    <3>1. /\ pc[t] = "pop_next" /\ pc'[t] = "pop_verify" /\ front' = front /\ back' = back
          /\ next' = next /\ seenFront' = seenFront /\ seenBack' = seenBack
          /\ seenNext'[t] = next[seenFront[t].handle]
      BY <2>2 DEF PopNext, Goto, shared
    <3>2. back.handle # front.handle
      BY <3>1 DEF FrontSeen, FrontSeenOf
    <3>3. next[front.handle].handle # Null
      BY <3>2, SecondKept
    <3> QED
      BY <3>1, <3>2, <3>3 DEF FrontSeenOf, Holding
  <2>3. CASE PopVerify(t)
    <3>1. /\ pc[t] = "pop_verify" /\ front' = front /\ back' = back /\ op' = op /\ seenNext' = seenNext
          /\ next' = next /\ seenFront' = seenFront /\ seenBack' = seenBack
          /\ \/ pc'[t] \in {"pop_front", "pop_empty", "pop_help", "pop_copy"}
             \/ pc'[t] = "pop_take" /\ op[t] = "drop"
      BY <2>3 DEF PopVerify, Goto, shared, seen
    <3>2. /\ back.handle # front.handle
          /\ seenNext[t].handle # Null /\ next[front.handle].handle = seenNext[t].handle
      BY <3>1 DEF FrontSeen, FrontSeenOf
    <3> QED
      BY <3>1, <3>2 DEF FrontSeenOf, Holding
  <2>4. CASE PopCopy(t)
    <3>1. /\ pc[t] = "pop_copy" /\ front' = front /\ back' = back /\ op' = op /\ seenNext' = seenNext
          /\ next' = next /\ seenFront' = seenFront /\ seenBack' = seenBack /\ elements' = elements
          /\ pc'[t] = "pop_copied" /\ copy'[t] = elements[seenNext[t].handle]
      BY <2>4 DEF PopCopy, Goto, shared, seen
    <3>2. /\ back.handle # front.handle
          /\ seenNext[t].handle # Null /\ next[front.handle].handle = seenNext[t].handle
      BY <3>1 DEF FrontSeen, FrontSeenOf, Holding
    <3> QED
      BY <3>1, <3>2 DEF FrontSeenOf, Holding
  <2>5. CASE PopCopied(t)
    <3>1. /\ pc[t] = "pop_copied" /\ front' = front /\ back' = back /\ op' = op /\ seenNext' = seenNext
          /\ next' = next /\ seenFront' = seenFront /\ seenBack' = seenBack /\ elements' = elements
          /\ pc'[t] \in {"peek_verify", "pop_take"}
      BY <2>5 DEF PopCopied, Goto, shared, seen
    <3>2. /\ back.handle # front.handle
          /\ seenNext[t].handle # Null /\ next[front.handle].handle = seenNext[t].handle
          /\ copy[t] = elements[seenNext[t].handle]
      BY <3>1 DEF FrontSeen, FrontSeenOf, Holding
    <3>3. copy'[t] = elements[seenNext[t].handle]
      BY <2>5, <3>2 DEF PopCopied
    <3> QED
      BY <3>1, <3>2, <3>3 DEF FrontSeenOf, Holding
  <2>6. CASE ~PopBack(t) /\ ~PopNext(t) /\ ~PopVerify(t) /\ ~PopCopy(t) /\ ~PopCopied(t)
    <3>1. pc'[t] \notin Watching
      BY <2>6 DEF Act, Running, PushAllocate, PushCopy, PushReset, PushBack, PushNext, PushVerify,
         PushLink, PushHelp, PushSwing, ReadCall, PopFront, PopEmpty, PopHelp, PopTake,
         PopFree, PeekVerify, Return, Call, Goto, Holding
    <3> QED
      BY <3>1 DEF FrontSeenOf, Holding
  <2> QED
    BY <2>1, <2>2, <2>3, <2>4, <2>5, <2>6
<1> QED
  BY <1>1, <1>2 DEF FrontSeen

-----------------------------------------------------------------------------
(* The invariant                                                           *)

\* initialize() leaves every variable typed.
LEMMA InitTypes ==
  ASSUME Init
  PROVE  TypeOK
<1>1. 0 \in Node /\ NodeCount \in Nat \ {0}
  BY QueueAssumption DEF Node
<1>2. free \in Seq(Node)
  <2>1. \A i \in 1 .. NodeCount - 1 : i \in Node
    BY <1>1 DEF Node
  <2>2. NodeCount - 1 \in Nat
    BY <1>1
  <2>3. [i \in 1 .. NodeCount - 1 |-> i] \in Seq(Node)
    BY <2>1, <2>2
  <2> QED
    BY <2>3 DEF Init
<1>3. /\ front \in TaggedHandle /\ back \in TaggedHandle
  BY <1>1, TaggedType DEF Init, Handle
<1>4. /\ next \in [Node -> TaggedHandle] /\ seenFront \in [Threads -> TaggedHandle]
      /\ seenBack \in [Threads -> TaggedHandle] /\ seenNext \in [Threads -> TaggedHandle]
      /\ node \in [Threads -> Handle]
  BY UnsetType DEF Init
<1>5. /\ pc \in [Threads -> Steps] /\ op \in [Threads -> {"push", "pop", "drop", "peek"}]
      /\ elements \in [Node -> Value \cup {Torn}]
      /\ copy \in [Threads -> Value \cup {Torn, None}]
      /\ result \in [Threads -> Value \cup {None}]
  BY DEF Init, Steps
<1>6. calls \in [Threads -> 0 .. MaxCalls]
  BY QueueAssumption DEF Init
<1>7. stored \subseteq Value /\ taken \subseteq Value /\ due \in [Threads -> SUBSET Value]
  BY DEF Init
<1> QED
  BY <1>2, <1>3, <1>4, <1>5, <1>6, <1>7, TypeParts

\* After initialize() the dummy is the list and the other nodes are free.
LEMMA InitPlaces ==
  ASSUME Init
  PROVE  NodesPlaced
<1>1. 0 \in Node /\ NodeCount \in Nat \ {0} /\ \A n \in Node : n \in Nat /\ n < NodeCount
  BY QueueAssumption DEF Node
<1>2. PICK kind \in [Node -> Kinds] : \A n \in Node : kind[n] = IF n = 0 THEN "list" ELSE "free"
  <2> DEFINE g == [n \in Node |-> IF n = 0 THEN "list" ELSE "free"]
  <2>1. g \in [Node -> Kinds]
    BY DEF Kinds
  <2> QED
    BY <2>1
<1>3. PICK owner \in [Node -> Owners] : \A n \in Node : owner[n] = None
  <2>1. [n \in Node |-> None] \in [Node -> Owners]
    BY DEF Owners
  <2> QED
    BY <2>1
<1>4. PICK pos \in [Node -> Nat] : \A n \in Node : pos[n] = 0
  <2>1. [n \in Node |-> 0] \in [Node -> Nat]
    OBVIOUS
  <2> QED
    BY <2>1
<1>5. FreeNodes(kind, free)
  <2>1. Len(free) = NodeCount - 1 /\ \A i \in 1 .. NodeCount - 1 : free[i] = i
    BY <1>1 DEF Init
  <2>2. \A i \in 1 .. NodeCount - 1 : i \in Node /\ i # 0
    BY <1>1 DEF Node
  <2>3. \A n \in Node : n # 0 => n \in 1 .. NodeCount - 1
    BY <1>1 DEF Node
  <2> QED
    BY <1>2, <2>1, <2>2, <2>3 DEF FreeNodes
<1>6. ListEnds(kind, pos)
  BY <1>1, <1>2, <1>4 DEF ListEnds, Init, Tagged
<1>7. \A u \in Threads : pc[u] \notin Copying \cup Linking /\ pc[u] # "pop_free" /\ pc[u] \notin Aiming
  BY DEF Init, Copying, Linking, Aiming
<1>8. PrivateNodes(kind, owner, pos) /\ PoppedNodes(kind, owner)
  BY <1>2, <1>7 DEF PrivateNodes, PoppedNodes
<1>9. \A n \in Node : next[n].handle = Null
  BY UnsetType DEF Init
<1>10. \A n \in Node : Linked(kind, owner, n) => n = 0
  BY <1>2 DEF Linked
<1>11. Chained(kind, owner, pos)
  <2>1. Apart(kind, owner, pos)
    BY <1>2 DEF Apart, Together
  <2>2. Onward(kind, owner, pos)
    BY <1>9 DEF Onward
  <2>3. Ended(kind, owner, pos)
    BY <1>4 DEF Ended
  <2> QED
    BY <2>1, <2>2, <2>3 DEF Chained
<1>12. Filled(kind, owner, pos)
  BY <1>2, <1>4, <1>10 DEF Filled
<1>13. Staleness(kind, owner, pos, pos, 0)
  BY <1>2, <1>4, <1>7 DEF Staleness, Aims
<1>14. Layout(kind, owner, pos)
  BY <1>5, <1>6, <1>8, <1>11, <1>12 DEF Layout
<1> QED
  BY <1>13, <1>14 DEF NodesPlaced

\* The invariant holds after initialize().
LEMMA InitInv ==
  ASSUME Init
  PROVE  QueueInv
<1>1. \A t \in Threads : /\ pc[t] = "idle" /\ op[t] = "push" /\ copy[t] = None
                         /\ seenFront[t].handle = Null /\ seenBack[t].handle = Null
  BY UnsetType DEF Init
<1>2. Locals
  BY <1>1 DEF Locals, LocalsOf, Aiming, Popping, Holding
<1>3. TagsCount
  BY <1>1 DEF TagsCount, TagsCountOf
<1>4. BackSeen
  BY <1>1 DEF BackSeen, BackSeenOf
<1>5. FrontSeen
  BY <1>1 DEF FrontSeen, FrontSeenOf
<1> QED
  BY <1>2, <1>3, <1>4, <1>5, InitTypes, InitPlaces DEF QueueInv

\* A step of one thread keeps the invariant.
LEMMA ActInv ==
  ASSUME QueueInv, NEW t \in Threads, Act(t)
  PROVE  QueueInv'
<1>1. TypeOK'
  BY TypeStep DEF Act, Next
<1>2. Locals'
  <2>1. ASSUME NEW u \in Threads, u # t PROVE LocalsOf(u)'
    <3>1. TypeOK /\ LocalsOf(u)
      BY DEF QueueInv, Locals
    <3> QED
      BY <2>1, <3>1, OthersStand, SameLocals
  <2> QED
    BY <2>1, LocalsStep DEF Locals
<1>3. TagsCount'
  BY TagsStep
<1>4. NodesPlaced'
  BY PlacesStep
<1>5. BackSeen'
  BY <1>4, BackSeenStep
<1>6. FrontSeen'
  BY <1>4, FrontSeenStep
<1> QED
  BY <1>1, <1>2, <1>3, <1>4, <1>5, <1>6 DEF QueueInv

\* So does every step.
LEMMA NextInv ==
  ASSUME QueueInv, [Next]_vars
  PROVE  QueueInv'
<1>1. CASE \E t \in Threads : Act(t)
  BY <1>1, ActInv
<1>2. CASE UNCHANGED vars
  <2> USE <1>2 DEF QueueInv, vars, shared, seen, history
  <2>1. TypeOK'
    BY TypeParts DEF TypeOK
  <2>2. Locals' /\ TagsCount'
    BY DEF Locals, LocalsOf, TagsCount, TagsCountOf
  <2>3. NodesPlaced'
    <3>1. LinkTypes /\ NodesPlaced
      BY TypeParts DEF LinkTypes, TaggedHandle, Handle
    <3>2. /\ front' = front /\ back' = back /\ next' = next /\ free' = free
          /\ elements' = elements /\ pc' = pc /\ node' = node
          /\ seenFront' = seenFront /\ seenBack' = seenBack
      OBVIOUS
    <3> HIDE DEF QueueInv, vars
    <3> QED
      BY ONLY <3>1, <3>2, SamePlaces
  <2>4. BackSeen' /\ FrontSeen'
    BY DEF BackSeen, BackSeenOf, FrontSeen, FrontSeenOf
  <2> QED
    BY <2>1, <2>2, <2>3, <2>4
<1> QED
  BY <1>1, <1>2, NextCases

\* Whatever the threads do, in any order, QueueInv stays true.
THEOREM QueueInvHolds == Spec => []QueueInv
<1>1. Init => QueueInv
  BY InitInv
<1>2. QueueInv /\ [Next]_vars => QueueInv'
  BY NextInv
<1> QED
  BY <1>1, <1>2, PTL DEF Spec

\* Every variable of the queue holds a value of its type: the handles that push, pop
\* and peek read are nodes or null, and a copy that is torn is never returned.
THEOREM QueueTyped == Spec => []TypeOK
<1>1. QueueInv => TypeOK
  BY DEF QueueInv
<1> QED
  BY <1>1, QueueInvHolds, PTL

-----------------------------------------------------------------------------
(* Every node is in one place                                              *)

\* The walk from m_front meets the nodes of the list, each at its position.
LEMMA ListWalk ==
  ASSUME TypeOK, NEW kind \in [Node -> Kinds], NEW owner \in [Node -> Owners],
         NEW pos \in [Node -> Nat], Layout(kind, owner, pos)
  PROVE  /\ \A i \in 0 .. NodeCount : Walk(front.handle)[i] # Null =>
              /\ Walk(front.handle)[i] \in Node /\ kind[Walk(front.handle)[i]] = "list"
              /\ pos[Walk(front.handle)[i]] = i
         /\ \A m \in Node : kind[m] = "list" =>
              pos[m] \in 0 .. NodeCount - 1 /\ Walk(front.handle)[pos[m]] = m
         /\ Walk(front.handle)[NodeCount] = Null
         /\ Reach(front.handle) = {n \in Node : kind[n] = "list"}
<1> DEFINE P == {n \in Node : kind[n] = "list"}
<1>1. PICK h \in Node : h = front.handle /\ h \in P /\ pos[h] = 0
  BY DEF Layout, ListEnds
<1>2. LinkTypes
  BY TypeParts DEF LinkTypes, TaggedHandle, Handle
<1>3. \A m, n \in P : Together(kind, owner, m, n) /\ Linked(kind, owner, n)
  BY DEF Together, Linked
<1>4. \A m, n \in P : pos[m] = pos[n] => m = n
  BY <1>3 DEF Layout, Chained, Apart
<1>5. \A n \in P : next[n].handle # Null => next[n].handle \in P /\ pos[next[n].handle] = pos[n] + 1
  BY <1>3, LinksLead DEF Layout, Chained, Onward, Together
<1>6. \A m, n \in P : next[n].handle = Null => pos[m] <= pos[n]
  BY <1>3 DEF Layout, Chained, Ended
<1>7. /\ \A i \in 0 .. NodeCount : Walk(h)[i] # Null => Walk(h)[i] \in P /\ pos[Walk(h)[i]] = i
      /\ \A m \in P : pos[m] \in 0 .. NodeCount - 1 /\ Walk(h)[pos[m]] = m
      /\ Walk(h)[NodeCount] = Null
      /\ Reach(h) = P
  <2> P \in SUBSET Node
    OBVIOUS
  <2> HIDE DEF P
  <2> QED
    BY <1>1, <1>2, <1>4, <1>5, <1>6, WalkVisits
<1> QED
  BY <1>1, <1>7

\* What a call has to itself are its node and those linked behind it, or the dummy it
\* is about to free.
LEMMA HandWalk ==
  ASSUME TypeOK, NEW kind \in [Node -> Kinds], NEW owner \in [Node -> Owners],
         NEW pos \in [Node -> Nat], Layout(kind, owner, pos), NEW t \in Threads
  PROVE  InHand(t) = {n \in Node : kind[n] \in {"private", "popped"} /\ owner[n] = t}
<1>0. /\ PrivateNodes(kind, owner, pos) /\ PoppedNodes(kind, owner)
      /\ \A n \in Node : kind[n] = "private" /\ owner[n] = t => pc[t] \in Copying \cup Linking
      /\ \A n \in Node : kind[n] = "popped" /\ owner[n] = t => pc[t] = "pop_free"
  BY DEF Layout, PrivateNodes, PoppedNodes
<1> USE DEF Copying, Linking
<1>1. CASE pc[t] \in Copying
  <2>1. /\ node[t] \in Node /\ kind[node[t]] = "private" /\ owner[node[t]] = t
        /\ \A n \in Node : kind[n] = "private" /\ owner[n] = t => n = node[t]
        /\ \A n \in Node : ~(kind[n] = "popped" /\ owner[n] = t)
    BY <1>0, <1>1 DEF PrivateNodes
  <2> QED
    BY <1>1, <2>1 DEF InHand
<1>2. CASE pc[t] \in Linking
  <2> DEFINE P == {n \in Node : kind[n] = "private" /\ owner[n] = t}
  <2>1. PICK h \in Node : h = node[t] /\ h \in P /\ pos[h] = 0
    BY <1>0, <1>2 DEF PrivateNodes
  <2>2. LinkTypes
    BY TypeParts DEF LinkTypes, TaggedHandle, Handle
  <2>3. \A m, n \in P : Together(kind, owner, m, n) /\ Linked(kind, owner, n)
    BY <1>2 DEF Together, Linked
  <2>4. \A m, n \in P : pos[m] = pos[n] => m = n
    BY <2>3 DEF Layout, Chained, Apart
  <2>5. \A n \in P : next[n].handle # Null => next[n].handle \in P /\ pos[next[n].handle] = pos[n] + 1
    BY <2>3, LinksLead DEF Layout, Chained, Onward, Together
  <2>6. \A m, n \in P : next[n].handle = Null => pos[m] <= pos[n]
    BY <2>3 DEF Layout, Chained, Ended
  <2>7. Reach(node[t]) = P
    <3> P \in SUBSET Node
      OBVIOUS
    <3> HIDE DEF P
    <3> QED
      BY <2>1, <2>2, <2>4, <2>5, <2>6, WalkVisits
  <2>8. \A n \in Node : ~(kind[n] = "popped" /\ owner[n] = t)
    BY <1>0, <1>2
  <2>9. InHand(t) = P
    BY <1>2, <2>7 DEF InHand
  <2> QED
    BY <2>8, <2>9
<1>3. CASE pc[t] = "pop_free"
  <2>1. /\ seenFront[t].handle \in Node /\ kind[seenFront[t].handle] = "popped"
        /\ owner[seenFront[t].handle] = t
        /\ \A n \in Node : kind[n] = "popped" /\ owner[n] = t => n = seenFront[t].handle
        /\ \A n \in Node : ~(kind[n] = "private" /\ owner[n] = t)
    BY <1>0, <1>3 DEF PoppedNodes
  <2> QED
    BY <1>3, <2>1 DEF InHand
<1>4. CASE pc[t] \notin Copying \cup Linking \cup {"pop_free"}
  BY <1>0, <1>4 DEF InHand
<1> QED
  BY <1>1, <1>2, <1>3, <1>4

\* The places of the nodes give what NodesAccounted counts.
LEMMA NodesAreCounted ==
  ASSUME QueueInv
  PROVE  NodesAccounted
<1>0. TypeOK /\ NodesPlaced
  BY DEF QueueInv
<1>1. PICK kind \in [Node -> Kinds], owner \in [Node -> Owners], pos \in [Node -> Nat] :
        Layout(kind, owner, pos)
  BY <1>0 DEF NodesPlaced
<1>2. /\ Walk(front.handle)[NodeCount] = Null
      /\ Reach(front.handle) = {n \in Node : kind[n] = "list"}
  BY <1>0, <1>1, ListWalk
<1>3. back.handle \in Reach(front.handle)
  BY <1>1, <1>2 DEF Layout, ListEnds
<1>4. /\ free \in Seq(Node)
      /\ \A i \in 1 .. Len(free) : kind[free[i]] = "free"
      /\ \A i, j \in 1 .. Len(free) : free[i] = free[j] => i = j
      /\ \A n \in Node : kind[n] = "free" => \E i \in 1 .. Len(free) : free[i] = n
  BY <1>0, <1>1, TypeParts DEF Layout, FreeNodes
<1>5. IsInjective(free)
  BY <1>4 DEF IsInjective
<1>6. \A n \in Node : n \in ToSet(free) <=> kind[n] = "free"
  <2>1. DOMAIN free = 1 .. Len(free)
    BY <1>4
  <2>2. \A x : x \in ToSet(free) <=> \E i \in 1 .. Len(free) : x = free[i]
    BY <2>1 DEF ToSet
  <2>3. ASSUME NEW n \in Node, n \in ToSet(free) PROVE kind[n] = "free"
    <3>1. PICK i \in 1 .. Len(free) : n = free[i]
      BY <2>2, <2>3
    <3> QED
      BY <1>4, <3>1
  <2>4. ASSUME NEW n \in Node, kind[n] = "free" PROVE n \in ToSet(free)
    <3>1. PICK i \in 1 .. Len(free) : n = free[i]
      BY <1>4, <2>4
    <3> QED
      BY <2>2, <3>1
  <2> QED
    BY <2>3, <2>4
<1>7. ASSUME NEW n \in Node
      PROVE  Cardinality({t \in Threads : n \in InHand(t)})
               + (IF n \in ToSet(free) THEN 1 ELSE 0)
               + (IF n \in Reach(front.handle) THEN 1 ELSE 0) = 1
  <2> DEFINE Holders == {t \in Threads : n \in InHand(t)}
  <2>1. \A t \in Threads : n \in InHand(t) <=> (kind[n] \in {"private", "popped"} /\ owner[n] = t)
    BY <1>0, <1>1, HandWalk
  <2>2. kind[n] \in Kinds
    OBVIOUS
  <2>3. CASE kind[n] \in {"private", "popped"}
    <3>1. owner[n] \in Threads
      BY <1>1, <2>3 DEF Layout, PrivateNodes, PoppedNodes
    <3>2. Holders = {owner[n]}
      BY <2>1, <2>3, <3>1
    <3>3. Cardinality(Holders) = 1
      BY <3>2, FS_Singleton
    <3> QED
      BY <1>2, <1>6, <2>3, <3>3
  <2>4. CASE kind[n] \in {"free", "list"}
    <3>1. Holders = {}
      BY <2>1, <2>4
    <3>2. Cardinality(Holders) = 0
      BY <3>1, FS_EmptySet
    <3> QED
      BY <1>2, <1>6, <2>4, <3>2
  <2> QED
    BY <2>2, <2>3, <2>4 DEF Kinds
<1> QED
  BY <1>2, <1>3, <1>5, <1>7 DEF NodesAccounted

\* Every node is in exactly one place, however push, pop and peek interleave: the list
\* from m_front never loops, m_back is on it, and no node is lost or used twice.
THEOREM NodesAreAccounted == Spec => []NodesAccounted
<1>1. QueueInv => NodesAccounted
  BY NodesAreCounted
<1> QED
  BY <1>1, QueueInvHolds, PTL

-----------------------------------------------------------------------------
(* The queue is first-in first-out                                         *)

\* v visits K + 1 nodes, each by the link of the one before.
Follows(K, v) ==
  /\ v \in [0 .. K -> Node]
  /\ \A i \in 1 .. K : next[v[i - 1]].handle = v[i]

\* The step keeps the links v follows.
StillLinked(K, v) == \A i \in 1 .. K : next'[v[i - 1]].handle = next[v[i - 1]].handle

\* The nodes from m_front on, and that the elements after the first are the contents.
Listing(K, v) ==
  /\ Follows(K, v) /\ v[0] = front.handle /\ next[v[K]].handle = Null
  /\ \A i \in 1 .. K : elements[v[i]] \in Value
  /\ \A i \in 0 .. K, t \in Threads : pc[t] \in Copying => v[i] # node[t]
  /\ Contents = [i \in 1 .. K |-> elements[v[i]]]

Listed == \E K \in Nat : \E v \in [0 .. K -> Node] : Listing(K, v)

\* The nodes of the list, in the order of the walk.
LEMMA ListIsListed == QueueInv => Listed
<1> SUFFICES ASSUME QueueInv PROVE Listed
  OBVIOUS
<1>0. TypeOK /\ NodesPlaced
  BY DEF QueueInv
<1>1. PICK kind \in [Node -> Kinds], owner \in [Node -> Owners], pos \in [Node -> Nat] :
        Layout(kind, owner, pos)
  BY <1>0 DEF NodesPlaced
<1> DEFINE w == Walk(front.handle)
<1>2. /\ \A i \in 0 .. NodeCount : w[i] # Null =>
           w[i] \in Node /\ kind[w[i]] = "list" /\ pos[w[i]] = i
      /\ w[NodeCount] = Null
  BY <1>0, <1>1, ListWalk
<1>3. /\ w[0] = front.handle /\ w[0] # Null
      /\ \A i \in 1 .. NodeCount : w[i] = IF w[i - 1] = Null THEN Null ELSE next[w[i - 1]].handle
  <2>1. LinkTypes /\ front.handle \in Node
    BY <1>0, ListHandles, TypeParts DEF LinkTypes, TaggedHandle, Handle
  <2> QED
    BY <2>1, WalkEquations, UnsetType
<1>4. NodeCount \in Nat \ {0}
  BY QueueAssumption
<1> HIDE DEF w
<1>5. PICK k \in 1 .. NodeCount : w[k] = Null /\ \A j \in 1 .. NodeCount : w[j] = Null => k <= j
  <2> DEFINE S == {j \in 1 .. NodeCount : w[j] = Null}
  <2>1. S \in SUBSET Nat /\ S # {}
    BY <1>2, <1>4
  <2>2. PICK k \in S : \A j \in S : k <= j
    <3> HIDE DEF S
    <3> QED
      BY <2>1, LeastMember
  <2> QED
    BY <2>2
<1>6. \A j \in 1 .. NodeCount : w[j] # Null => j < k
  <2> DEFINE S == {j \in 1 .. NodeCount : w[j] # Null /\ k <= j}
  <2>1. S = {}
    <3> SUFFICES ASSUME S # {} PROVE FALSE
      OBVIOUS
    <3>1. S \in SUBSET Nat
      OBVIOUS
    <3>2. PICK j \in S : \A i \in S : j <= i
      <4> HIDE DEF S
      <4> QED
        BY <3>1, LeastMember
    <3>3. j # k /\ j - 1 \in 1 .. NodeCount /\ k <= j - 1 /\ j - 1 \notin S
      BY <1>4, <1>5, <3>2
    <3>4. w[j - 1] = Null
      BY <3>3
    <3> QED
      BY <1>3, <3>2, <3>4
  <2> QED
    BY <1>4, <1>5, <2>1
<1> DEFINE K == k - 1
           v == [i \in 0 .. K |-> w[i]]
<1>7. K \in Nat /\ \A i \in 0 .. K : i \in 0 .. NodeCount /\ w[i] # Null
  BY <1>3, <1>4, <1>5
<1>8. v \in [0 .. K -> Node] /\ v[0] = front.handle
  BY <1>2, <1>3, <1>7
<1>9. \A i \in 0 .. K : v[i] = w[i] /\ kind[v[i]] = "list" /\ pos[v[i]] = i
  BY <1>2, <1>7
<1>10. ASSUME NEW i \in 1 .. K PROVE next[v[i - 1]].handle = v[i]
  <2>1. i - 1 \in 0 .. K /\ i \in 0 .. K /\ i \in 1 .. NodeCount
    BY <1>7
  <2> QED
    BY <1>3, <1>7, <1>9, <2>1
<1>11. next[v[K]].handle = Null
  BY <1>3, <1>5, <1>7, <1>9
<1>12. ASSUME NEW i \in 1 .. K PROVE elements[v[i]] \in Value
  <2>1. i \in 0 .. K /\ i # 0 /\ v[i] \in Node
    BY <1>8
  <2>2. Linked(kind, owner, v[i]) /\ pos[v[i]] # 0
    BY <1>9, <2>1 DEF Linked
  <2> QED
    BY <1>1, <2>1, <2>2 DEF Layout, Filled
<1>13. \A i \in 0 .. K, t \in Threads : pc[t] \in Copying => v[i] # node[t]
  <2>1. \A t \in Threads : pc[t] \in Copying => kind[node[t]] = "private"
    BY <1>1 DEF Layout, PrivateNodes
  <2> QED
    BY <1>9, <2>1
<1>14. Contents = [i \in 1 .. K |-> elements[v[i]]]
  <2>1. {j \in 1 .. NodeCount : w[j] # Null} = 1 .. K
    BY <1>4, <1>5, <1>6, <1>7
  <2>2. Cardinality(1 .. K) = K
    BY <1>7, FS_Interval
  <2>3. Contents = [i \in 1 .. Cardinality({j \in 1 .. NodeCount : w[j] # Null}) |-> elements[w[i]]]
    BY DEF Contents, w
  <2>4. Contents = [i \in 1 .. K |-> elements[w[i]]]
    BY <2>1, <2>2, <2>3
  <2>5. \A i \in 1 .. K : v[i] = w[i]
    OBVIOUS
  <2> QED
    BY <2>4, <2>5
<1> HIDE DEF v, K
<1>15. Listing(K, v)
  BY <1>8, <1>10, <1>11, <1>12, <1>13, <1>14 DEF Listing, Follows
<1> QED
  BY <1>7, <1>8, <1>15 DEF Listed

\* Two walks from the same node, before and after a step that keeps the links of the
\* first but its last, go the same way.
LEMMA SameWalk ==
  ASSUME NEW K \in Nat, NEW L \in Nat, NEW v, NEW w,
         Follows(K, v), Follows(L, w)', StillLinked(K, v),
         v[0] = w[0], next'[w[L]].handle = Null
  PROVE  /\ K <= L /\ \A i \in 0 .. K : w[i] = v[i]
         /\ K = L <=> next'[v[K]].handle = Null
<1> USE DEF Follows, StillLinked
<1> DEFINE Wrong == {i \in 0 .. K : ~(i <= L /\ w[i] = v[i])}
<1>1. Wrong = {}
  <2> SUFFICES ASSUME Wrong # {} PROVE FALSE
    OBVIOUS
  <2>1. Wrong \in SUBSET Nat
    OBVIOUS
  <2>2. PICK k \in Wrong : \A j \in Wrong : k <= j
    <3> HIDE DEF Wrong
    <3> QED
      BY <2>1, LeastMember
  <2>3. k \in 1 .. K /\ k - 1 \in 0 .. K /\ k - 1 \notin Wrong
    BY <2>2
  <2>4. k - 1 <= L /\ w[k - 1] = v[k - 1] /\ k - 1 \in 0 .. L
    BY <2>3
  <2>5. next'[w[k - 1]].handle = v[k] /\ v[k] \in Node
    BY <2>3, <2>4
  <2>6. k - 1 # L
    BY <2>5, UnsetType
  <2>7. k \in 1 .. L
    BY <2>3, <2>4, <2>6
  <2>8. w[k] = v[k]
    BY <2>5, <2>7
  <2> QED
    BY <2>2, <2>7, <2>8
<1>2. K <= L /\ \A i \in 0 .. K : w[i] = v[i]
  <2>1. \A i \in 0 .. K : i <= L /\ w[i] = v[i]
    BY <1>1
  <2>2. K \in 0 .. K
    OBVIOUS
  <2> QED
    BY <2>1, <2>2
<1>3. K # L => K + 1 \in 1 .. L /\ w[K + 1] = next'[v[K]].handle /\ w[K + 1] \in Node
  <2> SUFFICES ASSUME K # L PROVE K + 1 \in 1 .. L /\ w[K + 1] = next'[v[K]].handle /\ w[K + 1] \in Node
    OBVIOUS
  <2>1. K + 1 \in 1 .. L /\ K + 1 \in 0 .. L /\ (K + 1) - 1 = K
    BY <1>2
  <2> QED
    BY <1>2, <2>1
<1> QED
  BY <1>2, <1>3, UnsetType

\* An element is written only by the push whose node it is in.
LEMMA ElementsKept ==
  ASSUME QueueInv, NEW t \in Threads, Act(t), NEW n \in Node
  PROVE  elements'[n] = elements[n] \/ (pc[t] \in Copying /\ n = node[t])
<1>0. TypeOK
  BY DEF QueueInv
<1>1. CASE PushCopy(t) \/ PushReset(t)
  BY <1>0, <1>1, TypeParts DEF PushCopy, PushReset, Copying
<1>2. CASE ~PushCopy(t) /\ ~PushReset(t)
  BY <1>2 DEF Act, Running, PushAllocate, PushBack, PushNext, PushVerify, PushLink,
       PushHelp, PushSwing, ReadCall, PopFront, PopBack, PopNext, PopVerify,
       PopEmpty, PopHelp, PopCopy, PopCopied, PopTake, PopFree, PeekVerify, shared
<1> QED
  BY <1>1, <1>2

\* A step that leaves m_front and the links of the list alone leaves its contents.
LEMMA ContentsKept ==
  ASSUME QueueInv, QueueInv', NEW t \in Threads, Act(t),
         NEW K \in Nat, NEW v \in [0 .. K -> Node], Listing(K, v),
         front' = front, \A i \in 0 .. K : next'[v[i]] = next[v[i]]
  PROVE  Contents' = Contents
<1>1. PICK L \in Nat : \E w \in [0 .. L -> Node] : Listing(L, w)'
  <2>1. Listed'
    BY ListIsListed, PTL
  <2> QED
    BY <2>1 DEF Listed
<1>2. PICK w \in [0 .. L -> Node] : Listing(L, w)'
  BY <1>1
<1>3. v[0] = w[0]
  BY <1>2 DEF Listing
<1>4. Follows(K, v) /\ Follows(L, w)' /\ next'[w[L]].handle = Null /\ next'[v[K]].handle = Null
  BY <1>2 DEF Listing
<1>5. StillLinked(K, v)
  <2>1. \A i \in 1 .. K : i - 1 \in 0 .. K
    OBVIOUS
  <2> QED
    BY <2>1 DEF StillLinked
<1>6. K = L /\ \A i \in 0 .. K : w[i] = v[i]
  BY <1>3, <1>4, <1>5, SameWalk
<1>7. \A i \in 1 .. K : elements'[w[i]] = elements[v[i]]
  <2>1. \A i \in 1 .. K : v[i] \in Node /\ (pc[t] \in Copying => v[i] # node[t])
    BY DEF Listing
  <2> QED
    BY <1>6, <2>1, ElementsKept
<1>8. Contents' = [i \in 1 .. L |-> elements'[w[i]]] /\ Contents = [i \in 1 .. K |-> elements[v[i]]]
  BY <1>2 DEF Listing
<1> QED
  BY <1>6, <1>7, <1>8

\* Dropping the first element.
LEMMA Shorter ==
  ASSUME NEW K \in Nat \ {0}, NEW s \in [1 .. K -> Value],
         NEW r \in [1 .. K - 1 -> Value], \A i \in 1 .. K - 1 : r[i] = s[i + 1]
  PROVE  s # <<>> /\ Head(s) = s[1] /\ Tail(s) = r
<1>1. s \in Seq(Value) /\ Len(s) = K /\ r \in Seq(Value) /\ Len(r) = K - 1
  OBVIOUS
<1>2. s # <<>> /\ Head(s) = s[1]
  BY <1>1
<1>3. Tail(s) \in Seq(Value) /\ Len(Tail(s)) = K - 1 /\ \A i \in 1 .. K - 1 : Tail(s)[i] = s[i + 1]
  BY <1>1, <1>2
<1>4. \A i \in 1 .. K - 1 : Tail(s)[i] = r[i]
  BY <1>3
<1> QED
  BY <1>1, <1>2, <1>3, <1>4

\* Appending elements.
LEMMA Longer ==
  ASSUME NEW V, NEW s \in Seq(V), NEW r \in Seq(V), Len(s) < Len(r),
         \A i \in 1 .. Len(s) : r[i] = s[i]
  PROVE  SubSeq(r, 1, Len(s)) = s
<1>1. SubSeq(r, 1, Len(s)) \in Seq(V) /\ Len(SubSeq(r, 1, Len(s))) = Len(s)
  OBVIOUS
<1>2. \A i \in 1 .. Len(s) : SubSeq(r, 1, Len(s))[i] = s[i]
  OBVIOUS
<1> QED
  BY <1>1, <1>2

\* A push that installs its link behind the last node of the list: its element is now
\* in the queue, with those of the nodes that were linked behind it before.
LEMMA LinkPushes ==
  ASSUME QueueInv, QueueInv', NEW t \in Threads, PushLink(t),
         next[seenBack[t].handle] = seenNext[t]
  PROVE  Contents' = Contents \/ Fifo!Push
<1>0. TypeOK /\ Locals /\ NodesPlaced /\ Act(t) /\ TypeOK' /\ LocalsOf(t)
  BY DEF QueueInv, Act, Running, Locals
<1>1. PICK K \in Nat : \E v \in [0 .. K -> Node] : Listing(K, v)
  BY ListIsListed DEF Listed
<1>2. PICK v \in [0 .. K -> Node] : Listing(K, v)
  BY <1>1
<1>3. PICK L \in Nat : \E w \in [0 .. L -> Node] : Listing(L, w)'
  <2>1. Listed'
    BY ListIsListed, PTL
  <2> QED
    BY <2>1 DEF Listed
<1>4. PICK w \in [0 .. L -> Node] : Listing(L, w)'
  BY <1>3
<1>5. PICK last \in Node : last = seenBack[t].handle
  BY <1>0 DEF PushLink, NodesPlaced, Staleness, Aims, Aiming
<1>6. next[last].handle = Null /\ node[t] # Null
  BY <1>0, <1>5 DEF PushLink, LocalsOf, Aiming
<1>7. front' = front /\ elements' = elements /\ result' = result
  BY DEF PushLink
<1>8. next'[last].handle = node[t] /\ \A x \in Node : x # last => next'[x] = next[x]
  BY <1>0, <1>5, TypeParts DEF PushLink, Tagged
<1>9. CASE \A i \in 0 .. K : v[i] # last
  <2>1. \A i \in 0 .. K : next'[v[i]] = next[v[i]]
    BY <1>8, <1>9
  <2> QED
    BY <1>0, <1>2, <1>7, <2>1, ContentsKept
<1>10. CASE \E i \in 0 .. K : v[i] = last
  <2>1. \A i \in 1 .. K : v[i - 1] \in Node /\ v[i] \in Node /\ next[v[i - 1]].handle = v[i]
    BY <1>2 DEF Listing, Follows
  <2>2. \A i \in 1 .. K : v[i - 1] # last
    BY <1>6, <2>1, UnsetType
  <2>3. v[K] = last
    <3>1. PICK i \in 0 .. K : v[i] = last
      BY <1>10
    <3>2. i # K => i + 1 \in 1 .. K /\ (i + 1) - 1 = i
      OBVIOUS
    <3> QED
      BY <2>2, <3>1, <3>2
  <2>4. v[0] = w[0]
    BY <1>2, <1>4, <1>7 DEF Listing
  <2>5. Follows(K, v) /\ Follows(L, w)' /\ next'[w[L]].handle = Null
    BY <1>2, <1>4 DEF Listing
  <2>6. StillLinked(K, v)
    BY <1>8, <2>1, <2>2 DEF StillLinked
  <2>7. next'[v[K]].handle # Null
    BY <1>6, <1>8, <2>3
  <2>8. K < L /\ \A i \in 0 .. K : w[i] = v[i]
    <3>1. K <= L /\ K # L /\ \A i \in 0 .. K : w[i] = v[i]
      BY <2>4, <2>5, <2>6, <2>7, SameWalk
    <3> QED
      BY <3>1
  <2>9. /\ Contents = [i \in 1 .. K |-> elements[v[i]]]
        /\ \A i \in 1 .. K : elements[v[i]] \in Value
        /\ Contents' = [i \in 1 .. L |-> elements[w[i]]]
        /\ \A i \in 1 .. L : elements[w[i]] \in Value
    BY <1>2, <1>4, <1>7 DEF Listing
  <2>10. /\ Contents \in Seq(Value) /\ Len(Contents) = K
         /\ Contents' \in Seq(Value) /\ Len(Contents') = L
    <3>1. DOMAIN Contents = 1 .. K /\ \A i \in 1 .. K : Contents[i] \in Value
      BY <2>9
    <3>2. DOMAIN Contents' = 1 .. L /\ \A i \in 1 .. L : Contents'[i] \in Value
      BY <2>9
    <3>3. Contents \in [1 .. K -> Value] /\ Contents' \in [1 .. L -> Value]
      BY <2>9
    <3>4. ASSUME NEW n \in Nat, NEW s \in [1 .. n -> Value] PROVE s \in Seq(Value) /\ Len(s) = n
      OBVIOUS
    <3> QED
      BY <3>3, <3>4
  <2>11. \A i \in 1 .. K : Contents'[i] = Contents[i]
    BY <2>8, <2>9
  <2>12. SubSeq(Contents', 1, Len(Contents)) = Contents
    BY <2>8, <2>10, <2>11, Longer
  <2>13. \A i \in K + 1 .. L : Contents'[i] \in Value
    BY <2>10
  <2> QED
    BY <1>7, <2>8, <2>10, <2>12, <2>13 DEF Fifo!Push
<1> QED
  BY <1>9, <1>10

\* A pop that moves m_front takes the oldest element, and a peek that finds m_front as
\* it saw it has read the oldest element.
LEMMA OldestIsHead ==
  ASSUME QueueInv, NEW t \in Threads, pc[t] \in Holding, front = seenFront[t],
         NEW K \in Nat, NEW v \in [0 .. K -> Node], Listing(K, v)
  PROVE  K # 0 /\ v[1] = seenNext[t].handle
<1>0. TypeOK /\ Locals /\ FrontSeen /\ NodesPlaced
  BY DEF QueueInv
<1>1. seenNext[t].handle \in Node /\ next[front.handle].handle = seenNext[t].handle
  BY <1>0, OldestElement
<1>2. v[0] = front.handle /\ next[v[K]].handle = Null
  BY DEF Listing
<1>3. K # 0
  BY <1>1, <1>2, UnsetType
<1>4. 1 \in 1 .. K /\ 1 - 1 = 0
  BY <1>3
<1>5. next[v[1 - 1]].handle = v[1]
  BY <1>4 DEF Listing, Follows
<1> QED
  BY <1>1, <1>2, <1>3, <1>5

\* A pop whose compare-exchange of m_front succeeds takes the oldest element.
LEMMA TakePops ==
  ASSUME QueueInv, QueueInv', NEW t \in Threads, PopTake(t), front = seenFront[t]
  PROVE  Fifo!Pop(t) \/ Fifo!Drop
<1>0. /\ TypeOK /\ Locals /\ FrontSeen /\ Act(t) /\ LocalsOf(t)
      /\ pc[t] = "pop_take" /\ pc[t] \in Holding
  BY DEF QueueInv, Act, Running, Locals, PopTake, Holding
<1>1. PICK K \in Nat : \E v \in [0 .. K -> Node] : Listing(K, v)
  BY ListIsListed DEF Listed
<1>2. PICK v \in [0 .. K -> Node] : Listing(K, v)
  BY <1>1
<1>3. PICK L \in Nat : \E w \in [0 .. L -> Node] : Listing(L, w)'
  <2>1. Listed'
    BY ListIsListed, PTL
  <2> QED
    BY <2>1 DEF Listed
<1>4. PICK w \in [0 .. L -> Node] : Listing(L, w)'
  BY <1>3
<1>5. K # 0 /\ v[1] = seenNext[t].handle
  BY <1>0, <1>2, OldestIsHead
<1>6. front'.handle = v[1] /\ next' = next /\ elements' = elements
      /\ result' = [result EXCEPT ![t] = copy[t]]
  BY <1>5 DEF PopTake, Tagged
<1>7. PICK M \in Nat : M = K - 1
  BY <1>5
<1>8. PICK u \in [0 .. M -> Node] : \A i \in 0 .. M : u[i] = v[i + 1]
  <2> DEFINE g == [i \in 0 .. M |-> v[i + 1]]
  <2>1. g \in [0 .. M -> Node]
    BY <1>7
  <2> QED
    BY <2>1
<1>9. u[0] = w[0]
  BY <1>4, <1>6, <1>8 DEF Listing
<1>10. Follows(M, u)
  <2> SUFFICES ASSUME NEW i \in 1 .. M PROVE next[u[i - 1]].handle = u[i]
    BY DEF Follows
  <2>1. i + 1 \in 1 .. K /\ (i + 1) - 1 = i /\ u[i] = v[i + 1] /\ u[i - 1] = v[i]
    BY <1>7, <1>8
  <2>2. next[v[(i + 1) - 1]].handle = v[i + 1]
    BY <1>2, <2>1 DEF Listing, Follows
  <2> QED
    BY <2>1, <2>2
<1>11. StillLinked(M, u)
  BY <1>6 DEF StillLinked
<1>12. Follows(L, w)' /\ next'[w[L]].handle = Null
  BY <1>4 DEF Listing
<1>13. next'[u[M]].handle = Null
  <2>1. u[M] = v[K]
    BY <1>7, <1>8
  <2> QED
    BY <1>2, <1>6, <2>1 DEF Listing
<1>14. M = L /\ \A i \in 0 .. M : w[i] = u[i]
  BY <1>9, <1>10, <1>11, <1>12, <1>13, SameWalk
<1>15. PICK e \in [1 .. K -> Value] : \A i \in 1 .. K : e[i] = elements[v[i]]
  <2> DEFINE g == [i \in 1 .. K |-> elements[v[i]]]
  <2>1. g \in [1 .. K -> Value]
    BY <1>2 DEF Listing
  <2> QED
    BY <2>1
<1>16. Contents = e
  BY <1>2, <1>15 DEF Listing
<1>17. Contents' \in [1 .. K - 1 -> Value] /\ \A i \in 1 .. K - 1 : Contents'[i] = e[i + 1]
  <2>1. Contents' = [i \in 1 .. L |-> elements[w[i]]]
    BY <1>4, <1>6 DEF Listing
  <2>2. \A i \in 1 .. L : w[i] = v[i + 1] /\ i + 1 \in 1 .. K
    BY <1>7, <1>8, <1>14
  <2>3. \A i \in 1 .. L : elements[w[i]] = e[i + 1] /\ e[i + 1] \in Value
    BY <1>15, <2>2
  <2> QED
    BY <1>7, <1>14, <2>1, <2>3
<1>18. Contents # <<>> /\ Head(Contents) = e[1] /\ Contents' = Tail(Contents)
  <2>1. K \in Nat \ {0}
    BY <1>5
  <2>2. e # <<>> /\ Head(e) = e[1] /\ Tail(e) = Contents'
    BY <1>17, <2>1, Shorter
  <2> QED
    BY <1>16, <2>2
<1>19. e[1] = elements[seenNext[t].handle]
  BY <1>5, <1>15
<1>20. CASE op[t] = "drop"
  <2>1. copy[t] = None /\ result[t] = None
    BY <1>0, <1>20 DEF LocalsOf, Popping
  <2>2. result' = result
    BY <1>0, <1>6, <2>1, TypeParts
  <2> QED
    BY <1>18, <2>2 DEF Fifo!Drop
<1>21. CASE op[t] # "drop"
  <2>1. copy[t] = Head(Contents)
    BY <1>0, <1>18, <1>19, <1>21, CopiedElement
  <2> QED
    BY <1>6, <1>18, <2>1 DEF Fifo!Pop
<1> QED
  BY <1>20, <1>21

\* Every step of a call is one of the abstract queue, or changes nothing there.
LEMMA ActIsFifo ==
  ASSUME QueueInv, QueueInv', NEW t \in Threads, Act(t)
  PROVE  Fifo!Next \/ (Contents' = Contents /\ result' = result)
<1>0. TypeOK /\ Locals /\ NodesPlaced /\ FrontSeen
  BY DEF QueueInv
<1>1. PICK K \in Nat : \E v \in [0 .. K -> Node] : Listing(K, v)
  BY ListIsListed DEF Listed
<1>2. PICK v \in [0 .. K -> Node] : Listing(K, v)
  BY <1>1
<1>3. ASSUME front' = front, next' = next
      PROVE  Contents' = Contents
  BY <1>2, <1>3, ContentsKept
<1>4. CASE PushAllocate(t) \/ ReadCall(t)
  <2>1. front' = front /\ next' = next /\ result' = [result EXCEPT ![t] = None]
    BY <1>4 DEF PushAllocate, ReadCall, Call, shared
  <2> QED
    BY <1>3, <2>1 DEF Fifo!Next, Fifo!Forget
<1>5. CASE PushReset(t)
  <2>1. /\ front' = front /\ result' = result /\ pc[t] \in Copying
        /\ \A x \in Node : x # node[t] => next'[x] = next[x]
    BY <1>0, <1>5, TypeParts DEF PushReset, Copying
  <2>2. \A i \in 0 .. K : v[i] \in Node /\ v[i] # node[t]
    BY <1>2, <2>1 DEF Listing
  <2>3. \A i \in 0 .. K : next'[v[i]] = next[v[i]]
    BY <2>1, <2>2
  <2> QED
    BY <1>2, <2>1, <2>3, ContentsKept
<1>6. CASE PushLink(t)
  <2>1. front' = front /\ result' = result
    BY <1>6 DEF PushLink
  <2>2. CASE next[seenBack[t].handle] = seenNext[t]
    BY <1>6, <2>1, <2>2, LinkPushes DEF Fifo!Next
  <2>3. CASE next[seenBack[t].handle] # seenNext[t]
    <3>1. next' = next
      BY <1>6, <2>3 DEF PushLink
    <3> QED
      BY <1>3, <2>1, <3>1
  <2> QED
    BY <2>2, <2>3
<1>7. CASE PopTake(t)
  <2>1. CASE front = seenFront[t]
    BY <1>7, <2>1, TakePops DEF Fifo!Next
  <2>2. CASE front # seenFront[t]
    <3>1. front' = front /\ next' = next /\ result' = result
      BY <1>7, <2>2 DEF PopTake
    <3> QED
      BY <1>3, <3>1
  <2> QED
    BY <2>1, <2>2
<1>8. CASE PeekVerify(t)
  <2>1. front' = front /\ next' = next
    BY <1>8 DEF PeekVerify, shared
  <2>2. CASE front = seenFront[t]
    <3>1. pc[t] = "peek_verify" /\ pc[t] \in Holding /\ result' = [result EXCEPT ![t] = copy[t]]
      BY <1>8, <2>2 DEF PeekVerify, Holding
    <3>2. K # 0 /\ v[1] = seenNext[t].handle
      BY <1>2, <2>2, <3>1, OldestIsHead
    <3>3. op[t] = "peek"
      BY <1>0, <3>1 DEF Locals, LocalsOf
    <3>4. copy[t] = elements[v[1]]
      BY <1>0, <2>2, <3>1, <3>2, <3>3, CopiedElement
    <3>5. Contents = [i \in 1 .. K |-> elements[v[i]]] /\ \A i \in 1 .. K : elements[v[i]] \in Value
      BY <1>2 DEF Listing
    <3>6. Contents \in [1 .. K -> Value] /\ Contents[1] = elements[v[1]]
      BY <3>2, <3>5
    <3>7. Contents \in Seq(Value) /\ Len(Contents) = K
      BY <3>6
    <3>8. Contents # <<>> /\ Head(Contents) = copy[t]
      BY <3>2, <3>4, <3>6, <3>7
    <3> QED
      BY <1>3, <2>1, <3>1, <3>8 DEF Fifo!Next, Fifo!Peek
  <2>3. CASE front # seenFront[t]
    <3>1. result' = result
      BY <1>8, <2>3 DEF PeekVerify
    <3> QED
      BY <1>3, <2>1, <3>1
  <2> QED
    BY <2>2, <2>3
<1>9. CASE /\ ~PushAllocate(t) /\ ~ReadCall(t) /\ ~PushReset(t) /\ ~PushLink(t)
           /\ ~PopTake(t) /\ ~PeekVerify(t)
  <2>1. front' = front /\ next' = next /\ result' = result
    BY <1>9 DEF Act, Running, PushCopy, PushBack, PushNext, PushVerify,
       PushHelp, PushSwing, PopFront, PopBack, PopNext, PopVerify,
       PopEmpty, PopHelp, PopCopy, PopCopied, PopFree, shared
  <2> QED
    BY <1>3, <2>1
<1> QED
  BY <1>4, <1>5, <1>6, <1>7, <1>8, <1>9

\* The list with its dummy, its stalled pushes and helping threads is a first-in
\* first-out queue: a pop returns the oldest element, and each element leaves once.
THEOREM QueueIsFifo == Spec => ImplementsFifo
<1>1. Init => Fifo!Init
  <2> SUFFICES ASSUME Init PROVE Fifo!Init
    OBVIOUS
  <2>1. PICK K \in Nat : \E v \in [0 .. K -> Node] : Listing(K, v)
    BY InitInv, ListIsListed DEF Listed
  <2>2. PICK v \in [0 .. K -> Node] : Listing(K, v)
    BY <2>1
  <2>3. \A n \in Node : next[n].handle = Null
    BY UnsetType DEF Init
  <2>4. K = 0
    <3> SUFFICES ASSUME K # 0 PROVE FALSE
      OBVIOUS
    <3>1. 1 \in 1 .. K /\ 1 - 1 = 0 /\ v[0] \in Node /\ v[1] \in Node
      OBVIOUS
    <3>2. next[v[1 - 1]].handle = v[1]
      BY <2>2, <3>1 DEF Listing, Follows
    <3> QED
      BY <2>3, <3>1, <3>2, UnsetType
  <2>5. Contents = <<>>
    BY <2>2, <2>4 DEF Listing
  <2> QED
    BY <2>5 DEF Init, Fifo!Init
<1>2. QueueInv /\ QueueInv' /\ [Next]_vars => [Fifo!Next]_(Fifo!vars)
  <2> SUFFICES ASSUME QueueInv, QueueInv', [Next]_vars
               PROVE  Fifo!Next \/ (Contents' = Contents /\ result' = result)
    BY DEF Fifo!vars
  <2>1. CASE \E t \in Threads : Act(t)
    BY <2>1, ActIsFifo
  <2>2. CASE UNCHANGED vars
    BY <2>2 DEF vars, shared, Contents, Walk
  <2> QED
    BY <2>1, <2>2, NextCases
<1> QED
  BY <1>1, <1>2, QueueInvHolds, PTL DEF Spec, ImplementsFifo, Fifo!Spec
=============================================================================
