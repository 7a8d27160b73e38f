------------------------ MODULE LockFreePool_proofs ------------------------
(***************************************************************************)
(* Proofs about LockFreePool for any set of threads, any pool size and any *)
(* number of calls: the inductive invariant PoolInv, and the refinement of *)
(* NodePool.                                                               *)
(***************************************************************************)
EXTENDS LockFreePool, FiniteSetTheorems, TLAPS

-----------------------------------------------------------------------------
(* Types, and the handles that index the links                             *)

LEMMA TaggedParts ==
  ASSUME NEW x \in TaggedHandle
  PROVE  x.tag \in Nat /\ x.handle \in Handle /\ x = Tagged(x.tag, x.handle)
BY DEF TaggedHandle, Tagged

LEMMA TaggedType ==
  ASSUME NEW tag \in Nat, NEW handle \in Handle
  PROVE  /\ Tagged(tag, handle) \in TaggedHandle
         /\ Tagged(tag, handle).tag = tag
         /\ Tagged(tag, handle).handle = handle
BY DEF TaggedHandle, Tagged

LEMMA TypeStep == TypeOK /\ HandlesValid /\ [Next]_vars => TypeOK' /\ HandlesValid'
<1> SUFFICES ASSUME TypeOK, HandlesValid, [Next]_vars PROVE TypeOK' /\ HandlesValid'
  OBVIOUS
<1> USE DEF TypeOK, HandlesValid, Goto, Call, Steps, PopSteps, PushSteps
<1>0. Node \subseteq Handle
  BY DEF Handle
<1>1. ASSUME NEW t \in Threads, AllocateNode(t) PROVE TypeOK' /\ HandlesValid'
  BY <1>1 DEF AllocateNode
<1>2. ASSUME NEW t \in Threads, PopLoad(t) PROVE TypeOK' /\ HandlesValid'
  <2>1. head.handle # InvalidHandle => head.handle \in Node
    BY TaggedParts DEF Handle
  <2> QED
    BY <1>2, <2>1 DEF PopLoad
<1>3. ASSUME NEW t \in Threads, PopNext(t) PROVE TypeOK' /\ HandlesValid'
  <2>1. next[seen[t].handle] \in TaggedHandle
    BY <1>3 DEF PopNext
  <2>2. Tagged(Bump(seen[t].tag), next[seen[t].handle].handle) \in TaggedHandle
    BY <2>1, TaggedParts, TaggedType DEF Bump
  <2> QED
    BY <1>3, <2>2 DEF PopNext
<1>4. ASSUME NEW t \in Threads, PopCas(t) PROVE TypeOK' /\ HandlesValid'
  <2>1. seen[t].handle \in Handle
    BY TaggedParts
  <2> QED
    BY <1>4, <2>1 DEF PopCas
<1>5. ASSUME NEW t \in Threads, PopReturn(t) PROVE TypeOK' /\ HandlesValid'
  <2>1. node[t] # InvalidHandle => node[t] \in Node
    BY DEF Handle
  <2> QED
    BY <1>5, <2>1 DEF PopReturn
<1>6. ASSUME NEW t \in Threads, FreeNode(t) PROVE TypeOK' /\ HandlesValid'
  <2>1. PICK n \in held :
          /\ held' = held \ {n}
          /\ marked' = [marked EXCEPT ![n] = FALSE]
          /\ node' = [node EXCEPT ![t] = n]
          /\ nextTag' = [nextTag EXCEPT ![t] = Bump(next[n].tag)]
    BY <1>6 DEF FreeNode
  <2>2. Bump(next[n].tag) \in Nat
    BY TaggedParts DEF Bump
  <2> QED
    BY <1>0, <1>6, <2>1, <2>2 DEF FreeNode
<1>7. ASSUME NEW t \in Threads, PushLoad(t) PROVE TypeOK' /\ HandlesValid'
  BY <1>7 DEF PushLoad
<1>8. ASSUME NEW t \in Threads, PushLink(t) PROVE TypeOK' /\ HandlesValid'
  <2>1. node[t] \in Node
    BY <1>8 DEF PushLink
  <2>2. /\ Tagged(nextTag[t], seen[t].handle) \in TaggedHandle
        /\ Tagged(Bump(seen[t].tag), node[t]) \in TaggedHandle
    BY <1>0, <2>1, TaggedParts, TaggedType DEF Bump
  <2> QED
    BY <1>8, <2>2 DEF PushLink
<1>9. ASSUME NEW t \in Threads, PushCas(t) PROVE TypeOK' /\ HandlesValid'
  BY <1>9 DEF PushCas
<1>10. CASE UNCHANGED vars
  BY <1>10 DEF vars
<1> QED
  BY <1>1, <1>2, <1>3, <1>4, <1>5, <1>6, <1>7, <1>8, <1>9, <1>10 DEF Next, Running

LEMMA InitInv == Init => PoolInv
<1> SUFFICES ASSUME Init PROVE PoolInv
  OBVIOUS
<1> USE PoolAssumption DEF Init, InvalidHandle, Node
<1>1. TypeOK /\ HandlesValid
  BY DEF TypeOK, HandlesValid, TaggedHandle, Tagged, Handle, Steps, PopSteps, PushSteps
<1>2. \A t \in Threads : InHand(t) = {}
  BY DEF InHand, PushSteps
<1>3. Owned = {}
  BY <1>2 DEF Owned
<1>4. OneOwner /\ MarksAgree
  BY <1>2 DEF OneOwner, MarksAgree
<1>5. FreeListShape
  <2> DEFINE f == [i \in 1 .. NodeCount |-> NodeCount - i]
  <2>1. f \in [1 .. NodeCount -> Node]
    OBVIOUS
  <2>2. FreeListIs(NodeCount, f)
    <3>1. \A n \in Node : NodeCount - n \in 1 .. NodeCount /\ f[NodeCount - n] = n
      OBVIOUS
    <3>2. \A n \in Node : \E i \in 1 .. NodeCount : f[i] = n
      BY <3>1
    <3>3. head.handle = IF NodeCount = 0 THEN InvalidHandle ELSE f[NodeCount]
      BY DEF Tagged
    <3>4. ASSUME NEW i \in 1 .. NodeCount
          PROVE  next[f[i]].handle = IF i = 1 THEN InvalidHandle ELSE f[i - 1]
      <4>1. f[i] \in Node /\ f[i] = NodeCount - i
        OBVIOUS
      <4>2. next[f[i]] = Tagged(0, IF f[i] = NodeCount - 1 THEN InvalidHandle ELSE f[i] + 1)
        BY <4>1
      <4>3. next[f[i]].handle = IF f[i] = NodeCount - 1 THEN InvalidHandle ELSE f[i] + 1
        BY <4>2 DEF Tagged
      <4>4. CASE i = 1
        BY <4>1, <4>3, <4>4
      <4>5. CASE i # 1
        <5>1. i - 1 \in 1 .. NodeCount /\ f[i - 1] = NodeCount - (i - 1)
          BY <4>5
        <5> QED
          BY <4>1, <4>3, <4>5, <5>1
      <4> QED
        BY <4>4, <4>5
    <3>5. \A i, j \in 1 .. NodeCount : f[i] = f[j] => i = j
      OBVIOUS
    <3>6. \A n \in Node : n \notin Owned <=> \E i \in 1 .. NodeCount : f[i] = n
      BY <1>3, <3>2
    <3> HIDE DEF f
    <3> QED
      BY <3>3, <3>4, <3>5, <3>6 DEF FreeListIs
  <2>3. NodeCount \in 0 .. NodeCount
    OBVIOUS
  <2> HIDE DEF f
  <2> QED
    BY <2>1, <2>2, <2>3 DEF FreeListShape
<1>6. SeenIsPast /\ UpdateIsFresh
  BY DEF SeenIsPast, UpdateIsFresh
<1> QED
  BY <1>1, <1>4, <1>5, <1>6 DEF PoolInv

-----------------------------------------------------------------------------
(* Who owns what after each kind of step                                   *)

LEMMA OwnedMembers ==
  ASSUME NEW n
  PROVE  n \in Owned <=> n \in held \/ \E t \in Threads : n \in InHand(t)
BY DEF Owned

\* A node that one thread acquires without giving another up.
LEMMA NodeTaken ==
  ASSUME NEW t \in Threads, NEW n, n \notin Owned, OneOwner, held' = held,
         InHand(t) = {}, InHand(t)' = {n},
         \A u \in Threads \ {t} : InHand(u)' = InHand(u)
  PROVE  Owned' = Owned \cup {n} /\ OneOwner'
<1>1. \A m : m \in Owned <=> m \in held \/ \E u \in Threads : m \in InHand(u)
  BY OwnedMembers
<1>2. \A m : m \in Owned' <=> m \in held' \/ \E u \in Threads : m \in InHand(u)'
  BY DEF Owned
<1>3. \A m : m \in Owned' <=> m \in Owned \/ m = n
  BY <1>1, <1>2
<1>4. n \notin held /\ \A u \in Threads : n \notin InHand(u)
  BY <1>1
<1>5. OneOwner'
  BY <1>4 DEF OneOwner
<1> QED
  BY <1>3, <1>5

\* A node that one thread gives up.
LEMMA NodeGiven ==
  ASSUME NEW t \in Threads, NEW n, OneOwner, held' = held,
         InHand(t) = {n}, InHand(t)' = {},
         \A u \in Threads \ {t} : InHand(u)' = InHand(u)
  PROVE  Owned' = Owned \ {n} /\ OneOwner'
<1>1. \A m : m \in Owned <=> m \in held \/ \E u \in Threads : m \in InHand(u)
  BY OwnedMembers
<1>2. \A m : m \in Owned' <=> m \in held' \/ \E u \in Threads : m \in InHand(u)'
  BY DEF Owned
<1>3. n \notin held /\ \A u \in Threads \ {t} : n \notin InHand(u)
  BY DEF OneOwner
<1>4. \A m : m \in Owned' <=> m \in Owned /\ m # n
  BY <1>1, <1>2, <1>3
<1>5. OneOwner'
  BY DEF OneOwner
<1> QED
  BY <1>4, <1>5

\* A step that moves no node between hands leaves ownership alone.
LEMMA SameOwners ==
  ASSUME held' = held, \A t \in Threads : InHand(t)' = InHand(t)
  PROVE  Owned' = Owned
BY DEF Owned

\* A step that touches no owner, no byte, no head and no link of a free node
\* keeps the free list.
LEMMA SameFreeList ==
  ASSUME FreeListShape, TypeOK, Owned' = Owned, head' = head,
         \A n \in Node \ Owned : next'[n] = next[n]
  PROVE  FreeListShape'
<1>1. PICK len \in 0 .. NodeCount : \E f \in [1 .. len -> Node] : FreeListIs(len, f)
  BY DEF FreeListShape
<1>2. PICK f \in [1 .. len -> Node] : FreeListIs(len, f)
  BY <1>1
<1>3. \A i \in 1 .. len : f[i] \in Node \ Owned
  BY <1>2 DEF FreeListIs
<1>4. FreeListIs(len, f)'
  BY <1>2, <1>3 DEF FreeListIs
<1> QED
  BY <1>4 DEF FreeListShape

\* Nodes that stay in the same hands keep their single owner and their byte.
LEMMA SameHands ==
  ASSUME OneOwner, MarksAgree, held' = held, marked' = marked,
         \A t \in Threads : InHand(t)' = InHand(t)
  PROVE  OneOwner' /\ MarksAgree' /\ Owned' = Owned
<1>1. Owned' = Owned
  BY SameOwners
<1> QED
  BY <1>1 DEF OneOwner, MarksAgree

\* A duplicate-free list of nodes is no longer than the pool.
LEMMA ListBound ==
  ASSUME NEW len \in Nat, NEW f \in [1 .. len -> Node],
         \A i, j \in 1 .. len : f[i] = f[j] => i = j
  PROVE  len \in 0 .. NodeCount
<1>1. IsFiniteSet(1 .. len) /\ Cardinality(1 .. len) = len
  BY FS_Interval
<1>2. IsFiniteSet(Node) /\ Cardinality(Node) = NodeCount
  BY FS_Interval, PoolAssumption DEF Node
<1>3. ~(Cardinality(Node) < Cardinality(1 .. len))
  BY <1>1, <1>2, FS_PigeonHole
<1> QED
  BY <1>1, <1>2, <1>3, PoolAssumption

-----------------------------------------------------------------------------
(* What each action keeps beyond the types                                 *)

Shape == OneOwner /\ MarksAgree /\ FreeListShape /\ SeenIsPast /\ UpdateIsFresh

LEMMA AllocateNodeShape ==
  ASSUME PoolInv, NEW t \in Threads, AllocateNode(t)
  PROVE  Shape'
<1> USE DEF PoolInv, TypeOK, AllocateNode, Call, Goto
<1>1. pc'[t] = "pop_load" /\ \A u \in Threads \ {t} : pc'[u] = pc[u]
  OBVIOUS
<1>2. \A u \in Threads : InHand(u)' = InHand(u)
  BY <1>1 DEF InHand, PushSteps
<1>3. OneOwner' /\ MarksAgree' /\ Owned' = Owned
  BY <1>2, SameHands
<1>4. FreeListShape'
  BY <1>3, SameFreeList
<1>5. SeenIsPast' /\ UpdateIsFresh'
  BY <1>1 DEF SeenIsPast, UpdateIsFresh
<1> QED
  BY <1>3, <1>4, <1>5 DEF Shape

LEMMA PopLoadShape ==
  ASSUME PoolInv, NEW t \in Threads, PopLoad(t)
  PROVE  Shape'
<1> USE DEF PoolInv, TypeOK, PopLoad, Goto
<1>1. /\ pc'[t] \in {"pop_cas", "pop_next"}
      /\ pc'[t] = "pop_cas" => head.handle = InvalidHandle
      /\ seen'[t] = head /\ update'[t] = head
      /\ \A u \in Threads \ {t} :
           pc'[u] = pc[u] /\ seen'[u] = seen[u] /\ update'[u] = update[u]
  OBVIOUS
<1>2. \A u \in Threads : InHand(u)' = InHand(u)
  BY <1>1 DEF InHand, PushSteps
<1>3. OneOwner' /\ MarksAgree' /\ Owned' = Owned
  BY <1>2, SameHands
<1>4. FreeListShape'
  BY <1>3, SameFreeList
<1>5. head.tag \in Nat
  BY TaggedParts
<1>6. SeenIsPast'
  BY <1>1, <1>5 DEF SeenIsPast
<1>7. UpdateIsFresh'
  BY <1>1 DEF UpdateIsFresh, PushSteps
<1> QED
  BY <1>3, <1>4, <1>6, <1>7 DEF Shape

LEMMA PopNextShape ==
  ASSUME PoolInv, NEW t \in Threads, PopNext(t)
  PROVE  Shape'
<1> USE DEF PoolInv, TypeOK, PopNext, Goto
<1>1. /\ pc[t] = "pop_next" /\ pc'[t] = "pop_cas"
      /\ update'[t] = Tagged(seen[t].tag + 1, next[seen[t].handle].handle)
      /\ \A u \in Threads \ {t} : pc'[u] = pc[u] /\ update'[u] = update[u]
  BY DEF Bump
<1>2. \A u \in Threads : InHand(u)' = InHand(u)
  BY <1>1 DEF InHand, PushSteps
<1>3. OneOwner' /\ MarksAgree' /\ Owned' = Owned
  BY <1>2, SameHands
<1>4. FreeListShape'
  BY <1>3, SameFreeList
<1>5. SeenIsPast'
  BY <1>1 DEF SeenIsPast
<1>6. seen[t].handle \in Node /\ seen[t].handle # InvalidHandle
  BY <1>1, PoolAssumption DEF HandlesValid, Node, InvalidHandle
<1>7. /\ update'[t].tag = seen[t].tag + 1
      /\ update'[t].handle = next[seen[t].handle].handle
  BY <1>1 DEF Tagged
<1>8. UpdateIsFresh'
  BY <1>1, <1>6, <1>7 DEF UpdateIsFresh, PushSteps
<1> QED
  BY <1>3, <1>4, <1>5, <1>8 DEF Shape

LEMMA PushLoadShape ==
  ASSUME PoolInv, NEW t \in Threads, PushLoad(t)
  PROVE  Shape'
<1> USE DEF PoolInv, TypeOK, PushLoad, Goto
<1>1. /\ pc[t] = "push_load" /\ pc'[t] = "push_link" /\ seen'[t] = head
      /\ \A u \in Threads \ {t} : pc'[u] = pc[u] /\ seen'[u] = seen[u]
  OBVIOUS
<1>2. \A u \in Threads : InHand(u)' = InHand(u)
  BY <1>1 DEF InHand, PushSteps
<1>3. OneOwner' /\ MarksAgree' /\ Owned' = Owned
  BY <1>2, SameHands
<1>4. FreeListShape'
  BY <1>3, SameFreeList
<1>5. head.tag \in Nat
  BY TaggedParts
<1>6. SeenIsPast'
  BY <1>1, <1>5 DEF SeenIsPast
<1>7. UpdateIsFresh'
  BY <1>1 DEF UpdateIsFresh, PushSteps
<1> QED
  BY <1>3, <1>4, <1>6, <1>7 DEF Shape

LEMMA PushLinkShape ==
  ASSUME PoolInv, NEW t \in Threads, PushLink(t)
  PROVE  Shape'
<1> USE DEF PoolInv, TypeOK, PushLink, Goto
<1>1. /\ pc[t] = "push_link" /\ pc'[t] = "push_cas"
      /\ update'[t] = Tagged(seen[t].tag + 1, node[t])
      /\ \A u \in Threads \ {t} : pc'[u] = pc[u] /\ update'[u] = update[u]
  BY DEF Bump
<1>2. \A u \in Threads : InHand(u)' = InHand(u)
  BY <1>1 DEF InHand, PushSteps
<1>3. OneOwner' /\ MarksAgree' /\ Owned' = Owned
  BY <1>2, SameHands
<1>4. node[t] \in Node
  BY <1>1 DEF HandlesValid, PushSteps
<1>5. InHand(t) = {node[t]}
  BY <1>1, <1>4 DEF InHand, PushSteps
<1>6. node[t] \in Owned
  BY <1>5 DEF Owned
<1>7. /\ next'[node[t]] = Tagged(nextTag[t], seen[t].handle)
      /\ \A n \in Node \ {node[t]} : next'[n] = next[n]
  BY <1>4
<1>8. FreeListShape'
  BY <1>3, <1>6, <1>7, SameFreeList
<1>9. SeenIsPast'
  BY <1>1 DEF SeenIsPast
<1>10. UpdateIsFresh'
  \* The link written belongs to no free node and to no other thread's node.
  <2>1. ASSUME NEW u \in Threads, pc'[u] = "pop_cas", seen[u].handle # InvalidHandle,
               head = seen[u]
        PROVE  update'[u].handle = next'[head.handle].handle
    <3>1. u # t /\ pc[u] = "pop_cas"
      BY <1>1, <2>1
    <3>2. update[u].handle = next[head.handle].handle
      BY <2>1, <3>1 DEF UpdateIsFresh
    <3>3. PICK len \in 0 .. NodeCount : \E f \in [1 .. len -> Node] : FreeListIs(len, f)
      BY DEF FreeListShape
    <3>4. PICK f \in [1 .. len -> Node] : FreeListIs(len, f)
      BY <3>3
    <3>5. len # 0 /\ head.handle = f[len] /\ len \in 1 .. len
      BY <2>1, <3>4, PoolAssumption DEF FreeListIs
    <3>6. head.handle \in Node \ Owned
      BY <3>4, <3>5 DEF FreeListIs
    <3> QED
      BY <1>1, <1>6, <1>7, <3>1, <3>2, <3>6
  <2>2. ASSUME NEW u \in Threads, pc'[u] = "push_cas"
        PROVE  /\ update'[u] = Tagged(seen'[u].tag + 1, node'[u])
               /\ next'[node'[u]].handle = seen'[u].handle
    <3>1. CASE u = t
      BY <1>1, <1>7, <3>1 DEF Tagged
    <3>2. CASE u # t
      <4>1. pc[u] = "push_cas" /\ node[u] \in Node /\ InHand(u) = {node[u]}
        BY <1>1, <2>2, <3>2 DEF HandlesValid, PushSteps, InHand
      <4>2. node[u] # node[t]
        BY <1>5, <3>2, <4>1 DEF OneOwner
      <4> QED
        BY <1>1, <1>7, <3>2, <4>1, <4>2 DEF UpdateIsFresh
    <3> QED
      BY <3>1, <3>2
  <2>3. ASSUME NEW u \in Threads, pc'[u] = "pop_cas"
        PROVE  /\ seen[u].handle = InvalidHandle => update'[u] = seen[u]
               /\ seen[u].handle # InvalidHandle => update'[u].tag = seen[u].tag + 1
    BY <1>1, <2>3 DEF UpdateIsFresh
  <2> QED
    BY <2>1, <2>2, <2>3 DEF UpdateIsFresh
<1> QED
  BY <1>3, <1>8, <1>9, <1>10 DEF Shape

LEMMA PopReturnShape ==
  ASSUME PoolInv, NEW t \in Threads, PopReturn(t)
  PROVE  Shape'
<1> USE DEF PoolInv, TypeOK, PopReturn, Goto
<1>1. /\ pc[t] = "pop_return" /\ pc'[t] = "idle"
      /\ \A u \in Threads \ {t} : pc'[u] = pc[u]
  OBVIOUS
<1>2. InHand(t)' = {} /\ InHand(t) = {node[t]} \cap Node
  BY <1>1 DEF InHand, PushSteps
<1>3. \A u \in Threads \ {t} : InHand(u)' = InHand(u)
  BY <1>1 DEF InHand, PushSteps
<1>4. held' = held \cup InHand(t)
  BY <1>2, PoolAssumption DEF Handle, Node, InvalidHandle
<1>5. Owned' = Owned
  BY <1>2, <1>3, <1>4 DEF Owned
<1>6. OneOwner'
  BY <1>2, <1>3, <1>4 DEF OneOwner
<1>7. /\ \A n \in InHand(t) : marked'[n]
      /\ \A n \in Node \ InHand(t) : marked'[n] = marked[n]
  BY <1>2, PoolAssumption DEF Handle, Node, InvalidHandle
<1>9. MarksAgree'
  BY <1>4, <1>7 DEF MarksAgree
<1>10. FreeListShape'
  BY <1>5, SameFreeList
<1>11. SeenIsPast' /\ UpdateIsFresh'
  BY <1>1 DEF SeenIsPast, UpdateIsFresh, PushSteps
<1> QED
  BY <1>6, <1>9, <1>10, <1>11 DEF Shape

LEMMA FreeNodeShape ==
  ASSUME PoolInv, NEW t \in Threads, FreeNode(t)
  PROVE  Shape'
<1> USE DEF PoolInv, TypeOK, FreeNode, Call, Goto
<1>1. PICK n \in held :
        /\ held' = held \ {n}
        /\ marked' = [marked EXCEPT ![n] = FALSE]
        /\ node' = [node EXCEPT ![t] = n]
  OBVIOUS
<1>2. /\ pc[t] = "idle" /\ pc'[t] = "push_load" /\ node'[t] = n
      /\ \A u \in Threads \ {t} : pc'[u] = pc[u] /\ node'[u] = node[u]
  BY <1>1
<1>3. InHand(t) = {} /\ InHand(t)' = {n}
  BY <1>2 DEF InHand, PushSteps
<1>4. \A u \in Threads \ {t} : InHand(u)' = InHand(u)
  BY <1>2 DEF InHand
<1>5. Owned' = Owned
  BY <1>1, <1>3, <1>4 DEF Owned
<1>6. OneOwner'
  BY <1>1, <1>3, <1>4 DEF OneOwner
<1>7. MarksAgree'
  BY <1>1 DEF MarksAgree
<1>8. FreeListShape'
  BY <1>5, SameFreeList
<1>9. SeenIsPast'
  BY <1>2 DEF SeenIsPast
<1>10. UpdateIsFresh'
  BY <1>2 DEF UpdateIsFresh
<1> QED
  BY <1>6, <1>7, <1>8, <1>9, <1>10 DEF Shape

-----------------------------------------------------------------------------
(* The compare-exchanges, where a node changes hands                       *)

\* A failed compare-exchange of a thread in a loop changes no shared state.
LEMMA RetryShape ==
  ASSUME PoolInv, NEW t \in Threads, NEW from, NEW to,
         \/ from = "pop_cas" /\ to = "pop_load"
         \/ from = "push_cas" /\ to = "push_load",
         pc[t] = from, Goto(t, to),
         UNCHANGED <<head, next, marked, held, seen, update, node>>
  PROVE  Shape'
<1> USE DEF PoolInv, TypeOK, Goto
<1>1. pc'[t] = to /\ \A u \in Threads \ {t} : pc'[u] = pc[u]
  OBVIOUS
<1>2. \A u \in Threads : InHand(u)' = InHand(u)
  BY <1>1 DEF InHand, PushSteps
<1>3. OneOwner' /\ MarksAgree' /\ Owned' = Owned
  BY <1>2, SameHands
<1>4. FreeListShape'
  BY <1>3, SameFreeList
<1>5. SeenIsPast' /\ UpdateIsFresh'
  BY <1>1 DEF SeenIsPast, UpdateIsFresh
<1> QED
  BY <1>3, <1>4, <1>5 DEF Shape

\* Once the head carries a larger tag, no thread holds the current head.
LEMMA TagMoves ==
  ASSUME PoolInv, NEW t \in Threads, head'.tag = head.tag + 1,
         pc[t] \in {"pop_cas", "push_cas"}, pc'[t] \in {"pop_return", "idle"},
         \A u \in Threads \ {t} : pc'[u] = pc[u] /\ node'[u] = node[u],
         UNCHANGED <<next, seen, update>>
  PROVE  SeenIsPast' /\ UpdateIsFresh'
<1> USE DEF PoolInv, TypeOK
<1>1. head.tag \in Nat /\ \A u \in Threads : seen[u].tag \in Nat
  BY TaggedParts
<1>2. ASSUME NEW u \in Threads,
             pc'[u] \in {"pop_next", "pop_cas", "push_link", "push_cas"}
      PROVE  seen'[u].tag < head'.tag
  <2>1. u # t /\ pc[u] \in {"pop_next", "pop_cas", "push_link", "push_cas"}
    BY <1>2
  <2>2. seen[u].tag =< head.tag
    BY <2>1 DEF SeenIsPast
  <2> QED
    BY <1>1, <2>2
<1>3. SeenIsPast'
  <2> SUFFICES ASSUME NEW u \in Threads,
                      pc'[u] \in {"pop_next", "pop_cas", "push_link", "push_cas"}
               PROVE  seen'[u].tag =< head'.tag /\ seen'[u].tag # head'.tag
    BY DEF SeenIsPast
  <2> QED
    BY <1>1, <1>2
<1>4. ASSUME NEW u \in Threads, pc'[u] = "pop_cas"
      PROVE  /\ seen'[u].handle = InvalidHandle => update'[u] = seen'[u]
             /\ seen'[u].handle # InvalidHandle =>
                  update'[u].tag = seen'[u].tag + 1 /\ head' # seen'[u]
  <2>1. pc[u] = "pop_cas" /\ seen'[u].tag < head'.tag
    BY <1>2, <1>4
  <2>2. head' # seen'[u]
    BY <1>1, <2>1
  <2> QED
    BY <2>1, <2>2 DEF UpdateIsFresh
<1>5. ASSUME NEW u \in Threads, pc'[u] = "push_cas"
      PROVE  /\ update'[u] = Tagged(seen'[u].tag + 1, node'[u])
             /\ next'[node'[u]].handle = seen'[u].handle
  <2>1. pc[u] = "push_cas" /\ node'[u] = node[u]
    BY <1>5
  <2> QED
    BY <2>1 DEF UpdateIsFresh
<1> QED
  BY <1>3, <1>4, <1>5 DEF UpdateIsFresh

\* A pop that finds the list empty changes nothing; seen now and at its load.
LEMMA PopEmptyShape ==
  ASSUME PoolInv, NEW t \in Threads, PopCas(t), head = seen[t],
         seen[t].handle = InvalidHandle
  PROVE  Shape' /\ InHand(t)' = {} /\ Owned' = Owned
<1> USE DEF PoolInv, TypeOK, PopCas, Goto
<1>1. /\ pc[t] = "pop_cas" /\ pc'[t] = "pop_return" /\ node'[t] = InvalidHandle
      /\ \A u \in Threads \ {t} : pc'[u] = pc[u] /\ node'[u] = node[u]
      /\ UNCHANGED <<next, marked, held, seen, update>>
  OBVIOUS
<1>2. head' = head
  BY <1>1 DEF UpdateIsFresh
<1>3. InHand(t) = {} /\ InHand(t)' = {}
  BY <1>1, PoolAssumption DEF InHand, PushSteps, Node, InvalidHandle
<1>4. \A u \in Threads : InHand(u)' = InHand(u)
  BY <1>1, <1>3 DEF InHand
<1>5. OneOwner' /\ MarksAgree' /\ Owned' = Owned
  BY <1>1, <1>4, SameHands
<1>6. FreeListShape'
  BY <1>1, <1>2, <1>5, SameFreeList
<1>7. SeenIsPast' /\ UpdateIsFresh'
  BY <1>1, <1>2 DEF SeenIsPast, UpdateIsFresh, PushSteps
<1> QED
  BY <1>3, <1>5, <1>6, <1>7 DEF Shape

\* A pop that installs its update takes the top of the free list.
LEMMA PopNodeShape ==
  ASSUME PoolInv, NEW t \in Threads, PopCas(t), head = seen[t],
         seen[t].handle # InvalidHandle
  PROVE  /\ Shape'
         /\ seen[t].handle \in Node \ Owned
         /\ InHand(t)' = {seen[t].handle}
         /\ Owned' = Owned \cup {seen[t].handle}
<1> USE DEF PoolInv, TypeOK
<1> DEFINE n == seen[t].handle
<1>1. /\ pc[t] = "pop_cas" /\ pc'[t] = "pop_return" /\ node'[t] = n
      /\ head' = update[t]
      /\ \A u \in Threads \ {t} : pc'[u] = pc[u] /\ node'[u] = node[u]
      /\ UNCHANGED <<next, marked, held, seen, update>>
  BY DEF PopCas, Goto
<1>2. head'.tag = head.tag + 1 /\ head'.handle = next[n].handle
  BY <1>1 DEF UpdateIsFresh
<1>3. PICK len \in 0 .. NodeCount : \E f \in [1 .. len -> Node] : FreeListIs(len, f)
  BY DEF FreeListShape
<1>4. PICK f \in [1 .. len -> Node] : FreeListIs(len, f)
  BY <1>3
<1>5. len # 0 /\ len \in 1 .. len /\ n = f[len]
  BY <1>4, PoolAssumption DEF FreeListIs
<1>6. n \in Node \ Owned
  BY <1>4, <1>5 DEF FreeListIs
<1> HIDE DEF n
<1>7. InHand(t) = {} /\ InHand(t)' = {n}
  BY <1>1, <1>6 DEF InHand, PushSteps
<1>8. \A u \in Threads \ {t} : InHand(u)' = InHand(u)
  BY <1>1 DEF InHand
<1>9. Owned' = Owned \cup {n} /\ OneOwner'
  BY <1>1, <1>6, <1>7, <1>8, NodeTaken
<1>12. MarksAgree'
  BY <1>1 DEF MarksAgree
<1>13. FreeListShape'
  <2> DEFINE g == [i \in 1 .. len - 1 |-> f[i]]
  <2>1. len - 1 \in 0 .. NodeCount /\ g \in [1 .. len - 1 -> Node]
    BY <1>5, PoolAssumption
  <2>2. /\ \A i \in 1 .. len - 1 : i \in 1 .. len /\ g[i] = f[i] /\ (i # 1 => g[i - 1] = f[i - 1])
        /\ \A i \in 1 .. len : i = len \/ i \in 1 .. len - 1
    BY <1>5
  <2>3. head'.handle = IF len - 1 = 0 THEN InvalidHandle ELSE g[len - 1]
    <3>1. next[f[len]].handle = IF len = 1 THEN InvalidHandle ELSE f[len - 1]
      BY <1>4, <1>5 DEF FreeListIs
    <3>2. len # 1 => len - 1 \in 1 .. len - 1
      BY <1>5
    <3> QED
      BY <1>2, <1>5, <2>2, <3>1, <3>2
  <2>4. \A i \in 1 .. len - 1 :
          next'[g[i]].handle = IF i = 1 THEN InvalidHandle ELSE g[i - 1]
    BY <1>1, <1>4, <2>2 DEF FreeListIs
  <2>5. \A i, j \in 1 .. len - 1 : g[i] = g[j] => i = j
    BY <1>4, <2>2 DEF FreeListIs
  <2>6. ASSUME NEW m \in Node
        PROVE  m \notin Owned' <=> \E i \in 1 .. len - 1 : g[i] = m
    <3>1. m \notin Owned <=> \E i \in 1 .. len : f[i] = m
      BY <1>4 DEF FreeListIs
    <3>2. \A i \in 1 .. len - 1 : f[i] # n
      BY <1>4, <1>5, <2>2 DEF FreeListIs
    <3> QED
      BY <1>5, <1>9, <2>2, <3>1, <3>2
  <2> HIDE DEF g
  <2>7. FreeListIs(len - 1, g)'
    BY <2>3, <2>4, <2>5, <2>6 DEF FreeListIs
  <2> QED
    BY <2>1, <2>7 DEF FreeListShape
<1>14. SeenIsPast' /\ UpdateIsFresh'
  BY <1>1, <1>2, TagMoves
<1> QED
  BY <1>6, <1>7, <1>9, <1>12, <1>13, <1>14 DEF Shape, n

\* A push that installs its update puts its node on top of the free list.
LEMMA PushNodeShape ==
  ASSUME PoolInv, NEW t \in Threads, PushCas(t), head = seen[t]
  PROVE  /\ Shape'
         /\ InHand(t) = {node[t]} /\ node[t] \in Node
         /\ InHand(t)' = {}
         /\ Owned' = Owned \ {node[t]}
<1> USE DEF PoolInv, TypeOK
<1> DEFINE n == node[t]
<1>1. /\ pc[t] = "push_cas" /\ pc'[t] = "idle" /\ head' = update[t]
      /\ \A u \in Threads \ {t} : pc'[u] = pc[u]
      /\ UNCHANGED <<next, marked, held, seen, update, node>>
  BY DEF PushCas, Goto
<1>2. update[t] = Tagged(head.tag + 1, n) /\ next[n].handle = head.handle
  BY <1>1 DEF UpdateIsFresh
<1>3. head'.tag = head.tag + 1 /\ head'.handle = n
  BY <1>1, <1>2 DEF Tagged
<1>4. n \in Node
  BY <1>1 DEF HandlesValid, PushSteps
<1> HIDE DEF n
<1>5. InHand(t) = {n} /\ InHand(t)' = {}
  BY <1>1, <1>4 DEF InHand, PushSteps, n
<1>6. \A u \in Threads \ {t} : InHand(u)' = InHand(u)
  BY <1>1 DEF InHand
<1>7. Owned' = Owned \ {n} /\ OneOwner'
  BY <1>1, <1>5, <1>6, NodeGiven
<1>8. n \in Owned
  BY <1>5, OwnedMembers
<1>9. MarksAgree'
  BY <1>1 DEF MarksAgree
<1>10. FreeListShape'
  <2>1. PICK len \in 0 .. NodeCount : \E f \in [1 .. len -> Node] : FreeListIs(len, f)
    BY DEF FreeListShape
  <2>2. PICK f \in [1 .. len -> Node] : FreeListIs(len, f)
    BY <2>1
  <2>3. len \in Nat /\ len + 1 \in 1 .. len + 1
    BY PoolAssumption
  <2>4. PICK g \in [1 .. len + 1 -> Node] : g = [i \in 1 .. len + 1 |-> IF i = len + 1 THEN n ELSE f[i]]
    <3>1. [i \in 1 .. len + 1 |-> IF i = len + 1 THEN n ELSE f[i]] \in [1 .. len + 1 -> Node]
      BY <1>4, <2>3
    <3> QED
      BY <3>1
  <2>5. \A i \in 1 .. len + 1 : i = len + 1 \/ (i \in 1 .. len /\ g[i] = f[i])
    BY <2>3, <2>4
  <2>6. \A i \in 1 .. len : i \in 1 .. len + 1 /\ i # len + 1 /\ g[i] = f[i]
    BY <2>3, <2>4
  <2>7. g[len + 1] = n /\ \A i \in 1 .. len : f[i] # n
    BY <1>8, <2>2, <2>3, <2>4 DEF FreeListIs
  <2>8. \A i, j \in 1 .. len + 1 : g[i] = g[j] => i = j
    BY <2>2, <2>5, <2>7 DEF FreeListIs
  <2>9. len + 1 \in 0 .. NodeCount
    <3>1. len + 1 \in Nat
      BY <2>3
    <3> QED
      BY <2>4, <2>8, <3>1, ListBound
  <2>10. ASSUME NEW i \in 1 .. len + 1
         PROVE  next'[g[i]].handle = IF i = 1 THEN InvalidHandle ELSE g[i - 1]
    <3>1. CASE i = len + 1
      <4>1. next'[g[i]].handle = IF len = 0 THEN InvalidHandle ELSE f[len]
        BY <1>1, <1>2, <2>2, <2>7, <3>1 DEF FreeListIs
      <4>2. len # 0 => len \in 1 .. len /\ i - 1 = len /\ i # 1
        BY <2>3, <3>1
      <4>3. len = 0 => i = 1
        BY <3>1
      <4> QED
        BY <2>6, <4>1, <4>2, <4>3, <2>3, <3>1
    <3>2. CASE i # len + 1
      <4>1. i \in 1 .. len /\ g[i] = f[i]
        BY <2>5, <3>2
      <4>2. i # 1 => i - 1 \in 1 .. len
        BY <2>3, <4>1
      <4>3. next[f[i]].handle = IF i = 1 THEN InvalidHandle ELSE f[i - 1]
        BY <2>2, <4>1 DEF FreeListIs
      <4> QED
        BY <1>1, <2>6, <4>1, <4>2, <4>3
    <3> QED
      BY <3>1, <3>2
  <2>11. ASSUME NEW m \in Node
         PROVE  m \notin Owned' <=> \E i \in 1 .. len + 1 : g[i] = m
    <3>1. m \notin Owned <=> \E i \in 1 .. len : f[i] = m
      BY <2>2 DEF FreeListIs
    <3>2. (\E i \in 1 .. len + 1 : g[i] = m) <=> m = n \/ \E i \in 1 .. len : f[i] = m
      BY <2>3, <2>5, <2>6, <2>7
    <3> QED
      BY <1>7, <3>1, <3>2
  <2>12. head'.handle = IF len + 1 = 0 THEN InvalidHandle ELSE g[len + 1]
    BY <1>3, <2>3, <2>7
  <2>13. FreeListIs(len + 1, g)'
    BY <2>8, <2>10, <2>11, <2>12 DEF FreeListIs
  <2> QED
    BY <2>4, <2>9, <2>13 DEF FreeListShape
<1>11. SeenIsPast' /\ UpdateIsFresh'
  BY <1>1, <1>3, TagMoves
<1> QED
  BY <1>4, <1>5, <1>7, <1>9, <1>10, <1>11 DEF Shape, n

-----------------------------------------------------------------------------
LEMMA NextInv == PoolInv /\ [Next]_vars => PoolInv'
<1> SUFFICES ASSUME PoolInv, [Next]_vars PROVE PoolInv'
  OBVIOUS
<1>1. TypeOK' /\ HandlesValid'
  BY TypeStep DEF PoolInv
<1>2. ASSUME NEW t \in Threads, PopCas(t) PROVE Shape'
  <2>1. CASE head = seen[t]
    BY <1>2, <2>1, PopEmptyShape, PopNodeShape
  <2>2. CASE head # seen[t]
    <3>1. /\ pc[t] = "pop_cas" /\ Goto(t, "pop_load")
          /\ UNCHANGED <<head, next, marked, held, seen, update, node>>
      BY <1>2, <2>2 DEF PopCas
    <3> QED
      BY <3>1, RetryShape
  <2> QED
    BY <2>1, <2>2
<1>3. ASSUME NEW t \in Threads, PushCas(t) PROVE Shape'
  <2>1. CASE head = seen[t]
    BY <1>3, <2>1, PushNodeShape
  <2>2. CASE head # seen[t]
    <3>1. /\ pc[t] = "push_cas" /\ Goto(t, "push_load")
          /\ UNCHANGED <<head, next, marked, held, seen, update, node>>
      BY <1>3, <2>2 DEF PushCas
    <3> QED
      BY <3>1, RetryShape
  <2> QED
    BY <2>1, <2>2
<1>4. ASSUME UNCHANGED vars PROVE Shape'
  <2>1. /\ UNCHANGED <<head, next, marked, held, pc, seen, update, node>>
        /\ \A t \in Threads : InHand(t)' = InHand(t)
    BY <1>4 DEF vars, InHand
  <2>2. OneOwner' /\ MarksAgree' /\ Owned' = Owned
    BY <2>1, SameHands DEF PoolInv
  <2>3. FreeListShape'
    BY <2>1, <2>2, SameFreeList DEF PoolInv
  <2>4. SeenIsPast' /\ UpdateIsFresh'
    BY <2>1 DEF PoolInv, SeenIsPast, UpdateIsFresh
  <2> QED
    BY <2>2, <2>3, <2>4 DEF Shape
<1>5. ASSUME Next PROVE Shape'
  <2>1. PICK t \in Threads : AllocateNode(t) \/ FreeNode(t) \/ Running(t)
    BY <1>5 DEF Next
  <2>2. CASE AllocateNode(t)
    BY <2>2, AllocateNodeShape
  <2>3. CASE FreeNode(t)
    BY <2>3, FreeNodeShape
  <2>4. CASE PopLoad(t)
    BY <2>4, PopLoadShape
  <2>5. CASE PopNext(t)
    BY <2>5, PopNextShape
  <2>6. CASE PopReturn(t)
    BY <2>6, PopReturnShape
  <2>7. CASE PushLoad(t)
    BY <2>7, PushLoadShape
  <2>8. CASE PushLink(t)
    BY <2>8, PushLinkShape
  <2> QED
    BY <1>2, <1>3, <2>1, <2>2, <2>3, <2>4, <2>5, <2>6, <2>7, <2>8 DEF Running
<1> QED
  BY <1>1, <1>4, <1>5 DEF PoolInv, Shape

\* The list never loses, duplicates or cross-links a node, whatever the
\* interleaving of allocate_node and free_node: PoolInv holds in every state.
THEOREM PoolSafe == Spec => []PoolInv
<1>1. Init => PoolInv
  BY InitInv
<1>2. PoolInv /\ [Next]_vars => PoolInv'
  BY NextInv
<1> QED
  BY <1>1, <1>2, PTL DEF Spec

-----------------------------------------------------------------------------
(* Refinement of NodePool                                                  *)

Hand == [t \in Threads |-> InHand(t)]

\* A step that changes neither owners nor reports is a stutter of NodePool.
LEMMA Stutter ==
  ASSUME held' = held, Owned' = Owned, Failed' = Failed,
         \A t \in Threads : InHand(t)' = InHand(t)
  PROVE  UNCHANGED Pool!vars
BY DEF Pool!vars

\* How the abstract "hand" changes when only the hand of t does.
LEMMA HandMoves ==
  ASSUME NEW t \in Threads, NEW S, InHand(t)' = S,
         \A u \in Threads \ {t} : InHand(u)' = InHand(u)
  PROVE  Hand' = [Hand EXCEPT ![t] = S]
BY DEF Hand

LEMMA QuietStep ==
  ASSUME PoolInv, NEW t \in Threads,
         AllocateNode(t) \/ PopLoad(t) \/ PopNext(t) \/ PushLoad(t) \/ PushLink(t)
  PROVE  UNCHANGED Pool!vars
<1> USE DEF PoolInv, TypeOK, Goto
<1>1. /\ pc[t] \notin {"pop_return", "push_cas"} /\ pc'[t] # "pop_return"
      /\ pc'[t] \in PushSteps <=> pc[t] \in PushSteps
      /\ \A u \in Threads \ {t} : pc'[u] = pc[u]
      /\ UNCHANGED <<held, node>>
  BY DEF AllocateNode, PopLoad, PopNext, PushLoad, PushLink, Call, PushSteps
<1>2. \A u \in Threads : InHand(u)' = InHand(u)
  BY <1>1 DEF InHand
<1>3. Failed' = Failed
  BY <1>1 DEF Failed
<1> QED
  BY <1>1, <1>2, <1>3, SameOwners, Stutter

LEMMA PopCasStep ==
  ASSUME PoolInv, NEW t \in Threads, PopCas(t)
  PROVE  [Pool!Next]_(Pool!vars)
<1> USE DEF PoolInv, TypeOK
<1>1. /\ pc[t] = "pop_cas" /\ held' = held
      /\ \A u \in Threads \ {t} : pc'[u] = pc[u] /\ node'[u] = node[u]
  BY DEF PopCas, Goto
<1>2. \A u \in Threads \ {t} : InHand(u)' = InHand(u)
  BY <1>1 DEF InHand
<1>3. InHand(t) = {} /\ t \notin Failed /\ Hand[t] = {}
  BY <1>1 DEF InHand, PushSteps, Failed, Hand
<1>4. CASE head # seen[t]
  <2>1. pc'[t] = "pop_load"
    BY <1>4 DEF PopCas, Goto
  <2>2. InHand(t)' = InHand(t) /\ Failed' = Failed
    BY <1>1, <1>3, <2>1 DEF InHand, PushSteps, Failed
  <2> QED
    BY <1>1, <1>2, <2>2, SameOwners, Stutter
<1>5. CASE head = seen[t] /\ seen[t].handle = InvalidHandle
  <2>1. InHand(t)' = {} /\ Owned' = Owned
    BY <1>5, PopEmptyShape
  <2>2. Node \ Owned = {}
    <3>1. PICK len \in 0 .. NodeCount : \E f \in [1 .. len -> Node] : FreeListIs(len, f)
      BY DEF FreeListShape
    <3>2. PICK f \in [1 .. len -> Node] : FreeListIs(len, f)
      BY <3>1
    <3>3. len = 0
      <4> SUFFICES ASSUME len # 0 PROVE FALSE
        OBVIOUS
      <4>1. len \in 1 .. len
        BY PoolAssumption
      <4>2. f[len] \in Node /\ f[len] = InvalidHandle
        BY <1>5, <3>2, <4>1 DEF FreeListIs
      <4> QED
        BY <4>2, PoolAssumption DEF Node, InvalidHandle
    <3> QED
      BY <3>2, <3>3 DEF FreeListIs
  <2>3. Failed' = Failed \cup {t}
    BY <1>1, <1>5 DEF Failed, PopCas, Goto
  <2>4. Hand' = Hand
    BY <1>2, <1>3, <2>1 DEF Hand
  <2>5. Pool!Refuse(t)
    BY <1>1, <1>3, <2>1, <2>2, <2>3, <2>4 DEF Pool!Refuse, Hand
  <2> QED
    BY <2>5 DEF Pool!Next
<1>6. CASE head = seen[t] /\ seen[t].handle # InvalidHandle
  <2> DEFINE n == seen[t].handle
  <2>1. n \in Node \ Owned /\ InHand(t)' = {n} /\ Owned' = Owned \cup {n}
    BY <1>6, PopNodeShape
  <2>2. Failed' = Failed
    BY <1>1, <1>6 DEF Failed, PopCas, Goto
  <2>3. Hand' = [Hand EXCEPT ![t] = {n}]
    BY <1>2, <2>1, HandMoves
  <2>4. Node \ Owned' = (Node \ Owned) \ {n}
    BY <2>1
  <2> HIDE DEF n
  <2>5. Pool!Take(t, n)
    BY <1>1, <1>3, <2>1, <2>2, <2>3, <2>4 DEF Pool!Take, Hand
  <2> QED
    BY <2>1, <2>5 DEF Pool!Next
<1> QED
  BY <1>4, <1>5, <1>6

LEMMA PopReturnStep ==
  ASSUME PoolInv, NEW t \in Threads, PopReturn(t)
  PROVE  Pool!Next
<1> USE DEF PoolInv, TypeOK
<1>1. /\ pc[t] = "pop_return" /\ pc'[t] = "idle" /\ node' = node
      /\ \A u \in Threads \ {t} : pc'[u] = pc[u]
  BY DEF PopReturn, Goto
<1>2. InHand(t)' = {} /\ InHand(t) = {node[t]} \cap Node
  BY <1>1 DEF InHand, PushSteps
<1>3. \A u \in Threads \ {t} : InHand(u)' = InHand(u)
  BY <1>1 DEF InHand
<1>4. CASE node[t] # InvalidHandle
  <2>1. InHand(t) = {node[t]} /\ held' = held \cup {node[t]}
    BY <1>2, <1>4 DEF PopReturn, Handle
  <2>2. Hand[t] = InHand(t) /\ Hand' = [Hand EXCEPT ![t] = {}]
    BY <1>2, <1>3, HandMoves DEF Hand
  <2>3. Owned' = Owned
    BY <1>2, <1>3, <2>1 DEF Owned
  <2>4. Failed' = Failed
    BY <1>1, <1>4 DEF Failed
  <2>5. Pool!ReturnNode(t)
    BY <2>1, <2>2, <2>3, <2>4 DEF Pool!ReturnNode, Hand
  <2> QED
    BY <2>5 DEF Pool!Next
<1>5. CASE node[t] = InvalidHandle
  <2>1. InHand(t) = {} /\ held' = held
    BY <1>2, <1>5, PoolAssumption DEF PopReturn, Node, InvalidHandle
  <2>2. Hand' = Hand
    BY <1>2, <1>3, <2>1 DEF Hand
  <2>3. Owned' = Owned
    BY <1>2, <1>3, <2>1, SameOwners
  <2>4. t \in Failed /\ Failed' = Failed \ {t}
    BY <1>1, <1>5 DEF Failed
  <2>5. Pool!ReturnNothing(t)
    BY <2>1, <2>2, <2>3, <2>4 DEF Pool!ReturnNothing, Hand
  <2> QED
    BY <2>5 DEF Pool!Next
<1> QED
  BY <1>4, <1>5

LEMMA FreeNodeStep ==
  ASSUME PoolInv, NEW t \in Threads, FreeNode(t)
  PROVE  Pool!Next
<1> USE DEF PoolInv, TypeOK
<1>1. PICK n \in held : held' = held \ {n} /\ node' = [node EXCEPT ![t] = n]
  BY DEF FreeNode
<1>2. /\ pc[t] = "idle" /\ pc'[t] = "push_load" /\ node'[t] = n
      /\ \A u \in Threads \ {t} : pc'[u] = pc[u] /\ node'[u] = node[u]
  BY <1>1 DEF FreeNode, Call, Goto
<1>3. InHand(t) = {} /\ InHand(t)' = {n}
  BY <1>1, <1>2 DEF InHand, PushSteps
<1>4. \A u \in Threads \ {t} : InHand(u)' = InHand(u)
  BY <1>2 DEF InHand
<1>5. Owned' = Owned
  BY <1>1, <1>3, <1>4 DEF Owned
<1>6. t \notin Failed /\ Failed' = Failed
  BY <1>2 DEF Failed
<1>7. Hand[t] = {} /\ Hand' = [Hand EXCEPT ![t] = {n}]
  BY <1>3, <1>4, HandMoves DEF Hand
<1>8. Pool!Surrender(t, n) /\ n \in Node
  BY <1>1, <1>5, <1>6, <1>7 DEF Pool!Surrender, Hand
<1> QED
  BY <1>8 DEF Pool!Next

LEMMA PushCasStep ==
  ASSUME PoolInv, NEW t \in Threads, PushCas(t)
  PROVE  [Pool!Next]_(Pool!vars)
<1> USE DEF PoolInv, TypeOK
<1>1. /\ pc[t] = "push_cas" /\ held' = held /\ node' = node
      /\ pc'[t] \in {"idle", "push_load"}
      /\ \A u \in Threads \ {t} : pc'[u] = pc[u]
  BY DEF PushCas, Goto
<1>2. \A u \in Threads \ {t} : InHand(u)' = InHand(u)
  BY <1>1 DEF InHand
<1>3. Failed' = Failed
  BY <1>1 DEF Failed
<1>4. CASE head = seen[t]
  <2>1. InHand(t) = {node[t]} /\ node[t] \in Node /\ InHand(t)' = {} /\ Owned' = Owned \ {node[t]}
    BY <1>4, PushNodeShape
  <2>2. Hand[t] = {node[t]} /\ Hand' = [Hand EXCEPT ![t] = {}]
    BY <1>2, <2>1, HandMoves DEF Hand
  <2>3. node[t] \in Owned
    BY <2>1, OwnedMembers
  <2>4. Node \ Owned' = (Node \ Owned) \cup {node[t]}
    BY <2>1, <2>3
  <2>5. Pool!GiveBack(t)
    BY <1>1, <1>3, <2>2, <2>4 DEF Pool!GiveBack, Hand
  <2> QED
    BY <2>5 DEF Pool!Next
<1>5. CASE head # seen[t]
  <2>1. pc'[t] = "push_load"
    BY <1>5 DEF PushCas, Goto
  <2>2. InHand(t)' = InHand(t)
    BY <1>1, <2>1 DEF InHand, PushSteps
  <2> QED
    BY <1>1, <1>2, <1>3, <2>2, SameOwners, Stutter
<1> QED
  BY <1>4, <1>5

LEMMA StepRefines == PoolInv /\ [Next]_vars => [Pool!Next]_(Pool!vars)
<1> SUFFICES ASSUME PoolInv, [Next]_vars PROVE [Pool!Next]_(Pool!vars)
  OBVIOUS
<1>1. CASE UNCHANGED vars
  <2>1. UNCHANGED <<held, pc, node>>
    BY <1>1 DEF vars
  <2>2. (\A t \in Threads : InHand(t)' = InHand(t)) /\ Failed' = Failed
    BY <2>1 DEF InHand, Failed
  <2> QED
    BY <2>1, <2>2, SameOwners, Stutter
<1>2. CASE Next
  <2>1. PICK t \in Threads : AllocateNode(t) \/ FreeNode(t) \/ Running(t)
    BY <1>2 DEF Next
  <2>2. CASE AllocateNode(t) \/ PopLoad(t) \/ PopNext(t) \/ PushLoad(t) \/ PushLink(t)
    BY <2>2, QuietStep
  <2>3. CASE PopCas(t)
    BY <2>3, PopCasStep
  <2>4. CASE PopReturn(t)
    BY <2>4, PopReturnStep
  <2>5. CASE FreeNode(t)
    BY <2>5, FreeNodeStep
  <2>6. CASE PushCas(t)
    BY <2>6, PushCasStep
  <2> QED
    BY <2>1, <2>2, <2>3, <2>4, <2>5, <2>6 DEF Running
<1> QED
  BY <1>1, <1>2

LEMMA InitRefines == Init => Pool!Init
<1> SUFFICES ASSUME Init PROVE Pool!Init
  OBVIOUS
<1>1. (\A t \in Threads : InHand(t) = {}) /\ Failed = {} /\ held = {}
  BY DEF Init, InHand, Failed, PushSteps
<1>2. Owned = {}
  BY <1>1 DEF Owned
<1> QED
  BY <1>1, <1>2 DEF Pool!Init

\* Interleaved allocate_node and free_node calls have the effect of atomic ones:
\* each takes, returns or refuses a node at its compare-exchange.
THEOREM PoolRefines == Spec => ImplementsPool
<1>1. Spec => []PoolInv
  BY PoolSafe
<1>2. Init => Pool!Init
  BY InitRefines
<1>3. PoolInv /\ [Next]_vars => [Pool!Next]_(Pool!vars)
  BY StepRefines
<1> QED
  BY <1>1, <1>2, <1>3, PTL DEF Spec, ImplementsPool, Pool!Spec
=============================================================================
