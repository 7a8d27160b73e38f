----------------------- MODULE VoiceAllocator_proofs -----------------------
(***************************************************************************)
(* Proofs about VoiceAllocator for any number of voices and any lengths:   *)
(* what the linked array's operators do to a list given by a sequence, that *)
(* each operation of the allocator keeps its list in order, and that what  *)
(* sounds changes only as VoicePolicy allows.                              *)
(***************************************************************************)
EXTENDS VoiceAllocator, FiniteSetTheorems, SequenceTheorems, WellFoundedInduction,
  TLAPS

-----------------------------------------------------------------------------
(* The linked array.  A list is given by its length k and the sequence s   *)
(* of its nodes.                                                           *)

Invalid == List!Invalid

Distinct(s, k) == \A i, j \in 1 .. k : s[i] = s[j] => i = j

\* The array a has the nodes of s on its list, in this order.
Chain(a, s, k) ==
  /\ \A i \in 1 .. k : a.next[s[i]] = IF i = k THEN s[i] ELSE s[i + 1]
  /\ \A i \in 1 .. k : a.prev[s[i]] = IF i = 1 THEN s[i] ELSE s[i - 1]
  /\ a.front = IF k = 0 THEN Invalid ELSE s[1]
  /\ a.back = IF k = 0 THEN Invalid ELSE s[k]

Without(s, k, p) == [i \in 1 .. k - 1 |-> IF i < p THEN s[i] ELSE s[i + 1]]
WithBack(s, k, n) == [i \in 1 .. k + 1 |-> IF i = k + 1 THEN n ELSE s[i]]
WithFront(s, k, n) == [i \in 1 .. k + 1 |-> IF i = 1 THEN n ELSE s[i - 1]]

\* What the links of an array may be.
LEMMA Links ==
  /\ List!Node = Voice /\ List!Link = Voice \cup {Invalid} /\ List!Invalid = Invalid
  /\ Invalid \notin Voice
BY VoiceAssumption DEF List!Link, List!Node, Voice, List!Invalid, Invalid

\* The fields of the array that RemoveNode leaves.
LEMMA Removed ==
  ASSUME NEW a \in List!ArrayType, NEW n \in Voice, NEW before \in List!Link, NEW after \in List!Link,
         List!Follow(a.prev, n) = before, List!Follow(a.next, n) = after
  PROVE  List!RemoveNode(a, n) =
           [prev |-> [v \in Voice |-> IF v = n THEN Invalid
                                      ELSE IF v = after THEN List!OrSelf(before, v) ELSE a.prev[v]],
            next |-> [v \in Voice |-> IF v = n THEN Invalid
                                      ELSE IF v = before THEN List!OrSelf(after, v) ELSE a.next[v]],
            free |-> a.free,
            front |-> IF before = Invalid THEN after ELSE a.front,
            back |-> IF after = Invalid THEN before ELSE a.back]
<1> USE Links
<1>1. a = [prev |-> a.prev, next |-> a.next, free |-> a.free, front |-> a.front, back |-> a.back]
  BY DEF List!ArrayType
<1>2. a.prev \in [Voice -> List!Link] /\ a.next \in [Voice -> List!Link]
  BY DEF List!ArrayType
<1> DEFINE left == IF before = Invalid THEN [a EXCEPT !.front = after]
                   ELSE [a EXCEPT !.next[before] = List!OrSelf(after, before)]
           both == IF after = Invalid THEN [left EXCEPT !.back = before]
                   ELSE [left EXCEPT !.prev[after] = List!OrSelf(before, after)]
<1>3. List!RemoveNode(a, n) = [both EXCEPT !.prev[n] = Invalid, !.next[n] = Invalid]
  BY Zenon DEF List!RemoveNode
<1> DEFINE next == IF before = Invalid THEN a.next
                   ELSE [a.next EXCEPT ![before] = List!OrSelf(after, before)]
           prev == IF after = Invalid THEN a.prev
                   ELSE [a.prev EXCEPT ![after] = List!OrSelf(before, after)]
           front == IF before = Invalid THEN after ELSE a.front
           back == IF after = Invalid THEN before ELSE a.back
<1>4. left = [prev |-> a.prev, next |-> next, free |-> a.free, front |-> front, back |-> a.back]
  BY <1>1
<1>5. both = [prev |-> prev, next |-> next, free |-> a.free, front |-> front, back |-> back]
  BY <1>4
<1> HIDE DEF both, front, back, next, prev
<1>6. List!RemoveNode(a, n) = [prev |-> [prev EXCEPT ![n] = Invalid], next |-> [next EXCEPT ![n] = Invalid],
                               free |-> a.free, front |-> front, back |-> back]
  BY <1>3, <1>5
<1>7. [prev EXCEPT ![n] = Invalid]
        = [v \in Voice |-> IF v = n THEN Invalid
                           ELSE IF v = after THEN List!OrSelf(before, v) ELSE a.prev[v]]
  <2>1. CASE after = Invalid
    BY <1>2, <2>1 DEF prev
  <2>2. CASE after # Invalid
    BY <1>2, <2>2 DEF prev
  <2> QED
    BY <2>1, <2>2
<1>8. [next EXCEPT ![n] = Invalid]
        = [v \in Voice |-> IF v = n THEN Invalid
                           ELSE IF v = before THEN List!OrSelf(after, v) ELSE a.next[v]]
  <2>1. CASE before = Invalid
    BY <1>2, <2>1 DEF next
  <2>2. CASE before # Invalid
    BY <1>2, <2>2 DEF next
  <2> QED
    BY <2>1, <2>2
<1> QED
  BY <1>6, <1>7, <1>8 DEF front, back

\* The fields of the array that InsertNode leaves.
LEMMA Inserted ==
  ASSUME NEW a \in List!ArrayType, NEW n \in Voice, NEW before \in List!Link,
         NEW after \in List!Link, NEW next \in List!Link,
         after = IF before = Invalid THEN a.back ELSE List!Follow(a.prev, before),
         next = IF after = Invalid THEN a.front ELSE List!Follow(a.next, after)
  PROVE  List!InsertNode(a, n, before) =
           [prev |-> [v \in Voice |-> IF v = before THEN n
                                      ELSE IF v = n THEN List!OrSelf(after, n) ELSE a.prev[v]],
            next |-> [v \in Voice |-> IF v = after THEN n
                                      ELSE IF v = n THEN List!OrSelf(next, n) ELSE a.next[v]],
            free |-> a.free,
            front |-> IF after = Invalid THEN n ELSE a.front,
            back |-> IF before = Invalid THEN n ELSE a.back]
<1> USE Links
<1>1. a = [prev |-> a.prev, next |-> a.next, free |-> a.free, front |-> a.front, back |-> a.back]
  BY DEF List!ArrayType
<1>2. a.prev \in [Voice -> List!Link] /\ a.next \in [Voice -> List!Link]
  BY DEF List!ArrayType
<1> DEFINE prev1 == [a.prev EXCEPT ![n] = List!OrSelf(after, n)]
           next1 == [a.next EXCEPT ![n] = List!OrSelf(next, n)]
           prev2 == IF before = Invalid THEN prev1 ELSE [prev1 EXCEPT ![before] = n]
           next2 == IF after = Invalid THEN next1 ELSE [next1 EXCEPT ![after] = n]
           front == IF after = Invalid THEN n ELSE a.front
           back == IF before = Invalid THEN n ELSE a.back
           one == [a EXCEPT !.prev[n] = List!OrSelf(after, n)]
           ends == [one EXCEPT !.next[n] = List!OrSelf(next, n)]
           left == IF after = Invalid THEN [ends EXCEPT !.front = n] ELSE [ends EXCEPT !.next[after] = n]
           right == IF before = Invalid THEN [left EXCEPT !.back = n] ELSE [left EXCEPT !.prev[before] = n]
<1>3. List!InsertNode(a, n, before) = right
  BY Zenon DEF List!InsertNode
<1>4. ends = [prev |-> prev1, next |-> next1, free |-> a.free, front |-> a.front, back |-> a.back]
  <2>1. one = [prev |-> prev1, next |-> a.next, free |-> a.free, front |-> a.front, back |-> a.back]
    BY <1>1
  <2> HIDE DEF one, prev1
  <2> QED
    BY <2>1
<1> HIDE DEF prev1, next1
<1> HIDE DEF ends
<1>5. left = [prev |-> prev1, next |-> next2, free |-> a.free, front |-> front, back |-> a.back]
  <2>1. CASE after = Invalid
    BY <1>4, <2>1
  <2>2. CASE after # Invalid
    BY <1>4, <2>2
  <2> QED
    BY <2>1, <2>2
<1> HIDE DEF left
<1>6. right = [prev |-> prev2, next |-> next2, free |-> a.free, front |-> front, back |-> back]
  BY <1>5
<1>7. prev2 = [v \in Voice |-> IF v = before THEN n
                              ELSE IF v = n THEN List!OrSelf(after, n) ELSE a.prev[v]]
  <2>1. CASE before = Invalid
    BY <1>2, <2>1 DEF prev1
  <2>2. CASE before # Invalid
    BY <1>2, <2>2 DEF prev1
  <2> QED
    BY <2>1, <2>2
<1>8. next2 = [v \in Voice |-> IF v = after THEN n
                              ELSE IF v = n THEN List!OrSelf(next, n) ELSE a.next[v]]
  <2>1. CASE after = Invalid
    BY <1>2, <2>1 DEF next1
  <2>2. CASE after # Invalid
    BY <1>2, <2>2 DEF next1
  <2> QED
    BY <2>1, <2>2
<1> QED
  BY <1>3, <1>6, <1>7, <1>8

\* RemoveNode takes a node out of the list, which keeps the order of the others.
LEMMA RemoveFromChain ==
  ASSUME NEW a \in List!ArrayType, NEW k \in Nat \ {0}, NEW s \in [1 .. k -> Voice],
         Distinct(s, k), Chain(a, s, k), NEW p \in 1 .. k
  PROVE  /\ List!RemoveNode(a, s[p]) \in List!ArrayType
         /\ Chain(List!RemoveNode(a, s[p]), Without(s, k, p), k - 1)
         /\ List!RemoveNode(a, s[p]).free = a.free
<1> USE Links
<1> DEFINE n == s[p]
           before == IF p = 1 THEN Invalid ELSE s[p - 1]
           after == IF p = k THEN Invalid ELSE s[p + 1]
           b == List!RemoveNode(a, n)
           t == Without(s, k, p)
<1>1. n \in Voice /\ before \in List!Link /\ after \in List!Link
  OBVIOUS
<1>2. \A i, j \in 1 .. k : i # j => s[i] # s[j]
  BY DEF Distinct
<1>3. List!Follow(a.prev, n) = before /\ List!Follow(a.next, n) = after
  <2>1. p # 1 => p - 1 \in 1 .. k /\ s[p - 1] # s[p]
    BY <1>2
  <2>2. p # k => p + 1 \in 1 .. k /\ s[p + 1] # s[p]
    BY <1>2
  <2> QED
    BY <2>1, <2>2 DEF List!Follow, Chain
<1>4. /\ a.prev \in [Voice -> List!Link] /\ a.next \in [Voice -> List!Link]
      /\ a.front \in List!Link /\ a.back \in List!Link /\ a.free \in List!Link
  BY DEF List!ArrayType
<1>5. b = [prev |-> [v \in Voice |-> IF v = n THEN Invalid
                                     ELSE IF v = after THEN List!OrSelf(before, v) ELSE a.prev[v]],
           next |-> [v \in Voice |-> IF v = n THEN Invalid
                                     ELSE IF v = before THEN List!OrSelf(after, v) ELSE a.next[v]],
           free |-> a.free,
           front |-> IF before = Invalid THEN after ELSE a.front,
           back |-> IF after = Invalid THEN before ELSE a.back]
  BY <1>1, <1>3, Removed
<1> HIDE DEF b
<1>6. b \in List!ArrayType /\ b.free = a.free
  <2>1. \A v \in Voice : List!OrSelf(before, v) \in List!Link /\ List!OrSelf(after, v) \in List!Link
    BY <1>1 DEF List!OrSelf
  <2> HIDE DEF before, after
  <2> QED
    BY <1>1, <1>4, <1>5, <2>1 DEF List!ArrayType
<1>7. ASSUME NEW i \in 1 .. k - 1
      PROVE  /\ b.next[t[i]] = IF i = k - 1 THEN t[i] ELSE t[i + 1]
             /\ b.prev[t[i]] = IF i = 1 THEN t[i] ELSE t[i - 1]
  <2>1. /\ t[i] = IF i < p THEN s[i] ELSE s[i + 1]
        /\ i # k - 1 => t[i + 1] = IF i + 1 < p THEN s[i + 1] ELSE s[i + 2]
        /\ i # 1 => t[i - 1] = IF i - 1 < p THEN s[i - 1] ELSE s[i]
    BY DEF Without
  <2>2. t[i] \in Voice /\ t[i] # n
    BY <1>2, <2>1
  <2>3. t[i] = before <=> i = p - 1
    <3>1. p = 1 \/ p - 1 \in 1 .. k
      OBVIOUS
    <3> QED
      BY <1>2, <2>1, <2>2, <3>1
  <2>4. t[i] = after <=> i = p
    <3>1. p = k \/ p + 1 \in 1 .. k
      OBVIOUS
    <3> QED
      BY <1>2, <2>1, <2>2, <3>1
  <2>5. /\ b.next[t[i]] = IF i = p - 1 THEN List!OrSelf(after, t[i]) ELSE a.next[t[i]]
        /\ b.prev[t[i]] = IF i = p THEN List!OrSelf(before, t[i]) ELSE a.prev[t[i]]
    BY <1>5, <2>2, <2>3, <2>4
  <2>6. b.next[t[i]] = IF i = k - 1 THEN t[i] ELSE t[i + 1]
    <3>1. CASE i = p - 1
      BY <2>1, <2>5, <3>1 DEF List!OrSelf
    <3>2. CASE i < p - 1
      BY <2>1, <2>5, <3>2 DEF Chain
    <3>3. CASE i >= p
      <4>1. a.next[s[i + 1]] = IF i + 1 = k THEN s[i + 1] ELSE s[(i + 1) + 1]
        BY DEF Chain
      <4> QED
        BY <2>1, <2>5, <3>3, <4>1
    <3> QED
      BY <3>1, <3>2, <3>3
  <2>7. b.prev[t[i]] = IF i = 1 THEN t[i] ELSE t[i - 1]
    <3>1. CASE i = p
      BY <2>1, <2>5, <3>1 DEF List!OrSelf
    <3>2. CASE i < p
      BY <2>1, <2>5, <3>2 DEF Chain
    <3>3. CASE i > p
      <4>1. a.prev[s[i + 1]] = IF i + 1 = 1 THEN s[i + 1] ELSE s[(i + 1) - 1]
        BY DEF Chain
      <4> QED
        BY <2>1, <2>5, <3>3, <4>1
    <3> QED
      BY <3>1, <3>2, <3>3
  <2> QED
    BY <2>6, <2>7
<1>8. /\ b.front = IF k - 1 = 0 THEN Invalid ELSE t[1]
      /\ b.back = IF k - 1 = 0 THEN Invalid ELSE t[k - 1]
  BY <1>5 DEF Chain, Without
<1> HIDE DEF t
<1> QED
  BY <1>6, <1>7, <1>8 DEF Chain, t, b

\* A node that is on no list can be put at its back.
LEMMA PushBackChain ==
  ASSUME NEW a \in List!ArrayType, NEW k \in Nat, NEW s \in [1 .. k -> Voice],
         Distinct(s, k), Chain(a, s, k), NEW n \in Voice, \A i \in 1 .. k : s[i] # n
  PROVE  /\ List!PushBack(a, n) \in List!ArrayType
         /\ Chain(List!PushBack(a, n), WithBack(s, k, n), k + 1)
         /\ List!PushBack(a, n).free = a.free
<1> USE Links
<1> DEFINE last == IF k = 0 THEN Invalid ELSE s[k]
           b == List!PushBack(a, n)
           t == WithBack(s, k, n)
<1>1. last \in List!Link /\ a.back = last /\ a.front = IF k = 0 THEN Invalid ELSE s[1]
  BY DEF Chain
<1>2. /\ a.prev \in [Voice -> List!Link] /\ a.next \in [Voice -> List!Link]
      /\ a.front \in List!Link /\ a.back \in List!Link /\ a.free \in List!Link
  BY DEF List!ArrayType
<1>3. Invalid = IF last = Invalid THEN a.front ELSE List!Follow(a.next, last)
  BY <1>1 DEF Chain, List!Follow
<1>4. b = [prev |-> [v \in Voice |-> IF v = Invalid THEN n
                                     ELSE IF v = n THEN List!OrSelf(last, n) ELSE a.prev[v]],
           next |-> [v \in Voice |-> IF v = last THEN n
                                     ELSE IF v = n THEN List!OrSelf(Invalid, n) ELSE a.next[v]],
           free |-> a.free,
           front |-> IF last = Invalid THEN n ELSE a.front,
           back |-> IF Invalid = Invalid THEN n ELSE a.back]
  <2>1. last = IF Invalid = Invalid THEN a.back ELSE List!Follow(a.prev, Invalid)
    BY <1>1
  <2>2. Invalid \in List!Link
    OBVIOUS
  <2> HIDE DEF last
  <2> QED
    BY <1>1, <1>3, <2>1, <2>2, Inserted DEF List!PushBack
<1> HIDE DEF b
<1>5. b \in List!ArrayType /\ b.free = a.free
  <2>1. List!OrSelf(last, n) \in List!Link /\ List!OrSelf(Invalid, n) \in List!Link
    BY <1>1 DEF List!OrSelf
  <2> HIDE DEF last
  <2> QED
    BY <1>1, <1>2, <1>4, <2>1 DEF List!ArrayType
<1>6. ASSUME NEW i \in 1 .. k + 1
      PROVE  /\ b.next[t[i]] = IF i = k + 1 THEN t[i] ELSE t[i + 1]
             /\ b.prev[t[i]] = IF i = 1 THEN t[i] ELSE t[i - 1]
  <2>1. /\ t[i] = IF i = k + 1 THEN n ELSE s[i]
        /\ i # k + 1 => t[i + 1] = IF i = k THEN n ELSE s[i + 1]
        /\ i # 1 => t[i - 1] = s[i - 1]
    BY DEF WithBack
  <2>2. CASE i = k + 1
    BY <1>4, <2>1, <2>2 DEF List!OrSelf
  <2>3. CASE i # k + 1
    <3>1. i \in 1 .. k /\ t[i] = s[i] /\ s[i] \in Voice /\ s[i] # n
      BY <2>1, <2>3
    <3>2. s[i] = last <=> i = k
      BY <3>1 DEF Distinct
    <3>3. b.next[s[i]] = IF i = k THEN n ELSE a.next[s[i]]
      BY <1>4, <3>1, <3>2
    <3>4. b.prev[s[i]] = a.prev[s[i]]
      BY <1>4, <3>1
    <3> QED
      BY <2>1, <2>3, <3>1, <3>3, <3>4 DEF Chain
  <2> QED
    BY <2>2, <2>3
<1>7. /\ b.front = IF k + 1 = 0 THEN Invalid ELSE t[1]
      /\ b.back = IF k + 1 = 0 THEN Invalid ELSE t[k + 1]
  BY <1>1, <1>4 DEF WithBack
<1> HIDE DEF t
<1> QED
  BY <1>5, <1>6, <1>7 DEF Chain, t, b

\* A node that is on no list can be put at its front.
LEMMA PushFrontChain ==
  ASSUME NEW a \in List!ArrayType, NEW k \in Nat, NEW s \in [1 .. k -> Voice],
         Distinct(s, k), Chain(a, s, k), NEW n \in Voice, \A i \in 1 .. k : s[i] # n
  PROVE  /\ List!PushFront(a, n) \in List!ArrayType
         /\ Chain(List!PushFront(a, n), WithFront(s, k, n), k + 1)
         /\ List!PushFront(a, n).free = a.free
<1> USE Links
<1> DEFINE first == IF k = 0 THEN Invalid ELSE s[1]
           b == List!PushFront(a, n)
           t == WithFront(s, k, n)
<1>1. first \in List!Link /\ a.front = first /\ a.back = IF k = 0 THEN Invalid ELSE s[k]
  BY DEF Chain
<1>2. /\ a.prev \in [Voice -> List!Link] /\ a.next \in [Voice -> List!Link]
      /\ a.front \in List!Link /\ a.back \in List!Link /\ a.free \in List!Link
  BY DEF List!ArrayType
<1>3. Invalid = IF first = Invalid THEN a.back ELSE List!Follow(a.prev, first)
  BY <1>1 DEF Chain, List!Follow
<1>4. b = [prev |-> [v \in Voice |-> IF v = first THEN n
                                     ELSE IF v = n THEN List!OrSelf(Invalid, n) ELSE a.prev[v]],
           next |-> [v \in Voice |-> IF v = Invalid THEN n
                                     ELSE IF v = n THEN List!OrSelf(first, n) ELSE a.next[v]],
           free |-> a.free,
           front |-> IF Invalid = Invalid THEN n ELSE a.front,
           back |-> IF first = Invalid THEN n ELSE a.back]
  <2>1. first = IF Invalid = Invalid THEN a.front ELSE List!Follow(a.next, Invalid)
    BY <1>1
  <2>2. Invalid \in List!Link
    OBVIOUS
  <2> HIDE DEF first
  <2> QED
    BY <1>1, <1>3, <2>1, <2>2, Inserted DEF List!PushFront
<1> HIDE DEF b
<1>5. b \in List!ArrayType /\ b.free = a.free
  <2>1. List!OrSelf(first, n) \in List!Link /\ List!OrSelf(Invalid, n) \in List!Link
    BY <1>1 DEF List!OrSelf
  <2> HIDE DEF first
  <2> QED
    BY <1>1, <1>2, <1>4, <2>1 DEF List!ArrayType
<1>6. ASSUME NEW i \in 1 .. k + 1
      PROVE  /\ b.next[t[i]] = IF i = k + 1 THEN t[i] ELSE t[i + 1]
             /\ b.prev[t[i]] = IF i = 1 THEN t[i] ELSE t[i - 1]
  <2>1. /\ t[i] = IF i = 1 THEN n ELSE s[i - 1]
        /\ i # k + 1 => t[i + 1] = s[i]
        /\ i # 1 => t[i - 1] = IF i = 2 THEN n ELSE s[i - 2]
    BY DEF WithFront
  <2>2. CASE i = 1
    BY <1>4, <2>1, <2>2 DEF List!OrSelf
  <2>3. CASE i # 1
    <3>1. i - 1 \in 1 .. k /\ t[i] = s[i - 1] /\ s[i - 1] \in Voice /\ s[i - 1] # n
      BY <2>1, <2>3
    <3>2. s[i - 1] = first <=> i = 2
      BY <3>1 DEF Distinct
    <3>3. b.prev[s[i - 1]] = IF i = 2 THEN n ELSE a.prev[s[i - 1]]
      BY <1>4, <3>1, <3>2
    <3>4. b.next[s[i - 1]] = a.next[s[i - 1]]
      BY <1>4, <3>1
    <3>5. /\ a.next[s[i - 1]] = IF i - 1 = k THEN s[i - 1] ELSE s[(i - 1) + 1]
          /\ a.prev[s[i - 1]] = IF i - 1 = 1 THEN s[i - 1] ELSE s[(i - 1) - 1]
      BY <3>1 DEF Chain
    <3> QED
      BY <2>1, <2>3, <3>1, <3>3, <3>4, <3>5
  <2> QED
    BY <2>2, <2>3
<1>7. /\ b.front = IF k + 1 = 0 THEN Invalid ELSE t[1]
      /\ b.back = IF k + 1 = 0 THEN Invalid ELSE t[k + 1]
  BY <1>1, <1>4 DEF WithFront
<1> HIDE DEF t
<1> QED
  BY <1>5, <1>6, <1>7 DEF Chain, t, b

-----------------------------------------------------------------------------
(* The list of all voices                                                  *)

\* The list a is s, in which every voice is once.
AllIn(a, s) ==
  /\ a \in List!ArrayType /\ s \in [1 .. MaxVoices -> Voice] /\ Distinct(s, MaxVoices)
  /\ Chain(a, s, MaxVoices)
  /\ \A v \in Voice : \E i \in 1 .. MaxVoices : s[i] = v

ToBack(s) == [i \in 1 .. MaxVoices |-> IF i = MaxVoices THEN s[1] ELSE s[i + 1]]
ToFront(s, p) ==
  [i \in 1 .. MaxVoices |-> IF i = 1 THEN s[p] ELSE IF i <= p THEN s[i - 1] ELSE s[i]]

\* What is left of the list without one of its nodes.
LEMMA WithoutOne ==
  ASSUME NEW a, NEW s, AllIn(a, s), NEW p \in 1 .. MaxVoices
  PROVE  LET b == List!RemoveNode(a, s[p])
             t == Without(s, MaxVoices, p)
         IN  /\ b \in List!ArrayType /\ Chain(b, t, MaxVoices - 1) /\ b.free = a.free
             /\ t \in [1 .. MaxVoices - 1 -> Voice] /\ Distinct(t, MaxVoices - 1)
             /\ \A i \in 1 .. MaxVoices - 1 : t[i] # s[p]
<1> USE VoiceAssumption
<1> DEFINE t == Without(s, MaxVoices, p)
<1>1. \A i, j \in 1 .. MaxVoices : s[i] = s[j] => i = j
  BY DEF AllIn, Distinct
<1>2. s \in [1 .. MaxVoices -> Voice]
  BY DEF AllIn
<1>3. \A i \in 1 .. MaxVoices - 1 : t[i] = IF i < p THEN s[i] ELSE s[i + 1]
  BY DEF Without
<1>4. t \in [1 .. MaxVoices - 1 -> Voice]
  BY <1>2 DEF Without
<1>5. \A i \in 1 .. MaxVoices - 1 : t[i] # s[p]
  BY <1>1, <1>3
<1>6. ASSUME NEW i \in 1 .. MaxVoices - 1, NEW j \in 1 .. MaxVoices - 1, t[i] = t[j] PROVE i = j
  BY <1>1, <1>3, <1>6
<1>7. Distinct(t, MaxVoices - 1)
  BY <1>6 DEF Distinct
<1>8. a \in List!ArrayType /\ Distinct(s, MaxVoices) /\ Chain(a, s, MaxVoices)
  BY DEF AllIn
<1> HIDE DEF t
<1>9. /\ List!RemoveNode(a, s[p]) \in List!ArrayType
      /\ Chain(List!RemoveNode(a, s[p]), t, MaxVoices - 1)
      /\ List!RemoveNode(a, s[p]).free = a.free
  BY <1>2, <1>8, RemoveFromChain DEF t
<1> QED
  BY <1>4, <1>5, <1>7, <1>9 DEF t

\* The oldest voice goes to the back.
LEMMA OldestToBack ==
  ASSUME NEW a, NEW s, AllIn(a, s)
  PROVE  AllIn(List!PushBack(List!RemoveNode(a, a.front), a.front), ToBack(s))
<1> USE VoiceAssumption
<1> DEFINE n == MaxVoices - 1
           b == List!RemoveNode(a, s[1])
           t == Without(s, MaxVoices, 1)
           c == List!PushBack(b, s[1])
<1>1. s \in [1 .. MaxVoices -> Voice] /\ s[1] \in Voice /\ n \in Nat
  BY DEF AllIn
<1>2. a.front = s[1]
  BY DEF AllIn, Chain
<1>3. /\ b \in List!ArrayType /\ Chain(b, t, n)
      /\ t \in [1 .. n -> Voice] /\ Distinct(t, n) /\ \A i \in 1 .. n : t[i] # s[1]
  BY WithoutOne
<1>4. WithBack(t, n, s[1]) = ToBack(s)
  BY DEF WithBack, Without, ToBack
<1> HIDE DEF b, t
<1>5. c \in List!ArrayType /\ Chain(c, WithBack(t, n, s[1]), n + 1)
  BY <1>1, <1>3, PushBackChain
<1>6. Chain(c, ToBack(s), MaxVoices)
  BY <1>4, <1>5
<1>7. ToBack(s) \in [1 .. MaxVoices -> Voice]
  BY <1>1 DEF ToBack
<1>8. Distinct(ToBack(s), MaxVoices)
  BY DEF AllIn, Distinct, ToBack
<1>9. ASSUME NEW v \in Voice PROVE \E i \in 1 .. MaxVoices : ToBack(s)[i] = v
  <2>1. PICK i \in 1 .. MaxVoices : s[i] = v
    BY DEF AllIn
  <2>2. CASE i = 1
    BY <2>1, <2>2 DEF ToBack
  <2>3. CASE i # 1
    <3>1. i - 1 \in 1 .. MaxVoices /\ ToBack(s)[i - 1] = s[i]
      BY <2>3 DEF ToBack
    <3> QED
      BY <2>1, <3>1
  <2> QED
    BY <2>2, <2>3
<1> QED
  BY <1>2, <1>5, <1>6, <1>7, <1>8, <1>9 DEF AllIn, b

\* A voice that has ended goes to the front.
LEMMA EndedToFront ==
  ASSUME NEW a, NEW s, AllIn(a, s), NEW p \in 1 .. MaxVoices
  PROVE  AllIn(List!PushFront(List!RemoveNode(a, s[p]), s[p]), ToFront(s, p))
<1> USE VoiceAssumption
<1> DEFINE n == MaxVoices - 1
           b == List!RemoveNode(a, s[p])
           t == Without(s, MaxVoices, p)
           c == List!PushFront(b, s[p])
<1>1. s \in [1 .. MaxVoices -> Voice] /\ s[p] \in Voice /\ n \in Nat
  BY DEF AllIn
<1>2. /\ b \in List!ArrayType /\ Chain(b, t, n)
      /\ t \in [1 .. n -> Voice] /\ Distinct(t, n) /\ \A i \in 1 .. n : t[i] # s[p]
  BY WithoutOne
<1>3. WithFront(t, n, s[p]) = ToFront(s, p)
  <2>1. \A i \in 1 .. n + 1 : i # 1 => t[i - 1] = IF i - 1 < p THEN s[i - 1] ELSE s[i]
    BY DEF Without
  <2> HIDE DEF t
  <2> QED
    BY <2>1 DEF WithFront, ToFront
<1> HIDE DEF b, t
<1>4. c \in List!ArrayType /\ Chain(c, WithFront(t, n, s[p]), n + 1)
  BY <1>1, <1>2, PushFrontChain
<1>5. Chain(c, ToFront(s, p), MaxVoices)
  BY <1>3, <1>4
<1>6. ToFront(s, p) \in [1 .. MaxVoices -> Voice]
  BY <1>1 DEF ToFront
<1>7. Distinct(ToFront(s, p), MaxVoices)
  <2>1. \A i, j \in 1 .. MaxVoices : s[i] = s[j] => i = j
    BY DEF AllIn, Distinct
  <2>2. ASSUME NEW i \in 1 .. MaxVoices, NEW j \in 1 .. MaxVoices, ToFront(s, p)[i] = ToFront(s, p)[j]
        PROVE  i = j
    BY <2>1, <2>2 DEF ToFront
  <2> QED
    BY <2>2 DEF Distinct
<1>8. ASSUME NEW v \in Voice PROVE \E i \in 1 .. MaxVoices : ToFront(s, p)[i] = v
  <2>1. PICK i \in 1 .. MaxVoices : s[i] = v
    BY DEF AllIn
  <2>2. CASE i = p
    BY <2>1, <2>2 DEF ToFront
  <2>3. CASE i < p
    <3>1. i + 1 \in 1 .. MaxVoices /\ ToFront(s, p)[i + 1] = s[i]
      BY <2>3 DEF ToFront
    <3> QED
      BY <2>1, <3>1
  <2>4. CASE i > p
    BY <2>1, <2>4 DEF ToFront
  <2> QED
    BY <2>2, <2>3, <2>4
<1> QED
  BY <1>4, <1>5, <1>6, <1>7, <1>8 DEF AllIn, b

\* A set of naturals that has a member has a least one.
LEMMA LeastMember ==
  ASSUME NEW S \in SUBSET Nat, S # {}
  PROVE  \E m \in S : \A k \in S : m <= k
<1>1. PICK m \in S : \A k \in S : ~(<<k, m>> \in OpToRel(<, Nat))
  BY NatLessThanWellFounded, WFMin
<1>2. \A k \in S : ~(k < m)
  BY <1>1 DEF OpToRel
<1> QED
  BY <1>2

\* A loop that follows links which lead through g visits g.
LEMMA WalkIs ==
  ASSUME NEW link \in [Voice -> List!Link], NEW g \in [1 .. MaxVoices -> Voice],
         \A i, j \in 1 .. MaxVoices : g[i] = g[j] => i = j,
         \A i \in 1 .. MaxVoices : link[g[i]] = IF i = MaxVoices THEN g[i] ELSE g[i + 1]
  PROVE  List!Walk(link, g[1]) = g
<1> USE VoiceAssumption, Links
<1> DEFINE step == [n \in List!Link |-> IF n = List!Invalid THEN List!Invalid ELSE List!Follow(link, n)]
           Whole(at) == at = [i \in 1 .. MaxVoices + 1 |-> IF i = 1 THEN g[1] ELSE step[at[i - 1]]]
           at == CHOOSE at : Whole(at)
           w == [i \in 1 .. MaxVoices + 1 |-> IF i = MaxVoices + 1 THEN Invalid ELSE g[i]]
<1>1. List!Walk(link, g[1]) = SubSeq(at, 1, Cardinality({i \in 1 .. MaxVoices + 1 : at[i] # List!Invalid}))
  <2>1. \A S : List!Cardinality(S) = Cardinality(S)
    BY Zenon DEF List!Cardinality, Cardinality, List!IsFiniteSet, IsFiniteSet
  <2>2. List!Walk(link, g[1])
          = SubSeq(at, 1, List!Cardinality({i \in 1 .. MaxVoices + 1 : at[i] # List!Invalid}))
    BY Zenon DEF List!Walk
  <2> HIDE DEF at
  <2> QED
    BY Zenon, <2>1, <2>2
<1>2. g \in [1 .. MaxVoices -> List!Link] /\ \A i \in 1 .. MaxVoices : g[i] # Invalid
  OBVIOUS
<1>3. ASSUME NEW i \in 2 .. MaxVoices + 1 PROVE w[i] = step[w[i - 1]]
  <2>1. i - 1 \in 1 .. MaxVoices /\ w[i - 1] = g[i - 1] /\ g[i - 1] \in Voice
    BY <1>2
  <2>2. step[g[i - 1]] = List!Follow(link, g[i - 1])
    BY <2>1
  <2>3. CASE i = MaxVoices + 1
    BY <2>1, <2>2, <2>3 DEF List!Follow
  <2>4. CASE i # MaxVoices + 1
    <3>1. i \in 1 .. MaxVoices /\ w[i] = g[i] /\ g[i] # g[i - 1]
      BY <2>1, <2>4
    <3>2. link[g[i - 1]] = g[i]
      BY <2>1, <3>1
    <3> QED
      BY <2>1, <2>2, <3>1, <3>2 DEF List!Follow
  <2> QED
    BY <2>3, <2>4
<1>4. w[1] = g[1]
  OBVIOUS
<1> HIDE DEF step
<1>5. Whole(w)
  <2>1. \A i \in 1 .. MaxVoices + 1 : w[i] = IF i = 1 THEN g[1] ELSE step[w[i - 1]]
    <3> TAKE i \in 1 .. MaxVoices + 1
    <3>1. CASE i = 1
      BY <1>4, <3>1
    <3>2. CASE i # 1
      <4>1. i \in 2 .. MaxVoices + 1
        BY <3>2
      <4> HIDE DEF w
      <4> QED
        BY <1>3, <3>2, <4>1
    <3> QED
      BY <3>1, <3>2
  <2>2. w = [i \in 1 .. MaxVoices + 1 |-> w[i]]
    OBVIOUS
  <2> HIDE DEF w
  <2> QED
    BY <2>1, <2>2
<1> HIDE DEF Whole
<1>6. Whole(at)
  BY <1>5
<1> HIDE DEF at
<1>7. at \in [1 .. MaxVoices + 1 -> {at[i] : i \in 1 .. MaxVoices + 1}]
  BY <1>6 DEF Whole
<1>8. \A i \in 1 .. MaxVoices + 1 : at[i] = IF i = 1 THEN g[1] ELSE step[at[i - 1]]
  BY <1>6 DEF Whole
<1>9. \A i \in 1 .. MaxVoices + 1 : at[i] = w[i]
  <2> DEFINE Odd == {i \in 1 .. MaxVoices + 1 : at[i] # w[i]}
  <2> SUFFICES ASSUME Odd # {} PROVE FALSE
    OBVIOUS
  <2>1. PICK m \in Odd : \A k \in Odd : m <= k
    <3>1. Odd \in SUBSET Nat
      OBVIOUS
    <3> HIDE DEF Odd
    <3> QED
      BY <3>1, LeastMember
  <2>2. m # 1
    BY <1>4, <1>8, <2>1
  <2>3. m - 1 \in 1 .. MaxVoices + 1 /\ m - 1 \notin Odd
    BY <2>1, <2>2
  <2>4. m \in 2 .. MaxVoices + 1
    BY <2>1, <2>2
  <2>5. w[m] = step[w[m - 1]]
    BY <1>3, <2>4
  <2>6. at[m] = step[at[m - 1]]
    BY <1>8, <2>4
  <2> QED
    BY <2>1, <2>3, <2>5, <2>6
<1>10. {i \in 1 .. MaxVoices + 1 : at[i] # List!Invalid} = 1 .. MaxVoices
  BY <1>2, <1>9
<1>11. Cardinality(1 .. MaxVoices) = MaxVoices
  BY FS_Interval
<1>12. List!Walk(link, g[1]) = SubSeq(at, 1, MaxVoices)
  BY <1>1, <1>10, <1>11
<1>13. \A i \in 1 .. MaxVoices : at[i] = g[i]
  BY <1>9
<1>14. SubSeq(at, 1, MaxVoices) = g
  <2>1. /\ SubSeq(at, 1, MaxVoices) \in Seq(Voice)
        /\ Len(SubSeq(at, 1, MaxVoices)) = MaxVoices
        /\ \A i \in 1 .. MaxVoices : SubSeq(at, 1, MaxVoices)[i] = at[i]
    <3>1. \A i \in 1 .. MaxVoices : at[i] \in Voice
      BY <1>13
    <3> QED
      BY <3>1, SubSeqProperties
  <2> DEFINE q == SubSeq(at, 1, MaxVoices)
  <2> HIDE DEF q
  <2>2. q \in [1 .. MaxVoices -> Voice]
    BY <2>1, LenProperties DEF q
  <2> QED
    BY <1>13, <2>1, <2>2 DEF q
<1> QED
  BY <1>12, <1>14

\* What the loops over the list of all voices visit.
LEMMA ListIsWalked ==
  ASSUME NEW a, NEW s, AllIn(a, s)
  PROVE  /\ List!FromFront(a) = s
         /\ List!FromBack(a) = [i \in 1 .. MaxVoices |-> s[MaxVoices + 1 - i]]
<1> USE VoiceAssumption, Links
<1>1. /\ a.prev \in [Voice -> List!Link] /\ a.next \in [Voice -> List!Link]
      /\ s \in [1 .. MaxVoices -> Voice]
  BY DEF AllIn, List!ArrayType
<1>2. \A i, j \in 1 .. MaxVoices : s[i] = s[j] => i = j
  BY DEF AllIn, Distinct
<1>3. List!FromFront(a) = s
  <2>1. a.front = s[1]
    BY DEF AllIn, Chain
  <2>2. \A i \in 1 .. MaxVoices : a.next[s[i]] = IF i = MaxVoices THEN s[i] ELSE s[i + 1]
    BY DEF AllIn, Chain
  <2> QED
    BY <1>1, <1>2, <2>1, <2>2, WalkIs DEF List!FromFront
<1> DEFINE r == [i \in 1 .. MaxVoices |-> s[MaxVoices + 1 - i]]
<1>4. r \in [1 .. MaxVoices -> Voice]
  BY <1>1
<1>5. \A i, j \in 1 .. MaxVoices : r[i] = r[j] => i = j
  BY <1>2
<1>6. ASSUME NEW i \in 1 .. MaxVoices
      PROVE  a.prev[r[i]] = IF i = MaxVoices THEN r[i] ELSE r[i + 1]
  <2>1. MaxVoices + 1 - i \in 1 .. MaxVoices
    OBVIOUS
  <2>2. a.prev[s[MaxVoices + 1 - i]] = IF MaxVoices + 1 - i = 1 THEN s[MaxVoices + 1 - i]
                                       ELSE s[(MaxVoices + 1 - i) - 1]
    BY <2>1 DEF AllIn, Chain
  <2>3. i # MaxVoices => r[i + 1] = s[(MaxVoices + 1 - i) - 1]
    OBVIOUS
  <2> QED
    BY <2>1, <2>2, <2>3
<1>7. a.back = r[1]
  BY DEF AllIn, Chain
<1> HIDE DEF r
<1>8. List!FromBack(a) = r
  BY <1>1, <1>4, <1>5, <1>6, <1>7, WalkIs DEF List!FromBack
<1> QED
  BY <1>3, <1>8 DEF r

-----------------------------------------------------------------------------
(* The list initialize builds                                              *)

\* The array after k of its nodes were pushed.
Grown(k) ==
  [prev |-> [v \in Voice |-> IF v = 0 THEN 0 ELSE v - 1],
   next |-> [v \in Voice |-> IF v = k - 1 \/ v = MaxVoices - 1 THEN v ELSE v + 1],
   free |-> IF k = MaxVoices THEN Invalid ELSE k,
   front |-> IF k = 0 THEN Invalid ELSE 0,
   back |-> k - 1]

\* A node more.
LEMMA GrownByOne ==
  ASSUME NEW k \in 0 .. MaxVoices - 1
  PROVE  List!PushBack(List!AllocateNode(Grown(k)), Grown(k).free) = Grown(k + 1)
<1> USE VoiceAssumption, Links
<1> DEFINE a == Grown(k)
           freed == IF k = MaxVoices - 1 THEN Invalid ELSE k + 1
           prev == [v \in Voice |-> IF v = k THEN Invalid ELSE IF v = 0 THEN 0 ELSE v - 1]
           next == [v \in Voice |-> IF v = k THEN Invalid
                                    ELSE IF v = k - 1 \/ v = MaxVoices - 1 THEN v ELSE v + 1]
           front == IF k = 0 THEN Invalid ELSE 0
           b == [prev |-> prev, next |-> next, free |-> freed, front |-> front, back |-> k - 1]
<1>1. k \in Voice /\ a.free = k /\ k # Invalid /\ Invalid = -1
  BY DEF Grown, Voice, Invalid, List!Invalid
<1>2. List!Follow(a.next, k) = freed
  BY <1>1 DEF Grown, List!Follow, Voice
<1>3. List!AllocateNode(a) = b
  <2> DEFINE a1 == [a EXCEPT !.free = freed]
             a2 == [a1 EXCEPT !.prev[k] = Invalid]
             a3 == [a2 EXCEPT !.next[k] = Invalid]
  <2>1. List!AllocateNode(a) = a3
    BY Zenon, <1>1, <1>2 DEF List!AllocateNode
  <2>2. a1 = [prev |-> a.prev, next |-> a.next, free |-> freed, front |-> front, back |-> k - 1]
    <3>1. a = [prev |-> a.prev, next |-> a.next, free |-> k, front |-> front, back |-> k - 1]
      BY <1>1 DEF Grown
    <3> HIDE DEF a, freed, front
    <3> QED
      BY <3>1
  <2> HIDE DEF a1
  <2>3. a2 = [prev |-> prev, next |-> a.next, free |-> freed, front |-> front, back |-> k - 1]
    <3>1. [a.prev EXCEPT ![k] = Invalid] = prev
      BY <1>1 DEF Grown
    <3> QED
      BY <2>2, <3>1
  <2> HIDE DEF a2
  <2>4. a3 = [prev |-> prev, next |-> next, free |-> freed, front |-> front, back |-> k - 1]
    <3>1. [a.next EXCEPT ![k] = Invalid] = next
      BY <1>1 DEF Grown
    <3> QED
      BY <2>3, <3>1
  <2> QED
    BY <2>1, <2>4
<1>4. b \in List!ArrayType
  <2>1. prev \in [Voice -> List!Link] /\ next \in [Voice -> List!Link]
    BY <1>1 DEF Voice
  <2>2. freed \in List!Link /\ front \in List!Link /\ k - 1 \in List!Link
    BY <1>1 DEF Voice
  <2> HIDE DEF prev, next, freed, front
  <2> QED
    BY <2>1, <2>2 DEF List!ArrayType
<1>5. Invalid = IF k - 1 = Invalid THEN b.front ELSE List!Follow(b.next, k - 1)
  BY <1>1 DEF List!Follow, Voice
<1>6. List!PushBack(b, k) =
        [prev |-> [v \in Voice |-> IF v = Invalid THEN k
                                   ELSE IF v = k THEN List!OrSelf(k - 1, k) ELSE b.prev[v]],
         next |-> [v \in Voice |-> IF v = k - 1 THEN k
                                   ELSE IF v = k THEN List!OrSelf(Invalid, k) ELSE b.next[v]],
         free |-> b.free,
         front |-> IF k - 1 = Invalid THEN k ELSE b.front,
         back |-> IF Invalid = Invalid THEN k ELSE b.back]
  <2>1. k - 1 = IF Invalid = Invalid THEN b.back ELSE List!Follow(b.prev, Invalid)
    OBVIOUS
  <2>2. Invalid \in List!Link /\ k - 1 \in List!Link
    BY <1>1 DEF Voice
  <2> HIDE DEF b
  <2> QED
    BY <1>1, <1>4, <1>5, <2>1, <2>2, Inserted DEF List!PushBack
<1>7. [v \in Voice |-> IF v = Invalid THEN k ELSE IF v = k THEN List!OrSelf(k - 1, k) ELSE b.prev[v]]
        = Grown(k + 1).prev
  BY <1>1 DEF Grown, Voice, List!OrSelf
<1>8. [v \in Voice |-> IF v = k - 1 THEN k ELSE IF v = k THEN List!OrSelf(Invalid, k) ELSE b.next[v]]
        = Grown(k + 1).next
  BY <1>1 DEF Grown, Voice, List!OrSelf
<1>9. /\ b.free = Grown(k + 1).free /\ Grown(k + 1).back = k
      /\ (IF k - 1 = Invalid THEN k ELSE b.front) = Grown(k + 1).front
  BY <1>1 DEF Grown
<1>10. Grown(k + 1) = [prev |-> Grown(k + 1).prev, next |-> Grown(k + 1).next,
                       free |-> Grown(k + 1).free, front |-> Grown(k + 1).front,
                       back |-> Grown(k + 1).back]
  BY DEF Grown
<1> HIDE DEF b
<1> QED
  BY <1>1, <1>3, <1>6, <1>7, <1>8, <1>9, <1>10

\* The list has all voices, in their order.
LEMMA BuiltIsAll ==
  AllIn(Built[MaxVoices], [i \in 1 .. MaxVoices |-> i - 1])
<1> USE VoiceAssumption
<1> DEFINE Step(f, k) == IF k = 0 THEN List!Initialized
                         ELSE LET a == f[k - 1] IN List!PushBack(List!AllocateNode(a), a.free)
           Whole(f) == f = [k \in 0 .. MaxVoices |-> Step(f, k)]
           w == [k \in 0 .. MaxVoices |-> Grown(k)]
<1>1. Built = CHOOSE f : Whole(f)
  BY Zenon DEF Built
<1>2. Grown(0) = List!Initialized
  <2>1. [v \in Voice |-> IF v = 0 - 1 \/ v = MaxVoices - 1 THEN v ELSE v + 1]
          = [v \in Voice |-> IF v = MaxVoices - 1 THEN v ELSE v + 1]
    BY DEF Voice
  <2> QED
    BY <2>1, Links DEF Grown, List!Initialized, Invalid, List!Invalid
<1>3. ASSUME NEW k \in 0 .. MaxVoices PROVE w[k] = Step(w, k)
  <2>1. CASE k = 0
    BY <1>2, <2>1
  <2>2. CASE k # 0
    <3>1. k - 1 \in 0 .. MaxVoices - 1 /\ (k - 1) + 1 = k /\ w[k - 1] = Grown(k - 1) /\ w[k] = Grown(k)
      BY <2>2
    <3>2. List!PushBack(List!AllocateNode(Grown(k - 1)), Grown(k - 1).free) = Grown((k - 1) + 1)
      BY <3>1, GrownByOne
    <3> HIDE DEF w
    <3> QED
      BY <2>2, <3>1, <3>2
  <2> QED
    BY <2>1, <2>2
<1> HIDE DEF Step
<1>4. Whole(w)
  <2>1. w = [k \in 0 .. MaxVoices |-> w[k]]
    OBVIOUS
  <2> HIDE DEF w
  <2> QED
    BY <1>3, <2>1
<1> HIDE DEF Whole
<1>5. Whole(Built)
  BY <1>1, <1>4
<1>6. \A k \in 0 .. MaxVoices : Built[k] = Step(Built, k)
  BY <1>5 DEF Whole
<1>7. Built[MaxVoices] = Grown(MaxVoices)
  <2> DEFINE Odd == {k \in 0 .. MaxVoices : Built[k] # w[k]}
  <2>1. Odd = {}
    <3> SUFFICES ASSUME Odd # {} PROVE FALSE
      OBVIOUS
    <3>1. PICK m \in Odd : \A k \in Odd : m <= k
      <4>1. Odd \in SUBSET Nat
        OBVIOUS
      <4> HIDE DEF Odd
      <4> QED
        BY <4>1, LeastMember
    <3>2. Built[m] = Step(Built, m) /\ w[m] = Step(w, m)
      BY <1>3, <1>6, <3>1
    <3>3. m # 0
      BY <3>1, <3>2 DEF Step
    <3>4. m - 1 \in 0 .. MaxVoices /\ m - 1 \notin Odd
      BY <3>1, <3>3
    <3> HIDE DEF w
    <3>5. Built[m - 1] = w[m - 1]
      BY <3>4
    <3>6. Step(Built, m) = Step(w, m)
      BY <3>5 DEF Step
    <3> QED
      BY <3>1, <3>2, <3>6
  <2>2. MaxVoices \in 0 .. MaxVoices /\ w[MaxVoices] = Grown(MaxVoices)
    OBVIOUS
  <2> HIDE DEF w
  <2> QED
    BY <2>1, <2>2
<1> DEFINE a == Grown(MaxVoices)
           s == [i \in 1 .. MaxVoices |-> i - 1]
<1>8. a \in List!ArrayType
  <2>1. a.prev \in [Voice -> List!Link] /\ a.next \in [Voice -> List!Link]
    BY Links DEF Grown, Voice
  <2>2. a.free \in List!Link /\ a.front \in List!Link /\ a.back \in List!Link
    BY Links DEF Grown, Voice
  <2>3. a = [prev |-> a.prev, next |-> a.next, free |-> a.free, front |-> a.front, back |-> a.back]
    BY DEF Grown
  <2> HIDE DEF a
  <2> QED
    BY <2>1, <2>2, <2>3, Links DEF List!ArrayType
<1>9. s \in [1 .. MaxVoices -> Voice] /\ Distinct(s, MaxVoices)
  BY DEF Voice, Distinct
<1>10. Chain(a, s, MaxVoices)
  <2>1. ASSUME NEW i \in 1 .. MaxVoices
        PROVE  /\ a.next[s[i]] = IF i = MaxVoices THEN s[i] ELSE s[i + 1]
               /\ a.prev[s[i]] = IF i = 1 THEN s[i] ELSE s[i - 1]
    <3>1. i - 1 \in Voice /\ s[i] = i - 1 /\ (i # MaxVoices => s[i + 1] = i) /\ (i # 1 => s[i - 1] = i - 2)
      BY DEF Voice
    <3> HIDE DEF s
    <3> QED
      BY <3>1 DEF Grown
  <2>2. a.front = s[1] /\ a.back = s[MaxVoices]
    BY DEF Grown
  <2> HIDE DEF a, s
  <2> QED
    BY <2>1, <2>2 DEF Chain
<1>11. ASSUME NEW v \in Voice PROVE \E i \in 1 .. MaxVoices : s[i] = v
  <2>1. v + 1 \in 1 .. MaxVoices /\ s[v + 1] = v
    BY DEF Voice
  <2> QED
    BY <2>1
<1> HIDE DEF a, s
<1> QED
  BY <1>7, <1>8, <1>9, <1>10, <1>11 DEF AllIn, a, s

-----------------------------------------------------------------------------
(* The invariant of the voices                                             *)

\* No active voice stands before an inactive one.
Ordered(s) ==
  \A i, j \in 1 .. MaxVoices : i < j /\ voices[s[i]].active => voices[s[j]].active

ListInv == \E s \in [1 .. MaxVoices -> Voice] : AllIn(list, s) /\ Ordered(s)

\* A voice that has not been processed in this chunk has counted nothing in it.
SamplesCount ==
  /\ \A v \in Voice : voices[v].sampleIndex <= IF chunks = 0 THEN 0 ELSE Frames
  /\ \A v \in Voice :
       voices[v].active /\ (phase = "events" \/ (phase = "voices" /\ current <= v))
         => voices[v].sampleIndex = 0
  /\ phase # "idle" => chunks # 0
  /\ fx.sampleIndex <= IF phase = "idle" THEN chunks * Frames ELSE (chunks - 1) * Frames

\* Only an active voice has been activated in this chunk, and it wakes the effects.
FxWoken ==
  /\ \A v \in Voice : voices[v].activatedThisChunk => voices[v].active
  /\ phase = "events" /\ (\E v \in Voice : voices[v].activatedThisChunk) => activateFx
  /\ FxHearsNewNotes

VoicesInv == TypeOK /\ ListInv /\ SamplesCount /\ FxWoken

VoiceType ==
  [active : BOOLEAN, activatedThisChunk : BOOLEAN, released : BOOLEAN,
   sampleIndex : 0 .. MaxChunks * Frames, offset : Offset,
   note : Notes \cup {0}, releaseSample : Offset \cup {Never}]

\* The list in order is what VoiceListOrdered says of it.
LEMMA ListInvIsOrder ==
  ASSUME ListInv PROVE VoiceListOrdered
<1> USE VoiceAssumption
<1>1. PICK s \in [1 .. MaxVoices -> Voice] : AllIn(list, s) /\ Ordered(s)
  BY DEF ListInv
<1> DEFINE r == [i \in 1 .. MaxVoices |-> s[MaxVoices + 1 - i]]
<1>2. List!FromFront(list) = s /\ List!FromBack(list) = r
  BY <1>1, ListIsWalked
<1>3. s \in Seq(Voice) /\ Len(s) = MaxVoices
  OBVIOUS
<1>4. r \in Seq(Voice) /\ Len(r) = MaxVoices
  OBVIOUS
<1>5. \A i \in 1 .. MaxVoices : s[i] = r[MaxVoices + 1 - i]
  OBVIOUS
<1>6. Voice = {s[i] : i \in 1 .. MaxVoices}
  BY <1>1 DEF AllIn
<1> HIDE DEF r
<1> QED
  BY <1>1, <1>2, <1>3, <1>4, <1>5, <1>6 DEF VoiceListOrdered, Ordered

\* A step that leaves the list and the set of active voices alone keeps the order.
LEMMA OrderKept ==
  ASSUME ListInv, list' = list, \A v \in Voice : voices'[v].active = voices[v].active
  PROVE  ListInv'
<1>1. PICK s \in [1 .. MaxVoices -> Voice] : AllIn(list, s) /\ Ordered(s)
  BY DEF ListInv
<1>2. Ordered(s)'
  BY <1>1 DEF Ordered
<1> QED
  BY <1>1, <1>2 DEF ListInv

\* The active voices are the last ones of the list.
LEMMA Cut ==
  ASSUME NEW s \in [1 .. MaxVoices -> Voice], Ordered(s), \A v \in Voice : voices[v].active \in BOOLEAN
  PROVE  \E m \in 0 .. MaxVoices : \A i \in 1 .. MaxVoices : voices[s[i]].active <=> i > MaxVoices - m
<1> USE VoiceAssumption
<1> DEFINE A == {i \in 1 .. MaxVoices : voices[s[i]].active}
<1>1. CASE A = {}
  <2>1. \A i \in 1 .. MaxVoices : ~voices[s[i]].active
    BY <1>1
  <2>2. 0 \in 0 .. MaxVoices /\ \A i \in 1 .. MaxVoices : ~(i > MaxVoices - 0)
    OBVIOUS
  <2> QED
    BY <2>1, <2>2
<1>2. CASE A # {}
  <2>1. PICK a \in A : \A i \in A : a <= i
    <3>1. A \in SUBSET Nat
      OBVIOUS
    <3> HIDE DEF A
    <3> QED
      BY <1>2, <3>1, LeastMember
  <2>2. \A i \in 1 .. MaxVoices : voices[s[i]].active <=> i >= a
    BY <2>1 DEF Ordered
  <2>3. MaxVoices + 1 - a \in 0 .. MaxVoices
    BY <2>1
  <2>4. \A i \in 1 .. MaxVoices : i >= a <=> i > MaxVoices - (MaxVoices + 1 - a)
    BY <2>1
  <2> QED
    BY <2>2, <2>3, <2>4
<1> QED
  BY <1>1, <1>2

\* A loop from the back to the first inactive voice meets the active voices.
LEMMA PlayingIs ==
  ASSUME NEW s \in [1 .. MaxVoices -> Voice], AllIn(list, s), NEW m \in 0 .. MaxVoices,
         \A i \in 1 .. MaxVoices : voices[s[i]].active <=> i > MaxVoices - m
  PROVE  Playing = [i \in 1 .. m |-> s[MaxVoices + 1 - i]]
<1> USE VoiceAssumption
<1> DEFINE r == [i \in 1 .. MaxVoices |-> s[MaxVoices + 1 - i]]
           Met == {i \in DOMAIN r : \A j \in 1 .. i : voices[r[j]].active}
<1>1. Playing = SubSeq(r, 1, Cardinality(Met))
  <2>1. List!FromBack(list) = r
    BY ListIsWalked
  <2> HIDE DEF r
  <2> QED
    BY <2>1, Zenon DEF Playing
<1>2. \A i \in 1 .. MaxVoices : voices[r[i]].active <=> i <= m
  <2> TAKE i \in 1 .. MaxVoices
  <2>1. MaxVoices + 1 - i \in 1 .. MaxVoices /\ r[i] = s[MaxVoices + 1 - i]
    OBVIOUS
  <2>2. voices[s[MaxVoices + 1 - i]].active <=> MaxVoices + 1 - i > MaxVoices - m
    BY <2>1
  <2> QED
    BY <2>1, <2>2
<1>3. DOMAIN r = 1 .. MaxVoices /\ \A i \in 1 .. MaxVoices : r[i] \in Voice
  OBVIOUS
<1>4. \A i \in 1 .. m : r[i] = s[MaxVoices + 1 - i]
  OBVIOUS
<1> HIDE DEF r
<1>5. Met = 1 .. m
  <2>1. ASSUME NEW i \in Met PROVE i \in 1 .. m
    BY <1>2, <1>3
  <2>2. ASSUME NEW i \in 1 .. m PROVE i \in Met
    BY <1>2, <1>3
  <2> QED
    BY <2>1, <2>2
<1>6. Cardinality(Met) = m
  <2>1. Cardinality(1 .. m) = m
    BY FS_Interval
  <2> HIDE DEF Met
  <2> QED
    BY <1>5, <2>1
<1>7. \A i \in 1 .. m : r[i] \in Voice
  BY <1>3
<1> DEFINE q == SubSeq(r, 1, m)
<1>8. q \in Seq(Voice) /\ Len(q) = m /\ \A i \in 1 .. m : q[i] = r[i]
  BY <1>7, SubSeqProperties
<1> HIDE DEF q
<1>9. DOMAIN q = 1 .. m /\ q = [i \in 1 .. m |-> q[i]]
  BY <1>8
<1>10. q = [i \in 1 .. m |-> s[MaxVoices + 1 - i]]
  BY <1>4, <1>8, <1>9
<1> QED
  BY <1>1, <1>6, <1>10 DEF q

\* All active voices and no others are met.
LEMMA PlayingAreActive ==
  ASSUME ListInv, \A v \in Voice : voices[v].active \in BOOLEAN, NEW v \in Voice
  PROVE  (\E i \in DOMAIN Playing : Playing[i] = v) <=> voices[v].active
<1> USE VoiceAssumption
<1>1. PICK s \in [1 .. MaxVoices -> Voice] : AllIn(list, s) /\ Ordered(s)
  BY DEF ListInv
<1>2. PICK m \in 0 .. MaxVoices : \A i \in 1 .. MaxVoices : voices[s[i]].active <=> i > MaxVoices - m
  BY <1>1, Cut
<1>3. Playing = [i \in 1 .. m |-> s[MaxVoices + 1 - i]]
  BY <1>1, <1>2, PlayingIs
<1>4. PICK k \in 1 .. MaxVoices : s[k] = v
  BY <1>1 DEF AllIn
<1>5. ASSUME voices[v].active PROVE \E i \in DOMAIN Playing : Playing[i] = v
  <2>1. k > MaxVoices - m
    BY <1>2, <1>4, <1>5
  <2>2. MaxVoices + 1 - k \in 1 .. m /\ MaxVoices + 1 - (MaxVoices + 1 - k) = k
    BY <2>1
  <2> QED
    BY <1>3, <1>4, <2>2
<1>6. ASSUME NEW i \in DOMAIN Playing, Playing[i] = v PROVE voices[v].active
  <2>1. i \in 1 .. m /\ s[MaxVoices + 1 - i] = v
    BY <1>3, <1>6
  <2>2. MaxVoices + 1 - i \in 1 .. MaxVoices /\ MaxVoices + 1 - i > MaxVoices - m
    BY <2>1
  <2> QED
    BY <1>2, <2>1, <2>2
<1> QED
  BY <1>5, <1>6

\* One chunk of samples and the chunks up to one are no more than the bound.
LEMMA SampleBounds ==
  ASSUME NEW c \in 0 .. MaxChunks
  PROVE  /\ c * Frames \in 0 .. MaxChunks * Frames
         /\ c # 0 => Frames <= MaxChunks * Frames /\ (c - 1) * Frames + Frames = c * Frames
                    /\ (c - 1) * Frames \in 0 .. MaxChunks * Frames
<1> USE VoiceAssumption
<1>1. \A a, b, f \in Nat : a <= b => a * f <= b * f
  OBVIOUS
<1>2. \A a, f \in Nat : a * f \in Nat
  OBVIOUS
<1>3. c * Frames \in 0 .. MaxChunks * Frames
  BY <1>1, <1>2
<1>4. ASSUME c # 0
      PROVE  /\ Frames <= MaxChunks * Frames /\ (c - 1) * Frames + Frames = c * Frames
             /\ (c - 1) * Frames \in 0 .. MaxChunks * Frames
  <2>1. 1 * Frames <= MaxChunks * Frames
    BY <1>1, <1>4
  <2>2. c - 1 \in Nat /\ c - 1 <= MaxChunks
    BY <1>4
  <2>3. (c - 1) * Frames <= MaxChunks * Frames /\ (c - 1) * Frames \in Nat
    BY <1>1, <1>2, <2>2
  <2>4. (c - 1) * Frames + Frames = c * Frames
    BY <2>2
  <2> QED
    BY <2>1, <2>3, <2>4
<1> QED
  BY <1>3, <1>4

\* The invariant holds of the voices initialize leaves.
LEMMA VoicesInit == Init => VoicesInv
<1> USE VoiceAssumption
<1> SUFFICES ASSUME Init PROVE VoicesInv
  OBVIOUS
<1>1. \A v \in Voice : voices[v] = NoVoice
  BY DEF Init
<1>2. ListInv
  <2> DEFINE s == [i \in 1 .. MaxVoices |-> i - 1]
  <2>1. AllIn(list, s)
    BY BuiltIsAll DEF Init
  <2>2. s \in [1 .. MaxVoices -> Voice]
    BY DEF Voice
  <2> HIDE DEF s
  <2>3. Ordered(s)
    BY <1>1, <2>2 DEF Ordered, NoVoice
  <2> QED
    BY <2>1, <2>2, <2>3 DEF ListInv
<1>3. list \in List!ArrayType
  BY <1>2 DEF ListInv, AllIn
<1>4. 0 \in 0 .. MaxChunks * Frames
  BY SampleBounds
<1>5. TypeOK
  <2>1. NoVoice \in VoiceType
    BY <1>4 DEF NoVoice, VoiceType, Offset
  <2>2. voices \in [Voice -> VoiceType]
    BY <2>1 DEF Init
  <2>3. fx \in [active : BOOLEAN, activatedThisChunk : BOOLEAN, sampleIndex : 0 .. MaxChunks * Frames]
    BY <1>4 DEF Init
  <2>4. graphs \subseteq {"voice", "fx"}
    BY DEF Init
  <2>5. fxNeeded \in BOOLEAN /\ activateFx \in BOOLEAN
    BY DEF Init
  <2>6. /\ phase \in {"idle", "events", "voices", "fx"}
        /\ current \in 0 .. MaxVoices /\ chunks \in 0 .. MaxChunks
    BY DEF Init
  <2> QED
    BY <1>3, <2>2, <2>3, <2>4, <2>5, <2>6 DEF TypeOK, VoiceType
<1>6. SamplesCount /\ FxWoken
  BY <1>1 DEF Init, NoVoice, SamplesCount, FxWoken, FxHearsNewNotes
<1> QED
  BY <1>2, <1>5, <1>6 DEF VoicesInv

\* The begin of a chunk makes all voices ones of before it.
LEMMA StartChunkKeeps ==
  ASSUME VoicesInv, StartChunk PROVE VoicesInv'
<1> USE VoiceAssumption
<1>1. TypeOK /\ ListInv /\ SamplesCount /\ FxWoken
  BY DEF VoicesInv
<1>2. voices \in [Voice -> VoiceType] /\ chunks \in 0 .. MaxChunks /\ chunks' = chunks + 1
  BY <1>1 DEF TypeOK, VoiceType, StartChunk
<1>3. \A v \in Voice : voices[v].active \in BOOLEAN
  BY <1>2 DEF VoiceType
<1>4. 0 \in 0 .. MaxChunks * Frames
  BY SampleBounds
<1> DEFINE FxType == [active : BOOLEAN, activatedThisChunk : BOOLEAN, sampleIndex : 0 .. MaxChunks * Frames]
<1>5. fx' \in FxType /\ fx'.sampleIndex = fx.sampleIndex
  <2>1. fx \in FxType
    BY <1>1 DEF TypeOK
  <2>2. fx' = [fx EXCEPT !.activatedThisChunk = IF fx.active THEN FALSE ELSE fx.activatedThisChunk]
    BY DEF StartChunk
  <2>3. (IF fx.active THEN FALSE ELSE fx.activatedThisChunk) \in BOOLEAN
    BY <2>1
  <2> QED
    BY <2>1, <2>2, <2>3
<1>6. ASSUME NEW v \in Voice
      PROVE  voices'[v] = IF voices[v].active
                          THEN [voices[v] EXCEPT !.activatedThisChunk = FALSE, !.sampleIndex = 0,
                                                 !.offset = 0, !.releaseSample = Never]
                          ELSE voices[v]
  BY <1>1, <1>3, PlayingAreActive DEF StartChunk
<1>7. DOMAIN voices' = Voice
  BY DEF StartChunk
<1>8. ASSUME NEW v \in Voice
      PROVE  /\ voices'[v] \in VoiceType
             /\ voices'[v].active = voices[v].active
             /\ ~voices'[v].activatedThisChunk
             /\ voices'[v].sampleIndex = IF voices[v].active THEN 0 ELSE voices[v].sampleIndex
  <2>1. voices[v] \in VoiceType /\ 0 \in Offset
    BY <1>2 DEF Offset
  <2>2. voices[v].activatedThisChunk => voices[v].active
    BY <1>1 DEF FxWoken
  <2>3. CASE voices[v].active
    <3>1. voices'[v] = [voices[v] EXCEPT !.activatedThisChunk = FALSE, !.sampleIndex = 0, !.offset = 0,
                                         !.releaseSample = Never]
      BY <1>6, <2>3
    <3>2. voices'[v] = [active |-> voices[v].active, activatedThisChunk |-> FALSE,
                        released |-> voices[v].released, sampleIndex |-> 0, offset |-> 0,
                        note |-> voices[v].note, releaseSample |-> Never]
      BY <2>1, <3>1 DEF VoiceType
    <3>3. voices'[v] \in VoiceType
      BY <1>4, <2>1, <3>2 DEF VoiceType
    <3> QED
      BY <2>3, <3>2, <3>3
  <2>4. CASE ~voices[v].active
    <3>1. voices'[v] = voices[v]
      BY <1>6, <2>4
    <3> QED
      BY <2>1, <2>2, <2>4, <3>1
  <2> QED
    BY <2>3, <2>4
<1>9. voices' \in [Voice -> VoiceType]
  <2>1. voices' = [v \in Voice |-> voices'[v]]
    BY DEF StartChunk
  <2> QED
    BY <1>8, <2>1
<1>10. TypeOK'
  <2>1. fx' \in FxType
    BY <1>5
  <2>2. /\ list' \in List!ArrayType /\ graphs' \subseteq {"voice", "fx"}
        /\ phase' \in {"idle", "events", "voices", "fx"} /\ current' \in 0 .. MaxVoices
    BY <1>1 DEF TypeOK, StartChunk
  <2>3. fxNeeded' \in BOOLEAN /\ activateFx' \in BOOLEAN
    BY <1>1 DEF TypeOK, StartChunk
  <2>4. chunks' \in 0 .. MaxChunks
    <3>1. chunks < MaxChunks
      BY DEF StartChunk
    <3> QED
      BY <1>2, <3>1
  <2> QED
    BY <1>9, <2>1, <2>2, <2>3, <2>4 DEF TypeOK, VoiceType
<1>11. ListInv'
  BY <1>1, <1>8, OrderKept DEF StartChunk
<1>12. SamplesCount'
  <2>1. phase = "idle" /\ phase' = "events" /\ chunks' # 0 /\ chunks' - 1 = chunks
    <3>1. phase = "idle" /\ phase' = "events"
      BY DEF StartChunk
    <3> QED
      BY <1>2, <3>1
  <2>2. fx'.sampleIndex <= (chunks' - 1) * Frames
    BY <1>1, <1>5, <2>1 DEF SamplesCount
  <2>3. \A v \in Voice : voices'[v].sampleIndex <= Frames
    <3>1. \A v \in Voice : voices[v].sampleIndex \in Int
      BY <1>2 DEF VoiceType
    <3>2. \A v \in Voice : voices[v].sampleIndex <= IF chunks = 0 THEN 0 ELSE Frames
      BY <1>1 DEF SamplesCount
    <3> QED
      BY <1>8, <3>1, <3>2
  <2>4. \A v \in Voice : voices'[v].active => voices'[v].sampleIndex = 0
    BY <1>8
  <2> QED
    BY <2>1, <2>2, <2>3, <2>4 DEF SamplesCount
<1>13. FxWoken'
  BY <1>8 DEF FxWoken, FxHearsNewNotes, StartChunk
<1> QED
  BY <1>10, <1>11, <1>12, <1>13 DEF VoicesInv

\* A note takes the place of the oldest voice, which becomes the newest.
LEMMA NoteOnKeeps ==
  ASSUME VoicesInv, NEW n \in Notes, NEW t \in Nat, NoteOn(n, t) PROVE VoicesInv'
<1> USE VoiceAssumption
<1>1. TypeOK /\ ListInv /\ SamplesCount /\ FxWoken /\ phase = "events"
  BY DEF VoicesInv, NoteOn
<1>2. voices \in [Voice -> VoiceType] /\ chunks \in 0 .. MaxChunks /\ chunks # 0
  BY <1>1 DEF TypeOK, VoiceType, SamplesCount
<1>3. /\ graphs' = graphs /\ fx' = fx /\ fxNeeded' = fxNeeded /\ phase' = phase
      /\ current' = current /\ chunks' = chunks
  BY DEF NoteOn
<1>4. CASE Holding(n) # {}
  <2>1. voices' = voices /\ list' = list /\ activateFx' = activateFx
    BY <1>4 DEF NoteOn
  <2>2. ListInv'
    BY <1>1, <2>1, OrderKept
  <2> QED
    BY <1>1, <1>3, <2>1, <2>2 DEF VoicesInv, TypeOK, SamplesCount, FxWoken, FxHearsNewNotes
<1>5. CASE Holding(n) = {}
  <2>1. /\ list' = List!PushBack(List!RemoveNode(list, list.front), list.front)
        /\ voices' = [voices EXCEPT ![list.front] = Started(voices[list.front], n, t)]
        /\ activateFx' = TRUE
    BY <1>5 DEF NoteOn, Chosen, ActivateFx
  <2>2. PICK s \in [1 .. MaxVoices -> Voice] : AllIn(list, s) /\ Ordered(s)
    BY <1>1 DEF ListInv
  <2>3. list.front = s[1] /\ s[1] \in Voice
    BY <2>2 DEF AllIn, Chain
  <2> DEFINE c == s[1]
  <2>4. 0 \in 0 .. MaxChunks * Frames /\ SampleOffset(t) \in Offset
    BY SampleBounds DEF SampleOffset, Offset
  <2>5. /\ Started(voices[c], n, t) \in VoiceType
        /\ Started(voices[c], n, t).active /\ Started(voices[c], n, t).sampleIndex = 0
    <3>1. voices[c] \in VoiceType
      BY <1>2, <2>3
    <3> HIDE DEF c
    <3> QED
      BY <2>4, <3>1 DEF Started, VoiceType
  <2>6. /\ voices' \in [Voice -> VoiceType]
        /\ \A v \in Voice : v # c => voices'[v] = voices[v]
        /\ voices'[c].active /\ voices'[c].sampleIndex = 0
    BY <1>2, <2>1, <2>3, <2>5
  <2>7. AllIn(list', ToBack(s)) /\ ToBack(s) \in [1 .. MaxVoices -> Voice]
    <3>1. AllIn(List!PushBack(List!RemoveNode(list, list.front), list.front), ToBack(s))
      BY <2>2, OldestToBack
    <3>2. AllIn(list', ToBack(s))
      BY <2>1, <3>1
    <3> QED
      BY <3>2 DEF AllIn
  <2>8. Ordered(ToBack(s))'
    <3>1. \A i \in 1 .. MaxVoices : i # 1 => s[i] # c
      BY <2>2 DEF AllIn, Distinct
    <3>2. ASSUME NEW i \in 1 .. MaxVoices, NEW j \in 1 .. MaxVoices, i < j,
                 voices'[ToBack(s)[i]].active
          PROVE  voices'[ToBack(s)[j]].active
      <4>1. CASE j = MaxVoices
        BY <2>6, <4>1 DEF ToBack
      <4>2. CASE j # MaxVoices
        <5>1. /\ i + 1 \in 1 .. MaxVoices /\ j + 1 \in 1 .. MaxVoices /\ i + 1 < j + 1
              /\ ToBack(s)[i] = s[i + 1] /\ ToBack(s)[j] = s[j + 1]
          BY <3>2, <4>2 DEF ToBack
        <5>2. voices[s[i + 1]].active
          BY <2>6, <3>1, <3>2, <5>1
        <5>3. voices[s[j + 1]].active
          BY <2>2, <5>1, <5>2 DEF Ordered
        <5> QED
          BY <2>6, <3>1, <5>1, <5>3
      <4> QED
        BY <4>1, <4>2
    <3> QED
      BY <3>2 DEF Ordered
  <2>9. ListInv'
    BY <2>7, <2>8 DEF ListInv
  <2>10. TypeOK'
    <3>1. list' \in List!ArrayType
      BY <2>7 DEF AllIn
    <3> QED
      BY <1>1, <1>3, <2>1, <2>6, <3>1 DEF TypeOK, VoiceType
  <2>11. SamplesCount'
    BY <1>1, <1>2, <1>3, <2>6 DEF SamplesCount
  <2>12. FxWoken'
    BY <1>1, <1>3, <2>1, <2>6 DEF FxWoken, FxHearsNewNotes
  <2> QED
    BY <2>9, <2>10, <2>11, <2>12 DEF VoicesInv
<1> QED
  BY <1>4, <1>5

\* The release of a note changes no more than when it was.
LEMMA NoteOffKeeps ==
  ASSUME VoicesInv, NEW n, NEW t \in Nat, NoteOff(n, t) PROVE VoicesInv'
<1> USE VoiceAssumption
<1>1. TypeOK /\ ListInv /\ SamplesCount /\ FxWoken /\ phase = "events"
  BY DEF VoicesInv, NoteOff
<1>2. /\ list' = list /\ graphs' = graphs /\ fx' = fx /\ fxNeeded' = fxNeeded
      /\ activateFx' = activateFx /\ phase' = phase /\ current' = current /\ chunks' = chunks
  BY DEF NoteOff
<1>3. ASSUME NEW v \in Voice
      PROVE  /\ voices'[v] \in VoiceType
             /\ voices'[v].active = voices[v].active
             /\ voices'[v].activatedThisChunk = voices[v].activatedThisChunk
             /\ voices'[v].sampleIndex = voices[v].sampleIndex
  <2>1. voices[v] \in VoiceType
    BY <1>1 DEF TypeOK, VoiceType
  <2>2. SampleOffset(t) \in Offset
    BY DEF SampleOffset, Offset
  <2>3. \/ voices'[v] = [voices[v] EXCEPT !.releaseSample = SampleOffset(t), !.released = TRUE]
        \/ voices'[v] = voices[v]
    BY DEF NoteOff
  <2> QED
    BY <2>1, <2>2, <2>3 DEF VoiceType
<1>4. voices' \in [Voice -> VoiceType]
  <2>1. voices' = [v \in Voice |-> voices'[v]]
    BY DEF NoteOff
  <2> QED
    BY <1>3, <2>1
<1>5. TypeOK'
  BY <1>1, <1>2, <1>4 DEF TypeOK, VoiceType
<1>6. ListInv'
  BY <1>1, <1>2, <1>3, OrderKept
<1>7. SamplesCount'
  BY <1>1, <1>2, <1>3 DEF SamplesCount
<1>8. FxWoken'
  BY <1>1, <1>2, <1>3 DEF FxWoken, FxHearsNewNotes
<1> QED
  BY <1>5, <1>6, <1>7, <1>8 DEF VoicesInv

\* The effects wake when a note did.
LEMMA EndEventsKeeps ==
  ASSUME VoicesInv, EndEvents PROVE VoicesInv'
<1> USE VoiceAssumption
<1>1. TypeOK /\ ListInv /\ SamplesCount /\ FxWoken /\ phase = "events"
  BY DEF VoicesInv, EndEvents
<1>2. /\ voices' = voices /\ list' = list /\ graphs' = graphs /\ fxNeeded' = fxNeeded
      /\ chunks' = chunks /\ activateFx' = FALSE /\ current' = 0
      /\ phase' = IF "voice" \in graphs THEN "voices" ELSE "fx"
  BY DEF EndEvents
<1> DEFINE FxType == [active : BOOLEAN, activatedThisChunk : BOOLEAN, sampleIndex : 0 .. MaxChunks * Frames]
<1>3. fx \in FxType /\ 0 \in 0 .. MaxChunks * Frames
  BY <1>1, SampleBounds DEF TypeOK
<1>4. /\ fx' \in FxType /\ (fx'.sampleIndex = fx.sampleIndex \/ fx'.sampleIndex = 0)
      /\ "fx" \in graphs /\ activateFx => fx'.active
      /\ fx.active => fx'.active
  BY <1>3 DEF EndEvents
<1>5. TypeOK'
  <2>1. activateFx' \in BOOLEAN /\ phase' \in {"idle", "events", "voices", "fx"} /\ current' \in 0 .. MaxVoices
    <3>1. activateFx' \in BOOLEAN /\ current' \in 0 .. MaxVoices
      <4>1. activateFx' \in BOOLEAN
        BY Zenon, <1>2
      <4>2. current' \in 0 .. MaxVoices
        BY <1>2
      <4> QED
        BY <4>1, <4>2
    <3>2. phase' \in {"idle", "events", "voices", "fx"}
      BY <1>2
    <3> QED
      BY <3>1, <3>2
  <2> HIDE DEF FxType
  <2>2. /\ voices' \in [Voice -> VoiceType] /\ list' \in List!ArrayType /\ graphs' \subseteq {"voice", "fx"}
        /\ fxNeeded' \in BOOLEAN /\ chunks' \in 0 .. MaxChunks
    BY <1>1, <1>2 DEF TypeOK, VoiceType
  <2> QED
    BY <1>4, <2>1, <2>2 DEF TypeOK, VoiceType, FxType
<1>6. ListInv'
  BY <1>1, <1>2, OrderKept
<1>7. SamplesCount'
  <2>1. (chunks - 1) * Frames >= 0 /\ chunks # 0
    BY <1>1, SampleBounds DEF SamplesCount, TypeOK
  <2>2. fx'.sampleIndex <= (chunks - 1) * Frames
    BY <1>1, <1>3, <1>4, <2>1 DEF SamplesCount
  <2>3. \A v \in Voice : voices[v].active => voices[v].sampleIndex = 0
    BY <1>1 DEF SamplesCount
  <2>4. \A v \in Voice : voices[v].sampleIndex <= Frames
    BY <1>1, <2>1 DEF SamplesCount
  <2> QED
    BY <1>2, <2>1, <2>2, <2>3, <2>4 DEF SamplesCount
<1>8. FxWoken'
  BY <1>1, <1>2, <1>4 DEF FxWoken, FxHearsNewNotes
<1> QED
  BY <1>5, <1>6, <1>7, <1>8 DEF VoicesInv

\* A voice that ends its note goes before the voices that sound.
LEMMA ProcessVoiceKeeps ==
  ASSUME VoicesInv, ProcessVoice PROVE VoicesInv'
<1> USE VoiceAssumption
<1> DEFINE c == current
           frames == Frames - voices[c].offset
<1>1. /\ TypeOK /\ ListInv /\ SamplesCount /\ FxWoken
      /\ phase = "voices" /\ c \in Voice /\ voices[c].active
  BY DEF VoicesInv, ProcessVoice
<1>2. /\ graphs' = graphs /\ fx' = fx /\ fxNeeded' = fxNeeded /\ activateFx' = activateFx
      /\ phase' = phase /\ current' = c + 1 /\ chunks' = chunks
  BY DEF ProcessVoice
<1>3. /\ voices \in [Voice -> VoiceType] /\ voices[c] \in VoiceType
      /\ chunks \in 0 .. MaxChunks /\ chunks # 0 /\ voices[c].sampleIndex = 0
  BY <1>1 DEF TypeOK, VoiceType, SamplesCount, Voice
<1>4. frames \in 1 .. Frames /\ frames \in 0 .. MaxChunks * Frames
  <2>1. Frames <= MaxChunks * Frames
    BY <1>3, SampleBounds
  <2>2. voices[c].offset \in 0 .. Frames - 1
    BY <1>3 DEF VoiceType, Offset
  <2>3. \A m \in Int : Frames <= m => Frames - voices[c].offset \in 0 .. m
    BY <2>2
  <2> QED
    BY <2>1, <2>2, <2>3
<1>5. \/ voices' = [voices EXCEPT ![c].sampleIndex = @ + frames] /\ list' = list
      \/ DisableVoice(c)
  BY DEF ProcessVoice
<1> HIDE DEF c
<1>6. ASSUME NEW w \in VoiceType, voices' = [voices EXCEPT ![c] = w], w.sampleIndex = frames,
             w.activatedThisChunk => w.active /\ voices[c].activatedThisChunk,
             list' \in List!ArrayType
      PROVE  TypeOK' /\ SamplesCount' /\ FxWoken'
  <2>1. /\ voices' \in [Voice -> VoiceType] /\ voices'[c] = w
        /\ \A v \in Voice : v # c => voices'[v] = voices[v]
    BY <1>1, <1>3, <1>6
  <2>2. current' \in 0 .. MaxVoices /\ c + 1 > c
    BY <1>1, <1>2 DEF Voice
  <2>3. TypeOK'
    BY <1>1, <1>2, <1>6, <2>1, <2>2 DEF TypeOK, VoiceType
  <2>4. SamplesCount'
    <3>1. \A v \in Voice : voices'[v].sampleIndex <= Frames
      BY <1>1, <1>3, <1>4, <1>6, <2>1 DEF SamplesCount
    <3>2. ASSUME NEW v \in Voice, voices'[v].active, c + 1 <= v PROVE voices'[v].sampleIndex = 0
      <4>1. v # c /\ c <= v
        BY <1>1, <3>2 DEF Voice
      <4> QED
        BY <1>1, <2>1, <3>2, <4>1 DEF SamplesCount, c
    <3> QED
      BY <1>1, <1>2, <1>3, <3>1, <3>2 DEF SamplesCount
  <2>5. FxWoken'
    BY <1>1, <1>2, <1>6, <2>1 DEF FxWoken, FxHearsNewNotes
  <2> QED
    BY <2>3, <2>4, <2>5
<1>7. CASE voices' = [voices EXCEPT ![c].sampleIndex = @ + frames] /\ list' = list
  <2> DEFINE w == [voices[c] EXCEPT !.sampleIndex = frames]
  <2>1. voices' = [voices EXCEPT ![c] = w]
    <3> DEFINE u == [voices[c] EXCEPT !.sampleIndex = voices[c].sampleIndex + frames]
    <3>1. voices' = [voices EXCEPT ![c] = u]
      BY Zenon, <1>7
    <3>2. voices[c].sampleIndex + frames = frames
      BY <1>3, <1>4
    <3> QED
      BY Zenon, <3>1, <3>2
  <2>2. /\ w \in VoiceType /\ w.sampleIndex = frames /\ w.active = voices[c].active
        /\ w.activatedThisChunk = voices[c].activatedThisChunk
    BY <1>3, <1>4 DEF VoiceType
  <2> HIDE DEF w
  <2>3. list' \in List!ArrayType
    BY <1>1, <1>7 DEF TypeOK
  <2>4. TypeOK' /\ SamplesCount' /\ FxWoken'
    BY <1>1, <1>6, <2>1, <2>2, <2>3
  <2>5. ListInv'
    <3>1. \A v \in Voice : voices'[v].active = voices[v].active
      BY <1>1, <1>3, <2>1, <2>2
    <3> QED
      BY <1>1, <1>7, <3>1, OrderKept
  <2> QED
    BY <2>4, <2>5 DEF VoicesInv
<1>8. CASE DisableVoice(c)
  <2> DEFINE w == [voices[c] EXCEPT !.active = FALSE, !.activatedThisChunk = FALSE, !.sampleIndex = frames]
  <2>1. voices' = [voices EXCEPT ![c] = w]
    <3> DEFINE v1 == [voices EXCEPT ![c].active = FALSE]
               v2 == [v1 EXCEPT ![c].activatedThisChunk = FALSE]
               v3 == [v2 EXCEPT ![c].sampleIndex = v2[c].sampleIndex + Frames - voices[c].offset]
    <3>1. voices' = v3
      BY Zenon, <1>8 DEF DisableVoice
    <3>2. v1 = [voices EXCEPT ![c] = [voices[c] EXCEPT !.active = FALSE]]
      OBVIOUS
    <3>3. v1[c] = [voices[c] EXCEPT !.active = FALSE]
      BY <1>1, <1>3, <3>2
    <3> HIDE DEF v1
    <3>4. v2 = [v1 EXCEPT ![c] = [v1[c] EXCEPT !.activatedThisChunk = FALSE]]
      OBVIOUS
    <3>5. v2 = [voices EXCEPT ![c] = [voices[c] EXCEPT !.active = FALSE, !.activatedThisChunk = FALSE]]
      BY <1>1, <1>3, <3>2, <3>3, <3>4
    <3> HIDE DEF v2
    <3>6. v2[c] = [voices[c] EXCEPT !.active = FALSE, !.activatedThisChunk = FALSE]
      BY <1>1, <1>3, <3>5
    <3>7. v2[c].sampleIndex + Frames - voices[c].offset = frames
      <4>1. v2[c].sampleIndex = 0
        BY <1>3, <3>6 DEF VoiceType
      <4>2. Frames \in Int /\ voices[c].offset \in Int
        BY <1>3 DEF VoiceType, Offset
      <4> QED
        BY <4>1, <4>2
    <3>8. v3 = [v2 EXCEPT ![c] = [v2[c] EXCEPT !.sampleIndex = frames]]
      BY Zenon, <3>7
    <3>9. [v2[c] EXCEPT !.sampleIndex = frames] = w
      BY <3>6
    <3> HIDE DEF v3, w, frames
    <3>10. v3 = [v2 EXCEPT ![c] = w]
      BY <3>8, <3>9
    <3> QED
      BY <1>1, <1>3, <3>1, <3>5, <3>10
  <2>2. w \in VoiceType /\ w.sampleIndex = frames /\ ~w.active /\ ~w.activatedThisChunk
    BY <1>3, <1>4 DEF VoiceType
  <2> HIDE DEF w
  <2>3. PICK s \in [1 .. MaxVoices -> Voice] : AllIn(list, s) /\ Ordered(s)
    BY <1>1 DEF ListInv
  <2>4. PICK p \in 1 .. MaxVoices : s[p] = c
    BY <1>1, <2>3 DEF AllIn
  <2>5. AllIn(list', ToFront(s, p)) /\ ToFront(s, p) \in [1 .. MaxVoices -> Voice]
    <3>1. AllIn(List!PushFront(List!RemoveNode(list, c), c), ToFront(s, p))
      BY <2>3, <2>4, EndedToFront
    <3>2. AllIn(list', ToFront(s, p))
      BY <1>8, <3>1 DEF DisableVoice
    <3> QED
      BY <3>2 DEF AllIn
  <2>6. Ordered(ToFront(s, p))'
    <3>1. /\ \A v \in Voice : v # c => voices'[v] = voices[v]
          /\ ~voices'[c].active
      BY <1>1, <1>3, <2>1, <2>2
    <3>2. \A i \in 1 .. MaxVoices : i # p => s[i] # c
      BY <2>3, <2>4 DEF AllIn, Distinct
    <3>3. ASSUME NEW i \in 1 .. MaxVoices, NEW j \in 1 .. MaxVoices, i < j,
                 voices'[ToFront(s, p)[i]].active
          PROVE  voices'[ToFront(s, p)[j]].active
      <4>1. i # 1
        BY <2>4, <3>1, <3>3 DEF ToFront
      <4>2. PICK i0 \in 1 .. MaxVoices : i0 = IF i <= p THEN i - 1 ELSE i
        BY <4>1
      <4>3. PICK j0 \in 1 .. MaxVoices : j0 = IF j <= p THEN j - 1 ELSE j
        BY <3>3, <4>1
      <4>4. ToFront(s, p)[i] = s[i0] /\ ToFront(s, p)[j] = s[j0] /\ i0 < j0 /\ i0 # p /\ j0 # p
        BY <3>3, <4>1, <4>2, <4>3 DEF ToFront
      <4>5. voices[s[i0]].active
        BY <3>1, <3>2, <3>3, <4>4
      <4>6. voices[s[j0]].active
        BY <2>3, <4>4, <4>5 DEF Ordered
      <4> QED
        BY <3>1, <3>2, <4>4, <4>6
    <3> QED
      BY <3>3 DEF Ordered
  <2>7. ListInv'
    BY <2>5, <2>6 DEF ListInv
  <2>8. list' \in List!ArrayType
    BY <2>5 DEF AllIn
  <2>9. TypeOK' /\ SamplesCount' /\ FxWoken'
    BY <1>6, <2>1, <2>2, <2>8
  <2> QED
    BY <2>7, <2>9 DEF VoicesInv
<1> QED
  BY <1>5, <1>7, <1>8

\* The steps from one voice to the next, to the effects and to the end of the chunk.
LEMMA PassingKeeps ==
  ASSUME VoicesInv, SkipVoice \/ EndVoices \/ ProcessFx PROVE VoicesInv'
<1> USE VoiceAssumption
<1>1. TypeOK /\ ListInv /\ SamplesCount /\ FxWoken /\ current \in 0 .. MaxVoices
  BY DEF VoicesInv, TypeOK
<1>2. CASE SkipVoice
  <2>1. /\ voices' = voices /\ list' = list /\ graphs' = graphs /\ fx' = fx /\ fxNeeded' = fxNeeded
        /\ activateFx' = activateFx /\ phase = "voices" /\ phase' = phase
        /\ current \in Voice /\ current' = current + 1 /\ chunks' = chunks
    BY <1>2 DEF SkipVoice
  <2>2. current' \in 0 .. MaxVoices /\ \A v \in Voice : current' <= v => current <= v
    BY <2>1 DEF Voice
  <2>3. ListInv'
    BY <1>1, <2>1, OrderKept
  <2> QED
    BY <1>1, <2>1, <2>2, <2>3 DEF VoicesInv, TypeOK, SamplesCount, FxWoken, FxHearsNewNotes
<1>3. CASE EndVoices
  <2>1. /\ voices' = voices /\ list' = list /\ graphs' = graphs /\ fx' = fx /\ fxNeeded' = fxNeeded
        /\ activateFx' = activateFx /\ phase = "voices" /\ phase' = "fx" /\ current' = 0
        /\ chunks' = chunks
    BY <1>3 DEF EndVoices
  <2>2. ListInv'
    BY <1>1, <2>1, OrderKept
  <2> QED
    BY <1>1, <2>1, <2>2 DEF VoicesInv, TypeOK, SamplesCount, FxWoken, FxHearsNewNotes
<1>4. CASE ProcessFx
  <2>1. /\ voices' = voices /\ list' = list /\ graphs' = graphs /\ fxNeeded' = fxNeeded
        /\ activateFx' = activateFx /\ phase = "fx" /\ phase' = "idle" /\ current' = current
        /\ chunks' = chunks
    BY <1>4 DEF ProcessFx
  <2> DEFINE FxType == [active : BOOLEAN, activatedThisChunk : BOOLEAN, sampleIndex : 0 .. MaxChunks * Frames]
  <2>2. fx \in FxType /\ chunks \in 0 .. MaxChunks /\ chunks # 0
    BY <1>1, <2>1 DEF TypeOK, SamplesCount
  <2>3. /\ (chunks - 1) * Frames + Frames = chunks * Frames /\ chunks * Frames \in 0 .. MaxChunks * Frames
        /\ (chunks - 1) * Frames \in 0 .. MaxChunks * Frames
    BY <2>2, SampleBounds
  <2>4. fx.sampleIndex <= (chunks - 1) * Frames
    BY <1>1, <2>1 DEF SamplesCount
  <2>5. /\ fx.sampleIndex + Frames \in 0 .. MaxChunks * Frames
        /\ fx.sampleIndex + Frames <= chunks * Frames /\ fx.sampleIndex <= chunks * Frames
    <3> DEFINE a == (chunks - 1) * Frames
               b == chunks * Frames
               c == MaxChunks * Frames
    <3>1. a + Frames = b /\ b \in 0 .. c /\ a \in 0 .. c /\ fx.sampleIndex \in 0 .. c /\ fx.sampleIndex <= a
      BY <2>2, <2>3, <2>4
    <3>2. c \in Int
      BY SampleBounds
    <3> HIDE DEF a, b, c
    <3>3. fx.sampleIndex + Frames \in 0 .. c /\ fx.sampleIndex + Frames <= b /\ fx.sampleIndex <= b
      BY <3>1, <3>2
    <3> QED
      BY <3>3 DEF b, c
  <2>6. fx' \in FxType /\ fx'.sampleIndex <= chunks * Frames
    <3>1. CASE ~fx.active
      <4>1. fx' = fx
        BY <1>4, <3>1 DEF ProcessFx
      <4> QED
        BY <2>2, <2>5, <4>1
    <3>2. CASE fx.active
      <4>1. PICK remain \in RemainsActive(FxLatency, fx.sampleIndex, Frames) :
              fx' = [active |-> remain, activatedThisChunk |-> remain /\ fx.activatedThisChunk,
                     sampleIndex |-> fx.sampleIndex + Frames]
        BY <1>4, <3>2 DEF ProcessFx
      <4>2. remain \in BOOLEAN
        BY DEF RemainsActive
      <4>3. (remain /\ fx.activatedThisChunk) \in BOOLEAN
        OBVIOUS
      <4>4. fx'.sampleIndex = fx.sampleIndex + Frames
        BY <4>1
      <4> QED
        BY <2>5, <4>1, <4>2, <4>3, <4>4
    <3> QED
      BY <3>1, <3>2
  <2>7. ListInv'
    BY <1>1, <2>1, OrderKept
  <2>8. TypeOK'
    BY <1>1, <2>1, <2>6 DEF TypeOK
  <2>9. SamplesCount'
    BY <1>1, <2>1, <2>2, <2>6 DEF SamplesCount
  <2>10. FxWoken'
    BY <1>1, <2>1 DEF FxWoken, FxHearsNewNotes
  <2> QED
    BY <2>7, <2>8, <2>9, <2>10 DEF VoicesInv
<1> QED
  BY <1>2, <1>3, <1>4

\* A step of another part.
LEMMA VoicesStutter == VoicesInv /\ UNCHANGED vars => VoicesInv'
<1> SUFFICES ASSUME VoicesInv, UNCHANGED vars PROVE VoicesInv'
  OBVIOUS
<1>1. TypeOK /\ ListInv /\ SamplesCount /\ FxWoken
  BY DEF VoicesInv
<1>2. ListInv'
  BY <1>1, OrderKept DEF vars
<1> QED
  BY <1>1, <1>2 DEF vars, VoicesInv, TypeOK, SamplesCount, FxWoken, FxHearsNewNotes

-----------------------------------------------------------------------------
(* The voices play what VoicePolicy promises.                              *)

Tone(v) == [note |-> v.note, held |-> ~v.released]

\* Sounding, of any list and voices.
SoundOf(l, vs) ==
  LET note == [v \in Voice |-> Tone(vs[v])]
      count == Cardinality({v \in Voice : vs[v].active})
  IN  [i \in 1 .. count |-> note[List!FromBack(l)[count + 1 - i]]]

\* The last m voices of s are the active ones.
ActiveLast(vs, s, m) == \A i \in 1 .. MaxVoices : vs[s[i]].active <=> i > MaxVoices - m

\* Sounding and the next one are SoundOf.
LEMMA SoundIs == Sounding = SoundOf(list, voices) /\ Sounding' = SoundOf(list', voices')
BY DEF Sounding, SoundOf, Tone

\* What sounds are the tones of the last m voices, in the order of the list.
LEMMA SoundsAs ==
  ASSUME NEW l, NEW s, AllIn(l, s), NEW vs, NEW m \in 0 .. MaxVoices, ActiveLast(vs, s, m)
  PROVE  SoundOf(l, vs) = [i \in 1 .. m |-> Tone(vs[s[MaxVoices - m + i]])]
<1> USE VoiceAssumption
<1> DEFINE A == {v \in Voice : vs[v].active}
           f == [i \in 1 .. m |-> s[MaxVoices - m + i]]
           r == [i \in 1 .. MaxVoices |-> s[MaxVoices + 1 - i]]
           note == [v \in Voice |-> Tone(vs[v])]
<1>1. s \in [1 .. MaxVoices -> Voice] /\ Distinct(s, MaxVoices)
  BY DEF AllIn
<1>2. Cardinality(A) = m
  <2>1. f \in [1 .. m -> A]
    <3>1. ASSUME NEW i \in 1 .. m PROVE f[i] \in A
      <4>1. MaxVoices - m + i \in 1 .. MaxVoices /\ MaxVoices - m + i > MaxVoices - m
        OBVIOUS
      <4> QED
        BY <1>1, <4>1 DEF ActiveLast
    <3> HIDE DEF A
    <3> QED
      BY <3>1
  <2>2. ASSUME NEW i \in 1 .. m, NEW j \in 1 .. m, f[i] = f[j] PROVE i = j
    <3>1. MaxVoices - m + i \in 1 .. MaxVoices /\ MaxVoices - m + j \in 1 .. MaxVoices
      OBVIOUS
    <3>2. MaxVoices - m + i = MaxVoices - m + j
      BY <1>1, <2>2, <3>1 DEF Distinct
    <3> QED
      BY <3>2
  <2>3. ASSUME NEW v \in A PROVE \E i \in 1 .. m : f[i] = v
    <3>1. PICK k \in 1 .. MaxVoices : s[k] = v
      BY DEF AllIn
    <3>2. k > MaxVoices - m
      BY <3>1 DEF ActiveLast
    <3>3. k - (MaxVoices - m) \in 1 .. m /\ MaxVoices - m + (k - (MaxVoices - m)) = k
      BY <3>2
    <3> QED
      BY <3>1, <3>3
  <2> HIDE DEF f, A
  <2>4. f \in Bijection(1 .. m, A)
    BY <2>1, <2>2, <2>3 DEF Bijection, Injection, Surjection, IsInjective
  <2>5. IsFiniteSet(1 .. m) /\ Cardinality(1 .. m) = m
    BY FS_Interval
  <2> QED
    BY <2>4, <2>5, FS_Bijection DEF ExistsBijection
<1>3. List!FromBack(l) = r
  BY ListIsWalked
<1>4. SoundOf(l, vs) = [i \in 1 .. m |-> note[r[m + 1 - i]]]
  <2> DEFINE back == List!FromBack(l)
             count == Cardinality(A)
  <2>1. SoundOf(l, vs) = [i \in 1 .. count |-> note[back[count + 1 - i]]]
    BY Zenon DEF SoundOf
  <2> HIDE DEF A, r, note
  <2> QED
    BY Zenon, <1>2, <1>3, <2>1
<1> HIDE DEF A
<1>5. ASSUME NEW i \in 1 .. m PROVE note[r[m + 1 - i]] = Tone(vs[s[MaxVoices - m + i]])
  <2>1. m + 1 - i \in 1 .. MaxVoices /\ MaxVoices + 1 - (m + 1 - i) = MaxVoices - m + i
        /\ MaxVoices - m + i \in 1 .. MaxVoices
    OBVIOUS
  <2>2. r[m + 1 - i] = s[MaxVoices - m + i] /\ s[MaxVoices - m + i] \in Voice
    BY <1>1, <2>1 DEF r
  <2> QED
    BY <2>2
<1> HIDE DEF note
<1> QED
  BY <1>4, <1>5

\* How many voices are active, the last ones of the list.
LEMMA ActiveCut ==
  ASSUME VoicesInv
  PROVE  \E s \in [1 .. MaxVoices -> Voice], m \in 0 .. MaxVoices :
           AllIn(list, s) /\ ActiveLast(voices, s, m)
<1>1. PICK s \in [1 .. MaxVoices -> Voice] : AllIn(list, s) /\ Ordered(s)
  BY DEF VoicesInv, ListInv
<1>2. \A v \in Voice : voices[v].active \in BOOLEAN
  BY DEF VoicesInv, TypeOK
<1>3. PICK m \in 0 .. MaxVoices : \A i \in 1 .. MaxVoices : voices[s[i]].active <=> i > MaxVoices - m
  BY <1>1, <1>2, Cut
<1> QED
  BY <1>1, <1>3 DEF ActiveLast

\* A step that leaves the list and what its voices play alone is not heard.
LEMMA SoundKept ==
  ASSUME VoicesInv, list' = list,
         \A v \in Voice : voices'[v].active = voices[v].active /\ Tone(voices'[v]) = Tone(voices[v])
  PROVE  Sounding' = Sounding
<1> USE VoiceAssumption
<1>1. PICK s \in [1 .. MaxVoices -> Voice], m \in 0 .. MaxVoices :
        AllIn(list, s) /\ ActiveLast(voices, s, m)
  BY ActiveCut
<1>2. ActiveLast(voices', s, m)
  BY <1>1 DEF ActiveLast
<1>3. Sounding = [i \in 1 .. m |-> Tone(voices[s[MaxVoices - m + i]])]
  BY <1>1, SoundsAs, SoundIs
<1>4. Sounding' = [i \in 1 .. m |-> Tone(voices'[s[MaxVoices - m + i]])]
  <2>1. AllIn(list', s)
    BY <1>1
  <2>2. SoundOf(list', voices') = [i \in 1 .. m |-> Tone(voices'[s[MaxVoices - m + i]])]
    BY <1>2, <2>1, SoundsAs
  <2> QED
    BY <2>2, SoundIs
<1>5. \A i \in 1 .. m : s[MaxVoices - m + i] \in Voice
  OBVIOUS
<1> QED
  BY <1>3, <1>4, <1>5

\* Nothing sounds at first.
LEMMA SoundInit == Init => Policy!Init
<1> USE VoiceAssumption
<1> SUFFICES ASSUME Init PROVE Policy!Init
  OBVIOUS
<1> DEFINE s == [i \in 1 .. MaxVoices |-> i - 1]
<1>1. AllIn(list, s)
  BY BuiltIsAll DEF Init
<1>2. \A i \in 1 .. MaxVoices : s[i] \in Voice
  BY DEF Voice
<1> HIDE DEF s
<1>3. ActiveLast(voices, s, 0)
  BY <1>2 DEF Init, NoVoice, ActiveLast
<1>4. Sounding = [i \in 1 .. 0 |-> Tone(voices[s[MaxVoices - 0 + i]])]
  <2>1. 0 \in 0 .. MaxVoices
    OBVIOUS
  <2> QED
    BY <1>1, <1>3, <2>1, SoundsAs, SoundIs
<1>5. Sounding = <<>>
  BY <1>4
<1> QED
  BY <1>5 DEF Policy!Init

\* The begin of a chunk is not heard.
LEMMA StartChunkSounds ==
  ASSUME VoicesInv, StartChunk PROVE Sounding' = Sounding
<1>1. ASSUME NEW v \in Voice
      PROVE  voices'[v].active = voices[v].active /\ Tone(voices'[v]) = Tone(voices[v])
  <2>1. voices[v] \in VoiceType
    BY DEF VoicesInv, TypeOK, VoiceType
  <2>2. \/ voices'[v] = voices[v]
        \/ voices'[v] = [voices[v] EXCEPT !.activatedThisChunk = FALSE, !.sampleIndex = 0,
                                          !.offset = 0, !.releaseSample = Never]
    BY DEF StartChunk
  <2>3. CASE voices'[v] = voices[v]
    BY <2>3
  <2>4. CASE voices'[v] = [voices[v] EXCEPT !.activatedThisChunk = FALSE, !.sampleIndex = 0,
                                            !.offset = 0, !.releaseSample = Never]
    BY <2>1, <2>4 DEF VoiceType, Tone
  <2> QED
    BY <2>2, <2>3, <2>4
<1> QED
  BY <1>1, SoundKept DEF StartChunk

\* A function on 1 .. k that ends in e and is q before is q with e appended.
LEMMA Appended ==
  ASSUME NEW S, NEW e \in S, NEW k \in Nat \ {0}, NEW q \in Seq(S), Len(q) = k - 1,
         NEW f, f = [i \in 1 .. k |-> f[i]],
         \A i \in 1 .. k : f[i] = IF i = k THEN e ELSE q[i]
  PROVE  f = Append(q, e)
<1>1. /\ Append(q, e) \in Seq(S) /\ Len(Append(q, e)) = k
      /\ \A i \in 1 .. k : Append(q, e)[i] = IF i = k THEN e ELSE q[i]
  BY AppendProperties
<1>2. \A i \in 1 .. k : f[i] \in S
  OBVIOUS
<1>3. f \in [1 .. k -> S]
  BY <1>2
<1>4. f \in Seq(S) /\ Len(f) = k
  BY <1>3
<1>5. \A i \in 1 .. Len(f) : f[i] = Append(q, e)[i]
  BY <1>1, <1>4
<1> QED
  BY <1>1, <1>4, <1>5, SeqEqual

\* A note begins as the policy says.
LEMMA NoteOnSounds ==
  ASSUME VoicesInv, NEW n \in Notes, NEW t \in Nat, NoteOn(n, t)
  PROVE  Policy!Next \/ Sounding' = Sounding
<1> USE VoiceAssumption
<1>1. CASE Holding(n) # {}
  <2>1. voices' = voices /\ list' = list
    BY <1>1 DEF NoteOn
  <2> QED
    BY <2>1, SoundKept
<1>2. CASE Holding(n) = {}
  <2>1. PICK s \in [1 .. MaxVoices -> Voice], m \in 0 .. MaxVoices :
          AllIn(list, s) /\ ActiveLast(voices, s, m)
    BY ActiveCut
  <2> DEFINE c == s[1]
             k == IF m = MaxVoices THEN m ELSE m + 1
             new == [note |-> n, held |-> TRUE]
             tone(i) == Tone(voices[s[i]])
  <2>2. /\ list' = List!PushBack(List!RemoveNode(list, list.front), list.front)
        /\ voices' = [voices EXCEPT ![list.front] = Started(voices[list.front], n, t)]
    BY <1>2 DEF NoteOn, Chosen
  <2>3. list.front = c /\ c \in Voice /\ \A i \in 1 .. MaxVoices : i # 1 => s[i] # c /\ s[i] \in Voice
    BY <2>1 DEF AllIn, Chain, Distinct
  <2>4. voices[c] \in VoiceType /\ voices \in [Voice -> VoiceType]
    BY <2>3 DEF VoicesInv, TypeOK, VoiceType
  <2> HIDE DEF c
  <2>5. /\ \A v \in Voice : v # c => voices'[v] = voices[v]
        /\ voices'[c].active /\ Tone(voices'[c]) = new
    <3>1. voices'[c] = Started(voices[c], n, t)
      BY <2>2, <2>3, <2>4
    <3>2. Started(voices[c], n, t).active /\ Tone(Started(voices[c], n, t)) = new
      BY <2>4 DEF Started, Tone, VoiceType
    <3> QED
      BY <2>2, <2>3, <2>4, <3>1, <3>2
  <2>6. AllIn(list', ToBack(s))
    <3>1. AllIn(List!PushBack(List!RemoveNode(list, list.front), list.front), ToBack(s))
      BY <2>1, OldestToBack
    <3> QED
      BY <2>2, <3>1
  <2>7. \A i \in 1 .. MaxVoices : ToBack(s)[i] = IF i = MaxVoices THEN c ELSE s[i + 1]
    BY DEF ToBack, c
  <2>8. k \in 0 .. MaxVoices /\ ActiveLast(voices', ToBack(s), k)
    <3>1. ASSUME NEW i \in 1 .. MaxVoices PROVE voices'[ToBack(s)[i]].active <=> i > MaxVoices - k
      <4>1. CASE i = MaxVoices
        BY <2>5, <2>7, <4>1
      <4>2. CASE i # MaxVoices
        <5>1. i + 1 \in 1 .. MaxVoices /\ i + 1 # 1 /\ ToBack(s)[i] = s[i + 1]
          BY <2>7, <4>2
        <5>2. voices'[s[i + 1]] = voices[s[i + 1]]
          BY <2>3, <2>5, <5>1
        <5>3. voices[s[i + 1]].active <=> i + 1 > MaxVoices - m
          BY <2>1, <5>1 DEF ActiveLast
        <5> QED
          BY <4>2, <5>1, <5>2, <5>3
      <4> QED
        BY <4>1, <4>2
    <3> QED
      BY <3>1 DEF ActiveLast
  <2>9. Sounding = [i \in 1 .. m |-> tone(MaxVoices - m + i)]
    BY <2>1, SoundsAs, SoundIs
  <2>10. Sounding' = [i \in 1 .. k |-> Tone(voices'[ToBack(s)[MaxVoices - k + i]])]
    <3>1. SoundOf(list', voices') = [i \in 1 .. k |-> Tone(voices'[ToBack(s)[MaxVoices - k + i]])]
      <4> HIDE DEF k
      <4> QED
        BY <2>6, <2>8, SoundsAs
    <3> QED
      BY <3>1, SoundIs
  <2>11. ASSUME NEW i \in 1 .. k
         PROVE  Sounding'[i] = IF i = k THEN new ELSE tone(MaxVoices - k + i + 1)
    <3>1. MaxVoices - k + i \in 1 .. MaxVoices
      OBVIOUS
    <3>2. CASE i = k
      BY <2>5, <2>7, <2>10, <3>1, <3>2
    <3>3. CASE i # k
      <4>1. ToBack(s)[MaxVoices - k + i] = s[MaxVoices - k + i + 1]
        BY <2>7, <3>1, <3>3
      <4>2. voices'[s[MaxVoices - k + i + 1]] = voices[s[MaxVoices - k + i + 1]]
        BY <2>3, <2>5, <3>1, <3>3
      <4> QED
        BY <2>10, <3>3, <4>1, <4>2
    <3> QED
      BY <3>2, <3>3
  <2> DEFINE before == IF Len(Sounding) = MaxVoices THEN Tail(Sounding) ELSE Sounding
             Tones == [note : Notes \cup {0}, held : BOOLEAN]
  <2>12. \A i \in 1 .. MaxVoices : tone(i) \in Tones
    BY <2>1, <2>4 DEF Tone, VoiceType
  <2>13. Sounding \in Seq(Tones) /\ Len(Sounding) = m
    <3> HIDE DEF tone, Tones
    <3>1. \A i \in 1 .. m : tone(MaxVoices - m + i) \in Tones
      BY <2>12
    <3>2. Sounding \in [1 .. m -> Tones]
      BY <2>9, <3>1
    <3> QED
      BY <3>2
  <2>14. /\ before \in Seq(Tones) /\ Len(before) = k - 1
         /\ \A i \in 1 .. k - 1 : before[i] = tone(MaxVoices - k + i + 1)
    <3>1. CASE m = MaxVoices
      <4>1. before = Tail(Sounding) /\ Sounding # <<>>
        BY <2>13, <3>1
      <4>2. /\ Tail(Sounding) \in Seq(Tones) /\ Len(Tail(Sounding)) = m - 1
            /\ \A i \in 1 .. m - 1 : Tail(Sounding)[i] = Sounding[i + 1]
        BY <2>13, <4>1
      <4>3. \A i \in 1 .. m - 1 : Sounding[i + 1] = tone(MaxVoices - m + (i + 1))
        BY <2>9
      <4> QED
        BY <3>1, <4>1, <4>2, <4>3
    <3>2. CASE m # MaxVoices
      BY <2>9, <2>13, <3>2
    <3> QED
      BY <3>1, <3>2
  <2>15. Sounding' = Append(before, new)
    <3>1. new \in Tones
      OBVIOUS
    <3>2. k \in Nat \ {0}
      BY DEF k
    <3>3. Sounding' = [i \in 1 .. k |-> Sounding'[i]]
      BY <2>10
    <3> HIDE DEF before, k, tone, new, Tones
    <3>4. \A i \in 1 .. k : Sounding'[i] = IF i = k THEN new ELSE before[i]
      <4> TAKE i \in 1 .. k
      <4>1. CASE i = k
        BY <2>11, <4>1
      <4>2. CASE i # k
        <5>1. i \in 1 .. k - 1
          BY <3>2, <4>2
        <5>2. Sounding'[i] = tone(MaxVoices - k + i + 1)
          BY <2>11, <4>2
        <5> QED
          BY <2>14, <4>2, <5>1, <5>2
      <4> QED
        BY <4>1, <4>2
    <3> QED
      BY <2>14, <3>1, <3>2, <3>3, <3>4, Appended
  <2>16. Policy!Held(n) = {}
    <3> SUFFICES ASSUME NEW i \in DOMAIN Sounding, Sounding[i] = new PROVE FALSE
      BY DEF Policy!Held
    <3>1. i \in 1 .. m /\ tone(MaxVoices - m + i) = new
      BY <2>9
    <3>2. Playing = [j \in 1 .. m |-> s[MaxVoices + 1 - j]]
      BY <2>1, PlayingIs DEF ActiveLast
    <3>3. /\ m + 1 - i \in 1 .. m /\ MaxVoices + 1 - (m + 1 - i) = MaxVoices - m + i
          /\ MaxVoices - m + i \in 1 .. MaxVoices
      BY <3>1
    <3>4. Playing[m + 1 - i] = s[MaxVoices - m + i] /\ m + 1 - i \in DOMAIN Playing
      BY <3>2, <3>3
    <3>5. voices[s[MaxVoices - m + i]] \in VoiceType
      BY <2>4, <3>3
    <3>6. voices[s[MaxVoices - m + i]].note = n /\ ~voices[s[MaxVoices - m + i]].released
      BY <3>1, <3>5 DEF Tone, VoiceType
    <3> QED
      BY <1>2, <3>4, <3>6 DEF Holding
  <2>17. Policy!NoteOn(n)
    BY <2>15, <2>16 DEF Policy!NoteOn
  <2> QED
    BY <2>17 DEF Policy!Next
<1> QED
  BY <1>1, <1>2

\* A note that is held is released as the policy says.
LEMMA NoteOffSounds ==
  ASSUME VoicesInv, NEW n \in Notes, NEW t \in Nat, NoteOff(n, t)
  PROVE  Policy!Next \/ Sounding' = Sounding
<1> USE VoiceAssumption
<1>1. list' = list
  BY DEF NoteOff
<1>2. voices \in [Voice -> VoiceType]
  BY DEF VoicesInv, TypeOK, VoiceType
<1>3. CASE Holding(n) = {}
  <2>1. \A v \in Voice : voices'[v] = voices[v]
    BY <1>3 DEF NoteOff
  <2> QED
    BY <1>1, <2>1, SoundKept
<1>4. CASE Holding(n) # {}
  <2>1. PICK s \in [1 .. MaxVoices -> Voice], m \in 0 .. MaxVoices :
          AllIn(list, s) /\ ActiveLast(voices, s, m)
    BY ActiveCut
  <2>2. Playing = [j \in 1 .. m |-> s[MaxVoices + 1 - j]]
    BY <2>1, PlayingIs DEF ActiveLast
  <2>3. Holding(n) \in SUBSET Nat /\ Holding(n) \subseteq 1 .. m
    BY <2>2 DEF Holding
  <2>4. PICK k \in Holding(n) : \A j \in Holding(n) : k <= j
    BY <1>4, <2>3, LeastMember
  <2> DEFINE p == m + 1 - k
             v == s[MaxVoices - m + p]
             tone(i) == Tone(voices[s[MaxVoices - m + i]])
  <2>5. /\ k \in 1 .. m /\ p \in 1 .. m /\ MaxVoices - m + p = MaxVoices + 1 - k
        /\ MaxVoices - m + p \in 1 .. MaxVoices
    BY <2>3, <2>4
  <2>6. Playing[k] = v /\ v \in Voice
    BY <2>2, <2>5
  <2>7. voices[v].note = n /\ ~voices[v].released
    BY <2>4, <2>6 DEF Holding
  <2>8. Tone(voices[v]) = [note |-> n, held |-> TRUE]
    BY <2>7 DEF Tone
  <2>9. \A i \in Holding(n) : (\A j \in Holding(n) : i <= j) => i = k
    BY <2>3, <2>4
  <2>10. \A w \in Voice : w # v => voices'[w] = voices[w]
    BY <2>6, <2>9 DEF NoteOff
  <2>11. voices'[v] = [voices[v] EXCEPT !.releaseSample = SampleOffset(t), !.released = TRUE]
    BY <2>4, <2>6 DEF NoteOff
  <2>12. voices[v] \in VoiceType
    BY <1>2, <2>6
  <2> HIDE DEF v
  <2>13. voices'[v].active = voices[v].active /\ Tone(voices'[v]) = [note |-> n, held |-> FALSE]
    BY <2>7, <2>11, <2>12 DEF VoiceType, Tone
  <2>14. ActiveLast(voices', s, m)
    <3> SUFFICES ASSUME NEW i \in 1 .. MaxVoices PROVE voices'[s[i]].active <=> i > MaxVoices - m
      BY DEF ActiveLast
    <3>1. s[i] \in Voice
      OBVIOUS
    <3>2. voices'[s[i]].active = voices[s[i]].active
      BY <2>10, <2>13, <3>1
    <3> QED
      BY <2>1, <3>2 DEF ActiveLast
  <2>15. Sounding = [i \in 1 .. m |-> tone(i)]
    BY <2>1, SoundsAs, SoundIs
  <2>16. Sounding' = [i \in 1 .. m |-> Tone(voices'[s[MaxVoices - m + i]])]
    <3>1. AllIn(list', s)
      BY <1>1, <2>1
    <3>2. SoundOf(list', voices') = [i \in 1 .. m |-> Tone(voices'[s[MaxVoices - m + i]])]
      BY <2>14, <3>1, SoundsAs
    <3> QED
      BY <3>2, SoundIs
  <2>17. ASSUME NEW i \in 1 .. m, i # p
         PROVE  Tone(voices'[s[MaxVoices - m + i]]) = tone(i)
    <3>1. MaxVoices - m + i \in 1 .. MaxVoices /\ MaxVoices - m + i # MaxVoices - m + p
      BY <2>5, <2>17
    <3>2. s[MaxVoices - m + i] \in Voice /\ s[MaxVoices - m + i] # v
      BY <2>1, <2>5, <3>1 DEF AllIn, Distinct, v
    <3> QED
      BY <2>10, <3>2
  <2>18. Sounding[p] = [note |-> n, held |-> TRUE]
    BY <2>5, <2>8, <2>15 DEF v
  <2>19. Sounding'[p] = [note |-> n, held |-> FALSE]
    BY <2>5, <2>13, <2>16 DEF v
  <2>20. Sounding' = [Sounding EXCEPT ![p].held = FALSE]
    <3>1. [Sounding[p] EXCEPT !.held = FALSE] = [note |-> n, held |-> FALSE]
      <4>1. Sounding[p] \in [note : {n}, held : BOOLEAN]
        BY <2>18
      <4>2. \A x \in [note : {n}, held : BOOLEAN], y \in BOOLEAN :
              [x EXCEPT !.held = y] = [note |-> x.note, held |-> y]
        OBVIOUS
      <4>3. Sounding[p].note = n /\ FALSE \in BOOLEAN
        BY <2>18
      <4> QED
        BY Zenon, <4>1, <4>2, <4>3
    <3>2. \A i \in 1 .. m : i # p => Sounding'[i] = Sounding[i]
      BY <2>15, <2>16, <2>17
    <3>3. DOMAIN Sounding = 1 .. m /\ Sounding = [i \in 1 .. m |-> Sounding[i]]
      BY <2>15
    <3>4. Sounding' = [i \in 1 .. m |-> Sounding'[i]]
      BY <2>16
    <3> HIDE DEF p
    <3> QED
      BY <2>5, <2>19, <3>1, <3>2, <3>3, <3>4
  <2>21. p \in Policy!Held(n)
    BY <2>5, <2>15, <2>18 DEF Policy!Held
  <2>22. Policy!NoteOff(n)
    BY <2>20, <2>21 DEF Policy!NoteOff
  <2> QED
    BY <2>22 DEF Policy!Next
<1> QED
  BY <1>3, <1>4

\* Without one place, as RemoveAt and as a function.
LEMMA RemovedAt ==
  ASSUME NEW S, NEW q \in Seq(S), NEW p \in 1 .. Len(q)
  PROVE  RemoveAt(q, p) = [i \in 1 .. Len(q) - 1 |-> IF i < p THEN q[i] ELSE q[i + 1]]
<1> DEFINE a == SubSeq(q, 1, p - 1)
           b == SubSeq(q, p + 1, Len(q))
           f == [i \in 1 .. Len(q) - 1 |-> IF i < p THEN q[i] ELSE q[i + 1]]
<1>1. Len(q) \in Nat /\ \A i \in 1 .. Len(q) : q[i] \in S
  OBVIOUS
<1>2. a \in Seq(S) /\ Len(a) = p - 1 /\ \A i \in 1 .. p - 1 : a[i] = q[i]
  <2>1. \A i \in 1 .. p - 1 : q[i] \in S
    BY <1>1
  <2> QED
    BY <1>1, <2>1, SubSeqProperties
<1>3. b \in Seq(S) /\ Len(b) = Len(q) - p /\ \A i \in 1 .. Len(q) - p : b[i] = q[p + i]
  <2>1. \A i \in p + 1 .. Len(q) : q[i] \in S
    BY <1>1
  <2> QED
    BY <1>1, <2>1, SubSeqProperties
<1> HIDE DEF a, b
<1>4. /\ a \o b \in Seq(S) /\ Len(a \o b) = Len(q) - 1
      /\ \A i \in 1 .. Len(q) - 1 : (a \o b)[i] = IF i < p THEN a[i] ELSE b[i - (p - 1)]
  <2>1. /\ a \o b \in Seq(S) /\ Len(a \o b) = Len(a) + Len(b)
        /\ \A i \in 1 .. Len(a) + Len(b) : (a \o b)[i] = IF i <= Len(a) THEN a[i] ELSE b[i - Len(a)]
    BY <1>2, <1>3, ConcatProperties
  <2>2. Len(a) = p - 1 /\ Len(a) + Len(b) = Len(q) - 1 /\ \A i \in Int : i <= p - 1 <=> i < p
    BY <1>1, <1>2, <1>3
  <2> QED
    BY <2>1, <2>2
<1>5. f \in Seq(S) /\ Len(f) = Len(q) - 1
  <2>1. f \in [1 .. Len(q) - 1 -> S]
    BY <1>1
  <2>2. Len(q) - 1 \in Nat
    BY <1>1
  <2> QED
    BY <2>1, <2>2
<1>6. \A i \in 1 .. Len(q) - 1 : (a \o b)[i] = f[i]
  <2> TAKE i \in 1 .. Len(q) - 1
  <2>1. CASE i < p
    BY <1>2, <1>4, <2>1
  <2>2. CASE ~(i < p)
    <3>1. i - (p - 1) \in 1 .. Len(q) - p /\ p + (i - (p - 1)) = i + 1
      BY <1>1, <2>2
    <3> QED
      BY <1>3, <1>4, <2>2, <3>1
  <2> QED
    BY <2>1, <2>2
<1> HIDE DEF f
<1>7. a \o b = f
  BY <1>4, <1>5, <1>6, SeqEqual
<1> QED
  BY <1>7 DEF a, b, f, RemoveAt

\* Processing a voice leaves what it plays alone or ends it.
LEMMA Processed ==
  ASSUME VoicesInv, ProcessVoice
  PROVE  /\ current \in Voice /\ voices[current].active
         /\ \/ /\ list' = list
               /\ \A v \in Voice : voices'[v].active = voices[v].active /\ Tone(voices'[v]) = Tone(voices[v])
            \/ /\ list' = List!PushFront(List!RemoveNode(list, current), current)
               /\ ~voices'[current].active
               /\ \A v \in Voice : v # current => voices'[v] = voices[v]
<1> DEFINE c == current
           frames == Frames - voices[c].offset
<1>1. c \in Voice /\ voices[c].active
  BY DEF ProcessVoice
<1>2. voices \in [Voice -> VoiceType] /\ voices[c] \in VoiceType
  BY <1>1 DEF VoicesInv, TypeOK, VoiceType
<1>3. \/ voices' = [voices EXCEPT ![c].sampleIndex = @ + frames] /\ list' = list
      \/ DisableVoice(c)
  BY DEF ProcessVoice
<1> HIDE DEF c
<1>4. CASE voices' = [voices EXCEPT ![c].sampleIndex = @ + frames] /\ list' = list
  <2> DEFINE u == [voices[c] EXCEPT !.sampleIndex = @ + frames]
  <2>1. voices' = [voices EXCEPT ![c] = u]
    BY Zenon, <1>4
  <2>2. u.active = voices[c].active /\ Tone(u) = Tone(voices[c])
    BY <1>2 DEF VoiceType, Tone
  <2> HIDE DEF u
  <2>3. \A v \in Voice : voices'[v] = IF v = c THEN u ELSE voices[v]
    BY <1>1, <1>2, <2>1
  <2> QED
    BY <1>1, <1>4, <2>2, <2>3 DEF c
<1>5. CASE DisableVoice(c)
  <2> DEFINE v1 == [voices EXCEPT ![c].active = FALSE]
             v2 == [v1 EXCEPT ![c].activatedThisChunk = FALSE]
             v3 == [v2 EXCEPT ![c].sampleIndex = v2[c].sampleIndex + Frames - voices[c].offset]
  <2>1. voices' = v3
    BY Zenon, <1>5 DEF DisableVoice
  <2>2. DOMAIN voices = Voice
    BY <1>2
  <2>3. DOMAIN v1 = Voice /\ v1[c] = [voices[c] EXCEPT !.active = FALSE]
        /\ \A v \in Voice : v # c => v1[v] = voices[v]
    BY <1>1, <2>2
  <2>4. ~v1[c].active /\ v1[c] \in VoiceType
    <3> DEFINE w == [voices[c] EXCEPT !.active = FALSE]
    <3>1. ~w.active /\ w \in VoiceType
      BY <1>2 DEF VoiceType
    <3> HIDE DEF w
    <3> QED
      BY <2>3, <3>1 DEF w
  <2> HIDE DEF v1
  <2>5. DOMAIN v2 = Voice /\ v2[c] = [v1[c] EXCEPT !.activatedThisChunk = FALSE]
        /\ \A v \in Voice : v # c => v2[v] = v1[v]
    BY <1>1, <2>3
  <2>6. ~v2[c].active /\ v2[c] \in VoiceType
    <3> DEFINE w == [v1[c] EXCEPT !.activatedThisChunk = FALSE]
    <3>1. ~w.active /\ w \in VoiceType
      BY <2>4 DEF VoiceType
    <3> HIDE DEF w
    <3> QED
      BY <2>5, <3>1 DEF w
  <2> HIDE DEF v2
  <2> DEFINE new == v2[c].sampleIndex + Frames - voices[c].offset
  <2>7. v3[c] = [v2[c] EXCEPT !.sampleIndex = new] /\ \A v \in Voice : v # c => v3[v] = v2[v]
    <3>1. v3 = [v2 EXCEPT ![c] = [v2[c] EXCEPT !.sampleIndex = new]]
      BY Zenon
    <3> HIDE DEF v3, new
    <3> QED
      BY <1>1, <2>5, <3>1
  <2>8. ~[v2[c] EXCEPT !.sampleIndex = new].active
    <3> HIDE DEF new
    <3> QED
      BY <2>6 DEF VoiceType
  <2> HIDE DEF v3, new
  <2>9. ~voices'[c].active /\ \A v \in Voice : v # c => voices'[v] = voices[v]
    BY <2>1, <2>3, <2>5, <2>7, <2>8
  <2>10. list' = List!PushFront(List!RemoveNode(list, c), c)
    BY <1>5 DEF DisableVoice
  <2> QED
    BY <1>1, <2>9, <2>10 DEF c
<1> QED
  BY <1>3, <1>4, <1>5

\* Processing a voice ends one sound or none.
LEMMA ProcessVoiceSounds ==
  ASSUME VoicesInv, ProcessVoice PROVE Policy!Next \/ Sounding' = Sounding
<1> USE VoiceAssumption
<1> DEFINE c == current
<1>1. c \in Voice /\ voices[c].active
  BY Processed
<1>2. CASE /\ list' = list
           /\ \A v \in Voice : voices'[v].active = voices[v].active /\ Tone(voices'[v]) = Tone(voices[v])
  BY <1>2, SoundKept
<1>3. CASE /\ list' = List!PushFront(List!RemoveNode(list, c), c)
           /\ ~voices'[c].active
           /\ \A v \in Voice : v # c => voices'[v] = voices[v]
  <2> HIDE DEF c
  <2>1. PICK s \in [1 .. MaxVoices -> Voice], m \in 0 .. MaxVoices :
          AllIn(list, s) /\ ActiveLast(voices, s, m)
    BY ActiveCut
  <2>2. PICK p \in 1 .. MaxVoices : s[p] = c
    BY <1>1, <2>1 DEF AllIn
  <2>3. p > MaxVoices - m /\ m \in 1 .. MaxVoices /\ m - 1 \in 0 .. MaxVoices
    BY <1>1, <2>1, <2>2 DEF ActiveLast
  <2> DEFINE q == p - (MaxVoices - m)
             z == ToFront(s, p)
             tone(i) == Tone(voices[s[MaxVoices - m + i]])
  <2>4. q \in 1 .. m
    BY <2>3
  <2>5. AllIn(list', z)
    <3>1. AllIn(List!PushFront(List!RemoveNode(list, c), c), z)
      BY <2>1, <2>2, EndedToFront
    <3> QED
      BY <1>3, <3>1
  <2>6. \A i \in 1 .. MaxVoices : z[i] = IF i = 1 THEN c ELSE IF i <= p THEN s[i - 1] ELSE s[i]
    BY <2>2 DEF ToFront
  <2>7. \A i \in 1 .. MaxVoices : i # p => s[i] \in Voice /\ s[i] # c
    BY <2>1, <2>2 DEF AllIn, Distinct
  <2> HIDE DEF z
  <2>8. ASSUME NEW i \in 1 .. MaxVoices, i # 1
        PROVE  \E j \in 1 .. MaxVoices : j = (IF i <= p THEN i - 1 ELSE i) /\ j # p /\ z[i] = s[j]
    BY <2>6, <2>8
  <2>9. ActiveLast(voices', z, m - 1)
    <3> SUFFICES ASSUME NEW i \in 1 .. MaxVoices
                 PROVE  voices'[z[i]].active <=> i > MaxVoices - (m - 1)
      BY DEF ActiveLast
    <3>1. CASE i = 1
      BY <1>3, <2>3, <2>6, <3>1
    <3>2. CASE i # 1
      <4>1. PICK j \in 1 .. MaxVoices : j = (IF i <= p THEN i - 1 ELSE i) /\ j # p /\ z[i] = s[j]
        BY <2>8, <3>2
      <4>2. voices'[z[i]] = voices[s[j]]
        BY <1>3, <2>7, <4>1
      <4>3. voices[s[j]].active <=> j > MaxVoices - m
        BY <2>1 DEF ActiveLast
      <4>4. j > MaxVoices - m <=> i > MaxVoices - (m - 1)
        BY <2>3, <4>1
      <4> QED
        BY <4>2, <4>3, <4>4
    <3> QED
      BY <3>1, <3>2
  <2>10. Sounding = [i \in 1 .. m |-> tone(i)]
    BY <2>1, SoundsAs, SoundIs
  <2>11. Sounding' = [i \in 1 .. m - 1 |-> Tone(voices'[z[MaxVoices - (m - 1) + i]])]
    <3>1. SoundOf(list', voices') = [i \in 1 .. m - 1 |-> Tone(voices'[z[MaxVoices - (m - 1) + i]])]
      BY <2>3, <2>5, <2>9, SoundsAs
    <3> QED
      BY <3>1, SoundIs
  <2>12. ASSUME NEW i \in 1 .. m - 1
         PROVE  Tone(voices'[z[MaxVoices - (m - 1) + i]]) = tone(IF i < q THEN i ELSE i + 1)
    <3> DEFINE k == MaxVoices - (m - 1) + i
    <3>1. k \in 1 .. MaxVoices /\ k # 1
      BY <2>3
    <3>2. PICK j \in 1 .. MaxVoices : j = (IF k <= p THEN k - 1 ELSE k) /\ j # p /\ z[k] = s[j]
      BY <2>8, <3>1
    <3>3. voices'[z[k]] = voices[s[j]]
      BY <1>3, <2>7, <3>2
    <3>4. j = MaxVoices - m + (IF i < q THEN i ELSE i + 1)
      BY <2>3, <3>2
    <3> QED
      BY <3>3, <3>4
  <2> DEFINE Tones == {tone(i) : i \in 1 .. m}
  <2>13. Sounding \in Seq(Tones) /\ Len(Sounding) = m
    <3>1. \A i \in 1 .. m : tone(i) \in Tones
      OBVIOUS
    <3> HIDE DEF tone, Tones
    <3>2. Sounding \in [1 .. m -> Tones]
      BY <2>10, <3>1
    <3> QED
      BY <3>2
  <2>14. RemoveAt(Sounding, q) = [i \in 1 .. m - 1 |-> IF i < q THEN Sounding[i] ELSE Sounding[i + 1]]
    <3> HIDE DEF q, tone, Tones
    <3> QED
      BY <2>4, <2>13, RemovedAt
  <2>15. \A i \in 1 .. m - 1 :
           tone(IF i < q THEN i ELSE i + 1) = IF i < q THEN Sounding[i] ELSE Sounding[i + 1]
    <3> HIDE DEF q, tone
    <3> QED
      BY <2>10
  <2>16. Sounding' = RemoveAt(Sounding, q)
    <3> HIDE DEF q, tone
    <3> QED
      BY <2>11, <2>12, <2>14, <2>15
  <2>17. Policy!End
    <3>1. q \in DOMAIN Sounding
      BY <2>4, <2>13
    <3> QED
      BY <2>16, <3>1 DEF Policy!End, Policy!RemoveAt, RemoveAt
  <2> QED
    BY <2>17 DEF Policy!Next
<1> QED
  BY <1>2, <1>3, Processed

\* The steps between the events, the voices and the effects are not heard.
LEMMA QuietSteps ==
  ASSUME VoicesInv, EndEvents \/ SkipVoice \/ EndVoices \/ ProcessFx \/ UNCHANGED vars
  PROVE  Sounding' = Sounding
<1>1. voices' = voices /\ list' = list
  BY DEF EndEvents, SkipVoice, EndVoices, ProcessFx, vars
<1> QED
  BY <1>1, SoundKept
====
