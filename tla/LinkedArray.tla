---------------------------- MODULE LinkedArray ----------------------------
(***************************************************************************)
(* c_linked_array (common/utility/linked_array.cpp) with one list in it: a *)
(* doubly linked list whose links are indices.  The node at an end of a    *)
(* list points at itself; the links of a node on no list are Invalid.  An  *)
(* array is a record of its links, the front of its free list, and the     *)
(* list's two ends; the operators return the array the method leaves.      *)
(***************************************************************************)
EXTENDS Integers, Sequences, FiniteSets

CONSTANT Count   \* the number of nodes

Node == 0 .. Count - 1
Invalid == -1
Link == Node \cup {Invalid}

ArrayType == [prev : [Node -> Link], next : [Node -> Link], free : Link, front : Link, back : Link]

\* All nodes are on the free list and the list is empty.
Initialized ==
  [prev |-> [n \in Node |-> IF n = 0 THEN 0 ELSE n - 1],
   next |-> [n \in Node |-> IF n = Count - 1 THEN n ELSE n + 1],
   free |-> 0, front |-> Invalid, back |-> Invalid]

\* What a link of node n means: the end of a list points at itself.
Follow(link, n) == IF link[n] = n THEN Invalid ELSE link[n]

OrSelf(link, n) == IF link = Invalid THEN n ELSE link

\* The free list's first node, whose index the call returns, leaves it.
AllocateNode(a) ==
  IF a.free = Invalid THEN a ELSE
  [a EXCEPT !.free = Follow(a.next, a.free), !.prev[a.free] = Invalid, !.next[a.free] = Invalid]

InsertNode(a, n, before) ==
  LET after == IF before = Invalid THEN a.back ELSE Follow(a.prev, before)
      next == IF after = Invalid THEN a.front ELSE Follow(a.next, after)
      ends == [a EXCEPT !.prev[n] = OrSelf(after, n), !.next[n] = OrSelf(next, n)]
      left == IF after = Invalid THEN [ends EXCEPT !.front = n] ELSE [ends EXCEPT !.next[after] = n]
  IN  IF before = Invalid THEN [left EXCEPT !.back = n] ELSE [left EXCEPT !.prev[before] = n]

PushFront(a, n) == InsertNode(a, n, a.front)
PushBack(a, n) == InsertNode(a, n, Invalid)

RemoveNode(a, n) ==
  LET p == Follow(a.prev, n)
      q == Follow(a.next, n)
      left == IF p = Invalid THEN [a EXCEPT !.front = q] ELSE [a EXCEPT !.next[p] = OrSelf(q, p)]
      both == IF q = Invalid THEN [left EXCEPT !.back = p] ELSE [left EXCEPT !.prev[q] = OrSelf(p, q)]
  IN  [both EXCEPT !.prev[n] = Invalid, !.next[n] = Invalid]

-----------------------------------------------------------------------------
\* The nodes met from a start along a link: what a loop over get_prev_node or
\* get_next_node visits, cut off after one node too many.
Walk(link, start) ==
  LET step == [n \in Link |-> IF n = Invalid THEN Invalid ELSE Follow(link, n)]
      at[i \in 1 .. Count + 1] == IF i = 1 THEN start ELSE step[at[i - 1]]
  IN  SubSeq(at, 1, Cardinality({i \in 1 .. Count + 1 : at[i] # Invalid}))

FromFront(a) == Walk(a.next, a.front)
FromBack(a) == Walk(a.prev, a.back)
=============================================================================
