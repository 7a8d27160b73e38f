---------------------------- MODULE LockFreePool ----------------------------
(***************************************************************************)
(* c_lock_free_pool (common/threading/lock_free_pool.cpp) over the         *)
(* lock-free list it is made of (common/threading/lock_free.cpp): a stack  *)
(* of free nodes linked by handles, whose head carries a tag that every    *)
(* update increments.  One action per atomic access of a thread:           *)
(* execute_atomic loads the head, computes the new value (reading or       *)
(* writing a link on the way) and installs it with a compare-exchange.     *)
(***************************************************************************)
EXTENDS Integers

CONSTANTS
  Threads,    \* threads that allocate and free
  NodeCount,  \* m_free_list.get_count()
  MaxCalls    \* bound: calls each thread makes, so that tags stay small

ASSUME PoolAssumption == NodeCount \in Nat /\ MaxCalls \in Nat

InvalidHandle == -1
Node == 0 .. NodeCount - 1
Handle == Node \cup {InvalidHandle}

\* A handle with its ABA counter: the two halves of s_lock_free_handle_data.
TaggedHandle == [tag : Nat, handle : Handle]

Tagged(tag, handle) == [tag |-> tag, handle |-> handle]

\* A mutated Bump: the tag stands still.
BumpForgotten(tag) == tag

\* What "head.tag++" and "next.tag + 1" do.  The 32-bit wrap is out of reach
\* of the bound MaxCalls and is not modelled.
Bump(tag) == tag + 1

PopSteps == {"pop_load", "pop_next", "pop_cas", "pop_return"}
PushSteps == {"push_load", "push_link", "push_cas"}
Steps == {"idle"} \cup PopSteps \cup PushSteps

VARIABLES
  head,      \* m_free_list_head
  next,      \* m_free_list: the link of every node
  marked,    \* the verification byte behind every link
  held,      \* nodes the clients own (an allocate returned them)
  pc,        \* where each thread is
  seen,      \* the head each thread loaded: "value" of the update functor
  update,    \* the value its functor returned
  node,      \* the handle its call frees or has just popped
  nextTag,   \* update_head.next_tag of a push
  calls      \* calls made so far

vars == <<head, next, marked, held, pc, seen, update, node, nextTag, calls>>

\* initialize(): chain 0 -> 1 -> ... -> NodeCount - 1, all tags and bytes zero.
Init ==
  /\ head = Tagged(0, IF NodeCount = 0 THEN InvalidHandle ELSE 0)
  /\ next = [n \in Node |->
               Tagged(0, IF n = NodeCount - 1 THEN InvalidHandle ELSE n + 1)]
  /\ marked = [n \in Node |-> FALSE]
  /\ held = {}
  /\ pc = [t \in Threads |-> "idle"]
  /\ seen = [t \in Threads |-> Tagged(0, InvalidHandle)]
  /\ update = [t \in Threads |-> Tagged(0, InvalidHandle)]
  /\ node = [t \in Threads |-> InvalidHandle]
  /\ nextTag = [t \in Threads |-> 0]
  /\ calls = [t \in Threads |-> 0]

Goto(t, step) == pc' = [pc EXCEPT ![t] = step]

Call(t, step) ==
  /\ pc[t] = "idle"
  /\ calls[t] < MaxCalls
  /\ calls' = [calls EXCEPT ![t] = @ + 1]
  /\ Goto(t, step)

-----------------------------------------------------------------------------
(* allocate_node(), by way of lock_free_list_pop                           *)

AllocateNode(t) ==
  /\ Call(t, "pop_load")
  /\ UNCHANGED <<head, next, marked, held, seen, update, node, nextTag>>

\* execute_atomic loads the head; an empty list is "updated" to itself.
PopLoad(t) ==
  /\ pc[t] = "pop_load"
  /\ seen' = [seen EXCEPT ![t] = head]
  /\ update' = [update EXCEPT ![t] = head]
  /\ Goto(t, IF head.handle = InvalidHandle THEN "pop_cas" ELSE "pop_next")
  /\ UNCHANGED <<head, next, marked, held, node, nextTag, calls>>

\* The node just seen may already have been popped, or freed, by another thread.
PopNext(t) ==
  /\ pc[t] = "pop_next"
  /\ update' = [update EXCEPT ![t] =
                  Tagged(Bump(seen[t].tag), next[seen[t].handle].handle)]
  /\ Goto(t, "pop_cas")
  /\ UNCHANGED <<head, next, marked, held, seen, node, nextTag, calls>>

\* A mutated PopCas: it retries with the head it saw first.
PopCasStale(t) ==
  /\ pc[t] = "pop_cas"
  /\ IF head = seen[t]
     THEN /\ head' = update[t]
          /\ node' = [node EXCEPT ![t] = seen[t].handle]
          /\ Goto(t, "pop_return")
     ELSE Goto(t, "pop_cas") /\ UNCHANGED <<head, node>>
  /\ UNCHANGED <<next, marked, held, seen, update, nextTag, calls>>

PopCas(t) ==
  /\ pc[t] = "pop_cas"
  /\ \/ /\ head = seen[t]
        /\ head' = update[t]
        /\ node' = [node EXCEPT ![t] = seen[t].handle]
        /\ Goto(t, "pop_return")
     \/ /\ head # seen[t]
        /\ Goto(t, "pop_load")
        /\ UNCHANGED <<head, node>>
  /\ UNCHANGED <<next, marked, held, seen, update, nextTag, calls>>

\* The tail of allocate_node: mark the node as used and hand it to the client.
PopReturn(t) ==
  /\ pc[t] = "pop_return"
  /\ \/ /\ node[t] # InvalidHandle
        /\ marked' = [marked EXCEPT ![node[t]] = TRUE]
        /\ held' = held \cup {node[t]}
     \/ /\ node[t] = InvalidHandle
        /\ UNCHANGED <<marked, held>>
  /\ Goto(t, "idle")
  /\ UNCHANGED <<head, next, seen, update, node, nextTag, calls>>

-----------------------------------------------------------------------------
(* free_node(), by way of lock_free_list_push                              *)

\* A client gives back any node it holds.  The byte and the node's own tag are
\* accessed without synchronisation: nobody else touches an allocated node.
FreeNode(t) ==
  /\ Call(t, "push_load")
  /\ \E n \in held :
       /\ held' = held \ {n}
       /\ marked' = [marked EXCEPT ![n] = FALSE]
       /\ node' = [node EXCEPT ![t] = n]
       /\ nextTag' = [nextTag EXCEPT ![t] = Bump(next[n].tag)]
  /\ UNCHANGED <<head, next, seen, update>>

PushLoad(t) ==
  /\ pc[t] = "push_load"
  /\ seen' = [seen EXCEPT ![t] = head]
  /\ Goto(t, "push_link")
  /\ UNCHANGED <<head, next, marked, held, update, node, nextTag, calls>>

PushLink(t) ==
  /\ pc[t] = "push_link"
  /\ next' = [next EXCEPT ![node[t]] = Tagged(nextTag[t], seen[t].handle)]
  /\ update' = [update EXCEPT ![t] = Tagged(Bump(seen[t].tag), node[t])]
  /\ Goto(t, "push_cas")
  /\ UNCHANGED <<head, marked, held, seen, node, nextTag, calls>>

PushCas(t) ==
  /\ pc[t] = "push_cas"
  /\ \/ /\ head = seen[t]
        /\ head' = update[t]
        /\ Goto(t, "idle")
     \/ /\ head # seen[t]
        /\ Goto(t, "push_load")
        /\ UNCHANGED head
  /\ UNCHANGED <<next, marked, held, seen, update, node, nextTag, calls>>

-----------------------------------------------------------------------------
Running(t) ==
  \/ PopLoad(t) \/ PopNext(t) \/ PopCas(t) \/ PopReturn(t)
  \/ PushLoad(t) \/ PushLink(t) \/ PushCas(t)

Next == \E t \in Threads : AllocateNode(t) \/ FreeNode(t) \/ Running(t)

Spec == Init /\ [][Next]_vars

-----------------------------------------------------------------------------
(* Ownership, as the code's comments speak of it                           *)

\* The node a call of t has to itself: popped and not yet returned, or given
\* back and not yet linked into the list ("this node is still owned by us").
InHand(t) ==
  IF pc[t] \in PushSteps \cup {"pop_return"} THEN {node[t]} \cap Node ELSE {}

Failed == {t \in Threads : pc[t] = "pop_return" /\ node[t] = InvalidHandle}

Owned == held \cup UNION {InHand(t) : t \in Threads}

\* Every variable holds a value of its type.
TypeOK ==
  /\ head \in TaggedHandle
  /\ next \in [Node -> TaggedHandle]
  /\ marked \in [Node -> BOOLEAN]
  /\ held \in SUBSET Node
  /\ pc \in [Threads -> Steps]
  /\ seen \in [Threads -> TaggedHandle]
  /\ update \in [Threads -> TaggedHandle]
  /\ node \in [Threads -> Handle]
  /\ nextTag \in [Threads -> Nat]
  /\ calls \in [Threads -> Nat]

\* No link is read or written at an invalid handle (valid_index in the code).
HandlesValid ==
  \A t \in Threads :
    /\ pc[t] = "pop_next" => seen[t].handle \in Node
    /\ pc[t] \in PushSteps => node[t] \in Node

\* A node is never in two hands at once, nor in a hand and held by a client.
OneOwner ==
  \A t \in Threads :
    /\ InHand(t) \cap held = {}
    /\ \A u \in Threads \ {t} : InHand(t) \cap InHand(u) = {}

\* The asserts of allocate_node and free_node never fire: the byte is set for
\* exactly the nodes the clients hold, so that a node about to be returned is
\* marked free ("Attempted to allocate an already-allocated node") and a node a
\* client may free is marked used ("Attempted to free an already-free node").
MarksAgree == \A n \in Node : marked[n] <=> n \in held

\* The head and the links spell one duplicate-free list, from its top f[len]
\* down to f[1], of exactly the nodes nobody owns: none is lost, none twice.
FreeListIs(len, f) ==
  /\ head.handle = IF len = 0 THEN InvalidHandle ELSE f[len]
  /\ \A i \in 1 .. len :
       next[f[i]].handle = IF i = 1 THEN InvalidHandle ELSE f[i - 1]
  /\ \A i, j \in 1 .. len : f[i] = f[j] => i = j
  /\ \A n \in Node : n \notin Owned <=> \E i \in 1 .. len : f[i] = n

FreeListShape == \E len \in 0 .. NodeCount : \E f \in [1 .. len -> Node] : FreeListIs(len, f)

\* A head seen under the current tag is the current head, and what a thread
\* computed from it is still right: the tag defeats ABA.
SeenIsPast ==
  \A t \in Threads :
    pc[t] \in {"pop_next", "pop_cas", "push_link", "push_cas"} =>
      /\ seen[t].tag =< head.tag
      /\ seen[t].tag = head.tag => seen[t] = head

UpdateIsFresh ==
  \A t \in Threads :
    /\ pc[t] = "pop_cas" /\ seen[t].handle = InvalidHandle => update[t] = seen[t]
    /\ pc[t] = "pop_cas" /\ seen[t].handle # InvalidHandle =>
         /\ update[t].tag = seen[t].tag + 1
         /\ head = seen[t] => update[t].handle = next[head.handle].handle
    /\ pc[t] = "push_cas" =>
         /\ update[t] = Tagged(seen[t].tag + 1, node[t])
         /\ next[node[t]].handle = seen[t].handle

\* The inductive invariant behind the pool's guarantees.
PoolInv ==
  /\ TypeOK
  /\ HandlesValid
  /\ OneOwner
  /\ MarksAgree
  /\ FreeListShape
  /\ SeenIsPast
  /\ UpdateIsFresh

-----------------------------------------------------------------------------
(* The pool implements NodePool: a call takes effect at its compare-exchange *)

Pool == INSTANCE NodePool WITH
  free <- Node \ Owned,
  hand <- [t \in Threads |-> InHand(t)],
  failed <- Failed

\* Concurrent allocate_node and free_node calls behave as atomic operations on
\* a set: an allocated node was free, and a failed allocation saw none free.
ImplementsPool == Pool!Spec

\* Lock-freedom as a caller sees it: a thread that keeps running finishes its
\* call whatever the others do, even if they stop halfway through theirs.
LockFreedom ==
  \A t \in Threads :
    WF_vars(Running(t)) => (pc[t] # "idle" ~> pc[t] = "idle")
=============================================================================
