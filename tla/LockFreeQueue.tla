--------------------------- MODULE LockFreeQueue ---------------------------
(***************************************************************************)
(* c_lock_free_queue (common/threading/lock_free_queue.inl): a linked list *)
(* of nodes from a dummy at m_front to m_back, pushed at the back, popped  *)
(* at the front.  One action per atomic access to the handles; copying an  *)
(* element, which is not atomic, takes two.  The pool of nodes is used     *)
(* through its atomic operations, as PoolRefines in LockFreePool_proofs    *)
(* allows, and keeps its last-in first-out order.                          *)
(***************************************************************************)
EXTENDS Integers, Sequences, SequencesExt

CONSTANTS
  Producers,  \* threads that call push
  Consumers,  \* threads that call pop and peek; a thread may be both
  NodeCount,  \* element_memory.get_count(): one node more than the capacity
  MaxCalls,   \* bound: calls of each thread
  Reads       \* Reads[t]: which of "pop", "drop" (pop without element) and "peek" t calls

ASSUME QueueAssumption ==
  /\ NodeCount \in Nat \ {0}
  /\ MaxCalls \in Nat
  /\ Reads \in [Consumers -> SUBSET {"pop", "drop", "peek"}]

Threads == Producers \cup Consumers
Node == 0 .. NodeCount - 1
Null == -1
Tagged(tag, handle) == [tag |-> tag, handle |-> handle]
Unset == Tagged(0, Null)

\* The element of the k-th call of t; no two pushes store the same.
Value == Threads \X (1 .. MaxCalls)
Torn == <<"torn">>    \* bytes of no element, or of a copy under way
None == <<"none">>

VARIABLES
  front, back,   \* m_front, m_back
  next,          \* m_queue
  elements,      \* m_elements
  free,          \* m_free_list, the next node to allocate first
  pc, op,        \* where each thread is, and in which call
  node,          \* handle: the node a push has allocated
  seenFront, seenBack, seenNext,  \* front, old_back or back, old_back_next or front_next
  copy,          \* what a pop or peek has copied to element_out
  result,        \* the element the current call returns, None before
  calls,
  stored,        \* history: elements whose push has returned true
  taken,         \* history: elements a pop has removed
  due            \* history: stored \ taken when the current pop began

shared == <<front, back, next, elements, free>>
seen == <<seenFront, seenBack, seenNext>>
history == <<stored, taken, due>>
vars == <<shared, pc, op, node, seen, copy, result, calls, history>>

\* initialize(): the first node allocated is the dummy.  The links of the other
\* nodes are whatever was in memory; no one reads them before a push sets them.
Init ==
  /\ front = Tagged(0, 0) /\ back = Tagged(0, 0)
  /\ next = [n \in Node |-> Unset]
  /\ elements = [n \in Node |-> Torn]
  /\ free = [i \in 1 .. NodeCount - 1 |-> i]
  /\ pc = [t \in Threads |-> "idle"] /\ op = [t \in Threads |-> "push"]
  /\ node = [t \in Threads |-> Null]
  /\ seenFront = [t \in Threads |-> Unset]
  /\ seenBack = [t \in Threads |-> Unset]
  /\ seenNext = [t \in Threads |-> Unset]
  /\ copy = [t \in Threads |-> None]
  /\ result = [t \in Threads |-> None]
  /\ calls = [t \in Threads |-> 0]
  /\ stored = {} /\ taken = {} /\ due = [t \in Threads |-> {}]

Goto(t, step) == pc' = [pc EXCEPT ![t] = step]

\* A call ends: its locals are gone, its result stays until the next call.
Return(t) ==
  /\ Goto(t, "idle")
  /\ node' = [node EXCEPT ![t] = Null]
  /\ seenFront' = [seenFront EXCEPT ![t] = Unset]
  /\ seenBack' = [seenBack EXCEPT ![t] = Unset]
  /\ seenNext' = [seenNext EXCEPT ![t] = Unset]
  /\ copy' = [copy EXCEPT ![t] = None]
  /\ due' = [due EXCEPT ![t] = {}]

Call(t, o) ==
  /\ pc[t] = "idle" /\ calls[t] < MaxCalls
  /\ calls' = [calls EXCEPT ![t] = @ + 1]
  /\ op' = [op EXCEPT ![t] = o]
  /\ result' = [result EXCEPT ![t] = None]

Element(t) == <<t, calls[t]>>

-----------------------------------------------------------------------------
(* push                                                                    *)

\* The first part of a push: a node of its own, or "return false".
PushAllocate(t) ==
  /\ t \in Producers /\ Call(t, "push")
  /\ \/ /\ free # <<>>
        /\ node' = [node EXCEPT ![t] = Head(free)]
        /\ free' = Tail(free)
        /\ Goto(t, "push_copy")
     \/ /\ free = <<>>
        /\ UNCHANGED <<node, free, pc>>
  /\ UNCHANGED <<front, back, next, elements, seen, copy, history>>

PushCopy(t) ==
  /\ pc[t] = "push_copy"
  /\ elements' = [elements EXCEPT ![node[t]] = Torn]
  /\ Goto(t, "push_reset")
  /\ UNCHANGED <<front, back, next, free, op, node, seen, copy, result, calls, history>>

\* The copy is complete and the link is cleared, its tag included.
PushReset(t) ==
  /\ pc[t] = "push_reset"
  /\ elements' = [elements EXCEPT ![node[t]] = Element(t)]
  /\ next' = [next EXCEPT ![node[t]] = Unset]
  /\ Goto(t, "push_back")
  /\ UNCHANGED <<front, back, free, op, node, seen, copy, result, calls, history>>

PushBack(t) ==
  /\ pc[t] = "push_back"
  /\ seenBack' = [seenBack EXCEPT ![t] = back]
  /\ Goto(t, "push_next")
  /\ UNCHANGED <<shared, op, node, seenFront, seenNext, copy, result, calls, history>>

PushNext(t) ==
  /\ pc[t] = "push_next"
  /\ seenNext' = [seenNext EXCEPT ![t] = next[seenBack[t].handle]]
  /\ Goto(t, "push_verify")
  /\ UNCHANGED <<shared, op, node, seenFront, seenBack, copy, result, calls, history>>

PushVerify(t) ==
  /\ pc[t] = "push_verify"
  /\ Goto(t, IF back # seenBack[t] THEN "push_back"
             ELSE IF seenNext[t].handle = Null THEN "push_link" ELSE "push_help")
  /\ UNCHANGED <<shared, op, node, seen, copy, result, calls, history>>

PushLink(t) ==
  /\ pc[t] = "push_link"
  /\ LET last == seenBack[t].handle IN
     \/ /\ next[last] = seenNext[t]
        /\ next' = [next EXCEPT ![last] = Tagged(seenNext[t].tag + 1, node[t])]
        /\ Goto(t, "push_swing")
     \/ /\ next[last] # seenNext[t]
        /\ Goto(t, "push_back")
        /\ UNCHANGED next
  /\ UNCHANGED <<front, back, elements, free, op, node, seen, copy, result, calls, history>>

\* The compare-exchange of m_back to "handle"; it may fail.
SwingBack(t, handle) ==
  back' = IF back = seenBack[t] THEN Tagged(back.tag + 1, handle) ELSE back

PushHelp(t) ==
  /\ pc[t] = "push_help"
  /\ SwingBack(t, seenNext[t].handle)
  /\ Goto(t, "push_back")
  /\ UNCHANGED <<front, next, elements, free, op, node, seen, copy, result, calls, history>>

PushSwing(t) ==
  /\ pc[t] = "push_swing"
  /\ SwingBack(t, node[t])
  /\ stored' = stored \cup {Element(t)}
  /\ Return(t)
  /\ UNCHANGED <<front, next, elements, free, op, result, calls, taken>>

-----------------------------------------------------------------------------
(* pop and peek                                                            *)

ReadCall(t) ==
  /\ t \in Consumers
  /\ \E o \in Reads[t] : Call(t, o)
  /\ Goto(t, "pop_front")
  /\ due' = [due EXCEPT ![t] = stored \ taken]
  /\ UNCHANGED <<shared, node, seen, copy, stored, taken>>

PopFront(t) ==
  /\ pc[t] = "pop_front"
  /\ seenFront' = [seenFront EXCEPT ![t] = front]
  /\ Goto(t, "pop_back")
  /\ UNCHANGED <<shared, op, node, seenBack, seenNext, copy, result, calls, history>>

PopBack(t) ==
  /\ pc[t] = "pop_back"
  /\ seenBack' = [seenBack EXCEPT ![t] = back]
  /\ Goto(t, "pop_next")
  /\ UNCHANGED <<shared, op, node, seenFront, seenNext, copy, result, calls, history>>

PopNext(t) ==
  /\ pc[t] = "pop_next"
  /\ seenNext' = [seenNext EXCEPT ![t] = next[seenFront[t].handle]]
  /\ Goto(t, "pop_verify")
  /\ UNCHANGED <<shared, op, node, seenFront, seenBack, copy, result, calls, history>>

\* A mutated PopVerify: it waits for the push to move m_back.
PopVerifyWaits(t) ==
  /\ pc[t] = "pop_verify"
  /\ Goto(t, IF front # seenFront[t] THEN "pop_front"
             ELSE IF seenFront[t].handle = seenBack[t].handle
                  THEN IF seenNext[t].handle = Null THEN "pop_empty" ELSE "pop_front"
             ELSE IF op[t] = "drop" THEN "pop_take" ELSE "pop_copy")
  /\ UNCHANGED <<shared, op, node, seen, copy, result, calls, history>>

PopVerify(t) ==
  /\ pc[t] = "pop_verify"
  /\ Goto(t, IF front # seenFront[t] THEN "pop_front"
             ELSE IF seenFront[t].handle = seenBack[t].handle
                  THEN IF seenNext[t].handle = Null THEN "pop_empty" ELSE "pop_help"
             ELSE IF op[t] = "drop" THEN "pop_take" ELSE "pop_copy")
  /\ UNCHANGED <<shared, op, node, seen, copy, result, calls, history>>

\* "Queue is actually empty": return false.
PopEmpty(t) ==
  /\ pc[t] = "pop_empty"
  /\ Return(t)
  /\ UNCHANGED <<shared, op, result, calls, stored, taken>>

PopHelp(t) ==
  /\ pc[t] = "pop_help"
  /\ SwingBack(t, seenNext[t].handle)
  /\ Goto(t, "pop_front")
  /\ UNCHANGED <<front, next, elements, free, op, node, seen, copy, result, calls, history>>

PopCopy(t) ==
  /\ pc[t] = "pop_copy"
  /\ copy' = [copy EXCEPT ![t] = elements[seenNext[t].handle]]
  /\ Goto(t, "pop_copied")
  /\ UNCHANGED <<shared, op, node, seen, result, calls, history>>

\* An element rewritten during the copy leaves a mixture of both behind.
PopCopied(t) ==
  /\ pc[t] = "pop_copied"
  /\ copy' = [copy EXCEPT ![t] = IF elements[seenNext[t].handle] = @ THEN @ ELSE Torn]
  /\ Goto(t, IF op[t] = "peek" THEN "peek_verify" ELSE "pop_take")
  /\ UNCHANGED <<shared, op, node, seen, result, calls, history>>

\* A mutated PopTake: m_front is stored without a compare-exchange.
PopTakeBlind(t) ==
  /\ pc[t] = "pop_take"
  /\ front' = Tagged(seenFront[t].tag + 1, seenNext[t].handle)
  /\ result' = [result EXCEPT ![t] = copy[t]]
  /\ taken' = taken \cup {elements[seenNext[t].handle]}
  /\ Goto(t, "pop_free")
  /\ UNCHANGED <<back, next, elements, free, op, node, seen, copy, calls, stored, due>>

PopTake(t) ==
  /\ pc[t] = "pop_take"
  /\ \/ /\ front = seenFront[t]
        /\ front' = Tagged(front.tag + 1, seenNext[t].handle)
        /\ result' = [result EXCEPT ![t] = copy[t]]
        /\ taken' = taken \cup {elements[seenNext[t].handle]}
        /\ Goto(t, "pop_free")
     \/ /\ front # seenFront[t]
        /\ Goto(t, "pop_front")
        /\ UNCHANGED <<front, result, taken>>
  /\ UNCHANGED <<back, next, elements, free, op, node, seen, copy, calls, stored, due>>

\* A mutated PopFree: it frees the node of the element instead of the old dummy.
PopFreeTaken(t) ==
  /\ pc[t] = "pop_free"
  /\ free' = <<seenNext[t].handle>> \o free
  /\ Return(t)
  /\ UNCHANGED <<front, back, next, elements, op, result, calls, stored, taken>>

PopFree(t) ==
  /\ pc[t] = "pop_free"
  /\ free' = <<seenFront[t].handle>> \o free
  /\ Return(t)
  /\ UNCHANGED <<front, back, next, elements, op, result, calls, stored, taken>>

PeekVerify(t) ==
  /\ pc[t] = "peek_verify"
  /\ \/ /\ front = seenFront[t]
        /\ result' = [result EXCEPT ![t] = copy[t]]
        /\ Return(t)
     \/ /\ front # seenFront[t]
        /\ Goto(t, "pop_front")
        /\ UNCHANGED <<result, node, seen, copy, due>>
  /\ UNCHANGED <<shared, op, calls, stored, taken>>

-----------------------------------------------------------------------------
Running(t) ==
  \/ PushCopy(t) \/ PushReset(t) \/ PushBack(t) \/ PushNext(t) \/ PushVerify(t)
  \/ PushLink(t) \/ PushHelp(t) \/ PushSwing(t)
  \/ PopFront(t) \/ PopBack(t) \/ PopNext(t) \/ PopVerify(t) \/ PopEmpty(t) \/ PopHelp(t)
  \/ PopCopy(t) \/ PopCopied(t) \/ PopTake(t) \/ PopFree(t) \/ PeekVerify(t)

Next == \E t \in Threads : PushAllocate(t) \/ ReadCall(t) \/ Running(t)

Spec == Init /\ [][Next]_vars

-----------------------------------------------------------------------------
(* The list, and what is in it                                             *)

\* The nodes met by following the links from h; Null from the end on.
Walk(h) ==
  LET f[i \in 0 .. NodeCount] ==
        IF i = 0 THEN h
        ELSE IF f[i - 1] = Null THEN Null ELSE next[f[i - 1]].handle
  IN  f

Reach(h) == {Walk(h)[i] : i \in 0 .. NodeCount} \ {Null}

\* The elements from the oldest to the newest: those of the nodes after m_front.
Contents ==
  LET w == Walk(front.handle)
  IN  [i \in 1 .. Cardinality({j \in 1 .. NodeCount : w[j] # Null}) |-> elements[w[i]]]

Copying == {"push_copy", "push_reset"}
Linking == {"push_back", "push_next", "push_verify", "push_link", "push_help"}
Popping == {"pop_front", "pop_back", "pop_next", "pop_verify", "pop_empty", "pop_help",
            "pop_copy", "pop_copied", "pop_take", "pop_free", "peek_verify"}

\* The nodes a call has to itself.  A stalled push can link its node behind one
\* that was popped and allocated again: those nodes enter the list together.
InHand(t) ==
  IF pc[t] \in Copying THEN {node[t]}
  ELSE IF pc[t] \in Linking THEN Reach(node[t])
  ELSE IF pc[t] = "pop_free" THEN {seenFront[t].handle}
  ELSE {}

\* Every variable holds a value of its type.
TypeOK ==
  LET TaggedHandle == [tag : Nat, handle : Node \cup {Null}]
  IN  /\ {front, back} \subseteq TaggedHandle
      /\ next \in [Node -> TaggedHandle]
      /\ elements \in [Node -> Value \cup {Torn}]
      /\ free \in Seq(Node)
      /\ pc \in [Threads -> {"idle", "push_swing"} \cup Copying \cup Linking \cup Popping]
      /\ op \in [Threads -> {"push", "pop", "drop", "peek"}]
      /\ node \in [Threads -> Node \cup {Null}]
      /\ seenFront \in [Threads -> TaggedHandle]
      /\ seenBack \in [Threads -> TaggedHandle]
      /\ seenNext \in [Threads -> TaggedHandle]
      /\ copy \in [Threads -> Value \cup {Torn, None}]
      /\ result \in [Threads -> Value \cup {None}]
      /\ calls \in [Threads -> 0 .. MaxCalls]
      /\ stored \subseteq Value /\ taken \subseteq Value
      /\ due \in [Threads -> SUBSET Value]

\* Every node is in exactly one place: free, in the list, or with one call.  So
\* push returns false only when the capacity is used up, the list never loops or
\* loses its end, and m_back stays on it.
NodesAccounted ==
  /\ Walk(front.handle)[NodeCount] = Null
  /\ back.handle \in Reach(front.handle)
  /\ IsInjective(free)
  /\ \A n \in Node :
       Cardinality({t \in Threads : n \in InHand(t)})
         + (IF n \in ToSet(free) THEN 1 ELSE 0)
         + (IF n \in Reach(front.handle) THEN 1 ELSE 0) = 1

\* "Queue is actually empty": when pop or peek returns false, every element whose
\* push had returned true before the call has been taken.
EmptyIsEmpty == \A t \in Threads : pc[t] = "pop_empty" => due[t] \subseteq taken

Fifo == INSTANCE FifoQueue WITH queue <- Contents, answer <- result

\* The queue is first-in first-out: a pop takes the oldest element, no element leaves
\* twice, and the bytes a pop or peek returns are that element's, since a copy overtaken
\* by others is not used.
ImplementsFifo == Fifo!Spec

\* Lock-freedom: a thread that keeps running finishes its call, whatever the
\* others do or leave undone.
LockFreedom ==
  \A t \in Threads : WF_vars(Running(t)) => (pc[t] # "idle" ~> pc[t] = "idle")
=============================================================================
