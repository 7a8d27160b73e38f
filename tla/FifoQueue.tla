----------------------------- MODULE FifoQueue -----------------------------
(***************************************************************************)
(* What a c_lock_free_queue promises: the elements leave in the order they *)
(* entered, each to exactly one pop, and a peek shows the oldest one.  An  *)
(* element may enter later than its push, and then several enter at once.  *)
(***************************************************************************)
EXTENDS Integers, Sequences

CONSTANTS
  Threads,   \* the threads that call the queue
  Value,     \* what they push
  None       \* the answer of a call that has none

VARIABLES
  queue,     \* the elements inside, oldest first
  answer     \* answer[t]: the element the current call of t has obtained

vars == <<queue, answer>>

Init ==
  /\ queue = <<>>
  /\ answer = [t \in Threads |-> None]

Push ==
  /\ Len(queue') > Len(queue)
  /\ SubSeq(queue', 1, Len(queue)) = queue
  /\ \A i \in Len(queue) + 1 .. Len(queue') : queue'[i] \in Value
  /\ UNCHANGED answer

Pop(t) ==
  /\ queue # <<>>
  /\ queue' = Tail(queue)
  /\ answer' = [answer EXCEPT ![t] = Head(queue)]

Drop ==
  /\ queue # <<>>
  /\ queue' = Tail(queue)
  /\ UNCHANGED answer

Peek(t) ==
  /\ queue # <<>>
  /\ answer' = [answer EXCEPT ![t] = Head(queue)]
  /\ UNCHANGED queue

Forget(t) ==
  /\ answer' = [answer EXCEPT ![t] = None]
  /\ UNCHANGED queue

Next ==
  \/ Push
  \/ \E t \in Threads : Pop(t) \/ Peek(t) \/ Forget(t)
  \/ Drop

Spec == Init /\ [][Next]_vars
=============================================================================
