------------------------------ MODULE NodePool ------------------------------
(***************************************************************************)
(* What a c_lock_free_pool promises to its callers: every node is at all   *)
(* times free, in the hands of exactly one call in progress, or held by    *)
(* the client that allocated it; an allocation takes one free node in one  *)
(* step and fails only when no node is free.                               *)
(***************************************************************************)
CONSTANTS
  Threads,   \* the threads that call the pool
  Node       \* the nodes it manages

VARIABLES
  free,      \* nodes that can be allocated
  hand,      \* hand[t]: the node a call of t is moving, as a set of at most one
  held,      \* nodes returned to a client and not given back
  failed     \* threads whose allocation is about to report an empty pool

vars == <<free, hand, held, failed>>

Init ==
  /\ free = Node
  /\ hand = [t \in Threads |-> {}]
  /\ held = {}
  /\ failed = {}

Take(t, n) ==
  /\ hand[t] = {} /\ t \notin failed
  /\ n \in free
  /\ free' = free \ {n}
  /\ hand' = [hand EXCEPT ![t] = {n}]
  /\ UNCHANGED <<held, failed>>

Refuse(t) ==
  /\ hand[t] = {} /\ t \notin failed
  /\ free = {}
  /\ failed' = failed \cup {t}
  /\ UNCHANGED <<free, hand, held>>

ReturnNode(t) ==
  /\ hand[t] # {}
  /\ held' = held \cup hand[t]
  /\ hand' = [hand EXCEPT ![t] = {}]
  /\ UNCHANGED <<free, failed>>

ReturnNothing(t) ==
  /\ t \in failed
  /\ failed' = failed \ {t}
  /\ UNCHANGED <<free, hand, held>>

Surrender(t, n) ==
  /\ hand[t] = {} /\ t \notin failed
  /\ n \in held
  /\ held' = held \ {n}
  /\ hand' = [hand EXCEPT ![t] = {n}]
  /\ UNCHANGED <<free, failed>>

GiveBack(t) ==
  /\ hand[t] # {}
  /\ free' = free \cup hand[t]
  /\ hand' = [hand EXCEPT ![t] = {}]
  /\ UNCHANGED <<held, failed>>

Next ==
  \E t \in Threads :
    \/ \E n \in Node : Take(t, n) \/ Surrender(t, n)
    \/ Refuse(t)
    \/ ReturnNode(t)
    \/ ReturnNothing(t)
    \/ GiveBack(t)

Spec == Init /\ [][Next]_vars
=============================================================================
