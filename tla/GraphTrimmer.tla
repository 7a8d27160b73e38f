---------------------------- MODULE GraphTrimmer ----------------------------
(***************************************************************************)
(* c_graph_trimmer, which keeps a native module graph free of nodes nobody *)
(* uses while it is built, and try_call_native_module(), which runs a      *)
(* native module at compile time and replaces its call by the results.     *)
(* Both the builder and the optimizer work through them.                   *)
(***************************************************************************)
EXTENDS NativeModuleGraph

CONSTANTS
    Accepts(_, _),       \* validate_arguments accepts the argument values
    ModuleLatency(_, _), \* what get_latency returns for the argument values
    RunModule(_, _, _)   \* what compile_time_call returns for the argument values and
                         \* the input latency: [error, outs], an out being
                         \* <<"value", prim, v>>, <<"values", prim, vs>>, <<"node", n>>
                         \* or <<"nodes", ns>>

VARIABLES
    graph,  \* m_native_module_graph
    stage   \* which component works on it

(* add_temporary_reference(): a node that keeps n alive. *)
AddTemporaryReference(g, n) ==
    IF n = 0 THEN g ELSE AddEdge(AddNode(g, "temporary", <<>>), n, NextIndex(g))

-----------------------------------------------------------------------------
(***************************************************************************)
(* try_trim_node(): a stack of nodes to look at.  A node without users is  *)
(* removed and the nodes its inputs come from are pushed, each only once:  *)
(* a node looked at while it still had a user is not looked at again.      *)
(***************************************************************************)
Producer(g, n) == IF NodeType(g, n) = "indexed_output" THEN In(g, n)[1] ELSE n

HasAnyOutputs(g, n) ==
    CASE NodeType(g, n) = "call" -> \E i \in DOMAIN Out(g, n) : Out(g, Out(g, n)[i]) # <<>>
      [] NodeType(g, n) = "input" -> TRUE
      [] OTHER -> Out(g, n) # <<>>

Sources(g, n) ==
    IF UsesIndexedInputs(g, n)
    THEN FlattenSeq([i \in DOMAIN In(g, n) |-> In(g, In(g, n)[i])])
    ELSE <<>>

AddPendingNode(s, n) ==
    LET node == Producer(s.g, n)
    IN  IF node \in s.visited THEN s
        ELSE [s EXCEPT !.pending = Append(@, node), !.visited = @ \cup {node}]

TrimOne(s) ==
    LET n == Last(s.pending)
        popped == [s EXCEPT !.pending = Front(@)]
    IN  IF HasAnyOutputs(s.g, n) THEN popped
        ELSE [FoldLeft(AddPendingNode, popped, Sources(s.g, n)) EXCEPT !.g = RemoveNode(@, n)]

TryTrimNode(g, n) ==
    LET trim[k \in 0 .. Len(g.nodes) + 1] ==
            IF k = 0 THEN [g |-> g, pending |-> <<Producer(g, n)>>, visited |-> {}]
            ELSE LET s == trim[k - 1] IN IF s.pending = <<>> THEN s ELSE TrimOne(s)
    IN  trim[Len(g.nodes) + 1].g

(* remove_temporary_reference(): the first of the references to n goes, and n is trimmed. *)
RemoveTemporaryReference(g, n) ==
    IF n = 0 THEN g
    ELSE LET k == SelectInSeq(Out(g, n), LAMBDA to : NodeType(g, to) = "temporary")
         IN  TryTrimNode(RemoveNode(g, Out(g, n)[k]), n)

-----------------------------------------------------------------------------
(***************************************************************************)
(* Moving users to another node: try_call() and transfer_outputs() take    *)
(* them from the front of the list, remap_outputs() from its back.         *)
(***************************************************************************)
MoveUser(g, from, to, user) == AddEdge(RemoveEdge(g, from, user), to, user)
TransferOutputs(g, from, to) ==
    FoldLeft(LAMBDA h, user : MoveUser(h, from, to, user), g, Out(g, from))
TransferOutputsFromBack(g, from, to) ==
    FoldLeft(LAMBDA h, user : MoveUser(h, from, to, user), g, Reverse(Out(g, from)))

(***************************************************************************)
(* try_call(): what an argument hands to the module, which must be known   *)
(* when it is taken by value.                                              *)
(***************************************************************************)
ConstantValue(g, n) ==
    IF NodeType(g, n) = "array"
    THEN [i \in DOMAIN In(g, n) |-> NodeData(g, Source(g, n, i))[2]]
    ELSE NodeData(g, n)[2]

ReferenceValue(g, n) ==
    IF NodeType(g, n) = "array" THEN [i \in DOMAIN In(g, n) |-> Source(g, n, i)] ELSE n

ArgumentKnown(g, call, i) ==
    ByValue(InArgs(CalledModule(g, call))[i]) => IsConstant(g, Source(g, call, i))

ArgumentValue(g, call, i) ==
    CASE ~ArgumentKnown(g, call, i) -> 0
      [] ByValue(InArgs(CalledModule(g, call))[i]) -> ConstantValue(g, Source(g, call, i))
      [] OTHER -> ReferenceValue(g, Source(g, call, i))

(* The node an output is replaced by: a new constant or array, or the node the module returned. *)
AddConstantElement(g, array, prim, v) ==
    AddArrayValue(AddConstantNode(g, prim, v), array, NextIndex(g))

AddResult(g, out) ==
    LET node == NextIndex(g)
    IN  CASE out[1] = "value" -> AddConstantNode(g, out[2], out[3])
          [] out[1] = "values" -> FoldLeft(LAMBDA h, v : AddConstantElement(h, node, out[2], v),
                                           AddArrayNode(g), out[3])
          [] out[1] = "nodes" -> FoldLeft(LAMBDA h, n : AddArrayValue(h, node, n),
                                          AddArrayNode(g), out[2])
          [] out[1] = "node" -> g

ReplaceOutput(s, out) ==
    LET target == IF out[1] = "node" THEN out[2] ELSE NextIndex(s.g)
        old == Out(s.g, s.call)[Len(s.results) + 1]
    IN  [s EXCEPT !.g = TransferOutputs(AddResult(@, out), old, target),
                  !.results = Append(@, target)]

(***************************************************************************)
(* The graph afterwards, whether the module was called, its results, the   *)
(* latency of its outputs, and ok = FALSE when it reported an error.       *)
(***************************************************************************)
TryCall(g, call, latency) ==
    LET m == CalledModule(g, call)
        args == InArgs(m)
        values == [i \in DOMAIN args |-> ArgumentValue(g, call, i)]
        known == \A i \in DOMAIN args : ArgumentKnown(g, call, i)
        outcome == [g |-> g, called |-> FALSE, results |-> <<>>, ok |-> Accepts(m, values),
                    latency |-> latency + ModuleLatency(m, values)]
    IN  IF ~(outcome.ok /\ NativeModules[m].call /\ known)
        THEN outcome
        ELSE LET run == RunModule(m, values, latency)
                 s == FoldLeft(ReplaceOutput, [g |-> g, call |-> call, results |-> <<>>], run.outs)
             IN  IF run.error
                 THEN [outcome EXCEPT !.ok = FALSE]
                 ELSE [outcome EXCEPT !.g = TryTrimNode(s.g, call), !.called = TRUE,
                                      !.results = s.results]

=============================================================================
