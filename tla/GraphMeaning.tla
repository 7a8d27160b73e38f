---------------------------- MODULE GraphMeaning ----------------------------
(***************************************************************************)
(* What a native module graph stands for: the signal at every node, given  *)
(* the signals at its inputs.  A signal is a function from sample times to *)
(* values.  Input signals repeat for ever, so that times are counted       *)
(* modulo their period and a delay turns a signal round; what a delay      *)
(* still holds when the stream starts is outside of this view.             *)
(***************************************************************************)
EXTENDS NativeModuleGraph, TLC

CONSTANTS
    Period,               \* the number of samples after which the inputs repeat
    InputSignal(_),       \* the signal at the input of that index
    ModuleMeaning(_, _, _) \* the result of a call, given those of its arguments and its latency

Times == 0 .. Period - 1
Always(v) == [t \in Times |-> v]
Shifted(s, d) == [t \in Times |-> s[(t - d) % Period]]

(***************************************************************************)
(* The signals at the nodes they can be told of, found from the inputs on; *)
(* at an array, the sequence of its elements' signals.                     *)
(***************************************************************************)
Meaning(g, n, known) ==
    CASE NodeType(g, n) = "constant" -> Always(NodeData(g, n)[2])
      [] NodeType(g, n) = "input" -> InputSignal(NodeData(g, n)[1])
      [] NodeType(g, n) = "array" -> [i \in DOMAIN In(g, n) |-> known[In(g, n)[i]]]
      [] NodeType(g, n) = "call" ->
            ModuleMeaning(CalledModule(g, n), [i \in DOMAIN In(g, n) |-> known[In(g, n)[i]]], 0)
      [] OTHER -> known[In(g, n)[1]]

Signals(g) ==
    LET ready(known) ==
            {n \in LiveNodes(g) \ DOMAIN known :
                /\ ToSet(In(g, n)) \subseteq DOMAIN known
                /\ In(g, n) # <<>> \/ NodeType(g, n) \in {"constant", "input", "array", "call"}}
        extended(known, n) == known @@ [k \in ready(known) |-> Meaning(g, k, known)]
    IN  FoldLeft(extended, <<>>, g.nodes)

(* What a graph stands for at the output of that index. *)
OutputSignal(g, index) ==
    Signals(g)[CHOOSE n \in NodesOf(g, "output") : NodeData(g, n) = <<index>>]

OutputIndices(g) == {NodeData(g, n)[1] : n \in NodesOf(g, "output")}

=============================================================================
