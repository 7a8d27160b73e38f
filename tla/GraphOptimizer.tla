--------------------------- MODULE GraphOptimizer ---------------------------
(***************************************************************************)
(* c_native_module_graph_optimizer and c_optimization_rule_applicator: the *)
(* calls of a graph are visited in order, each is run if its arguments     *)
(* have become known or else rewritten by the first rule that matches;     *)
(* when a pass is over, equal constants, arrays and calls are merged.      *)
(*                                                                         *)
(* A rule is [source, target], each a sequence of symbols: <<"module", m>> *)
(* and <<"end">> around the arguments of a call, <<"variable">>,           *)
(* <<"constant">> or <<"any">> for a value to remember, <<"back", i>> for  *)
(* the i-th value remembered, <<"real", v>> or <<"bool", v>> for a value.  *)
(***************************************************************************)
EXTENDS GraphTrimmer

CONSTANT Rules  \* the registered optimization rules, in order

VARIABLES
    cursor,     \* the node visited last in this pass
    optimized,  \* node_optimized
    changed     \* optimization_performed, and any_changes of the pass over arrays and calls

optimizerVars == <<cursor, optimized, changed>>

-----------------------------------------------------------------------------
(***************************************************************************)
(* The tree of match stages: rules that begin alike share their stages,    *)
(* and the ways on from a stage are tried in the order they were added.    *)
(***************************************************************************)
Share(r, s, p) ==
    /\ p \in 0 .. Len(Rules[s].source)
    /\ SubSeq(Rules[r].source, 1, p) = SubSeq(Rules[s].source, 1, p)

FirstSharing(r, p) ==
    CHOOSE i \in DOMAIN Rules : Share(r, i, p) /\ \A j \in 1 .. i - 1 : ~Share(r, j, p)

TriedBefore(r, s) ==
    \E p \in 1 .. Len(Rules[r].source) :
        Share(r, s, p - 1) /\ FirstSharing(r, p) < FirstSharing(s, p)

(***************************************************************************)
(* try_advance(): at = the calls entered, each [node, next] with the next  *)
(* input to match, the innermost last; values = the values remembered.     *)
(***************************************************************************)
Matched(s) == [s EXCEPT !.at[Len(s.at)].next = @ + 1]
Failed(s) == [s EXCEPT !.ok = FALSE]

Advance(g, s, symbol) ==
    LET here == Last(s.at)
        value == Source(g, here.node, here.next)
        node == Producer(g, value)
        constant == /\ NodeType(g, node) \in {"array", "constant"}
                    /\ IsConstant(g, node)
        remembered == [Matched(s) EXCEPT !.values = Append(@, value)]
    IN  CASE ~s.ok -> s
          [] s.ok /\ symbol[1] = "module" ->
                IF NodeType(g, node) = "call" /\ CalledModule(g, node) = symbol[2]
                THEN [s EXCEPT !.at = Append(@, [node |-> node, next |-> 1])]
                ELSE Failed(s)
          [] s.ok /\ symbol[1] = "end" ->
                IF Len(s.at) = 1 THEN s ELSE Matched([s EXCEPT !.at = Front(@)])
          [] s.ok /\ symbol[1] = "variable" -> IF constant THEN Failed(s) ELSE remembered
          [] s.ok /\ symbol[1] = "constant" -> IF constant THEN remembered ELSE Failed(s)
          [] s.ok /\ symbol[1] = "any" -> remembered
          [] s.ok /\ symbol[1] = "back" ->
                IF s.values[symbol[2]] = value THEN Matched(s) ELSE Failed(s)
          [] s.ok /\ symbol[1] \in {"real", "bool"} ->
                IF NodeType(g, node) = "constant" /\ NodeData(g, node) = symbol
                THEN Matched(s) ELSE Failed(s)

Match(g, call, r) ==
    LET start == [ok |-> Rules[r].source[1] = <<"module", CalledModule(g, call)>>,
                  at |-> <<[node |-> call, next |-> 1]>>, values |-> <<>>]
    IN  FoldLeft(LAMBDA s, symbol : Advance(g, s, symbol), start, Tail(Rules[r].source))

Matching(g, call) == {r \in DOMAIN Rules : Match(g, call, r).ok}

(***************************************************************************)
(* build_target_pattern(): root = the node the target stands for, at = the *)
(* calls not ended yet, each [node, next] with its next input to connect.  *)
(***************************************************************************)
Connect(s, node) ==
    IF s.root = 0
    THEN [s EXCEPT !.root = node]
    ELSE LET at == Last(s.at)
         IN  [s EXCEPT !.g = AddEdge(@, node, In(@, at.node)[at.next]),
                       !.at[Len(s.at)].next = @ + 1]

BuildSymbol(s, symbol, values) ==
    LET new == NextIndex(s.g)
    IN  CASE symbol[1] = "module" ->
                LET called == [s EXCEPT !.g = AddCallNode(@, symbol[2], s.up)]
                    output == Out(called.g, new)[1]
                IN  IF s.root = 0
                    THEN [called EXCEPT !.root = output, !.at = <<[node |-> new, next |-> 1]>>]
                    ELSE [Connect(called, output) EXCEPT !.at = Append(@, [node |-> new, next |-> 1])]
          [] symbol[1] = "end" -> [s EXCEPT !.at = Front(@)]
          [] symbol[1] = "back" -> Connect(s, values[symbol[2]])
          [] symbol[1] \in {"real", "bool"} ->
                Connect([s EXCEPT !.g = AddConstantNode(@, symbol[1], symbol[2])], new)

BuildTarget(g, call, r, values) ==
    FoldLeft(LAMBDA s, symbol : BuildSymbol(s, symbol, values),
             [g |-> g, root |-> 0, at |-> <<>>, up |-> CallUpsample(g, call)], Rules[r].target)

(* reroute_source_to_target(): there is no case for a target that is an input of the graph. *)
Reroute(s, call) ==
    IF NodeType(s.g, s.root) = "input"
    THEN s.g
    ELSE TransferOutputs(s.g, Out(s.g, call)[1], s.root)

(* try_apply_optimization_rule() *)
ApplyRule(g, call) ==
    LET r == CHOOSE r \in Matching(g, call) :
                 \A s \in Matching(g, call) \ {r} : TriedBefore(r, s)
    IN  Reroute(BuildTarget(g, call, r, Match(g, call, r).values), call)

-----------------------------------------------------------------------------
(* remove_unused_nodes(): what no output depends on, but for the inputs of the graph. *)
Needed(g) ==
    LET withInputs(needed, n) == needed \cup UNION {ToSet(In(g, m)) : m \in needed}
    IN  FoldLeft(withInputs, NodesOf(g, "output"), g.nodes)

RemoveUnusedNodes(g) ==
    LET kept == Needed(g)
        unused(n) == /\ n \notin kept
                     /\ NodeType(g, n) \notin {"invalid", "indexed_input", "indexed_output", "input"}
    IN  FoldLeft(RemoveNode, g, SelectSeq([n \in DOMAIN g.nodes |-> n], unused))

(* remap_outputs() *)
RemapOutputs(g, from, to) ==
    IF UsesIndexedOutputs(g, from)
    THEN FoldLeft(LAMBDA h, i : TransferOutputsFromBack(h, Out(g, from)[i], Out(g, to)[i]),
                  g, [i \in DOMAIN Out(g, from) |-> i])
    ELSE TransferOutputsFromBack(g, from, to)

(* deduplicate_constants(): every constant becomes the first one of its value. *)
FirstEqual(g, n) ==
    CHOOSE m \in 1 .. n : /\ g.nodes[m].type = "constant" /\ NodeData(g, m) = NodeData(g, n)
                          /\ \A k \in 1 .. m - 1 : ~ /\ g.nodes[k].type = "constant"
                                                     /\ NodeData(g, k) = NodeData(g, n)

(* Mutant: the first constant of a value counts as a repetition, too. *)
AllConstants(g) ==
    SelectSeq([n \in DOMAIN g.nodes |-> n], LAMBDA n : NodeType(g, n) = "constant")

RepeatedConstants(g) ==
    SelectSeq([n \in DOMAIN g.nodes |-> n],
              LAMBDA n : NodeType(g, n) = "constant" /\ FirstEqual(g, n) # n)

DeduplicateConstants(g) ==
    FoldLeft(LAMBDA h, n : RemapOutputs(h, n, FirstEqual(g, n)), g, RepeatedConstants(g))

(***************************************************************************)
(* One pass of deduplicate_arrays_and_native_modules(): b is merged into a *)
(* when they are of the same kind and take the same values.  The upsample  *)
(* factor of a call is not compared.                                       *)
(***************************************************************************)
SameInputs(g, a, b) ==
    /\ Len(In(g, a)) = Len(In(g, b))
    /\ \A i \in DOMAIN In(g, a) : Source(g, a, i) = Source(g, b, i)

Alike(g, a, b) ==
    /\ NodeType(g, a) = NodeType(g, b)
    /\ IF NodeType(g, a) = "call"
       THEN CalledModule(g, a) = CalledModule(g, b)
       ELSE DataType(g, a) = DataType(g, b)
    /\ SameInputs(g, a, b)

DeduplicatePair(s, a, b) ==
    IF b \notin s.merged /\ Alike(s.g, a, b)
    THEN [g |-> RemapOutputs(s.g, b, a), merged |-> s.merged \cup {b}]
    ELSE s

Deduplicate(g) ==
    LET users == SelectSeq([n \in DOMAIN g.nodes |-> n], LAMBDA n : UsesIndexedInputs(g, n))
        mergeInto(s, a) ==
            FoldLeft(LAMBDA t, b : DeduplicatePair(t, a, b), s, SelectSeq(users, LAMBDA b : b > a))
    IN  FoldLeft(mergeInto, [g |-> g, merged |-> {}], users)

-----------------------------------------------------------------------------
(* The nodes still to visit in this pass; a node added behind the cursor is not among them. *)
Remaining == {n \in LiveNodes(graph) : n > cursor}
NextNode == CHOOSE n \in Remaining : \A m \in Remaining : n <= m

Begin ==
    /\ stage = "begin"
    /\ graph' = RemoveUnusedNodes(graph)
    /\ stage' = "visit"
    /\ UNCHANGED <<cursor, optimized, changed>>

(***************************************************************************)
(* try_optimize_node(): did_optimize_out is cleared for every node, so it  *)
(* tells of the last one only.                                             *)
(***************************************************************************)
VisitOther ==
    /\ stage = "visit" /\ Remaining # {} /\ NodeType(graph, NextNode) # "call"
    /\ cursor' = NextNode
    /\ optimized' = FALSE
    /\ UNCHANGED <<graph, stage, changed>>

VisitCall ==
    /\ stage = "visit" /\ Remaining # {} /\ NodeType(graph, NextNode) = "call"
    /\ \E run \in {TryCall(graph, NextNode, 0)} :
           /\ stage' = IF run.ok THEN "visit" ELSE "failed"
           /\ graph' = IF run.called \/ ~run.ok \/ Matching(graph, NextNode) = {}
                       THEN run.g
                       ELSE ApplyRule(graph, NextNode)
           /\ optimized' = (run.ok /\ (run.called \/ Matching(graph, NextNode) # {}))
    /\ cursor' = NextNode
    /\ UNCHANGED changed

EndOfPass ==
    /\ stage = "visit" /\ Remaining = {}
    /\ cursor' = 0 /\ optimized' = FALSE
    /\ IF optimized
       THEN graph' = RemoveUnusedNodes(graph) /\ UNCHANGED <<stage, changed>>
       ELSE /\ graph' = RemoveUnusedNodes(DeduplicateConstants(graph))
            /\ changed' = (RepeatedConstants(graph) # <<>>)
            /\ stage' = "deduplicate"

(* One round of the loops over arrays and calls, and the end of optimize() after the last. *)
DeduplicateRound ==
    /\ stage = "deduplicate"
    /\ LET s == Deduplicate(graph)
           again == s.merged # {}
       IN  /\ graph' = IF again \/ changed THEN RemoveUnusedNodes(s.g) ELSE Compact(RemoveUnusedNodes(s.g))
           /\ changed' = (again \/ changed)
           /\ stage' = CASE again -> "deduplicate"
                         [] ~again /\ changed -> "visit"
                         [] OTHER -> "optimized"
    /\ UNCHANGED <<cursor, optimized>>

OptimizerNext == Begin \/ VisitOther \/ VisitCall \/ EndOfPass \/ DeduplicateRound

=============================================================================
