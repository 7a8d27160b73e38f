------------------------- MODULE NativeModuleGraph -------------------------
(***************************************************************************)
(* c_native_module_graph: the dataflow graph an instrument is compiled     *)
(* into, kept as a vector of nodes with paired, ordered edge lists and a   *)
(* list of free indices.  Every argument of a native module call and every *)
(* element of an array is a node of its own between the call (or the       *)
(* array) and the value: k_indexed_input or k_indexed_output.              *)
(*                                                                         *)
(* A graph is a record [nodes, free]; nodes are counted from 1 and 0 is    *)
(* the invalid handle.  The salt of a handle exists for assertions only    *)
(* and is left out; a string constant holds its string, which is what the  *)
(* string table and remove_unused_strings() amount to.                     *)
(***************************************************************************)
EXTENDS Integers, Sequences, FiniteSets, SequencesExt

CONSTANTS
    NativeModules,  \* [name -> [args, call]]: the registered native modules
    RemainActive    \* k_remain_active_output_index

(***************************************************************************)
(* args: a sequence of [dir, prim, array, up, mut, access]; mut is the     *)
(* value of e_native_module_data_mutability, whose order assignability     *)
(* compares.                                                               *)
(***************************************************************************)
Variable == 0
DependentConstant == 1
Constant == 2

Args(m) == NativeModules[m].args
InArgs(m) == SelectSeq(Args(m), LAMBDA a : a.dir = "in")
OutArgs(m) == SelectSeq(Args(m), LAMBDA a : a.dir = "out")

(* c_native_module_qualified_data_type *)
Type(prim, array, up, mut) == [prim |-> prim, array |-> array, up |-> up, mut |-> mut]
InvalidType == Type("invalid", FALSE, 1, Variable)
EmptyArrayType == Type("empty", TRUE, 1, Constant)
ElementType(t) == [t EXCEPT !.array = FALSE]

(* get_upsampled_type(): a constant is never upsampled. *)
UpsampledType(t, up) == IF t.mut = Constant THEN t ELSE [t EXCEPT !.up = @ * up]

(* is_native_module_data_type_assignable() *)
IsAssignable(from, to) ==
    \/ from = EmptyArrayType /\ to.array
    \/ /\ from.prim = to.prim
       /\ from.array = to.array
       /\ from.up = to.up \/ from.mut = Constant
       /\ to.mut <= from.mut

-----------------------------------------------------------------------------
(* Nodes. *)
NewNode(type, data) == [type |-> type, data |-> data, in |-> <<>>, out |-> <<>>]
InvalidNode == NewNode("invalid", <<>>)
EmptyGraph == [nodes |-> <<>>, free |-> <<>>]

NodeType(g, n) == g.nodes[n].type
NodeData(g, n) == g.nodes[n].data
In(g, n) == g.nodes[n].in
Out(g, n) == g.nodes[n].out
LiveNodes(g) == {n \in DOMAIN g.nodes : NodeType(g, n) # "invalid"}
NodesOf(g, type) == {n \in DOMAIN g.nodes : NodeType(g, n) = type}

UsesIndexedInputs(g, n) == NodeType(g, n) \in {"array", "call"}
UsesIndexedOutputs(g, n) == NodeType(g, n) = "call"

(* Where the i-th argument of a call, or the i-th element of an array, comes from. *)
Source(g, n, i) == In(g, In(g, n)[i])[1]

(* The module called by a call node, and its upsample factor. *)
CalledModule(g, n) == NodeData(g, n)[2]
CallUpsample(g, n) == NodeData(g, n)[3]

(***************************************************************************)
(* allocate_node() with the initialisation its callers give the node: the  *)
(* most recently freed index, or a new one at the end of the vector.       *)
(***************************************************************************)
NextIndex(g) == IF g.free = <<>> THEN Len(g.nodes) + 1 ELSE Last(g.free)

AddNode(g, type, data) ==
    IF g.free = <<>>
    THEN [g EXCEPT !.nodes = Append(@, NewNode(type, data))]
    ELSE [nodes |-> [g.nodes EXCEPT ![Last(g.free)] = NewNode(type, data)],
          free |-> Front(g.free)]

AddConstantNode(g, prim, value) == AddNode(g, "constant", <<prim, value>>)
AddArrayNode(g) == AddNode(g, "array", <<>>)
AddInputNode(g, index) == AddNode(g, "input", <<index>>)
AddOutputNode(g, index) == AddNode(g, "output", <<index>>)

(* add_edge_internal(): an edge that exists is not added twice. *)
AddEdge(g, from, to) ==
    IF Contains(Out(g, from), to)
    THEN g
    ELSE [g EXCEPT !.nodes[from].out = Append(@, to),
                   !.nodes[to].in = Append(@, from)]

(* remove_edge_internal() *)
RemoveEdge(g, from, to) ==
    [g EXCEPT !.nodes[from].out = RemoveFirst(@, to),
              !.nodes[to].in = RemoveFirst(@, from)]

(* add_array_value() *)
AddArrayValue(g, array, value) ==
    LET input == NextIndex(g)
    IN  AddEdge(AddEdge(AddNode(g, "indexed_input", <<>>), input, array), value, input)

(***************************************************************************)
(* set_array_value_at_index(): the graph; the replaced value is            *)
(* Source(g, array, i).  Its assertion on types, which only a debug build  *)
(* evaluates, is left out: it refuses a constant in an array of signals.   *)
(***************************************************************************)
SetArrayValue(g, array, i, value) ==
    LET input == In(g, array)[i]
    IN  AddEdge(RemoveEdge(g, Source(g, array, i), input), value, input)

(***************************************************************************)
(* add_native_module_call_node(): the call first, then one indexed node    *)
(* for each argument in order, linked to it.                               *)
(***************************************************************************)
AddArgument(g, call, arg) ==
    LET node == NextIndex(g)
    IN  IF arg.dir = "in"
        THEN AddEdge(AddNode(g, "indexed_input", <<>>), node, call)
        ELSE AddEdge(AddNode(g, "indexed_output", <<>>), call, node)

AddCallNode(g, m, up) ==
    LET call == NextIndex(g)
    IN  FoldLeft(LAMBDA h, arg : AddArgument(h, call, arg),
                 AddNode(g, "call", <<"call", m, up>>), Args(m))

(***************************************************************************)
(* remove_node(): the indexed inputs of a call or an array from the last   *)
(* to the first, then the indexed outputs of a call, then the node itself, *)
(* each broken out of its edges and put on the free list.                  *)
(***************************************************************************)
BreakEdges(g, n) ==
    FoldLeft(LAMBDA h, to : RemoveEdge(h, n, to),
             FoldLeft(LAMBDA h, from : RemoveEdge(h, from, n), g, Reverse(In(g, n))),
             Reverse(Out(g, n)))

RemoveSingleNode(g, n) ==
    LET cut == BreakEdges(g, n)
    IN  [nodes |-> [cut.nodes EXCEPT ![n] = InvalidNode], free |-> Append(g.free, n)]

(* Mutant: the outputs of a call are left behind. *)
RemoveNodeOnly(g, n) ==
    FoldLeft(RemoveSingleNode, g,
             (IF UsesIndexedInputs(g, n) THEN Reverse(In(g, n)) ELSE <<>>) \o <<n>>)

RemoveNode(g, n) ==
    LET inputs == IF UsesIndexedInputs(g, n) THEN Reverse(In(g, n)) ELSE <<>>
        outputs == IF UsesIndexedOutputs(g, n) THEN Reverse(Out(g, n)) ELSE <<>>
    IN  FoldLeft(RemoveSingleNode, g, inputs \o outputs \o <<n>>)

-----------------------------------------------------------------------------
(***************************************************************************)
(* get_node_data_type().  An array takes its type from its elements: the   *)
(* first element that is not constant downgrades it, and the later ones    *)
(* must then agree on the upsample factor.  A dependent constant counts as *)
(* a variable once it is an argument of a call.                            *)
(***************************************************************************)
ArgumentType(g, call, args, ends, n) ==
    LET arg == args[CHOOSE i \in DOMAIN ends : ends[i] = n]
        type == UpsampledType(Type(arg.prim, arg.array, arg.up, arg.mut), CallUpsample(g, call))
    IN  IF type.mut = DependentConstant THEN [type EXCEPT !.mut = Variable] ELSE type

ScalarType(g, n) ==
    CASE NodeType(g, n) = "constant" -> Type(NodeData(g, n)[1], FALSE, 1, Constant)
      [] NodeType(g, n) = "input" -> Type("real", FALSE, 1, Variable)
      [] NodeType(g, n) = "output" ->
            Type(IF NodeData(g, n) = <<RemainActive>> THEN "bool" ELSE "real", FALSE, 1, Variable)
      [] /\ NodeType(g, n) = "indexed_output"
         /\ Len(In(g, n)) = 1
         /\ NodeType(g, In(g, n)[1]) = "call" ->
            LET call == In(g, n)[1]
            IN  ArgumentType(g, call, OutArgs(CalledModule(g, call)), Out(g, call), n)
      [] OTHER -> InvalidType

AddElementType(t, element) ==
    IF InvalidType \in {t, element} \/ t.prim \notin {"empty", element.prim}
    THEN InvalidType
    ELSE CASE element.mut = Constant -> [t EXCEPT !.prim = element.prim]
           [] element.mut # Constant /\ t.mut = Constant -> [element EXCEPT !.array = TRUE]
           [] OTHER -> IF element.up = t.up THEN t ELSE InvalidType

ArrayType(g, n) ==
    IF \E i \in DOMAIN In(g, n) :
         NodeType(g, In(g, n)[i]) # "indexed_input" \/ Len(In(g, In(g, n)[i])) # 1
    THEN InvalidType
    ELSE FoldLeft(AddElementType, EmptyArrayType,
                  [i \in DOMAIN In(g, n) |-> ScalarType(g, Source(g, n, i))])

DataType(g, n) ==
    CASE NodeType(g, n) = "array" -> ArrayType(g, n)
      [] NodeType(g, n) = "indexed_input" /\ Len(Out(g, n)) = 1 ->
            LET dest == Out(g, n)[1]
            IN  CASE NodeType(g, dest) = "array" -> ElementType(ArrayType(g, dest))
                  [] NodeType(g, dest) = "call" ->
                        ArgumentType(g, dest, InArgs(CalledModule(g, dest)), In(g, dest), n)
                  [] OTHER -> InvalidType
      [] OTHER -> ScalarType(g, n)

IsConstant(g, n) == DataType(g, n).mut = Constant

-----------------------------------------------------------------------------
(* validate_node() *)
ValidNode(g, n) ==
    LET ins == Len(In(g, n))
        outs == Len(Out(g, n))
    IN  /\ ToSet(In(g, n)) \cup ToSet(Out(g, n)) \subseteq DOMAIN g.nodes
        /\ CASE NodeType(g, n) \in {"constant", "input"} -> ins = 0
             [] NodeType(g, n) = "array" -> TRUE
             [] NodeType(g, n) = "call" -> /\ ins = Len(InArgs(CalledModule(g, n)))
                                           /\ outs = Len(OutArgs(CalledModule(g, n)))
             [] NodeType(g, n) = "indexed_input" -> ins = 1 /\ outs = 1
             [] NodeType(g, n) = "indexed_output" -> ins = 1
             [] NodeType(g, n) = "output" -> ins = 1 /\ outs = 0
             [] NodeType(g, n) = "temporary" -> TRUE
             [] OTHER -> FALSE

(* validate_edge() *)
ValidEdge(g, from, to) ==
    CASE NodeType(g, from) \in {"constant", "array", "indexed_output", "input"} ->
            \/ NodeType(g, to) = "temporary"
            \/ /\ NodeType(g, to) \in {"indexed_input", "output"}
               /\ InvalidType \notin {DataType(g, from), DataType(g, to)}
               /\ IsAssignable(DataType(g, from), DataType(g, to))
      [] NodeType(g, from) = "call" -> NodeType(g, to) = "indexed_output"
      [] NodeType(g, from) = "indexed_input" -> UsesIndexedInputs(g, to)
      [] OTHER -> FALSE

(* The n nodes of a kind carry the indices 0 .. n-1, each once. *)
IndicesComplete(g, nodes, count) ==
    /\ Cardinality(nodes) = count
    /\ {NodeData(g, n)[1] : n \in nodes} = 0 .. count - 1

ValidOutputs(g) ==
    LET outputs == NodesOf(g, "output")
        remain == {n \in outputs : NodeData(g, n)[1] = RemainActive}
    IN  /\ Cardinality(remain) = 1
        /\ IndicesComplete(g, outputs \ remain, Cardinality(outputs) - 1)

(* visit_node_for_cycle_detection(): what is left when sinks are peeled off. *)
Acyclic(g) ==
    LET peeled(rest, n) == {m \in rest : ToSet(Out(g, m)) \cap rest # {}}
    IN  FoldLeft(peeled, DOMAIN g.nodes, g.nodes) = {}

(* get_native_module_compile_time_properties() *)
ByValue(arg) == arg.access = "value"
AlwaysRunsAtCompileTime(m) ==
    /\ NativeModules[m].call
    /\ \A i \in DOMAIN InArgs(m) : ByValue(InArgs(m)[i]) => InArgs(m)[i].mut = Constant
RunsIfDependentConstantsAre(m) ==
    /\ NativeModules[m].call
    /\ \A i \in DOMAIN InArgs(m) : ByValue(InArgs(m)[i]) => InArgs(m)[i].mut # Variable

(* validate_native_modules() for one call *)
ValidCall(g, n) ==
    LET args == InArgs(CalledModule(g, n))
        constant(i) == IsConstant(g, Source(g, n, i))
    IN  /\ ~AlwaysRunsAtCompileTime(CalledModule(g, n))
        /\ \A i \in DOMAIN args : args[i].mut = Constant => constant(i)
        /\ ~ /\ RunsIfDependentConstantsAre(CalledModule(g, n))
             /\ \A i \in DOMAIN args : args[i].mut = DependentConstant => constant(i)

(* validate(), which save() asserts and load() requires of a file *)
Validate(g) ==
    /\ \A n \in DOMAIN g.nodes : ValidNode(g, n) /\ NodeType(g, n) # "temporary"
    /\ \A n \in DOMAIN g.nodes : \A i \in DOMAIN Out(g, n) : ValidEdge(g, n, Out(g, n)[i])
    /\ IndicesComplete(g, NodesOf(g, "input"), Cardinality(NodesOf(g, "input")))
    /\ ValidOutputs(g)
    /\ Acyclic(g)
    /\ \A n \in NodesOf(g, "call") : ValidCall(g, n)

-----------------------------------------------------------------------------
(***************************************************************************)
(* remove_unused_nodes_and_reassign_node_indices(): the live nodes moved   *)
(* down in order, and the edges renamed.                                   *)
(***************************************************************************)
Compact(g) ==
    LET live == SelectSeq([i \in DOMAIN g.nodes |-> i], LAMBDA i : NodeType(g, i) # "invalid")
        new == [i \in ToSet(live) |-> CHOOSE k \in DOMAIN live : live[k] = i]
        renamed(list) == [k \in DOMAIN list |-> new[list[k]]]
    IN  [nodes |-> [k \in DOMAIN live |->
                        [g.nodes[live[k]] EXCEPT !.in = renamed(@), !.out = renamed(@)]],
         free |-> <<>>]

(***************************************************************************)
(* save(): the nodes without their edges, and every edge as (from, to,     *)
(* its place among the outgoing edges, its place among the incoming ones). *)
(* load() puts each edge at the two places it names (add_edge_for_load).   *)
(***************************************************************************)
SavedEdges(g) ==
    LET saved(from, k) ==
            LET to == Out(g, from)[k]
            IN  <<from, to, k, CHOOSE i \in DOMAIN In(g, to) :
                                  /\ In(g, to)[i] = from
                                  /\ \A j \in 1 .. i - 1 : In(g, to)[j] # from>>
    IN  FlattenSeq([n \in DOMAIN g.nodes |-> [k \in DOMAIN Out(g, n) |-> saved(n, k)]])

Save(g) == [nodes |-> [n \in DOMAIN g.nodes |-> NewNode(NodeType(g, n), NodeData(g, n))],
            edges |-> SavedEdges(g)]

(* Mutant: the place is counted from the edges the file already has. *)
PutLast(list, k, value) == Append(list, value)

(* vector::resize() to the place that is written; a place skipped is an invalid handle. *)
PutAt(list, k, value) ==
    [i \in 1 .. IF k > Len(list) THEN k ELSE Len(list) |->
        IF i = k THEN value ELSE IF i <= Len(list) THEN list[i] ELSE 0]

AddEdgeForLoad(g, e) ==
    [g EXCEPT !.nodes[e[1]].out = PutAt(@, e[3], e[2]),
              !.nodes[e[2]].in = PutAt(@, e[4], e[1])]

Load(file) == FoldLeft(AddEdgeForLoad, [nodes |-> file.nodes, free |-> <<>>], file.edges)

-----------------------------------------------------------------------------
(***************************************************************************)
(* What every operation keeps: edges are paired and not repeated, indexed  *)
(* nodes belong to one call or array, and the free list is exactly the     *)
(* invalid nodes, each once.                                               *)
(***************************************************************************)
EdgesPaired(g) ==
    \A a \in DOMAIN g.nodes :
        /\ \A b \in ToSet(Out(g, a)) : Contains(In(g, b), a)
        /\ \A b \in ToSet(In(g, a)) : Contains(Out(g, b), a)
        /\ Cardinality(ToSet(Out(g, a))) = Len(Out(g, a))
        /\ Cardinality(ToSet(In(g, a))) = Len(In(g, a))

IndexedNodesOwned(g) ==
    /\ \A n \in NodesOf(g, "indexed_input") :
         Len(Out(g, n)) = 1 /\ UsesIndexedInputs(g, Out(g, n)[1])
    /\ \A n \in NodesOf(g, "indexed_output") :
         Len(In(g, n)) = 1 /\ UsesIndexedOutputs(g, In(g, n)[1])
    /\ \A n \in NodesOf(g, "call") : ValidNode(g, n)

FreeListExact(g) ==
    /\ ToSet(g.free) = NodesOf(g, "invalid")
    /\ Cardinality(ToSet(g.free)) = Len(g.free)

WellFormed(g) == EdgesPaired(g) /\ IndexedNodesOwned(g) /\ FreeListExact(g)

=============================================================================
