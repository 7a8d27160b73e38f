----------------------------- MODULE TaskGraph -----------------------------
(***************************************************************************)
(* c_task_graph: the tasks of a native module graph, the buffers they work *)
(* on, which task must wait for which, and how many buffers of each type   *)
(* are taken to be in memory at once.  It is built once and then only      *)
(* read, so this module has operators and no variables.                    *)
(*                                                                         *)
(* Tasks and buffers are counted from 1.  A buffer is [type, fixed]: its   *)
(* type is <<primitive type, upsample factor>>, and fixed is <<v>> for a   *)
(* compile-time constant and <<>> for any other.  A task is                *)
(* [module, node, ins, outs]: an input is <<"value", v>>,                  *)
(* <<"buffer", b>> or <<"array", bs>>, an output is a buffer.  Arrays are  *)
(* not merged with equal ones, which saves memory and nothing else.        *)
(***************************************************************************)
EXTENDS NativeModuleGraph, TLC

CONSTANTS
    Unshared        \* the modules whose result is declared wl_task_argument_unshared

RealType == <<"real", 1>>
BoolType == <<"bool", 1>>
Numbered(n) == [i \in 1 .. n |-> i]

-----------------------------------------------------------------------------
(***************************************************************************)
(* The order in which build() visits the nodes: the nodes without inputs   *)
(* are pushed on a stack, and a node is pushed when the last of those that *)
(* lead to it has been popped.                                             *)
(***************************************************************************)
PopNode(s, n) ==
    [stack |-> Front(s.stack) \o SelectSeq(s.outs[n], LAMBDA m : s.left[m] = 1),
     order |-> Append(s.order, n),
     left |-> [m \in DOMAIN s.left |-> s.left[m] - IF Contains(s.outs[n], m) THEN 1 ELSE 0],
     outs |-> s.outs]

OrderedNodes(g) ==
    LET nodes == Numbered(Len(g.nodes))
        start == [stack |-> SelectSeq(nodes, LAMBDA n : In(g, n) = <<>>), order |-> <<>>,
                  left |-> [n \in DOMAIN nodes |-> Len(In(g, n))],
                  outs |-> [n \in DOMAIN nodes |-> Out(g, n)]]
    IN  FoldLeft(LAMBDA s, n : IF s.stack = <<>> THEN s ELSE PopNode(s, Last(s.stack)),
                 start, nodes).order

-----------------------------------------------------------------------------
(***************************************************************************)
(* Buffers.  t is the task graph so far, t.at[n] the buffer of node n.     *)
(***************************************************************************)
AddBuffer(t, n, type, fixed) ==
    [t EXCEPT !.buffers = Append(@, [type |-> type, fixed |-> fixed]),
              !.at = @ @@ (n :> Len(t.buffers) + 1)]

(* add_or_get_buffer(): its search for an equal constant never finds one, since the
   match is recorded in an inner variable of the same name. *)
AddOrGetBuffer(t, g, n, type) ==
    IF n \in DOMAIN t.at THEN t
    ELSE AddBuffer(t, n, type, IF NodeType(g, n) = "constant" THEN <<NodeData(g, n)[2]>> ELSE <<>>)

CreateBufferForInput(t, g, n) ==
    LET u == AddOrGetBuffer(t, g, n, RealType)
    IN  [u EXCEPT !.inputs = @ @@ (NodeData(g, n)[1] :> u.at[n])]

AssignBufferToOutput(t, g, n) ==
    LET index == NodeData(g, n)[1]
        source == In(g, n)[1]
        u == AddOrGetBuffer(t, g, source, IF index = RemainActive THEN BoolType ELSE RealType)
    IN  [u EXCEPT !.outputs = @ @@ (index :> u.at[source])]

(* Mutant: the other users of an input are forgotten. *)
BranchesNever(g, source) == FALSE

(* does_native_module_call_input_branch() *)
Branches(g, source) == NodeType(g, source) # "constant" /\ Len(Out(g, source)) > 1

(***************************************************************************)
(* setup_task(): the inputs first, then the outputs, each of which takes   *)
(* over the buffer of the first input of its type that nobody else uses.   *)
(***************************************************************************)
ArgumentBufferType(g, call, arg) == <<arg.prim, arg.up * CallUpsample(g, call)>>

SetupInput(s, g, call, arg, source) ==
    LET type == ArgumentBufferType(g, call, arg)
        elements == [k \in DOMAIN In(g, source) |-> Source(g, source, k)]
        many == FoldLeft(LAMBDA t, n : AddOrGetBuffer(t, g, n, type), s.t, elements)
        one == AddOrGetBuffer(s.t, g, source, type)
        shares == ~Branches(g, source) /\ one.buffers[one.at[source]].fixed = <<>>
    IN  CASE arg.mut = Constant ->
               [s EXCEPT !.ins = Append(@, <<"value", NodeData(g, source)[2]>>)]
          [] arg.mut # Constant /\ arg.array ->
               [s EXCEPT !.t = many,
                         !.ins = Append(@, <<"array", [k \in DOMAIN elements |-> many.at[elements[k]]]>>)]
          [] OTHER ->
               [s EXCEPT !.t = one,
                         !.ins = Append(@, <<"buffer", one.at[source]>>),
                         !.candidates = IF shares THEN Append(@, <<one.at[source], type>>) ELSE @]

SetupOutput(s, g, call, arg, node) ==
    LET type == ArgumentBufferType(g, call, arg)
        fits == {i \in DOMAIN s.candidates : s.candidates[i][2] = type}
        first == Min(fits)
        t == IF fits # {} /\ CalledModule(g, call) \notin Unshared
             THEN [s.t EXCEPT !.at = @ @@ (node :> s.candidates[first][1])]
             ELSE AddBuffer(s.t, node, type, <<>>)
    IN  [s EXCEPT !.t = t, !.outs = Append(@, t.at[node]),
                  !.candidates = IF t.buffers = s.t.buffers THEN RemoveAt(@, first) ELSE @]

AddTask(t, g, call) ==
    LET m == CalledModule(g, call)
        start == [t |-> t, ins |-> <<>>, outs |-> <<>>, candidates |-> <<>>]
        inputs == FoldLeft(LAMBDA s, i : SetupInput(s, g, call, InArgs(m)[i], Source(g, call, i)),
                           start, Numbered(Len(InArgs(m))))
        both == FoldLeft(LAMBDA s, i : SetupOutput(s, g, call, OutArgs(m)[i], Out(g, call)[i]),
                         inputs, Numbered(Len(OutArgs(m))))
    IN  [both.t EXCEPT !.tasks = Append(@, [module |-> m, node |-> call,
                                            ins |-> both.ins, outs |-> both.outs])]

VisitNode(t, g, n) ==
    CASE NodeType(g, n) = "input" -> CreateBufferForInput(t, g, n)
      [] NodeType(g, n) = "output" -> AssignBufferToOutput(t, g, n)
      [] NodeType(g, n) = "call" -> AddTask(t, g, n)
      [] OTHER -> t

-----------------------------------------------------------------------------
(* The buffers of a task as c_task_buffer_iterator gives them: inputs and outputs, each
   as often as it is an argument, compile-time constants never. *)
Dynamic(t, b) == t.buffers[b].fixed = <<>>
InputBuffers(t, k) ==
    SelectSeq(FlattenSeq([i \in DOMAIN t.tasks[k].ins |->
                  CASE t.tasks[k].ins[i][1] = "array" -> t.tasks[k].ins[i][2]
                    [] t.tasks[k].ins[i][1] = "buffer" -> <<t.tasks[k].ins[i][2]>>
                    [] OTHER -> <<>>]),
              LAMBDA b : Dynamic(t, b))
TaskBuffers(t, k) == InputBuffers(t, k) \o t.tasks[k].outs

(* build_task_successor_lists(): the calls that use a node, and those that use an array
   with the node in it. *)
Users(g, n) == {Out(g, i)[1] : i \in {m \in ToSet(Out(g, n)) : NodeType(g, m) = "indexed_input"}}
CallsUsing(g, n) ==
    LET users == Users(g, n)
    IN  {c \in users \cup UNION {Users(g, a) : a \in {u \in users : NodeType(g, u) = "array"}} :
            NodeType(g, c) = "call"}

Successors(t, g) ==
    [k \in DOMAIN t.tasks |->
        {j \in DOMAIN t.tasks : \E n \in ToSet(Out(g, t.tasks[k].node)) : t.tasks[j].node \in CallsUsing(g, n)}]

(***************************************************************************)
(* c_predecessor_resolver: row b has the tasks before b.  The flag that is *)
(* to ask for another pass starts TRUE and is only ever set, so that there *)
(* is one pass; the order of the tasks makes up for it.  Each task before  *)
(* b, in turn, brings its own row.                                         *)
(***************************************************************************)
Joined(rows, b) ==
    LET row[a \in 0 .. Len(rows)] ==
            IF a = 0 THEN rows[b]
            ELSE LET before == row[a - 1]
                 IN  IF a \in before THEN before \cup rows[a] ELSE before
    IN  row[Len(rows)]

Resolve(successors) ==
    LET tasks == 1 .. Len(successors)
        direct == [b \in tasks |-> {a \in tasks : b \in successors[a]}]
        rows[b \in 0 .. Len(successors)] ==
            IF b = 0 THEN direct
            ELSE LET before == rows[b - 1]
                 IN  [before EXCEPT ![b] = Joined(before, b)]
    IN  rows[Len(successors)]

Unordered(rows, a, b) == a \notin rows[b] /\ b \notin rows[a]

(* estimate_max_concurrency(): each node joins the first group it is concurrent with none
   of; the number of groups is the estimate. *)
Merged(groups, x, concurrent) ==
    LET fits == {i \in DOMAIN groups : groups[i] \cap concurrent[x] = {}}
    IN  IF fits = {} THEN Append(groups, {x})
        ELSE [groups EXCEPT ![Min(fits)] = @ \cup {x}]

MaxConcurrency(nodes, concurrent) ==
    LET groups[k \in 0 .. Len(nodes)] ==
            IF k = 0 THEN <<>> ELSE Merged(groups[k - 1], nodes[k], concurrent)
    IN  Len(groups[Len(nodes)])

(***************************************************************************)
(* calculate_max_buffer_concurrency(): buffers are concurrent when one     *)
(* task or two unordered tasks use them, all inputs are, and all outputs.  *)
(***************************************************************************)
MaxBufferConcurrency(t, rows, type) ==
    LET uses == [k \in DOMAIN t.tasks |-> ToSet(TaskBuffers(t, k))]
        inputs == {t.inputs[i] : i \in DOMAIN t.inputs}
        outputs == {b \in {t.outputs[i] : i \in DOMAIN t.outputs \ {RemainActive}} : Dynamic(t, b)}
        beside(k) == uses[k] \cup UNION {uses[j] : j \in {j \in DOMAIN t.tasks : Unordered(rows, j, k)}}
        concurrent == [b \in DOMAIN t.buffers |->
            (IF b \in inputs THEN inputs ELSE {}) \cup (IF b \in outputs THEN outputs ELSE {})
            \cup UNION {beside(k) : k \in {k \in DOMAIN t.tasks : b \in uses[k]}}]
        used == SelectSeq(Numbered(Len(t.buffers)),
                          LAMBDA b : /\ t.buffers[b].type = type
                                     /\ b \in inputs \cup UNION {uses[k] : k \in DOMAIN uses})
    IN  MaxConcurrency(used, concurrent)

(* calculate_max_concurrency() for the types in the order they are met; after a type that
   is dropped because nothing of it is used, the next one is passed over. *)
BufferUsage(t, rows) ==
    LET types == FoldLeft(LAMBDA list, b : IF Contains(list, b.type) THEN list ELSE Append(list, b.type),
                          <<>>, t.buffers)
        counted == [i \in DOMAIN types |-> <<types[i], MaxBufferConcurrency(t, rows, types[i])>>]
        keep(s, info) == IF info[2] = 0 /\ ~s.skip
                         THEN [s EXCEPT !.skip = TRUE]
                         ELSE [kept |-> s.kept @@ (info[1] :> info[2]), skip |-> FALSE]
    IN  FoldLeft(keep, [kept |-> <<>>, skip |-> FALSE], counted).kept

-----------------------------------------------------------------------------
(* build().  It fails at a call of a module without a task function; validate() has
   rejected the graphs with such a call, since those modules run at compile time. *)
EmptyTaskGraph ==
    [tasks |-> <<>>, buffers |-> <<>>, at |-> <<>>, inputs |-> <<>>, outputs |-> <<>>,
     successors |-> <<>>, rows |-> <<>>, maxTasks |-> 0, usage |-> <<>>]

Build(g) ==
    LET t == FoldLeft(LAMBDA u, n : VisitNode(u, g, n), EmptyTaskGraph, OrderedNodes(g))
        successors == Successors(t, g)
        rows == Resolve(successors)
        unordered == [a \in DOMAIN t.tasks |-> {b \in DOMAIN t.tasks : Unordered(rows, a, b)}]
    IN  [t EXCEPT !.successors = successors, !.rows = rows,
                  !.maxTasks = MaxConcurrency(Numbered(Len(t.tasks)), unordered),
                  !.usage = BufferUsage(t, rows)]

Predecessors(t, k) == {j \in DOMAIN t.tasks : k \in t.successors[j]}

=============================================================================
