------------------------- MODULE InstrumentBuilder -------------------------
(***************************************************************************)
(* c_native_module_graph_builder: the syntax tree of an entry point is     *)
(* evaluated with a stack of nodes in progress and a stack of results, and *)
(* leaves the native module graph behind.  Variables hold graph nodes;     *)
(* control flow is resolved on the way; every value carries the latency of *)
(* the node it is found at, and what meets in one call is brought to the   *)
(* same latency by delays.                                                 *)
(*                                                                         *)
(* A syntax node is a tuple that begins with its kind:                     *)
(*   <<"real", v>>, <<"bool", b>>, <<"read", x>>, <<"array", elements>>,   *)
(*   <<"call", module, arguments>>, <<"scope", items>>,                    *)
(*   <<"declare", x, const, expression or <<>> >>, <<"expression", e>>,    *)
(*   <<"assign", x, index or <<>>, e>>, <<"return", e or <<>> >>,          *)
(*   <<"if", e, scope, scope or <<>> >>, <<"for", x, const, e, scope>>,    *)
(*   <<"break">>, <<"continue">>, <<"entry">>.                             *)
(* The argument of a call for an out parameter is the variable's name.     *)
(* Upsampling, global constants and out arguments with a subscript are     *)
(* left out.                                                               *)
(***************************************************************************)
EXTENDS AstBuilder, GraphTrimmer, GraphMeaning

CONSTANTS
    MaxModuleCallDepth  \* k_max_module_call_depth

VARIABLES
    ast,           \* ast_node_stack: [node, state]
    results,       \* expression_result_stack
    scopes,        \* tracked_scopes: sequences of [name, const, value]
    issued,        \* those of return, break and continue that are in force
    returned,      \* return_value_node_handle
    outputLatency, \* m_output_latency
    intended       \* history: what the program says of each output

builderVars == <<program, ast, results, scopes, issued, returned, outputLatency, intended>>

(***************************************************************************)
(* A value is s_node_handle_with_latency with the static type's mutability *)
(* and, as history, the signal it stands for in the program.               *)
(***************************************************************************)
Value(node, latency, const, means) ==
    [node |-> node, latency |-> latency, const |-> const, means |-> means]
NoValue == Value(0, 0, TRUE, <<>>)

(* The evaluation state as one record, changed step by step by the operators below. *)
State == [g |-> graph, results |-> results, scopes |-> scopes, returned |-> returned, ok |-> TRUE]

Becomes(s) ==
    /\ graph' = s.g /\ results' = s.results /\ scopes' = s.scopes /\ returned' = s.returned
    /\ stage' = IF s.ok THEN stage ELSE "error"

-----------------------------------------------------------------------------
(* push_expression_result() and pop_and_trim_expression_results() *)
PushResult(s, value) ==
    [s EXCEPT !.g = AddTemporaryReference(@, value.node), !.results = Append(@, value)]
PopResult(s) ==
    [s EXCEPT !.g = RemoveTemporaryReference(@, Last(s.results).node), !.results = Front(@)]
PopResults(s, count) == FoldLeft(LAMBDA t, i : PopResult(t), s, [i \in 1 .. count |-> i])
Result(s, count, i) == s.results[Len(s.results) - count + i]

(* c_tracked_scope: the declaration of x nearest to the innermost scope. *)
OpenScope(s) == [s EXCEPT !.scopes = Append(@, <<>>)]
AddDeclaration(s, x, const) ==
    [s EXCEPT !.scopes[Len(s.scopes)] = Append(@, [name |-> x, const |-> const, value |-> NoValue])]

Depth(s, x) ==
    CHOOSE d \in DOMAIN s.scopes :
        /\ \E i \in DOMAIN s.scopes[d] : s.scopes[d][i].name = x
        /\ \A e \in d + 1 .. Len(s.scopes) : \A i \in DOMAIN s.scopes[e] : s.scopes[e][i].name # x
Place(s, x) == SelectLastInSeq(s.scopes[Depth(s, x)], LAMBDA v : v.name = x)
Lookup(s, x) == s.scopes[Depth(s, x)][Place(s, x)]

(* set_node_handle_with_latency(): the new node is referred to before the old one is let go. *)
SetVariable(s, x, value) ==
    [s EXCEPT !.g = RemoveTemporaryReference(AddTemporaryReference(@, value.node),
                                             Lookup(s, x).value.node),
              !.scopes[Depth(s, x)][Place(s, x)].value = value]

CloseScope(s) ==
    [FoldLeft(LAMBDA t, v : [t EXCEPT !.g = RemoveTemporaryReference(@, v.value.node)],
              s, Last(s.scopes)) EXCEPT !.scopes = Front(@)]

(***************************************************************************)
(* add_latency_and_delay(): a call of the delay module, one for each       *)
(* element of an array.  Each operator returns [g, node].                  *)
(***************************************************************************)
WithDuration(g, call, samples) ==
    AddEdge(AddConstantNode(g, "real", samples), NextIndex(g), In(g, call)[1])
WithSignal(g, call, node) ==
    [g |-> AddEdge(g, node, In(g, call)[2]), node |-> Out(g, call)[1]]

DelayScalar(g, node, samples) ==
    LET call == NextIndex(g)
        m == IF ScalarType(g, node).prim = "bool" THEN "delay_samples$bool" ELSE "delay_samples$real"
    IN  WithSignal(WithDuration(AddCallNode(g, m, 1), call, samples), call, node)

(* What is delayed becomes the next element of an array, or the source of an input or output. *)
AppendTo(array, delayed) == AddArrayValue(delayed.g, array, delayed.node)
ConnectTo(node, delayed) == AddEdge(delayed.g, delayed.node, node)

DelayArray(g, node, samples) ==
    LET array == NextIndex(g)
    IN  [g |-> FoldLeft(LAMBDA h, i : AppendTo(array, DelayScalar(h, Source(h, node, i), samples)),
                        AddArrayNode(g), [i \in DOMAIN In(g, node) |-> i]),
         node |-> array]

DelayNode(g, node, samples) ==
    CASE samples <= 0 -> [g |-> g, node |-> node]
      [] samples > 0 /\ NodeType(g, node) = "array" -> DelayArray(g, node, samples)
      [] OTHER -> DelayScalar(g, node, samples)

(* Mutant: the first value's latency is taken for the largest. *)
FirstLatency(values) == IF values = <<>> THEN 0 ELSE values[1].latency

MaxLatency(values) == FoldLeft(LAMBDA l, v : IF v.latency > l THEN v.latency ELSE l, 0, values)

-----------------------------------------------------------------------------
(* Calls: a module's parameters, what is known of the call's result, and the binding. *)
IsNative(m) == m \in DOMAIN NativeModules
Body(m) == program.modules[m].body
NativeParameters(m) ==
    [i \in DOMAIN InArgs(m) |-> [dir |-> "in", name |-> ToString(i), const |-> InArgs(m)[i].mut = Constant]]
Parameters(m) == IF IsNative(m) THEN NativeParameters(m) ELSE program.modules[m].params

(* get_resolved_module_argument_data_type(), for constness *)
DependentsConst(m, values) ==
    \A i \in DOMAIN values : InArgs(m)[i].mut = DependentConstant => values[i].const
ResolvedConst(arg, m, values) ==
    \/ arg.mut = Constant
    \/ arg.mut = DependentConstant /\ DependentsConst(m, values)

(* The arguments are on the stack in order and taken from its top into the module's scope. *)
BindParameter(s, p) ==
    LET declared == AddDeclaration(s, p.name, p.const)
    IN  IF p.dir = "in" THEN PopResult(SetVariable(declared, p.name, Last(s.results))) ELSE declared
Bind(s, params) == FoldLeft(BindParameter, OpenScope(s), Reverse(params))

(***************************************************************************)
(* issue_native_module_call(): arguments whose type is not constant are    *)
(* delayed to the largest latency among them, and the call is run if it    *)
(* can be.                                                                 *)
(***************************************************************************)
ConnectArgument(g, call, m, values, latency, i) ==
    ConnectTo(In(g, call)[i],
              DelayNode(g, values[i].node, IF ResolvedConst(InArgs(m)[i], m, values) THEN 0
                                           ELSE latency - values[i].latency))

CallLatency(m, values) ==
    LET waiting == SelectSeq([i \in DOMAIN values |-> i],
                             LAMBDA i : ~ResolvedConst(InArgs(m)[i], m, values))
    IN  MaxLatency([k \in DOMAIN waiting |-> values[waiting[k]]])

CallResult(m, values, run, output) ==
    LET const == ResolvedConst(OutArgs(m)[1], m, values)
    IN  Value(IF run.called THEN run.results[1] ELSE output, IF const THEN 0 ELSE run.latency, const,
              ModuleMeaning(m, [i \in DOMAIN values |-> values[i].means], CallLatency(m, values)))

(* The call's node is gone when it was run. *)
AfterCall(s, m, values, call, run) ==
    CASE ~run.ok -> [s EXCEPT !.g = run.g, !.ok = FALSE]
      [] run.ok /\ OutArgs(m) = <<>> -> [s EXCEPT !.g = run.g]
      [] OTHER ->
            LET result == CallResult(m, values, run, IF run.called THEN 0 ELSE Out(run.g, call)[1])
            IN  [s EXCEPT !.g = AddTemporaryReference(run.g, result.node), !.returned = result]

IssueNativeModuleCall(s, m) ==
    LET values == [i \in DOMAIN InArgs(m) |-> Lookup(s, ToString(i)).value]
        call == NextIndex(s.g)
        latency == CallLatency(m, values)
        connected == FoldLeft(LAMBDA g, i : ConnectArgument(g, call, m, values, latency, i),
                              AddCallNode(s.g, m, 1), [i \in DOMAIN values |-> i])
    IN  AfterCall(s, m, values, call, TryCall(connected, call, latency))

(***************************************************************************)
(* assign_expression_value() to an element: in place when nothing else     *)
(* holds the array, else into a copy.  The copy takes its other elements   *)
(* from array_index too.                                                   *)
(***************************************************************************)
CopyElement(g, copy, array, index, value, i) ==
    AppendTo(copy, IF i = index THEN [g |-> g, node |-> value.node]
                   ELSE DelayNode(g, Source(g, array.node, index), value.latency - array.latency))

CopyArray(g, array, index, value) ==
    FoldLeft(LAMBDA h, i : CopyElement(h, NextIndex(g), array, index, value, i),
             AddArrayNode(g), [i \in DOMAIN In(g, array.node) |-> i])

PutElement(s, x, array, index, value) ==
    LET means == [array.means EXCEPT ![index] = value.means]
    IN  IF Len(Out(s.g, array.node)) = 1 /\ value.latency = array.latency
        THEN [s EXCEPT !.g = TryTrimNode(SetArrayValue(@, array.node, index, value.node),
                                         Source(@, array.node, index)),
                       !.scopes[Depth(s, x)][Place(s, x)].value.means = means]
        ELSE SetVariable([s EXCEPT !.g = CopyArray(@, array, index, value)], x,
                         Value(NextIndex(s.g), value.latency, FALSE, means))

(* The expression is brought to the latency of the array if that is larger. *)
PutDelayed(s, x, array, index, value, delayed) ==
    PutElement([s EXCEPT !.g = delayed.g], x, array, index,
               [value EXCEPT !.node = delayed.node, !.latency = MaxLatency(<<array, value>>)])

AssignElement(s, x, index, value) ==
    LET array == Lookup(s, x).value
    IN  IF index \in DOMAIN In(s.g, array.node)
        THEN PutDelayed(s, x, array, index, value,
                        DelayNode(s.g, value.node, array.latency - value.latency))
        ELSE [s EXCEPT !.ok = FALSE]

(* An out argument's value goes to the caller's variable, whatever the module calls its own. *)
AssignOut(s, p, argument) ==
    IF p.dir = "in" THEN s
    ELSE LET assigned == SetVariable([s EXCEPT !.scopes = Front(@)], argument, Lookup(s, p.name).value)
         IN  [assigned EXCEPT !.scopes = Append(@, Last(s.scopes))]

-----------------------------------------------------------------------------
(* The node on top of the stack, its state, and what can become of it. *)
Top == Last(ast)
Kind == Top.node[1]
Working(kind, k) == stage = "build" /\ ast # <<>> /\ Kind = kind /\ Top.state = k

Visit(nodes) == [i \in DOMAIN nodes |-> [node |-> nodes[i], state |-> 0]]
Continue(nodes) == ast' = [ast EXCEPT ![Len(ast)].state = @ + 1] \o Visit(nodes)
Done == ast' = Front(ast)
Optional(node) == IF node = <<>> THEN <<>> ELSE <<node>>

Kept == UNCHANGED <<program, outputLatency, intended>>

(* State 0 of the nodes that have expressions evaluated before they act. *)
BeginNode ==
    /\ \/ Working("declare", 0) /\ Continue(Optional(Top.node[4]))
       \/ Working("expression", 0) /\ Continue(<<Top.node[2]>>)
       \/ Working("assign", 0) /\ Continue(<<Top.node[4]>> \o Optional(Top.node[3]))
       \/ Working("return", 0) /\ Continue(Optional(Top.node[2]))
       \/ Working("if", 0) /\ Continue(<<Top.node[2]>>)
       \/ Working("for", 0) /\ Continue(<<Top.node[4]>>)
       \/ Working("array", 0) /\ Continue(Reverse(Top.node[2]))
    /\ UNCHANGED <<graph, stage, results, scopes, issued, returned>> /\ Kept

(* c_ast_node_scope: an item at a time, none once a statement has ended the scope. *)
EvaluateScope ==
    /\ stage = "build" /\ ast # <<>> /\ Kind = "scope"
    /\ IF Top.state < Len(Top.node[2]) /\ issued = {}
       THEN Continue(<<Top.node[2][Top.state + 1]>>)
       ELSE Done
    /\ UNCHANGED <<graph, stage, results, scopes, issued, returned>> /\ Kept

EvaluateLiteral ==
    /\ Working("real", 0) \/ Working("bool", 0)
    /\ Becomes(PushResult([State EXCEPT !.g = AddConstantNode(@, Kind, Top.node[2])],
                          Value(NextIndex(graph), 0, TRUE, Always(Top.node[2]))))
    /\ Done /\ UNCHANGED issued /\ Kept

EvaluateRead ==
    /\ Working("read", 0)
    /\ LET variable == Lookup(State, Top.node[2])
       IN  Becomes(PushResult(State, [variable.value EXCEPT !.const = variable.const]))
    /\ Done /\ UNCHANGED issued /\ Kept

(* The elements are brought to one latency. *)
AddElements(g, array, elements) ==
    FoldLeft(LAMBDA h, e : AppendTo(array, DelayNode(h, e.node, MaxLatency(elements) - e.latency)),
             AddArrayNode(g), elements)

EvaluateArray ==
    /\ Working("array", 1)
    /\ LET count == Len(Top.node[2])
           elements == [i \in 1 .. count |-> Result(State, count, i)]
           array == NextIndex(graph)
           built == [State EXCEPT !.g = AddElements(@, array, elements)]
       IN  Becomes(PushResult(PopResults(built, count),
                              Value(array, MaxLatency(elements), \A i \in 1 .. count : elements[i].const,
                                    [i \in 1 .. count |-> elements[i].means])))
    /\ Done /\ UNCHANGED issued /\ Kept

EvaluateDeclaration ==
    /\ Working("declare", 1)
    /\ LET declared == AddDeclaration(State, Top.node[2], Top.node[3])
       IN  Becomes(IF Top.node[4] = <<>> THEN declared
                   ELSE PopResult(SetVariable(declared, Top.node[2], Last(results))))
    /\ Done /\ UNCHANGED issued /\ Kept

IsVoid(e) ==
    e[1] = "call" /\ IF IsNative(e[2]) THEN OutArgs(e[2]) = <<>> ELSE program.modules[e[2]].void

EvaluateExpressionStatement ==
    /\ Working("expression", 1)
    /\ Becomes(IF IsVoid(Top.node[2]) THEN State ELSE PopResult(State))
    /\ Done /\ UNCHANGED issued /\ Kept

(***************************************************************************)
(* The right-hand side lies above the index; both are held while the       *)
(* variable is changed.                                                    *)
(***************************************************************************)
Hold(s, value) == PopResult([s EXCEPT !.g = AddTemporaryReference(@, value.node)])
Release(s, values) ==
    IF s.ok THEN [s EXCEPT !.g = FoldLeft(LAMBDA g, v : RemoveTemporaryReference(g, v.node), @, values)]
    ELSE s

AssignVariable ==
    /\ Working("assign", 1) /\ Top.node[3] = <<>>
    /\ LET value == Last(results)
       IN  Becomes(Release(SetVariable(Hold(State, value), Top.node[2], value), <<value>>))
    /\ Done /\ UNCHANGED issued /\ Kept

AssignArrayElement ==
    /\ Working("assign", 1) /\ Top.node[3] # <<>>
    /\ LET value == Last(results)
           index == Result(State, 2, 1)
           held == Hold(Hold(State, value), index)
       IN  Becomes(Release(AssignElement(held, Top.node[2], NodeData(graph, index.node)[2] + 1, value),
                           <<value, index>>))
    /\ Done /\ UNCHANGED issued /\ Kept

EvaluateReturn ==
    /\ Working("return", 1)
    /\ Becomes(IF Top.node[2] = <<>> THEN State
               ELSE PopResult([State EXCEPT !.returned = Last(results),
                                            !.g = AddTemporaryReference(@, Last(results).node)]))
    /\ issued' = issued \cup {"return"}
    /\ Done /\ Kept

EvaluateBreakOrContinue ==
    /\ Working("break", 0) \/ Working("continue", 0)
    /\ issued' = issued \cup {Kind}
    /\ Done /\ UNCHANGED <<graph, stage, results, scopes, returned>> /\ Kept

(* The condition stays on the stack until the chosen scope is over. *)
Chosen == IF NodeData(graph, Last(results).node)[2] THEN Top.node[3] ELSE Top.node[4]

EnterIf ==
    /\ Working("if", 1) /\ Chosen # <<>>
    /\ Becomes(OpenScope(State))
    /\ Continue(<<Chosen>>) /\ UNCHANGED issued /\ Kept

LeaveIf ==
    /\ \/ Working("if", 1) /\ Chosen = <<>> /\ Becomes(PopResult(State))
       \/ Working("if", 2) /\ Becomes(CloseScope(PopResult(State)))
    /\ Done /\ UNCHANGED issued /\ Kept

(* State k: k - 1 iterations are over.  A continue ends with its iteration, a break the loop. *)
EvaluateFor ==
    /\ stage = "build" /\ ast # <<>> /\ Kind = "for" /\ Top.state > 0
    /\ LET array == Last(results)
           i == Top.state
           left == IF i > 1 THEN CloseScope(State) ELSE State
           element == Value(Source(left.g, array.node, i), array.latency, FALSE, array.means[i])
       IN  IF i <= Len(In(graph, array.node)) /\ "break" \notin issued
           THEN /\ Becomes(SetVariable(AddDeclaration(OpenScope(left), Top.node[2], Top.node[3]),
                                       Top.node[2], element))
                /\ Continue(<<Top.node[5]>>)
                /\ issued' = issued \ {"continue"}
           ELSE /\ Becomes(PopResult(left))
                /\ Done
                /\ issued' = issued \ {"break", "continue"}
    /\ Kept

-----------------------------------------------------------------------------
(* Module calls.  The entry point's arguments are on the stack before it is called. *)
ModulesInProgress == Len(SelectSeq(ast, LAMBDA e : e.node[1] \in {"call", "entry"} /\ e.state > 0))

BeginCall ==
    /\ Working("call", 0)
    /\ LET params == Parameters(Top.node[2])
           ins == SelectSeq([i \in DOMAIN params |-> i], LAMBDA i : params[i].dir = "in")
       IN  IF ModulesInProgress >= MaxModuleCallDepth
           THEN stage' = "error" /\ UNCHANGED ast
           ELSE stage' = stage /\ Continue(Reverse([k \in DOMAIN ins |-> Top.node[3][ins[k]]]))
    /\ UNCHANGED <<graph, results, scopes, issued, returned>> /\ Kept

EnterNativeModule ==
    /\ Working("call", 1) /\ IsNative(Top.node[2])
    /\ Becomes(IssueNativeModuleCall(Bind(State, Parameters(Top.node[2])), Top.node[2]))
    /\ Continue(<<>>) /\ UNCHANGED issued /\ Kept

EnterModule ==
    /\ Working("call", 1) /\ ~IsNative(Top.node[2])
    /\ Becomes(Bind(State, Parameters(Top.node[2])))
    /\ Continue(<<Body(Top.node[2])>>) /\ UNCHANGED issued /\ Kept

(* The out arguments are assigned while the module's scope still holds them. *)
PushReturned(s) ==
    IF s.returned.node = 0 THEN s
    ELSE LET pushed == PushResult(s, s.returned)
         IN  [pushed EXCEPT !.g = RemoveTemporaryReference(@, s.returned.node), !.returned = NoValue]

LeaveModule ==
    /\ Working("call", 2)
    /\ LET params == Parameters(Top.node[2])
           assigned == FoldLeft(LAMBDA s, i : AssignOut(s, params[i], Top.node[3][i]),
                                State, [i \in DOMAIN params |-> i])
       IN  Becomes(CloseScope(PushReturned(assigned)))
    /\ issued' = issued \ {"return"}
    /\ Done /\ Kept

EnterEntryPoint ==
    /\ Working("entry", 0)
    /\ Becomes(Bind(State, program.params))
    /\ Continue(<<program.body>>) /\ UNCHANGED issued /\ Kept

LeaveEntryPoint ==
    /\ Working("entry", 1)
    /\ LET outs == SelectSeq(Reverse(program.params), LAMBDA p : p.dir = "out")
       IN  Becomes(CloseScope(FoldLeft(LAMBDA s, p : PushResult(s, Lookup(s, p.name).value),
                                       PushReturned(State), outs)))
    /\ issued' = issued \ {"return"}
    /\ Done /\ Kept

-----------------------------------------------------------------------------
(***************************************************************************)
(* build(): input and output nodes in the order of the arguments, then the *)
(* output that tells whether the voice stays active, then the entry point. *)
(***************************************************************************)
Earlier(params, i) == Cardinality({j \in 1 .. i - 1 : params[j].dir = params[i].dir})

AddParameterNode(s, params, i) ==
    IF params[i].dir = "in"
    THEN [g |-> AddInputNode(s.g, Earlier(params, i)),
          inputs |-> Append(s.inputs, Value(NextIndex(s.g), 0, FALSE, InputSignal(Earlier(params, i))))]
    ELSE [s EXCEPT !.g = AddOutputNode(@, Earlier(params, i))]

BeginBuild ==
    /\ stage = "start" /\ unvisited = {} /\ faults = {}
    /\ LET params == program.params
           nodes == FoldLeft(LAMBDA s, i : AddParameterNode(s, params, i),
                             [g |-> graph, inputs |-> <<>>], [i \in DOMAIN params |-> i])
           pushed == FoldLeft(PushResult, [State EXCEPT !.g = AddOutputNode(nodes.g, RemainActive)],
                              nodes.inputs)
       IN  graph' = pushed.g /\ results' = pushed.results
    /\ stage' = "build"
    /\ ast' = Visit(<<<<"entry">>>>)
    /\ UNCHANGED <<scopes, issued, returned>> /\ Kept

(* The results from the top are outputs 0, 1, ... and the remain-active value, all brought to one latency. *)
ConnectOutput(s, index, latency) ==
    LET value == Last(s.results)
        output == CHOOSE n \in NodesOf(s.g, "output") : NodeData(s.g, n) = <<index>>
    IN  PopResult([s EXCEPT !.g = ConnectTo(output, DelayNode(@, value.node, latency - value.latency))])

EndBuild ==
    /\ stage = "build" /\ ast = <<>>
    /\ LET latency == MaxLatency(results)
           index == [i \in DOMAIN results |-> IF i = Len(results) THEN RemainActive ELSE i - 1]
           connected == FoldLeft(LAMBDA s, i : ConnectOutput(s, i, latency), State, index)
       IN  /\ graph' = Compact(connected.g)
           /\ results' = <<>>
           /\ outputLatency' = latency
           /\ intended' = [k \in ToSet(index) |->
                               results[CHOOSE i \in DOMAIN results : index[Len(results) - i + 1] = k].means]
    /\ stage' = "begin"
    /\ UNCHANGED <<program, ast, scopes, issued, returned>>

BuilderNext ==
    \/ BeginBuild \/ BeginNode \/ EvaluateScope \/ EvaluateLiteral \/ EvaluateRead \/ EvaluateArray
    \/ EvaluateDeclaration \/ EvaluateExpressionStatement \/ AssignVariable \/ AssignArrayElement \/ EvaluateReturn
    \/ EvaluateBreakOrContinue \/ EnterIf \/ LeaveIf \/ EvaluateFor
    \/ BeginCall \/ EnterNativeModule \/ EnterModule \/ LeaveModule
    \/ EnterEntryPoint \/ LeaveEntryPoint \/ EndBuild

BuilderInit ==
    /\ graph = EmptyGraph /\ stage = "start"
    /\ ast = <<>> /\ results = <<>> /\ scopes = <<>> /\ issued = {} /\ returned = NoValue
    /\ outputLatency = 0 /\ intended = <<>>

-----------------------------------------------------------------------------
(* What a value stands for, found later by its latency; an array, element by element. *)
Found(g, value) ==
    IF NodeType(g, value.node) = "array"
    THEN [i \in DOMAIN value.means |-> Shifted(value.means[i], value.latency)]
    ELSE Shifted(value.means, value.latency)

(***************************************************************************)
(* What the builder takes for certain of a program it is given: a variable *)
(* that is read has a node ("if this value doesn't have an associated      *)
(* node, it means we're initializing global-scope constants"), a module    *)
(* that returns has left a value exactly if it is not void, and its out    *)
(* arguments have nodes (evaluate_ast_node, initialize_global_scope_       *)
(* constant, push_expression_result).                                      *)
(***************************************************************************)
NothingMissing ==
    /\ Working("read", 0) => Lookup(State, Top.node[2]).value.node # 0
    /\ Working("call", 2) =>
          /\ (returned.node = 0) = IsVoid(Top.node)
          /\ ~IsNative(Top.node[2]) =>
                \A x \in NamesOf(Parameters(Top.node[2]), "out") : Lookup(State, x).value.node # 0
    /\ Working("entry", 1) =>
          /\ returned.node # 0
          /\ \A x \in NamesOf(program.params, "out") : Lookup(State, x).value.node # 0

Held ==
    ToSet(results) \cup {returned}
    \cup UNION {{scopes[d][i].value : i \in DOMAIN scopes[d]} : d \in DOMAIN scopes}

=============================================================================
