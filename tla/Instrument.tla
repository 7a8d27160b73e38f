----------------------------- MODULE Instrument -----------------------------
(***************************************************************************)
(* The life of an instrument variant: the bodies of the program's modules  *)
(* are checked, the builder evaluates the program into a native module     *)
(* graph, the optimizer rewrites the graph, the graph is saved, and the    *)
(* engine loads it, makes a task graph of it and plays a chunk.  The       *)
(* compiler is one thread, so its steps follow one another; what differs   *)
(* is what the program asks for, and in the end the order of the tasks.    *)
(***************************************************************************)
EXTENDS InstrumentBuilder, GraphOptimizer, BufferManager

compilerVars == <<graph, stage, astVars, builderVars, optimizerVars>>
vars == <<compilerVars, engineVars>>

(***************************************************************************)
(* "refused" is a fault of the script found by the syntax tree builder,    *)
(* "error" one found by the graph builder, "failed" by the optimizer,      *)
(* "rejected" a file that load() does not accept.                          *)
(***************************************************************************)
Ends == {"refused", "error", "failed", "rejected"}
HasEnded == stage \in Ends \/ chunk \in {"done", "exhausted"}

(* "If AST generation had errors, don't attempt to build the instrument" *)
Refuse ==
    /\ stage = "start" /\ unvisited = {} /\ faults # {}
    /\ stage' = "refused"
    /\ UNCHANGED <<graph, astVars, builderVars, optimizerVars>>

SaveAndLoad ==
    /\ stage = "optimized"
    /\ graph' = Load(Save(graph))
    /\ stage' = IF Validate(graph') THEN "loaded" ELSE "rejected"
    /\ UNCHANGED <<astVars, builderVars, optimizerVars>>

(* c_runtime_instrument::build() and c_buffer_manager::initialize() *)
LoadInstrument ==
    /\ stage = "loaded"
    /\ Initialize(Build(graph))
    /\ UNCHANGED compilerVars

Ended == HasEnded /\ UNCHANGED vars

Init == AstInit /\ BuilderInit /\ cursor = 0 /\ optimized = FALSE /\ changed = FALSE /\ EngineInit

CompilerNext ==
    \/ AstNext /\ UNCHANGED <<graph, stage, builderVars, optimizerVars>>
    \/ Refuse
    \/ BuilderNext /\ UNCHANGED <<astVars, optimizerVars>>
    \/ OptimizerNext /\ UNCHANGED <<astVars, builderVars>>
    \/ SaveAndLoad

Next ==
    \/ CompilerNext /\ UNCHANGED engineVars
    \/ LoadInstrument
    \/ ChunkNext /\ UNCHANGED compilerVars

(***************************************************************************)
(* The compiler's thread is always run again, for nothing in it waits, and *)
(* so is the engine, in which some worker has a task or the audio thread   *)
(* goes on.  This is WF_vars(Next), with ENABLED Next written as what it   *)
(* is: the end has not been reached.                                       *)
(***************************************************************************)
Progress == []<>HasEnded \/ []<><<TRUE>>_vars

Spec == Init /\ [][Next \/ Ended]_vars /\ Progress

-----------------------------------------------------------------------------
(***************************************************************************)
(* The graph is never damaged by the edits of builder, trimmer and         *)
(* optimizer: edges stay paired, arguments stay attached to their calls,   *)
(* the free list stays exact (allocate_node, remove_node).  Until the      *)
(* optimizer starts every edge is one validate_edge() accepts, and what    *)
(* the builder hands over validates: every temporary reference taken on    *)
(* the way has been given back (c_graph_trimmer).  That it is free of      *)
(* unused nodes is not so: one that is looked at too early stays.          *)
(* What build() makes of the loaded graph is what its readers rely on.     *)
(***************************************************************************)
EdgesValid(g) ==
    \A n \in DOMAIN g.nodes : \A i \in DOMAIN Out(g, n) : ValidEdge(g, n, Out(g, n)[i])

GraphIntact ==
    /\ chunk = "unloaded" => WellFormed(graph)
    /\ stage \in {"build", "begin"} => EdgesValid(graph)
    /\ stage = "begin" => Validate(graph)
    /\ chunk = "idle" => WellMade(taskGraph)

(***************************************************************************)
(* While the program is evaluated, the node behind every variable and      *)
(* every intermediate result carries the signal the program gives it, at   *)
(* the latency the builder believes it has: whatever was run at compile    *)
(* time, delayed to meet another latency, copied, changed in place or      *)
(* trimmed meanwhile (assign_expression_value, add_latency_and_delay).     *)
(***************************************************************************)
ValuesKeepMeaning ==
    stage = "build" =>
        LET signals == Signals(graph)
        IN  \A v \in Held : v.node # 0 => signals[v.node] = Found(graph, v)

(***************************************************************************)
(* From the end of the builder through every rewriting of the optimizer to *)
(* the loaded graph, each output, the remain-active output among them,     *)
(* carries what the program assigned to it, all at the latency announced   *)
(* (get_output_latency).  "If the source pattern is identified in the      *)
(* graph, it is replaced with the target pattern", native_module.h.        *)
(***************************************************************************)
OutputsKeepMeaning ==
    stage \in {"begin", "visit", "deduplicate", "optimized", "loaded"} /\ chunk = "unloaded" =>
        \A k \in DOMAIN intended : OutputSignal(graph, k) = Shifted(intended[k], outputLatency)

\* What a program says is what its graph does, from the first expression to the
\* loaded file: both of the above.
MeaningKept == ValuesKeepMeaning /\ OutputsKeepMeaning

(***************************************************************************)
(* What was saved is restored exactly, the order of each node's edges      *)
(* included, although edges are written in one order and placed by their   *)
(* indices at both ends (add_edge_for_load); and it is accepted, unless    *)
(* the optimizer stopped before every call on constants was run: a pass    *)
(* whose last node was not optimized is taken for one without effect, and  *)
(* the sum of the durations of three delays in a row is left a call.       *)
(***************************************************************************)
CallsLeft == \E n \in NodesOf(graph, "call") : TryCall(graph, n, 0).called

SavedLoadsBack ==
    [][stage = "optimized" => /\ graph' = graph
                              /\ stage' = "loaded" \/ CallsLeft]_compilerVars

(***************************************************************************)
(* The checks of module bodies are what the builder needs: exact where     *)
(* they can be, and a program they let through never makes it look for a   *)
(* value that is not there.  Not so where loops return or assign, where    *)
(* only one of two branches returns, or where a variable is read that was  *)
(* never assigned.                                                         *)
(***************************************************************************)
ChecksSuffice ==
    /\ stage = "start" => ChecksExact
    /\ NothingMissing

(***************************************************************************)
(* Each output is played as the program says, at the latency announced, in *)
(* whatever order the workers took the tasks and wherever buffers were     *)
(* shared between the input and the output of a task or used again: from   *)
(* the source text to the mixer (setup_task, process_task, store_fx_output).*)
(***************************************************************************)
PlaysWhatIsWritten ==
    chunk = "done" => \A k \in DOMAIN intended : played[k] = Shifted(intended[k], outputLatency)

(* The promise of estimate_max_concurrency: "It is an overestimate, meaning we will
   reserve more memory than necessary", task_graph.cpp. *)
NeverOutOfBuffers == chunk # "exhausted"

(***************************************************************************)
(* Every program comes to an end, and one that compiles to the end of its  *)
(* chunk: the loop that goes on "until no optimizations can be applied"    *)
(* does not rewrite back and forth, and no task waits for ever.  Where a   *)
(* rule's target is an input of the graph nothing is rerouted and the same *)
(* call matches again, so that the loop may not end (x = b - 0 * b).       *)
(***************************************************************************)
NotReplaced == stage = "visit" /\ optimized /\ HasAnyOutputs(graph, cursor)

EndIsReached == <>(HasEnded \/ NotReplaced)

=============================================================================
