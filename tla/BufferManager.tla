--------------------------- MODULE BufferManager ---------------------------
(***************************************************************************)
(* One chunk of audio through the FX graph of an instrument: the buffer    *)
(* manager hands memory from its pools to the buffers of the task graph,   *)
(* the tasks run on the workers in any order their predecessors allow, and *)
(* memory goes back to its pool with the last use of a buffer.             *)
(*                                                                         *)
(* The instrument has an FX graph only and its FX voice is active.  What   *)
(* the workers share is modelled at the grain at which they meet: memory   *)
(* is taken before the task's function and given back after it, and both   *)
(* the usage counts and the pools are atomic.  How the workers are woken   *)
(* and how the stage is ended is the subject of Executor.                  *)
(***************************************************************************)
EXTENDS TaskGraph, GraphMeaning

CONSTANTS
    InChannels,   \* input_channel_count of the stream
    OutChannels,  \* output_channel_count
    Workers       \* the number of tasks that can run at a time

ASSUME ChannelsAssumption == InChannels \in Nat /\ OutChannels \in Nat

VARIABLES
    taskGraph,  \* m_runtime_instrument's FX task graph
    chunk,      \* how far the chunk is
    ready,      \* the tasks in the thread pool
    running,    \* the tasks in process_task()
    left,       \* predecessors_remaining
    remaining,  \* m_tasks_remaining
    usages,     \* usages_remaining
    at,         \* the memory of each buffer
    fxOutputs,  \* the memory of m_fx_output_buffers
    free,       \* m_buffer_pools: the free memory of each type, next to be taken last
    content,    \* the signal in each piece of memory
    played      \* what the mixer is given for each output, and remain-active

stageVars == <<ready, running, left, remaining>>
bufferVars == <<usages, at, fxOutputs, free, content>>
engineVars == <<taskGraph, chunk, stageVars, bufferVars, played>>

-----------------------------------------------------------------------------
(***************************************************************************)
(* Memory.  A piece of it is <<type, number>>, Nowhere is a null pointer.  *)
(***************************************************************************)
Nowhere == <<>>
Count(f, x) == Cardinality({i \in DOMAIN f : f[i] = x})
Reals(n) == [i \in 1 .. n |-> RealType]

(* allocate_buffer_memory(), for one type and for several; dry when a pool had none left. *)
Allocate(s, type) ==
    IF s.free[type] = <<>>
    THEN [s EXCEPT !.dry = TRUE]
    ELSE [s EXCEPT !.free[type] = Front(@), !.taken = Append(@, Last(s.free[type]))]

Allocated(pools, types) ==
    LET s[i \in 0 .. Len(types)] ==
            IF i = 0 THEN [free |-> pools, taken |-> <<>>, dry |-> FALSE]
            ELSE Allocate(s[i - 1], types[i])
    IN  s[Len(types)]

(* free_buffer_memory(), for one piece of memory and for several. *)
Returned(pools, m) == [pools EXCEPT ![m[1]] = Append(@, m)]

Freed(pools, memory) ==
    LET p[i \in 0 .. Len(memory)] == IF i = 0 THEN pools ELSE Returned(p[i - 1], memory[i])
    IN  p[Len(memory)]

(* decrement_buffer_usages() *)
Decrement(s, b) ==
    IF s.usages[b] = 1
    THEN [usages |-> [s.usages EXCEPT ![b] = 0],
          at |-> [s.at EXCEPT ![b] = Nowhere],
          free |-> Returned(s.free, s.at[b])]
    ELSE [s EXCEPT !.usages[b] = @ - 1]

Decremented(buffers) ==
    LET s[i \in 0 .. Len(buffers)] ==
            IF i = 0 THEN [usages |-> usages, at |-> at, free |-> free]
            ELSE Decrement(s[i - 1], buffers[i])
    IN  s[Len(buffers)]

-----------------------------------------------------------------------------
(* What initialize() finds out about the task graph. *)
InputCount(t) == Cardinality(DOMAIN t.inputs)
OutputCount(t) == Cardinality(DOMAIN t.outputs) - 1
Outputs(t) == [i \in 1 .. OutputCount(t) |-> t.outputs[i - 1]]

(* Without inputs the channels are not even allocated. *)
ChannelCount(t) == IF InputCount(t) = 0 THEN 0 ELSE InChannels

(* The most that is in use while channels are mixed into inputs, while the graph runs
   and while outputs are mixed into channels. *)
PoolSize(t, type) ==
    LET usage == IF type \in DOMAIN t.usage THEN t.usage[type] ELSE 0
    IN  IF type = RealType
        THEN Max({ChannelCount(t) + InputCount(t), usage + OutputCount(t), OutputCount(t) + OutChannels})
        ELSE usage

(* The values of s at some of its indices. *)
Picked(s, indices) ==
    LET picked[i \in 0 .. Len(s)] ==
            IF i = 0 THEN <<>>
            ELSE IF i \in indices THEN Append(picked[i - 1], s[i]) ELSE picked[i - 1]
    IN  picked[Len(s)]

(* m_output_buffers_to_decrement *)
OutputsToDecrement(t) ==
    LET all == Outputs(t) \o <<t.outputs[RemainActive]>>
    IN  Picked(all, {i \in DOMAIN all : Dynamic(t, all[i])})

(* initial_usages: one for each argument a buffer is of a task, one for each output. *)
Arguments(t) == UNION {{k} \X DOMAIN TaskBuffers(t, k) : k \in DOMAIN t.tasks}

InitialUsages(t) ==
    [b \in DOMAIN t.buffers |->
        Cardinality({x \in Arguments(t) : TaskBuffers(t, x[1])[x[2]] = b})
        + Count(OutputsToDecrement(t), b)]

(* Mutant: an output that shares the buffer of an input is given memory again. *)
AllOutputs(t, k) == t.tasks[k].outs

(* m_task_buffers_to_allocate: not those shared with an input *)
BuffersToAllocate(t, k) ==
    LET outs == t.tasks[k].outs
    IN  Picked(outs, {i \in DOMAIN outs : ~Contains(InputBuffers(t, k), outs[i])})

(* initialize(); what is in the memory then is of no use to anybody. *)
Initialize(t) ==
    LET types == DOMAIN t.usage \cup {RealType}
        pools == [type \in types |-> [i \in 1 .. PoolSize(t, type) |-> <<type, i>>]]
    IN  /\ chunk = "unloaded"
        /\ taskGraph' = t
        /\ free' = pools
        /\ content' = [m \in UNION {ToSet(pools[type]) : type \in types} |->
                          Always(IF m[1] = RealType THEN -9 ELSE FALSE)]
        /\ at' = [b \in DOMAIN t.buffers |-> Nowhere]
        /\ usages' = [b \in DOMAIN t.buffers |-> 0]
        /\ left' = [k \in DOMAIN t.tasks |-> 0]
        /\ chunk' = "idle"
        /\ UNCHANGED <<ready, running, remaining, fxOutputs, played>>

-----------------------------------------------------------------------------
(* mix_input_channel_buffer_to_input_buffers(): the channels are needed while they are
   mixed, then the inputs are left. *)
MixedInput(t, pools) ==
    LET mixing == Allocated(pools, Reals(ChannelCount(t) + InputCount(t)))
    IN  [free |-> Freed(mixing.free, SubSeq(mixing.taken, 1, ChannelCount(t))),
         inputs |-> SubSeq(mixing.taken, ChannelCount(t) + 1, ChannelCount(t) + InputCount(t))]

(* transfer_input_buffers_and_voice_accumulation_buffers_to_fx_inputs(): the memory of an
   input becomes that of its buffer or, when nothing uses the buffer, is free. *)
Transferred(t, inputs) ==
    LET used(i) == InitialUsages(t)[t.inputs[i - 1]] > 0
        owner(b) == {i \in DOMAIN inputs : t.inputs[i - 1] = b /\ used(i)}
    IN  [at |-> [b \in DOMAIN t.buffers |->
                    IF owner(b) = {} THEN Nowhere ELSE inputs[CHOOSE i \in owner(b) : TRUE]],
         unused |-> Picked(inputs, {i \in DOMAIN inputs : ~used(i)})]

(***************************************************************************)
(* execute_internal() up to the first tasks: the channels are mixed into   *)
(* the inputs, memory for the FX outputs is set aside, the inputs become   *)
(* the graph's, and the tasks without predecessors are added.  The pools   *)
(* are large enough for this.                                              *)
(***************************************************************************)
BeginChunk ==
    LET t == taskGraph
        mixed == MixedInput(t, free)
        storing == Allocated(mixed.free, Reals(OutputCount(t)))
        transferred == Transferred(t, mixed.inputs)
    IN  /\ chunk = "idle"
        /\ usages' = InitialUsages(t)
        /\ fxOutputs' = storing.taken
        /\ free' = Freed(storing.free, transferred.unused)
        /\ at' = transferred.at
        /\ content' = [m \in DOMAIN content |->
                          IF Contains(mixed.inputs, m)
                          THEN InputSignal((CHOOSE i \in DOMAIN mixed.inputs : mixed.inputs[i] = m) - 1)
                          ELSE content[m]]
        /\ left' = [k \in DOMAIN t.tasks |-> Cardinality(Predecessors(t, k))]
        /\ ready' = {k \in DOMAIN t.tasks : Predecessors(t, k) = {}}
        /\ remaining' = Len(t.tasks)
        /\ chunk' = "tasks"
        /\ UNCHANGED <<taskGraph, running, played>>

(* process_task() up to the task's function: memory for its outputs is taken. *)
Startable(k) == chunk = "tasks" /\ k \in ready /\ Cardinality(running) < Workers
TypesOf(buffers) == [i \in DOMAIN buffers |-> taskGraph.buffers[buffers[i]].type]

StartTask(k) ==
    LET buffers == BuffersToAllocate(taskGraph, k)
        taking == Allocated(free, TypesOf(buffers))
    IN  /\ Startable(k)
        /\ ~taking.dry
        /\ free' = taking.free
        /\ at' = [b \in DOMAIN at |->
                     IF Contains(buffers, b)
                     THEN taking.taken[CHOOSE i \in DOMAIN buffers : buffers[i] = b]
                     ELSE at[b]]
        /\ ready' = ready \ {k}
        /\ running' = running \cup {k}
        /\ UNCHANGED <<taskGraph, chunk, left, remaining, usages, fxOutputs, content, played>>

(* "Out of buffers": what follows is undefined, and the model ends. *)
RunDry(k) ==
    /\ Startable(k)
    /\ Allocated(free, TypesOf(BuffersToAllocate(taskGraph, k))).dry
    /\ chunk' = "exhausted"
    /\ UNCHANGED <<taskGraph, stageVars, bufferVars, played>>

(***************************************************************************)
(* The task's function, and the rest of process_task(): what the buffers   *)
(* of its arguments hold is used, those it used last are freed, and the    *)
(* tasks that waited for nothing else are added.                           *)
(***************************************************************************)
SignalOf(b) ==
    IF Dynamic(taskGraph, b) THEN content[at[b]] ELSE Always(taskGraph.buffers[b].fixed[1])

Operand(argument) ==
    CASE argument[1] = "value" -> Always(argument[2])
      [] argument[1] = "buffer" -> SignalOf(argument[2])
      [] argument[1] = "array" -> [i \in DOMAIN argument[2] |-> SignalOf(argument[2][i])]

FinishTask(k) ==
    LET task == taskGraph.tasks[k]
        result == ModuleMeaning(task.module, [i \in DOMAIN task.ins |-> Operand(task.ins[i])], 0)
        after == Decremented(TaskBuffers(taskGraph, k))
    IN  /\ chunk = "tasks"
        /\ k \in running
        /\ content' = [content EXCEPT ![at[task.outs[1]]] = result]
        /\ usages' = after.usages
        /\ at' = after.at
        /\ free' = after.free
        /\ left' = [j \in DOMAIN left |-> left[j] - IF j \in taskGraph.successors[k] THEN 1 ELSE 0]
        /\ ready' = ready \cup {j \in taskGraph.successors[k] : left'[j] = 0}
        /\ running' = running \ {k}
        /\ remaining' = remaining - 1
        /\ UNCHANGED <<taskGraph, chunk, fxOutputs, played>>

(* process_remain_active_output() and store_fx_output(): the outputs are copied, and
   the graph's buffers given back. *)
StoreOutput ==
    LET outputs == Outputs(taskGraph)
        after == Decremented(OutputsToDecrement(taskGraph))
    IN  /\ chunk = "tasks" /\ remaining = 0
        /\ content' = [m \in DOMAIN content |->
                          IF Contains(fxOutputs, m)
                          THEN SignalOf(outputs[CHOOSE i \in DOMAIN fxOutputs : fxOutputs[i] = m])
                          ELSE content[m]]
        /\ played' = RemainActive :> SignalOf(taskGraph.outputs[RemainActive])
        /\ usages' = after.usages
        /\ at' = after.at
        /\ free' = after.free
        /\ chunk' = "mix"
        /\ UNCHANGED <<taskGraph, stageVars, fxOutputs>>

(* mix_to_channel_buffers() and free_channel_buffers(): the pools are large enough. *)
MixOutput ==
    LET mixing == Allocated(free, Reals(OutChannels))
    IN  /\ chunk = "mix"
        /\ ~mixing.dry
        /\ played' = played @@ [i \in 0 .. OutputCount(taskGraph) - 1 |-> content[fxOutputs[i + 1]]]
        /\ free' = Freed(Freed(mixing.free, fxOutputs), mixing.taken)
        /\ fxOutputs' = <<>>
        /\ chunk' = "done"
        /\ UNCHANGED <<taskGraph, stageVars, usages, at, content>>

EngineInit ==
    /\ taskGraph = EmptyTaskGraph
    /\ chunk = "unloaded"
    /\ ready = {} /\ running = {} /\ left = <<>> /\ remaining = 0
    /\ usages = <<>> /\ at = <<>> /\ fxOutputs = <<>> /\ free = <<>> /\ content = <<>>
    /\ played = <<>>

ChunkNext ==
    \/ BeginChunk
    \/ \E k \in ready : StartTask(k) \/ RunDry(k)
    \/ \E k \in running : FinishTask(k)
    \/ StoreOutput
    \/ MixOutput

-----------------------------------------------------------------------------
(***************************************************************************)
(* Each piece of memory is free once, or has one owner: a buffer or an FX  *)
(* output; what a task waiting or running has to read and write, and in    *)
(* the end the outputs, are there; and after the chunk every piece is free *)
(* again (allocate_output_buffers, decrement_buffer_usages and the         *)
(* assertions on their way).                                               *)
(***************************************************************************)
Uses(m) == Count(at, m) + Count(fxOutputs, m) + Count(free[m[1]], m)

Awaited ==
    LET read == {ToSet(InputBuffers(taskGraph, k)) : k \in ready \cup running}
        written == {ToSet(taskGraph.tasks[k].outs) : k \in running}
        stored == IF remaining = 0 THEN ToSet(OutputsToDecrement(taskGraph)) ELSE {}
    IN  UNION (read \cup written \cup {stored})

MemoryApart ==
    /\ \A m \in DOMAIN content : Uses(m) = 1
    /\ chunk = "tasks" => /\ \A b \in Awaited : at[b] # Nowhere
                          /\ \A b \in DOMAIN at : at[b] # Nowhere => usages[b] > 0
    /\ chunk \in {"mix", "done"} => \A b \in DOMAIN at : at[b] = Nowhere /\ usages[b] = 0
    /\ chunk = "done" => fxOutputs = <<>>

(***************************************************************************)
(* What build() makes of any graph, and all that is taken for granted of   *)
(* it: tasks come before their successors, the estimates are those of the  *)
(* resolver and of estimate_max_concurrency(), each buffer has memory of a *)
(* type there is a pool for, and it is an input or is given memory by one  *)
(* task, which is before every other that reads it.                        *)
(***************************************************************************)
Tasks(t) == 1 .. Len(t.tasks)
Buffers(t) == {b \in 1 .. Len(t.buffers) : Dynamic(t, b)}
Types(t) == DOMAIN t.usage \cup {RealType}
Inputs(t) == {t.inputs[i] : i \in DOMAIN t.inputs}
Written(t, tasks) == Inputs(t) \cup UNION {ToSet(BuffersToAllocate(t, k)) : k \in tasks}

WellOrdered(t) ==
    /\ Len(t.tasks) \in Nat /\ DOMAIN t.tasks = Tasks(t)
    /\ t.successors \in [Tasks(t) -> SUBSET Tasks(t)]
    /\ \A k \in Tasks(t) : \A j \in t.successors[k] : k < j
    /\ t.rows = Resolve(t.successors)
    /\ t.maxTasks = MaxConcurrency(Numbered(Len(t.tasks)),
                        [a \in Tasks(t) |-> {b \in Tasks(t) : Unordered(t.rows, a, b)}])

WellBuffered(t) ==
    /\ Len(t.buffers) \in Nat /\ DOMAIN t.buffers = 1 .. Len(t.buffers)
    /\ t.usage \in [DOMAIN t.usage -> Nat]
    /\ \A b \in Buffers(t) : t.buffers[b].type \in Types(t)
    /\ InputCount(t) \in Nat /\ t.inputs \in [0 .. InputCount(t) - 1 -> Buffers(t)]
    /\ \A i, j \in DOMAIN t.inputs : t.inputs[i] = t.inputs[j] => i = j
    /\ \A b \in Inputs(t) : t.buffers[b].type = RealType
    /\ OutputCount(t) \in Nat
    /\ t.outputs \in [(0 .. OutputCount(t) - 1) \cup {RemainActive} -> DOMAIN t.buffers]

WellShared(t) ==
    /\ \A k \in Tasks(t) :
         /\ InputBuffers(t, k) \in Seq(Buffers(t))
         /\ t.tasks[k].outs \in Seq(Buffers(t))
         /\ \A i, j \in DOMAIN t.tasks[k].outs : t.tasks[k].outs[i] = t.tasks[k].outs[j] => i = j
         /\ ToSet(InputBuffers(t, k)) \subseteq Written(t, t.rows[k])
         /\ \A b \in ToSet(BuffersToAllocate(t, k)) : b \notin Written(t, Tasks(t) \ {k})
    /\ ToSet(OutputsToDecrement(t)) \subseteq Written(t, Tasks(t))

WellMade(t) == WellOrdered(t) /\ WellBuffered(t) /\ WellShared(t)

(***************************************************************************)
(* The thread pool is made for as many tasks as the graph is estimated to  *)
(* have at a time (initialize_thread_pool), which is enough whatever order *)
(* they run in; and the order among the tasks that the estimates rest on   *)
(* is complete although the resolver makes one pass over them.             *)
(***************************************************************************)
OrderResolved(t) ==
    \A b \in DOMAIN t.rows :
        /\ b \notin t.rows[b]
        /\ Predecessors(t, b) \subseteq t.rows[b]
        /\ \A a \in t.rows[b] :
             /\ t.rows[a] \subseteq t.rows[b]
             /\ a \in Predecessors(t, b) \/ \E c \in t.rows[b] : a \in t.rows[c]

TasksFit ==
    /\ Cardinality(ready) <= Max({1, taskGraph.maxTasks})
    /\ chunk = "idle" => OrderResolved(taskGraph)

\* What buffers and tasks need of the task graph's estimates, save finding 4 of the README:
\* memory never shared or lost, and room for every task: both of the above.
BuffersApart == MemoryApart /\ TasksFit

=============================================================================
