# WaveLang verification project

TLA+ modules, TLC runs and TLAPS proofs about the WaveLang synthesizer. All
source paths are below `src/source/`. Each definition that models code names
its lines in `PROJECT.json` ("map"); the same file lists the runs, a mutation
of the code's logic that every checked property catches, the hazards, and
where the code disagrees with its own comments.

## 1. The system

WaveLang compiles a small language into *instruments* and plays them. A
compiler produces native module graphs, the engine turns each into a *task
graph*, and the runtime executes the task graphs once per chunk of audio, in
the callback of the audio driver, on a pool of worker threads. Everything that
is shared between threads goes through a few lock-free structures, two
condition variables, two semaphores and an atomic state word.

### Inventory

| Component | State | Operations | Works with | What makes it correct |
|---|---|---|---|---|
| Lock-free pool and list (`common/threading/lock_free*.cpp`) | tagged head, links, allocation bytes | allocate, free | queue | each node has one owner; the free list stays a list under the ABA hazard; no thread blocks another |
| Lock-free queue (`common/threading/lock_free_queue.inl`) | tagged front, back and links; elements | push, pop, peek | pool; thread pool, controller driver | elements leave once, intact, oldest first; "empty" and "full" mean it |
| Thread pool (`engine/thread_pool.cpp`) | threads, queue, two pause flags, mutex, condition | start, add_task, pause, resume, stop, the worker loop | executor | no lost wake-up; every worker is told to end; stop accounts for what is left |
| Executor (`engine/executor/executor.cpp`) | `m_state`, two semaphores, task counters | initialize, shutdown, execute, process_task | thread pool, all other engine parts | tasks run after their predecessors, once; a stage is over when the callback goes on; shutdown frees nothing in use and returns |
| Asynchronous event handler (`engine/events/async_event_handler.cpp`) | ring buffer, packed read/write position, flags | begin/end handling, submit_event, the event thread | anyone who logs, e.g. the runtime's commands | events stay apart, are handled whole and in order; nobody waits for ever |
| Voice allocator (`engine/executor/voice_allocator.cpp`), linked array (`common/utility/linked_array.cpp`) | voices, linked list, FX voice | chunk allocation, disable, sample counting | executor, event manager | list order; oldest note gives way; note-off meets its voice; offsets fit |
| Controller driver (`runtime/driver/controller_driver_*.cpp`) | event queue, stream lock | start/stop stream, submit, process | MIDI thread, executor | order kept; no use after stop; late and surplus events dropped |
| Controller event manager (`engine/executor/controller_event_manager.cpp`) | events of a chunk, parameter table | process, get | driver, voice allocator, tasks | stable sort; a parameter's value carries over from chunk to chunk |
| Buffer manager and allocator (`engine/executor/buffer_*.cpp`) | buffer pools, usage counts | per stage and task allocation and release | executor's tasks | a buffer has one use at a time and is released once; no pool runs dry |
| Task graph (`engine/task_graph.cpp`), predecessor resolver | tasks, successors, buffer concurrency | build | executor, buffer manager | successor relation; estimates are upper bounds |
| Task memory manager | offsets into one allocation | layout, initialize | executor | regions disjoint |
| Profiler (`engine/profiler/profiler.cpp`) | per task and chunk records | begin/end of execution and of tasks | executor | a chunk's record is complete when committed |
| Semaphore, mutex, condition, thread (`common/threading`) | – | wrappers | all | what the standard library gives |
| Runtime context, command line interface (`runtime/`) | drivers, instruments | load, list, exit | all | order of initialisation and shutdown |
| Audio driver | stream | start, stop, callback | PortAudio, executor | – |
| Compiler: graph builder (`compiler/components/instrument_variant_builder.cpp`), trimmer, compile-time calls | stack of syntax nodes, stack of results, scopes, the graph | evaluate a statement or expression, call a module, delay, trim | graph, native modules | each value is the one the program means, at the latency known for it; nothing in use is freed |
| Compiler: optimizer (`instrument_variant_optimizer.cpp`, `optimization_rule_applicator.cpp`) | the graph, iterator, flags | run calls, apply rules, merge, remove | graph, native modules | the outputs stay what they were; it ends |
| Native module graph (`instrument/native_module_graph.cpp`) | nodes with ordered edges, free list | add, remove, connect, validate, save, load | compiler, engine | edges paired, indices reused correctly, a file gives the graph back |
| Native modules (`instrument/native_modules/`) | – | compile-time calls, rules | compiler | rules preserve meaning |
| Parser generator (`parser_generator/`) | production set, first sets, item sets, action and goto tables | read a grammar, close item sets, settle conflicts, write parser and visitor | the parser, at build time | a grammar it takes is parsed without choice; precedences do what they say; a conflict is one |
| Parser (`compiler/lr_parser.cpp`, `components/parser.cpp`) and generated visitors | stack of states, parse tree; visitor's stack, contexts | shift, reduce, accept, error; enter, exit | lexer, syntax tree builder | exactly the language; the tree is a derivation; contexts live as long as they are used |
| Compiler: syntax tree builder (`compiler/components/ast_builder.cpp`, `tracked_scope.cpp`) | syntax trees, stack of tracked scopes | visit a statement, enter and leave a scope or a module body | parser, graph builder | refuses exactly what might not return or assign; lets nothing through that the builder cannot evaluate |
| Compiler: lexer | tokens | sequential transformation | parser | – |
| Task functions, resampler, math, sample library | sample buffers | numeric kernels, file decoding | – | numeric |

Interaction in one picture: the main thread calls `initialize`, `shutdown` and
the drivers; MIDI threads push controller events into a lock-free queue; the
audio thread calls `c_executor::execute`, which drains the queue, allocates
voices and, per voice and then for the FX, adds the initial tasks to the thread
pool's lock-free queue, resumes the workers and waits on a semaphore for the
last task; workers run tasks, add the successors that become ready, and allocate
and release buffers; events for the user go through the asynchronous event
handler to its own thread.

### What is hard here

Almost all of the risk is concurrency: the ABA hazard and torn reads in the
lock-free structures; sleeping workers and wake-ups; the semaphore handshake
between audio thread, workers and main thread; and a ring buffer written
without locks. Two sequential parts keep state over chunks and are easy to get
subtly wrong: voice allocation and buffer lifetimes. In the compiler the risk is
aliasing and order: one graph is edited by builder, trimmer and optimizer while
variables, results and iterators hold handles into it, freed indices are reused at
once, and values that meet must be brought to one latency. Nothing is persisted and
nothing goes over a network, so there is no crash recovery and no lossy
messaging (except the deliberate dropping of controller events). The hazards
are in `PROJECT.json`, each at its line.

## 2. Modules

| Module | Models | State and actions |
|---|---|---|
| `NodePool` | promise of a node pool | sets of free, moving and held nodes; take, refuse, return |
| `LockFreePool` | `lock_free.cpp`, `lock_free_pool.cpp`, `atomics.h` | one action per atomic access: load of the head, read or write of a link, compare-exchange, verification byte |
| `LockFreePool_proofs` | – | the proofs about it |
| `FifoQueue` | promise of a queue | a sequence and the answer of each call |
| `LockFreeQueue` | `lock_free_queue.inl` | one action per access to `m_front`, `m_back`, a link; two for copying an element; the node pool at the atomicity the refinement proof justifies |
| `LockFreeQueue_proofs` | – | the proofs about it |
| `ThreadPool` | `thread_pool.cpp` | flags, mutex, condition, queue as a set with the queue's exact room; owner's and workers' steps |
| `ThreadPoolClient` | – | `ThreadPool` under its most general client |
| `ThreadPool_proofs` | – | the proofs about them |
| `Executor` | `executor.cpp` with the profiler's `did_run` | `ThreadPool` under the executor: main thread, audio callback, `process_task` with its counters |
| `Executor_proofs` | – | the proofs about it |
| `AsyncEventHandler` | `async_event_handler.cpp` | submitters, event thread, controlling thread, one action per access to shared memory, one per critical section |
| `AsyncEventHandler_proofs` | – | the proofs about it |
| `LinkedArray` | `linked_array.cpp` | operators on the record of links, ends and free list |
| `VoicePolicy` | promise of voice allocation | the notes that sound, oldest first, and which are held |
| `VoiceAllocator` | `voice_allocator.cpp` and its use in `executor.cpp` | start of a chunk, one action per note event, activation of the FX, processing of each voice and of the FX |
| `VoiceAllocator_proofs` | – | lemmas about it and the linked array: what each step does to the list and to what sounds |
| `ControllerDriver` | `controller_driver_interface.cpp` while its stream runs | clock, queue, the event being submitted; reading the clock, pushing, asking for a chunk's events, taking them one by one |
| `ControllerEvents` | `controller_event_manager.cpp`, `merge_sort.h`, `get_parameter_value` | the table of parameters; operators for the sort, the groups of events and what a task reads |
| `Playback` | the begin of `execute_internal`, the duration functions of `task_functions_controller.cpp` | the three above and `VoiceAllocator` in one behaviour: the player, the clock, the chunks, the memory of each voice's tasks |
| `Playback_proofs` | – | the proofs about `Playback` and, through it, `VoiceAllocator` |
| `NativeModuleGraph` | `native_module_graph.cpp`, `native_module_data_type.cpp` | a graph as a record of nodes and free list; one operator per operation, `Validate`, `Save`, `Load` |
| `GraphTrimmer` | `graph_trimmer.cpp`, `try_call_native_module.cpp` | temporary references, trimming, running a call at compile time |
| `GraphMeaning` | – | what a graph stands for: the signal at every node |
| `AstBuilder` | `ast_builder.cpp` over module bodies, `tracked_scope.cpp`'s states | the stack of tracked scopes with the statements still to visit; an action per kind of statement, scope entered and scope left |
| `InstrumentBuilder` | `instrument_variant_builder.cpp`, `tracked_scope.cpp` | syntax nodes in progress, results, scopes; an action per kind of syntax node and state of its evaluation |
| `GraphOptimizer` | `instrument_variant_optimizer.cpp`, `optimization_rule_applicator.cpp` | the iterator and flags; an action per node visited, end of pass and round of merging |
| `CoreModules` | native modules of core, array and delay | their arguments, compile-time calls, latency, rules |
| `TaskGraph` | `task_graph.cpp`, `predecessor_resolver.cpp` | operators: tasks, buffers, shared inputs and successors of a graph, and the estimate of how many buffers are live at once |
| `BufferManager` | `buffer_manager.cpp`, `buffer_allocator.cpp`, `executor.cpp`'s order of calls | pools of buffers, usages, the memory; an action for the chunk's begin, a task's start, its end, the mixing and the chunk's end |
| `BufferManager_proofs` | – | the proofs about `TaskGraph`'s estimates and `BufferManager` |
| `Grammar` | `grammar_parser.cpp`'s result, the production set and the first sets | operators on a grammar |
| `LrParserGenerator` | `lr_parser_generator.cpp` | production set, symbol properties, item sets, tables; an action for each step of `generate_lr_parser`, for the two loops over an item set and each reduce action |
| `Derivations` | promise of a parser | the derivation trees, sentences and beginnings of sentences of a grammar, up to a length |
| `LrParser` | `lr_parser.cpp`, `parser.cpp`, the class `visitor_class_generator.cpp` writes | the generator's tables at work: stack, tokens got so far, tree; an action per kind of table entry, and enter and exit of the visitor |
| `Instrument` | `compiler.cpp`, `runtime_instrument.cpp` | checks of the bodies, builder, optimizer, saving, loading, task graph and first chunk in sequence |
| `MC…` | – | instances for TLC; `MCInstrument` holds the programs |

How they compose: `ThreadPoolClient` and `Executor` extend `ThreadPool` and
strengthen or complete its actions with their own; `Playback` extends
`ControllerDriver`, `ControllerEvents` and `VoiceAllocator`, which
instantiates `LinkedArray`; `LockFreePool`, `LockFreeQueue` and
`VoiceAllocator` each instantiate their promise (`NodePool`, `FifoQueue`,
`VoicePolicy`) under a refinement mapping and claim `Spec => Promise!Spec`.

`Instrument` extends `InstrumentBuilder`, which extends `AstBuilder`, and `GraphOptimizer`; both
extend `GraphTrimmer`, and that `NativeModuleGraph`; and `BufferManager`, which extends
`TaskGraph` and `GraphMeaning`. So one behaviour goes from the checks of the program's
statements to the samples the engine mixes. The native modules are parameters, which
`CoreModules` gives in `MCInstrument`.

`LrParser` extends `LrParserGenerator`, so the tables it runs on are those its own
behaviour generated, and `Derivations`, the reference it is compared with. What makes
syntax trees of its trees lies between it and `Instrument`, whose programs are syntax trees.

Abstractions, and why they are sound for the properties checked:

* *Programs* of `MCInstrument` are well typed: overloads are chosen (`addition`,
  `subscript$real`), operand types fit. Names, assignments, returns and breaks are checked by
  `AstBuilder`; the programs have faults in them. A program is a constant of its behaviour;
  everything the compiler then does is determined by it.
* *Symbols* of a grammar are their names; the one place where the code's numbering shows,
  epsilon's index 0, is kept. Item sets are sets: the order of their items decides only
  which of several conflicts is reported, so reduce actions are added in any order. A file
  is any sequence of tokens, chosen one by one as the parser asks for them, but for the
  first terminal, "invalid", at which the lexer gives up.
* *Values* are integers and Booleans, and *signals* repeat with a period of 3
  samples. A delay by the period or more is told from none by the latency, not by
  the signal; what a delay holds when a stream starts is left out.
* *The engine's chunk* is one period of the signals, so the memory of a buffer is a
  signal. The instrument is an FX graph that stays active, played for one chunk on two
  workers; buffer pools are last-in first-out lists, as a pool with one user at a time
  is. A task allocates its outputs, runs and releases its inputs in two actions: what
  the atomic counters make safe between them is `Executor`'s subject, and what two
  tasks at the same time do to each other's buffers is this one's.
* *Assertions* are left out: runs show what a release build does. Where an
  assertion would stop a debug build instead the README says so.
* *Memory order.* Atomics in the code are sequentially consistent by default,
  and so are the models. Plain accesses that race are nondeterministic: an
  element copied while it is overwritten is `Torn`; a size header read while a
  submitter writes data over it may be anything. The size header of the
  asynchronous event handler is a plain 32-bit word with fences; it is modelled
  as one atomic word, as on x86.
* *The pool inside the queue* is atomic. `PoolRefines` shows the real pool
  implements an atomic set; the model keeps the last-in first-out reuse of
  nodes, the order that makes stale handles most likely.
* *The queue inside the thread pool* is a set with the real number of elements,
  including the element a pop has taken but not freed. A push that becomes
  visible late is a push that takes effect later; a false "empty" (finding 1) is
  harmless there, since workers poll. No order is assumed.
* *The queue of controller events* has one producer at a time, the owner of
  `m_stream_lock`, and one consumer, so it is the FIFO of `FifoQueue`; while the
  consumer is in a pop its node may still count against the room.
* *Times* of controller events are whole frames of the stream's clock. A time just before
  the end of a chunk may be rounded up to it. Buffers may follow each other without a
  gap or with one, and start up to `Early` frames before their time.
* *The player* waits while voices are processed, when nothing reads what the player
  writes.
* *Tags* are natural numbers; the wrap after 2^32 updates is not modelled.
* *Mutexes* are held over several steps in `ThreadPool`. `AsyncEventHandler`'s
  critical sections are single actions, since everything in them is protected.
* *Condition variables* wake one or all sleepers and may wake spuriously.
* *Data*: audio samples, the profiler's times, velocities and event formatting are left
  out. What the instrument decides (`remain_active`) is a free choice wherever the
  code consults it.

## 3. Runs

| Run | Expect | Question | Bounds and why they are enough |
|---|---|---|---|
| `lock_free_pool` | pass | `PoolInv`, `ImplementsPool`, `LockFreedom` | 2 threads, 3 nodes, 3 calls each: a thread stalled between load and compare-exchange while the other pops two nodes and pushes the first back, the shortest ABA |
| `queue` | pass | `TypeOK`, `NodesAccounted`, `ImplementsFifo`, `LockFreedom` | 2 threads that both push, one pops, the other peeks and drops, 3 nodes, 3 calls each: full, empty, reuse of a node a stalled push or copy has seen |
| `queue_empty` | **violation** | two producers: `EmptyIsEmpty` | finding 1 |
| `thread_pool` | pass | all orders of add, pause, resume, stop | 0–2 workers, 3 tasks, room for 2, two starts, paused or not, and one pause: the queue is full, a worker passes between the two pause flags, stop meets sleeping workers, a second start finds what the first left |
| `executor` | pass | stage protocol and shutdown, and that every call returns | 0–2 workers; a voice stage and an FX stage; a task releases two others, one of which waits for the other too, so that two workers count down the same counters in every order |
| `async_events` | pass | ring buffer safety and liveness | 2 submitters, 3 events of 1 or 2 units, 5 units: full ring, wrap, reservation out of order with publication |
| `playback` | pass | from the keys to the voices: `KeysAreFollowed`, `ParametersCarry`, `DurationsCount`, list order, FX, policy | 3 voices, 3 chunks of 2 frames, room for 3 events; a chord of 4 notes overfills voices and queue, a key struck, released and struck again puts two voices on one note, two controls turned three times want a table with room for one; every time of each event within 5 frames, every delay between clock and queue, and chunks late by any number of frames, so events are on time, late, too old and too many |
| `parser` | pass | from the grammar to the visit: `ParsesTheLanguage`, `PrecedenceDecides`, `ConflictsAreReal`, `ContextsAlive` | eleven grammars: operators of three precedences, both associativities and a prefix with a precedence of its own; a dangling else with and without precedences; one that is LR(1) and not LALR; lists, brackets and an optional part that can be empty; two readings of one token, reported or settled; an operator declared `nonassoc`; every file of up to 6 tokens, two nested operators on each side of a third, and every choice of the visitor's functions to go into a node or not |
| `instrument` | pass | from the program to the first chunk: `ChecksSuffice`, `GraphIntact`, `MeaningKept`, `BuffersApart`, `PlaysWhatIsWritten`, `SavedLoadsBack`, `EndIsReached` | 248 programs: each arithmetic operator on pairs of operands, nested; conditions and selections; up to three delays in a row; values late by 0–2 samples meeting in calls, arrays and outputs; arrays built, ranged over, combined, changed in place; script modules with early returns and out arguments; bodies of one to three assignments, returns, blocks and branches in every order, names unknown or declared twice; programs refused by the checks, by the builder and by the optimizer; graphs with one task, chains, forks and joins, an output that is an input, a constant or another output, and every order two workers run the tasks in |
| `loop_returns` | **violation** | `NothingMissing` | finding 2: modules that return or assign only in a loop |
| `array_copy` | **violation** | `ValuesKeepMeaning` | finding 3 |
| `out_of_buffers` | **violation** | `NeverOutOfBuffers` | finding 4: two programs |

The runs of `MCInstrument` check for deadlock: a program that has come to an end
has the step `Ended`, and nothing else may stop. All others say
`CHECK_DEADLOCK FALSE`: the bounds on calls, events or chunks make those models
stop, and so does a program that has shut down.

### What the properties say

* *Pool.* `PoolInv`: every node is in the free list, in the hands of one call,
  or held by one client; the list is acyclic and complete; the allocation bytes
  agree; a compare-exchange succeeds only on a head whose link is as read.
  `ImplementsPool`: the pool is an atomic set. `LockFreedom`: a thread that keeps
  running finishes its call although every other thread may stop anywhere (with
  the finitely many calls of the instance nobody can overtake it for ever).
* *Queue.* `NodesAccounted`: nodes are neither lost nor used twice.
  `ImplementsFifo`: the queue is a FIFO, whose elements may enter later than their
  push and several at once. `EmptyIsEmpty`: the answer "empty" is
  true, which with two producers it is not.
* *Thread pool.* `NoLostWakeup`: no worker sleeps while nobody is to wake it.
  `EveryWorkerTold`: each worker gets a terminate task whatever else is queued.
  `StopAccounts`: executed plus unexecuted is what was added. `EveryoneServed`:
  stop returns, and an added task is taken unless the pool is paused.
* *Executor.* `DependenciesRespected`: no task starts before its predecessors'
  functions have returned, and none runs twice in a stage. `StageIsOver`: when
  the callback goes on, every task of the stage is done, but for its report to the profiler. `NoTaskRefused`: the
  ignored result of `add_task` is always success. `ShutdownIsQuiet`: what
  shutdown frees is not in use. `EveryCallReturns`: neither the audio callback nor
  `shutdown` waits for ever.
* *Asynchronous event handler.* `EventsApart`: two events never share a unit of
  the ring and all else is zero, which the next start, that does not clear the ring,
  relies on. `HandledInOrder`: whole, once, in order of
  reservation, and all of them when handling ends. `NobodyWaitsForEver`:
  a submission returns, what is in the ring is handled even if nobody asks, and
  `end_event_handling` returns.
* *Voice allocator.* `VoiceListOrdered`: the two directions of the list agree,
  and the inactive voices come first. `FxHearsNewNotes`: the effects run in every
  chunk in which a note starts. `ImplementsPolicy`: over the chunks the notes that sound
  are those `VoicePolicy` promises.
* *Controllers.* `KeysAreFollowed`: after the events of a chunk no voice holds a note whose
  key is up, and the key struck last has its voice, however the events were delayed and
  sorted. `ParametersCarry`: in every frame a parameter has the value of the last change up
  to then, in this chunk or long before. `DurationsCount`: a voice reads how long its note
  has been pressed and released, whatever the voice did before; the code's excess in the
  second (section 4) is part of the property.

* *Parser.* `ParsesTheLanguage`: a file is accepted with one of its derivation trees, each
  token in its place, and otherwise the token reported is the first that no file goes on
  with. `PrecedenceDecides`: wherever in the tree an operator meets the end of another
  rule's operand, precedence and associativity say which of the two is below.
  `ConflictsAreReal`: the generator refuses a grammar only if some file has two trees (or
  for the reason given in section 4), and one it takes without precedences has none that
  has. `ContextsAlive`: the visitor's functions get live contexts, each started once, none
  left at the end.

* *Checks.* `ChecksSuffice`: a module without loops is refused exactly if one of the paths
  through it leaves an out argument unassigned or returns no value, where nothing follows
  a statement that may leave the scope but statements without a scope of their own; and
  (`NothingMissing`) the builder, given a program of the run that the checks let through,
  always finds the value it looks up, returns or hands out.
* *Instrument.* `GraphIntact`: edges are paired, arguments stay attached, the free
  list is exact at every step; what the builder hands over validates; and what `build()` makes of the
  loaded graph is `WellMade`, which is all that section 5 assumes of a task graph. `MeaningKept` is two things.
  `ValuesKeepMeaning`: the node behind each variable and each intermediate result carries the signal the
  program gives it, at the latency the builder believes. The reference is a history
  of signals computed from the program alone, never from the graph.
  `OutputsKeepMeaning`: from the end of the builder to the loaded file each output
  carries what the program assigned to it, all at the latency announced.
  `SavedLoadsBack`: a file gives back the graph, the order of edges included, and is
  accepted, unless the optimizer left a call on constants (section 4).
  `EndIsReached`: the optimizer ends and the chunk does, unless a rule's target is an
  input (section 4).
* *First chunk.* `BuffersApart`: each piece of memory is free or has one owner, what a
  waiting or running task has to read and write is there, a buffer is given back with its
  last use, and after the chunk all memory is free; the thread pool has room
  for every task that becomes ready, in every order (`TasksFit`), and the order among tasks that the
  estimates rest on is the whole transitive one although one pass computes it.
  `PlaysWhatIsWritten`: what the chunk mixes into each output is the signal the program
  assigned to it, in whatever order the workers took the tasks and however buffers were
  shared and used again.

### Fairness

Liveness is checked under weak fairness of each thread's own steps (the
scheduler runs every thread), strong fairness of acquiring a mutex (a thread
that keeps finding it free gets it), time passing (a wait with a timeout ends)
and, for the executor, an audio driver that goes on calling. The last is a real
condition: `shutdown()` waits for the next callback and would wait for ever on
a stopped stream; `command_line_interface.cpp` shuts the executor down before
it stops the stream. `LockFreedom` assumes fairness of
one thread at a time only: the others may stop in the middle of a call. The
compiler is one thread that waits for nothing, and in a chunk some worker has a task or
the audio thread goes on: `Instrument`'s fairness is `WF(Next)`, with `ENABLED` written
as "the end is not reached", which it is equivalent to.

## 4. Where the code disagrees with its comments

1. `queue_empty`: `push` resets a node's link with tag 0, so the tag that is to
   avoid ABA can recur after reuse of the node; a stalled push then links behind
   a node that is not in the list yet, and a pop answers "empty" although
   a finished push has not been popped. The elements are not lost: they appear
   when the other push completes (`queue`). It takes two producers.
2. `loop_returns`: what happens in a loop counts as certain although the loop may run no
   times (`ast_builder.cpp:2098`; `merge_child_for_loop_scope`, which says "The for loop
   executed 0 or more times, so it is optional", is never called). A module that returns
   only in such a loop is accepted, and the builder reaches its end without a value
   (an assertion at `instrument_variant_builder.cpp:1185`).
3. `array_copy`: an array that two variables hold is copied when an element is
   assigned through one of them; the copy takes all other elements from the index
   being assigned (`instrument_variant_builder.cpp:1313`).
4. `out_of_buffers`: two buffers count as concurrent only when a task, or two tasks that
   may run at the same time, use both (`task_graph.cpp:1217`). A buffer that merely waits
   for its last user while others run is not counted, so what is reserved is not the
   overestimate the comment at `task_graph.cpp:1426` promises: a chunk can find its pool
   empty, which a debug build answers with an assertion and a release build with a null
   buffer.

Also seen while modelling, without a run of their own:

* A task counts itself done before it reports to the profiler (`executor.cpp:690`, 693), so
  a chunk may be committed without it, and its fields are then written and read without
  synchronisation (`StageIsOver` allows for it).
* In the checks of module bodies: the break or continue of a loop counts for the scope
  around it; a block or branch starts as if its surroundings could not have returned; if
  one of two branches returns, that is forgotten (the minimum of "occurred" and "did not
  occur"), while `if (c) { return 1; } return 2;` is refused, for a second return cannot
  make certain what is "maybe" (`tracked_scope.cpp:297`). Variables that are read before
  they are assigned are not reported, and the builder then treats them as global
  constants (`instrument_variant_builder.cpp:333`). An inner `lhs_value_declaration` hides
  the outer one in `exit_scope_item_assignment` (`ast_builder.cpp:1713`, 1715), so the types
  of plain assignments are never compared.
* The "overall sample index" of a voice (`voice_allocator.h:21`) starts over in each
  chunk (`voice_allocator.cpp:52`), so an output latency of a chunk or more keeps a
  voice active until it is stolen.
* `reroute_source_to_target` has no case for a target that is an input of the graph:
  the rules `x + 0 -> x`, `x * 1 -> x` and so on leave the call in place when `x` is
  an input, although the rule is reported as applied. If that call is the last node
  of the pass the optimizer visits it again for ever: `x = b - 0 * b`
  (`EndIsReached` has `NotReplaced` for it). A debug build stops at an assertion.
* `set_array_value_at_index` asserts (`native_module_graph.cpp:681`) that the element type of
  the array can be assigned to the type of the new value, which is the other way round than
  in `add_array_value` (655), whose comment it refers to. Assigning a constant to an element
  of an array that also holds a signal, in place, therefore stops a debug build, although
  `add_array_value` takes the same value. A release build goes on, and so does the model.
* `optimize()` means to go on "until no optimizations can be applied", but looks only
  at the last node visited (`instrument_variant_optimizer.cpp:85`). With free places
  behind the iterator the sum of the durations of two delays in a row may be left a
  call, and the file that is written is then rejected by `load`
  (`SavedLoadsBack` has `CallsLeft` for it; the program is in `Delays`).
* A node the trimmer looks at while it still has a user is marked as visited and not
  looked at again, so some unused calls remain until the optimizer removes them
  (`graph_trimmer.cpp:151`).
* The rules that move a constant to the right of a comparison turn `c > x` into
  `x <= c` (`native_modules_core.cpp:484`, 488, 492, 496), which differs when both are
  equal. The programs do not compare a constant with a signal that way.
* Merging equal calls does not compare their upsample factors
  (`instrument_variant_optimizer.cpp:300`).
* Epsilon is put into the first set of every symbol that begins with one that can be empty,
  and from there into lookaheads (`lr_parser_generator.cpp:787`, 879). Its index is 0, so
  reduce actions for it are set for the first terminal (996). The first terminal of
  `wavelang_grammar.txt` never reaches the parser, and no file is accepted for it, but
  two rules that can only be told apart by what follows conflict there although the grammar
  is LR(1), which "we're doing LR(1) and not SLR(1)" (703) says is handled
  (`ConflictsAreReal` leaves conflicts at the first terminal out; the grammar `empty` has
  one).
* `nonassoc` is read, but a conflict at such a terminal is reported and not settled.
* An error at the end of a file is reported as the token after the last one
  (`lr_parser.cpp:352`), and `parser.cpp:77` looks that token up in the list of tokens,
  which has no such element (the lexer adds none for the end, `lexer.cpp:284`).
* `grammar_parser.cpp` sets an error message for a second terminals or nonterminals section
  and for functions of different nonterminal types without returning false.

And in the engine:
`m_last_flush_time_ms` keeps its first value, so once the flush period has
passed every wake-up of the event thread flushes (`AsyncEventHandler!Round`);
the remain-active output of a voice that starts inside a chunk is scanned to
the end of the chunk, past the samples that were written; `end_event_handling`
may have to wait for a timeout because its notification can be lost; the
initial usages of a voice input buffer are looked up in the FX graph's table
(`buffer_manager.cpp:269`); input buffers are not given back when there is no FX graph
or it is inactive, so a pool runs dry after some chunks. In the task graph: whether two
constant string arrays are equal is decided by `strcmp` the wrong way round
(`task_graph.cpp:861`); a constant Boolean is looked up by the real value of its node
(650); and the loop that erases empty pools goes on past the element after the one it
erased (1172), so a pool without buffers can remain.
`get_note_release_duration` counts from the sample of the release but then adds the whole
buffer (`task_functions_controller.cpp:96`), so from the next chunk on the duration is too
long by the samples before the release, and the difference to the press duration, on which
`scripts/envelope.wl:18` relies, jumps (`DurationsCount` has `Excess` for it); the sample of
the release is not scaled by a task's upsample factor. `get_parameter_value` places changes
relative to the chunk in a buffer that begins where the voice does, so in its first chunk a
voice hears them late by its offset. A MIDI note-on with velocity 0, which many keyboards send
for a note-off, starts a note (`controller_driver_midi.cpp:180`).
`stop_stream` of the controller driver holds the stream lock while it closes the MIDI
port; if the MIDI library waits there for its callback, which takes the same lock, both
wait for ever. That depends on the library.

## 5. Proofs

`LockFreePool_proofs`, checked by TLAPS for every number of threads, nodes and
calls; it assumes only `PoolAssumption` (the two bounds are natural numbers).

* `PoolSafe`: `Spec => []PoolInv`. `PoolInv` is inductive as it stands. Besides
  types it says where the nodes are: a sequence without repetition from the head
  along the links lists exactly the nodes without an owner (`FreeListShape`);
  owners are disjoint (`OneOwner`); and for a call that has loaded the head,
  if the head still carries the tag it saw, handle and link are still the ones
  it read (`SeenIsPast`, `UpdateIsFresh`). The last part is
  why the tag defeats ABA, and it is what makes the shape survive a successful
  compare-exchange. Each action has a lemma that it
  keeps this shape (`PopNodeShape`, `PushNodeShape` and so on), `TagMoves` says
  how tags grow, and `NodeTaken` and `NodeGiven` carry the argument about owners.
* `PoolRefines`: `Spec => Pool!Spec` of `NodePool` from the same invariant: a
  successful compare-exchange is the atomic take or give, everything else a
  stutter.

`LockFreeQueue_proofs`, for every set of threads, number of nodes and of calls; it
assumes only `QueueAssumption` (there is a node, the number of calls is a natural
number, `Reads` says what each consumer calls). Neither property is inductive: a
push compares the link it is about to set with the one it saw, but not the node, and
by then the node may have been popped and be in another push's hands. `QueueInv`
says what holds instead:

* `NodesPlaced`: the nodes can be assigned a place (free, in the list, with a push,
  with a pop that is about to free it), an owner, a position and an age. Positions
  number each chain of links (`Apart`, `Onward`, `Ended`). The age is when a node was
  allocated: `Aims` says that the node a push is about to link behind is not its own
  nor one linked behind its own, because it is private only if it was allocated after
  the push's own, and nodes behind another in a private chain are older (`Staleness`).
  That is why the list never loops, and it is the part nobody would test: the values
  exist only in the proof. `SamePlaces`, `PushLinkPlaces`, `PopTakePlaces` and so on give the new assignment after each step;
* `TagsCount`: tags only grow, so a handle that is found as it was read has not
  changed meanwhile;
* `BackSeen`, `FrontSeen`: while `m_back` or `m_front` is as a call saw it, the link the
  call has read is the one there, and what it has copied is the oldest element;
* `Locals`, what a call has read by each step, and `TypeOK`.

`WalkVisits` turns an assignment of positions into what `Walk` returns; `HandWalk` and
`ListWalk` give from it `NodesAccounted` (`NodesAreAccounted`). For `QueueIsFifo`,
`ListIsListed` writes the contents as the elements of the nodes visited, and `SameWalk`
compares two walks before and after a step: only the compare-exchange of `m_front`
removes an element and only a link set behind the last node of the list adds some,
perhaps several at once.

`ThreadPool_proofs`, for every finite set of workers and of tasks, every queue
size, and every number of starts and pauses, of which a start may create any set
of workers. It assumes `ThreadPoolAssumption` (the sets are finite, the owner is
not a worker, the marks for "terminate" and "no task" are not tasks) and
`ClientAssumption`. `ThreadPoolInv` is inductive; its parts are

* `Basics`: types; `TasksHeld`, which task a thread holds at which step;
  `MutexHeld`, the mutex is held exactly between a worker's lock and its wait;
  `ThreadsRun`, nothing runs outside a start and its stop;
* `NoLostWakeup`, inductive relative to `Basics`: `resume` clears `m_paused` under
  the mutex, so no worker is between its test and its wait (`WakeupsArrive`);
* `StopCounts`: terminate tasks waiting or taken are as many as `stop` has
  pushed, and the client's tasks fill no more than their own elements, counting
  the nodes popped and not yet freed. `RoomToTerminate` draws from it that the
  push in `stop` succeeds (`TerminatesFit`, the property `EveryWorkerTold`);
* `TasksOnce`: a task is in one place, executed, queued or held by one thread,
  exactly if it was added. With `StopCounts`, when all workers have ended nothing
  is held and no terminate task is left, so what `stop` drains are the tasks that
  were never executed (`StopCountsTheRest`, the property `StopAccounts`).

`Executor_proofs`, for every finite set of workers, any task graphs and numbers of
voices, and a queue of any size. It assumes `ThreadPoolAssumption`,
`ExecutorAssumption` (what the tasks are) and `GraphAssumption`: the graphs have no
cycles, and no more than `MaxTasks` tasks are ever ready together. The second is
what `TaskGraph`'s estimate promises, and `ConcurrencyIsEnough` and `TasksHaveRoom` below
prove it of the FX graph's. The inductive invariant `Inv` has these parts:

* `TasksHeld`, `Handshake`, `PoolUse`: which thread holds a task at which step; who
  is where when `m_state` has which value; who owns the thread pool when;
* `Placed`, `Counted`, `Signalled`, for the stage under way: a task is queued, with
  one thread, or finished; the counter of a task is the number of its predecessors
  that have not told it (`Untold`), and `m_tasks_remaining` the number of tasks not
  counted done; one thread at most has made that counter zero, and it signals.
  `DependenciesRespected` (`TasksRunInOrder`) and `StageIsOver` (`StagesEnd`) follow,
  and for the latter the graphs must be acyclic: a stage in which every task waited
  for another would never have been counted done;
* `NoTaskRefused` (`QueueIsLargeEnough`), inductive with `Counted`: a task enters the
  queue only when it is ready, and the queue's nodes are held by ready tasks and by
  workers between their pop and the freeing of the node (`RoomForReady`);
* `Reported`, for the profiler: a finished task has run, or its thread is about to
  say so.

`ShutdownIsQuiet` (`ShutdownWaits`) is `Handshake` with `Quiet`: outside a stage no
thread has a task.

`AsyncEventHandler_proofs`, for every set of threads, every number of events and
runs, and every buffer larger than the largest event (`HandlerAssumption`). The
positions are compared as distances from the read position: `PassesIs` shows that
`does_a_to_b_pass_c` refuses exactly the events that do not leave one unit free, and
`Apart` that events one after the other in distance have no unit in common although
they do not wrap around. The inductive invariant `Inv` has the parts `Ring` (the
events from the first unhandled one on lie one after the other from the read to the
write position), `Calls` (each call's event is its own; one that is about to exchange
the positions has checked the room between those it will compare with, so an equal
pair, even an old one that came back, still has the room), `Filled` and `Empty` (what
every unit of the buffer holds: nothing before the copy and after the clearing, and
zero in the first unit of an event until it is published), `Reading` (the event
thread handles the first event and nobody writes to it) and `Ending` (it ends only
when nobody submits, so that the zero it reads is the end of the events and not an
event under way). `EventsStayApart` and `EventsHandledInOrder` follow.

`Playback_proofs` and, for the allocator alone, `VoiceAllocator_proofs`: for every set of
notes, number of voices, length of a chunk and of the latencies, and every player. They
assume `VoiceAssumption` (there is a voice and a frame), `DriverAssumption` and
`PlaybackAssumption` (a player plays the notes of the keyboard and moves its controls).

* The linked array: `Chain` says that the links of an array list the nodes of a sequence.
  `RemoveFromChain`, `PushBackChain` and `PushFrontChain` give the sequence after each
  operation, and `ListIsWalked` what the loops over the list meet in both directions.
* `VoicesInv` is the inductive invariant: `ListInv` (some sequence of all voices is listed,
  the inactive ones in front), `SamplesCount` (an active voice that is still to be
  processed in this chunk has counted no sample, which bounds the counters) and
  `FxWoken` (a voice started in this chunk has set `activate_fx`). Only the first
  voice of the list is ever moved to the back, and it is moved only when it is about to
  become active (`OldestToBack`); a voice that ends is moved to the front from wherever
  it is (`EndedToFront`). `VoiceListOrdered` (`ListStaysOrdered`), `TypeOK` (`VoicesTyped`)
  and `FxHearsNewNotes` (`EffectsHearNotes`) follow.
* `VoicesFollowPolicy`: what sounds are the last voices of that sequence (`SoundsAs`);
  `NoteOnSounds`, `NoteOffSounds` and `ProcessVoiceSounds` show for each step that the
  policy allows it, `QuietSteps` that the others change nothing that sounds. The
  executor processes the voices by number and the policy knows only their age, so
  `RemovedAt` follows a voice that ends to its place among the notes.
* `DriverInv`: the events between the player and the allocator are the player's, and
  those taken out of the queue lie in the chunk, so each note starts inside it. This is
  the part that needs the controller driver.
* `EventsSortStably`: `merge_sort` returns the same events in order, those with the
  same key and time in the order they came in, whatever it is given. `MergedIsStable` says it of
  the merge, by the least step that would go wrong; `HalvesMerge` says it of the two
  halves; and the theorem takes a shortest part of the sequence that would
  not be sorted. `Comparable` only says that keys and times are integers.
* `KeysInv`, for `KeysAreFollowed` (`VoicesFollowKeys`), has three parts. `OnTime`: what is
  stamped, waiting and taken lies in the order of time, so the events of a chunk come in
  the player's order. `NotesBehind`: the note events still to be handled are those of the
  chunk behind the first `c`, in that order; this is where the stable sort is needed, for
  two events of one time may be a key that is let go and struck again (`NotesInOrder`).
  `Followed(c)`: what a voice holds stays down or will be let go by a later event, and the
  key struck last has its voice. `HeldOnce`, no note is held by two voices, makes one
  release enough for a key.
* `TimesInv`, for `DurationsCount` (`DurationsAreRight`), relates the memory of a voice's
  tasks to the samples at which its note began and was let go: `Remembers` at the sample
  where the voice begins to play and at the end of the chunk, `Timely` between the note
  events and the voice's tasks, when the allocator has already told the voice about this
  chunk and the memory still speaks of the last one. `Played` and `Told` are the two
  calculations: what the tasks leave from what they find, and what they tell in each
  frame. The excess is `BufferOf`, which the memory has from the chunk of the release on.
* `ParametersInv`, for `ParametersCarry` (`ParametersAreHeard`): what the table keeps of a
  parameter for the next chunk (`next_previous_value`) is its value before the events that
  are taken next (`Base`), and a parameter that is missing from a table with room has never
  been changed; while the tasks run, an entry of this chunk holds all changes of the chunk,
  in the player's order, and any other entry is of an older buffer (`Current`). `ProcessedIs`
  follows one parameter through the loop over the sorted events: its entry changes once, at
  the end of its group (`Carried`, `GroupIs`), and once the table is full it stays full.
  `GroupSounds` brings that group back to the order in which the events were taken, which
  needs `EventsSortStably` and `OnTime`: of two changes at one time the one sorted last must
  be the one made last. `SignalSounds` is the loop of `get_parameter_value`. Besides
  the assumptions above it needs that the table has room for one parameter (`EventsAssumption`).

`BufferManager_proofs`, for any number of channels (`ChannelsAssumption`), any number of workers,
and every task graph that is `WellMade`: tasks come before their successors, the
estimates are those of the code, a buffer is an input or is given memory by one task, and
that task is before every other that reads it. `GraphIntact` has TLC check `WellMade` of what
`build()` makes of every program of `instrument`. `EngineSpec` loads such a graph and plays
a chunk, as `Instrument` does with the graph that `Build` makes; the tasks' functions only change `content`, of which nothing is said here but where
it lies.

* `OrderIs`: the predecessor resolver makes one pass over the tasks (`Resolve`), and each row is the
  whole transitive order all the same: `RowGoesOn` and `RowsGoOn` say what the inner and the
  outer loop have done so far, and both need that a task's successors come after it.
* `ConcurrencyIsEnough`: the number of groups that `estimate_max_concurrency` makes is at
  least the size of every set of nodes that are concurrent with each other, for no two of
  these share a group.
* `TasksInv`, for `TasksFit` (`TasksHaveRoom`): the counter of a task is the number of its
  predecessors that have not run (`Scheduled`), so what is before a ready task has all
  run (`ScheduledBefore`), ready tasks have no order among them, and the estimate
  is enough for them.
* `MemoryInv`, for the rest of `BuffersApart` (`BuffersStayApart`), has two parts. `Placed`: the memory
  is what `initialize()` made, each piece in one place, counted over the buffers, the FX
  outputs and the pool of its type. `Counted`: the usages of a buffer are the arguments
  it is of tasks that have not run (`Pending`) and the outputs it still has to give, and
  it has memory exactly if it has been written and is used yet. `BuffersApart` says
  nothing of what is still to come, and is not inductive without the second. There
  is a lemma for each thing done to memory (`MemoryBegins`, `MemoryIsTaken`, `MemoryIsUsed`,
  `MemoryIsStored`, `MemoryIsMixed`); they rest on lemmas that say of each loop what
  it does to the number of times a piece is somewhere (`AllocatedIs`, `FreedIs`,
  `DecrementedIs`, `PickedIs`) and `HandedOut`, that what is handed out one to one is added.

That a pool never runs dry is not so (section 4), and `BuffersApart` does not say it: a chunk that
finds no buffer ends in the state "exhausted", up to which everything above holds.

Facts about recursive functions are proved with a least counterexample where an invariant
needs them (the walks over the lists, the merge sort), or with `Counting` and `Recursion`
(the loops over the events, the tasks and the buffers), for the library's induction theorems cannot be used.

All other properties are model-checked only, on the bounds above: those of the parser and of the compiler, up to the task graph it makes and
the samples the chunk plays (`PlaysWhatIsWritten`), whose programs, grammars and graphs are given
case by case and whose reference definitions are recursive operators; and liveness and `LockFreedom`, which are out of the prover's reach (fairness,
`ENABLED`).

## 6. Not modelled

Numeric kernels and generated tables (floating point); file and MIDI input,
PortAudio, RtMidi and the standard library's threads (external); the lexers and
registries (sequential transformations, tables filled or read once); in the compiler,
types and overloads in the syntax tree builder, upsampling of calls,
global constants, and out arguments with a subscript; text formatting; weak memory
order; arithmetic overflow of tags. Within modelled components: assertions, the
move constructor and the unsafe counts of the pool, `free_node` of the linked
array.

## 7. Plan

Done, in this order: pool, queue, thread pool, executor, asynchronous event
handler, voice allocator, proofs about the pool, the queue, the thread pool, the executor, the
event handler, the voices with their controller events, and the task graph's buffers; native module
graph, trimmer, builder, optimizer, saving and loading, checks of module bodies; task graph with its
predecessor resolver, buffer manager for an FX graph; controller driver, controller events
and their composition with the voice allocator; parser generator and parser.

Next modules, in order of weight:

1. `Runtime`: the command line interface's threads around `Executor`, their order
   of shutdown, and the controller's commands that replace a running instrument.
2. The voice stage of `BufferManager`: voices mixed one after another, and voices that
   start inside a chunk.
3. The sample library's request handling; the delay task functions' ring buffer.

Theorems worth proving next: that `Build` makes a `WellMade` task graph of every graph that
validates, which needs an induction over the order in which it visits the nodes; and
`ContextsAlive` of the parser.
