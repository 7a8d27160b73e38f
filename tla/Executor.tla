------------------------------ MODULE Executor ------------------------------
(***************************************************************************)
(* c_executor (engine/executor/executor.cpp) on top of its thread pool:    *)
(* the audio callback executes chunks, each a series of instrument stages  *)
(* (one per active voice, then the effects), each a task graph run by the  *)
(* workers; the main thread initializes the executor and shuts it down     *)
(* through m_state while callbacks go on.  Profiling is enabled.           *)
(***************************************************************************)
EXTENDS ThreadPool, Sequences

CONSTANTS
  Graph,      \* Graph[g][k]: the successors of task k in the graph of stage g
  MaxVoices   \* bound: active voices in a chunk

Stages == DOMAIN Graph
TaskOf(g) == DOMAIN Graph[g]
Predecessors(g, k) == {p \in TaskOf(g) : k \in Graph[g][p]}
Initial(g) == {k \in TaskOf(g) : Predecessors(g, k) = {}}

ASSUME ExecutorAssumption ==
  /\ MaxVoices \in Nat
  /\ Stages \subseteq {"voice", "fx"}
  /\ Tasks = UNION {{<<g, k>> : k \in TaskOf(g)} : g \in Stages}

\* The tasks that can start when those in "done" have been run.
Ready(g, done) == {k \in TaskOf(g) \ done : Predecessors(g, k) \subseteq done}

\* Task graphs have no cycles, and max_tasks is the greatest get_max_task_concurrency():
\* no more tasks than that can be ready at a time (BufferManager checks it of the graphs
\* the compiler makes, TasksFit).
ASSUME GraphAssumption ==
  \A g \in Stages :
    /\ Graph[g] \in [TaskOf(g) -> SUBSET TaskOf(g)]
    /\ \A set \in SUBSET TaskOf(g) :
         set # {} => \E k \in set : Predecessors(g, k) \cap set = {}
    /\ \A done \in SUBSET TaskOf(g) :
         (\A k \in done : Predecessors(g, k) \subseteq done) => Cardinality(Ready(g, done)) <= MaxTasks

Runners == Workers \cup {Owner}   \* who calls process_task

VARIABLES
  state,           \* m_state
  main,            \* where the main thread is, in initialize() or shutdown()
  stream,          \* where the callback is, in execute()
  shutdownSignal,  \* m_shutdown_signal
  allTasksSignal,  \* m_all_tasks_complete_signal
  todo,            \* stages left in this chunk, the current one first
  predecessorsLeft, tasksLeft,   \* predecessors_remaining, m_tasks_remaining
  toAdd,           \* initial tasks not yet added
  step,            \* where each runner is in process_task
  successors,      \* the successors it has not looked at
  last,            \* prev_tasks_remaining == 1
  didRun,          \* profiler: tasks with did_run
  told,            \* terminate tasks pushed by stop()
  finished,        \* history: tasks whose function has returned in this stage
  refused          \* history: tasks add_task did not take

runVars == <<predecessorsLeft, tasksLeft, step, successors, last, didRun, finished, refused>>
streamVars == <<stream, allTasksSignal, todo, toAdd>>
stateVars == <<state, main, shutdownSignal, told>>
vars == <<poolVars, runVars, streamVars, stateVars>>

Init ==
  /\ PoolInit
  /\ state = "uninitialized" /\ main = "out" /\ shutdownSignal = 0 /\ told = 0
  /\ stream = "out" /\ allTasksSignal = 0 /\ todo = <<>> /\ toAdd = {}
  /\ predecessorsLeft = <<>> /\ tasksLeft = 0
  /\ step = [x \in Runners |-> "begin"]
  /\ successors = [x \in Runners |-> {}]
  /\ last = [x \in Runners |-> FALSE]
  /\ didRun = {} /\ finished = {} /\ refused = {}

\* c_executor::add_task drops the answer of the thread pool.
Add(task_) ==
  /\ AddTask(task_)
  /\ refused' = IF HasRoom THEN refused ELSE refused \cup {task_}

-----------------------------------------------------------------------------
(* The main thread                                                         *)

\* initialize(): everything is set up, the pool started paused, then published.
Initialize ==
  /\ main = "out" /\ state = "uninitialized"
  /\ \E set \in SUBSET Workers : Start(set, TRUE)
  /\ main' = "publish"
  /\ UNCHANGED <<runVars, streamVars, state, shutdownSignal, told>>

Publish ==
  /\ main = "publish"
  /\ state' = "initialized"
  /\ main' = "out"
  /\ UNCHANGED <<poolVars, runVars, streamVars, shutdownSignal, told>>

\* shutdown() begins with a compare-exchange from initialized to uninitialized.
Shutdown ==
  /\ main = "out" /\ state # "uninitialized"
  /\ \/ state = "initialized" /\ state' = "uninitialized" /\ main' = "internal"
     \/ state # "initialized" /\ main' = "exchange" /\ UNCHANGED state
  /\ UNCHANGED <<poolVars, runVars, streamVars, shutdownSignal, told>>

\* A mutated ShutdownExchange: it does not wait for the callback.
ShutdownAtOnce ==
  /\ main = "exchange"
  /\ state' = "uninitialized"
  /\ main' = "internal"
  /\ UNCHANGED <<poolVars, runVars, streamVars, shutdownSignal, told>>

ShutdownExchange ==
  /\ main = "exchange"
  /\ state' = "terminating"
  /\ main' = "await"
  /\ UNCHANGED <<poolVars, runVars, streamVars, shutdownSignal, told>>

ShutdownAwait ==
  /\ main = "await" /\ shutdownSignal > 0
  /\ shutdownSignal' = shutdownSignal - 1
  /\ main' = "internal"
  /\ UNCHANGED <<poolVars, runVars, streamVars, state, told>>

\* shutdown_internal(): stop the pool, then free what the tasks use.
ShutdownInternal ==
  /\ main = "internal"
  /\ \/ Stop /\ told' = 0 /\ UNCHANGED main
     \/ StopPush(told) /\ told' = told + 1 /\ UNCHANGED main
     \/ StopPushed(told) /\ UNCHANGED <<told, main>>
     \/ StopJoined /\ main' = "out" /\ UNCHANGED told
  /\ UNCHANGED <<runVars, streamVars, state, shutdownSignal>>

-----------------------------------------------------------------------------
(* The callback                                                            *)

Callback ==
  /\ stream = "out"
  /\ stream' = "flip"
  /\ UNCHANGED <<poolVars, runVars, allTasksSignal, todo, toAdd, stateVars>>

Flip ==
  /\ stream = "flip"
  /\ state' = IF state = "initialized" THEN "running" ELSE state
  /\ stream' = "flop"
  /\ UNCHANGED <<poolVars, runVars, allTasksSignal, todo, toAdd, main, shutdownSignal, told>>

\* A mutated Flop: the main thread is not told that the callback has stopped.
FlopSilent ==
  /\ stream = "flop"
  /\ \/ /\ state = "running"
        /\ stream' = "chunk"
        /\ \E voices \in 0 .. MaxVoices : todo' = [i \in 1 .. voices |-> "voice"]
        /\ UNCHANGED state
     \/ /\ state # "running"
        /\ state' = IF state = "terminating" THEN "uninitialized" ELSE state
        /\ stream' = "out"
        /\ UNCHANGED todo
  /\ UNCHANGED <<poolVars, runVars, allTasksSignal, toAdd, main, shutdownSignal, told>>

\* What the second compare-exchange finds decides: execute, signal or silence.
Flop ==
  /\ stream = "flop"
  /\ \/ /\ state = "running"
        /\ stream' = "chunk"
        /\ \E voices \in 0 .. MaxVoices, fx \in {<<>>, <<"fx">>} :
             /\ voices > 0 => "voice" \in Stages
             /\ fx # <<>> => "fx" \in Stages
             /\ todo' = [i \in 1 .. voices |-> "voice"] \o fx
        /\ UNCHANGED state
     \/ /\ state = "terminating"
        /\ state' = "uninitialized"
        /\ stream' = "signal"
        /\ UNCHANGED todo
     \/ /\ state \notin {"running", "terminating"}
        /\ stream' = "out"
        /\ UNCHANGED <<state, todo>>
  /\ UNCHANGED <<poolVars, runVars, allTasksSignal, toAdd, main, shutdownSignal, told>>

SignalShutdown ==
  /\ stream = "signal"
  /\ shutdownSignal' = shutdownSignal + 1
  /\ stream' = "out"
  /\ UNCHANGED <<poolVars, runVars, allTasksSignal, todo, toAdd, state, main, told>>

\* process_instrument_stage, up to the first add_task.  No task is under way.
BeginStage ==
  /\ stream = "chunk" /\ todo # <<>>
  /\ LET g == Head(todo) IN
     /\ predecessorsLeft' = [k \in TaskOf(g) |-> Cardinality(Predecessors(g, k))]
     /\ tasksLeft' = Cardinality(TaskOf(g))
     /\ toAdd' = Initial(g)
     /\ stream' = IF Initial(g) = {} THEN "finish" ELSE "add"
  /\ finished' = {}
  /\ UNCHANGED <<poolVars, step, successors, last, didRun, refused, allTasksSignal, todo, stateVars>>

AddInitial ==
  /\ stream = "add"
  /\ \E k \in toAdd : Add(<<Head(todo), k>>) /\ toAdd' = toAdd \ {k}
  /\ UNCHANGED <<threads, terminates, pauseVars, pc, task, owner, stopping>>
  /\ UNCHANGED <<predecessorsLeft, tasksLeft, step, successors, last, didRun, finished>>
  /\ UNCHANGED <<stream, allTasksSignal, todo, stateVars>>

ResumeWorkers ==
  /\ stream = "add" /\ toAdd = {}
  /\ Resume
  /\ stream' = "wait"
  /\ UNCHANGED <<runVars, allTasksSignal, todo, toAdd, stateVars>>

\* resume() has returned and m_all_tasks_complete_signal.wait() gets through.
AwaitTasks ==
  /\ stream = "wait" /\ owner = "ready" /\ allTasksSignal > 0
  /\ allTasksSignal' = allTasksSignal - 1
  /\ stream' = "pause"
  /\ UNCHANGED <<poolVars, runVars, todo, toAdd, stateVars>>

PauseWorkers ==
  /\ stream = "pause"
  /\ Pause
  /\ stream' = "finish"
  /\ UNCHANGED <<runVars, allTasksSignal, todo, toAdd, stateVars>>

FinishStage ==
  /\ stream = "finish" /\ owner = "ready"
  /\ todo' = Tail(todo)
  /\ stream' = "chunk"
  /\ UNCHANGED <<poolVars, runVars, allTasksSignal, toAdd, stateVars>>

\* The profiler commits, or discards, the tasks that did run.
EndChunk ==
  /\ stream = "chunk" /\ todo = <<>>
  /\ didRun' = {}
  /\ stream' = "out"
  /\ UNCHANGED <<poolVars, predecessorsLeft, tasksLeft, step, successors, last, finished, refused>>
  /\ UNCHANGED <<allTasksSignal, todo, toAdd, stateVars>>

-----------------------------------------------------------------------------
(* process_task, on a worker or, without workers, inside resume()          *)

Runs(x) == IF x = Owner THEN owner = "sync_run" ELSE pc[x] = "run"
At(x, s) == Runs(x) /\ step[x] = s
Move(x, s) == step' = [step EXCEPT ![x] = s]

BeginFunction(x) ==
  /\ At(x, "begin")
  /\ Move(x, "function")
  /\ UNCHANGED <<poolVars, predecessorsLeft, tasksLeft, successors, last, didRun, finished, refused>>
  /\ UNCHANGED <<streamVars, stateVars>>

EndFunction(x) ==
  /\ At(x, "function")
  /\ finished' = finished \cup {task[x]}
  /\ successors' = [successors EXCEPT ![x] = Graph[task[x][1]][task[x][2]]]
  /\ Move(x, "successors")
  /\ UNCHANGED <<poolVars, predecessorsLeft, tasksLeft, last, didRun, refused, streamVars, stateVars>>

\* A mutated ReleaseSuccessor: it adds a successor at every decrement.
ReleaseEager(x) ==
  /\ At(x, "successors")
  /\ \E k \in successors[x] :
       /\ predecessorsLeft' = [predecessorsLeft EXCEPT ![k] = @ - 1]
       /\ Add(<<task[x][1], k>>)
       /\ successors' = [successors EXCEPT ![x] = @ \ {k}]
  /\ UNCHANGED <<threads, terminates, pauseVars, pc, task, owner, stopping>>
  /\ UNCHANGED <<tasksLeft, step, last, didRun, finished, streamVars, stateVars>>

\* predecessors_remaining--, and whoever takes it to zero adds the task.
ReleaseSuccessor(x) ==
  /\ At(x, "successors")
  /\ \E k \in successors[x] :
       /\ predecessorsLeft' = [predecessorsLeft EXCEPT ![k] = @ - 1]
       /\ IF predecessorsLeft[k] = 1 THEN Add(<<task[x][1], k>>) ELSE UNCHANGED <<queue, refused>>
       /\ successors' = [successors EXCEPT ![x] = @ \ {k}]
  /\ UNCHANGED <<threads, terminates, pauseVars, pc, task, owner, stopping>>
  /\ UNCHANGED <<tasksLeft, step, last, didRun, finished, streamVars, stateVars>>

\* Mutated DecrementRemaining: the last task is taken to be the one before it.
DecrementToOne(x) ==
  /\ At(x, "successors") /\ successors[x] = {}
  /\ tasksLeft' = tasksLeft - 1
  /\ last' = [last EXCEPT ![x] = tasksLeft' = 1]
  /\ Move(x, "profile")
  /\ UNCHANGED <<poolVars, predecessorsLeft, successors, didRun, finished, refused>>
  /\ UNCHANGED <<streamVars, stateVars>>

DecrementRemaining(x) ==
  /\ At(x, "successors") /\ successors[x] = {}
  /\ tasksLeft' = tasksLeft - 1
  /\ last' = [last EXCEPT ![x] = tasksLeft = 1]
  /\ Move(x, "profile")
  /\ UNCHANGED <<poolVars, predecessorsLeft, successors, didRun, finished, refused>>
  /\ UNCHANGED <<streamVars, stateVars>>

\* m_profiler.end_task
EndTask(x) ==
  /\ At(x, "profile")
  /\ didRun' = didRun \cup {task[x]}
  /\ Move(x, "notify")
  /\ UNCHANGED <<poolVars, predecessorsLeft, tasksLeft, successors, last, finished, refused>>
  /\ UNCHANGED <<streamVars, stateVars>>

\* A mutated Notify: every task notifies.
NotifyAlways(x) ==
  /\ At(x, "notify")
  /\ allTasksSignal' = allTasksSignal + 1
  /\ IF x = Owner THEN SyncDone ELSE TaskDone(x)
  /\ last' = [last EXCEPT ![x] = FALSE]
  /\ Move(x, "begin")
  /\ UNCHANGED <<predecessorsLeft, tasksLeft, successors, didRun, finished, refused>>
  /\ UNCHANGED <<stream, todo, toAdd, stateVars>>

Notify(x) ==
  /\ At(x, "notify")
  /\ allTasksSignal' = IF last[x] THEN allTasksSignal + 1 ELSE allTasksSignal
  /\ IF x = Owner THEN SyncDone ELSE TaskDone(x)
  /\ last' = [last EXCEPT ![x] = FALSE]
  /\ Move(x, "begin")
  /\ UNCHANGED <<predecessorsLeft, tasksLeft, successors, didRun, finished, refused>>
  /\ UNCHANGED <<stream, todo, toAdd, stateVars>>

ProcessTask(x) ==
  \/ BeginFunction(x) \/ EndFunction(x) \/ ReleaseSuccessor(x) \/ DecrementRemaining(x)
  \/ EndTask(x) \/ Notify(x)

-----------------------------------------------------------------------------
outsideVars == <<runVars, streamVars, stateVars>>

WorkerStep(w) == (Loop(w) /\ UNCHANGED outsideVars) \/ ProcessTask(w)
PoolStep == (PauseLock \/ ResumeLock \/ ResumeNotify \/ SyncPop) /\ UNCHANGED outsideVars

StreamStep ==
  \/ Flip \/ Flop \/ SignalShutdown \/ BeginStage \/ AddInitial \/ ResumeWorkers
  \/ AwaitTasks \/ PauseWorkers \/ FinishStage \/ EndChunk \/ ProcessTask(Owner)

MainStep == Publish \/ ShutdownExchange \/ ShutdownAwait \/ ShutdownInternal

Next ==
  \/ Initialize \/ Shutdown \/ MainStep
  \/ Callback \/ StreamStep
  \/ PoolStep
  \/ \E w \in Workers : WorkerStep(w) \/ (SpuriousWake(w) /\ UNCHANGED outsideVars)

\* Threads keep running, the audio driver keeps calling, and a thread waiting for
\* the pause mutex gets it when it is released often enough.
Fairness ==
  /\ WF_vars(MainStep) /\ WF_vars(Callback \/ StreamStep) /\ WF_vars(PoolStep)
  /\ SF_vars((PauseLock \/ ResumeLock) /\ UNCHANGED outsideVars)
  /\ \A w \in Workers :
       WF_vars(WorkerStep(w)) /\ SF_vars((Lock(w) \/ Woken(w)) /\ UNCHANGED outsideVars)

Spec == Init /\ [][Next]_vars /\ Fairness

-----------------------------------------------------------------------------
\* process_task up to the point where the task counts as done.
Busy(x) == Runs(x) /\ step[x] \in {"begin", "function", "successors"}

\* Every variable holds a value of its type.
TypeOK ==
  /\ state \in {"uninitialized", "initialized", "running", "terminating"}
  /\ main \in {"out", "publish", "exchange", "await", "internal"}
  /\ stream \in {"out", "flip", "flop", "signal", "chunk", "add", "wait", "pause", "finish"}
  /\ shutdownSignal \in 0 .. 1 /\ allTasksSignal \in 0 .. 1
  /\ todo \in Seq(Stages)
  /\ tasksLeft \in Nat /\ told \in Nat
  /\ step \in [Runners -> {"begin", "function", "successors", "profile", "notify"}]
  /\ last \in [Runners -> BOOLEAN]
  /\ UNION {queue, didRun, finished, refused} \subseteq Tasks

\* A task function runs only when those of all its predecessors have returned,
\* and once per stage, on one thread.
DependenciesRespected ==
  \A x \in Runners :
    At(x, "function") =>
      /\ task[x] \notin finished
      /\ {<<task[x][1], p>> : p \in Predecessors(task[x][1], task[x][2])} \subseteq finished
      /\ \A y \in Runners \ {x} : Busy(y) => task[y] # task[x]

\* The callback leaves a stage only when every task function of the stage has
\* returned and no thread is about to touch the counters of the next stage.  Only
\* its report to the profiler may come later: "notify the calling thread that we
\* are done" is true but for that, since it counts itself done first.
StageIsOver ==
  stream \in {"out", "pause", "finish", "chunk"} =>
    /\ queue = {} /\ \A x \in Runners : ~Busy(x)
    /\ stream \in {"pause", "finish"} =>
         /\ finished = {<<Head(todo), k>> : k \in TaskOf(Head(todo))}
         /\ finished \subseteq didRun \cup {task[x] : x \in {y \in Runners : At(y, "profile")}}

\* get_max_task_concurrency() elements are enough: no add_task of the executor is
\* refused, although it never looks at the answer.
NoTaskRefused == refused = {}

\* shutdown_internal frees what the tasks use only when the callback is outside
\* execute_internal, no task is left ("unexecuted_tasks == 0") and none is running.
ShutdownIsQuiet ==
  main = "internal" =>
    /\ state = "uninitialized"
    /\ stream \notin {"chunk", "add", "wait", "pause", "finish"}
    /\ queue = {} /\ \A x \in Runners : ~Busy(x)

\* Every callback of the audio driver returns: it waits for the workers and for
\* nobody else.  And as long as the driver keeps calling, shutdown() returns.
EveryCallReturns ==
  /\ []<>(stream = "out")
  /\ []<>(main \notin {"exchange", "await", "internal"})
=============================================================================
