-------------------------- MODULE Executor_proofs --------------------------
(***************************************************************************)
(* Proofs about Executor for any finite set of workers, any task graphs    *)
(* without cycles, any number of voices and any max_tasks that is at least *)
(* the number of tasks that can be ready at a time: the safety properties  *)
(* of its run.  The heart is Counted: at every moment the counter of a     *)
(* task is the number of its predecessors that have not told it, and       *)
(* m_tasks_remaining the number of tasks that have not been counted done.  *)
(***************************************************************************)
EXTENDS Executor, FiniteSetTheorems, SequenceTheorems, TLAPS

\* What successors are chosen from.
TaskNames == UNION {TaskOf(g) : g \in Stages}

\* Types, but for the counters whose range is a matter of the protocol.
Typed ==
  /\ threads \subseteq Workers
  /\ queue \subseteq Tasks /\ terminates \in Nat
  /\ checkPaused \in BOOLEAN /\ paused \in BOOLEAN
  /\ pc \in [Workers -> {"off", "check", "lock", "test", "wait", "waiting", "woken", "pop",
                         "pop_free", "run", "ended"}]
  /\ task \in [Runners -> Tasks \cup {Terminate, NoTask}]
  /\ owner \in {"off", "ready", "pause_lock", "resume_lock", "resume_notify", "sync",
                "sync_run", "stop_push", "stop_join"}
  /\ stopping \in BOOLEAN
  /\ state \in {"uninitialized", "initialized", "running", "terminating"}
  /\ main \in {"out", "publish", "exchange", "await", "internal"}
  /\ stream \in {"out", "flip", "flop", "signal", "chunk", "add", "wait", "pause", "finish"}
  /\ todo \in Seq(Stages)
  /\ told \in Nat
  /\ step \in [Runners -> {"begin", "function", "successors", "profile", "notify"}]
  /\ successors \in [Runners -> SUBSET TaskNames]
  /\ last \in [Runners -> BOOLEAN]
  /\ didRun \subseteq Tasks /\ finished \subseteq Tasks /\ refused \subseteq Tasks

\* A thread has a task from its pop until process_task returns.
TasksHeld ==
  /\ \A w \in Workers :
       /\ pc[w] = "pop_free" => task[w] \in Tasks \cup {Terminate}
       /\ pc[w] = "run" => task[w] \in Tasks
       /\ pc[w] = "ended" => task[w] = Terminate
       /\ pc[w] \notin {"pop_free", "run", "ended"} => task[w] = NoTask
       /\ w \notin threads => pc[w] = "off"
  /\ IF owner = "sync_run" THEN task[Owner] \in Tasks ELSE task[Owner] = NoTask
  /\ \A x \in Runners : step[x] # "begin" => Runs(x)
  /\ \A x \in Runners :
       /\ last[x] => step[x] \in {"profile", "notify"}
       /\ step[x] = "successors" => successors[x] \subseteq Graph[task[x][1]][task[x][2]]

\* The callback is in execute_internal.
InChunk == stream \in {"chunk", "add", "wait", "pause", "finish"}

\* m_state, and the main thread's wait for the callback.
Handshake ==
  /\ InChunk => state \in {"running", "terminating"}
  /\ state = "terminating" => main = "await"
  /\ main \in {"publish", "internal"} => state = "uninitialized"
  /\ main = "exchange" => state = "running"
  /\ main = "await" => state \in {"terminating", "uninitialized"}
  /\ shutdownSignal \in 0 .. 1
  /\ stream = "signal" \/ shutdownSignal = 1 => state = "uninitialized" /\ main = "await"
  /\ ~(stream = "signal" /\ shutdownSignal = 1)

\* The owner of the pool is the main thread while it starts or stops it, and the
\* callback during a chunk.
PoolUse ==
  /\ owner = "off" => ~stopping /\ \A w \in Workers : pc[w] = "off"
  /\ state = "uninitialized" /\ main = "out" => owner = "off"
  /\ state # "uninitialized" \/ main \in {"publish", "await"} => owner # "off"
  /\ main = "internal" => owner # "off"
  /\ stopping => main = "internal"
  /\ owner \in {"stop_push", "stop_join"} => stopping
  /\ ~InChunk /\ main # "internal" => owner \in {"off", "ready"}
  /\ stream \in {"chunk", "add", "pause"} => owner = "ready"
  /\ stream = "finish" => owner \in {"pause_lock", "ready"}
  /\ owner = "sync_run" => stream = "wait"
  /\ ~stopping => terminates = 0 /\ \A w \in Workers : task[w] # Terminate

-----------------------------------------------------------------------------
\* The runners that have a task and have not counted it done, and those of them
\* that are looking at its successors.
Live == {x \in Runners : task[x] \in Tasks /\ step[x] \in {"begin", "function", "successors"}}
Releasing == {x \in Live : step[x] = "successors"}

UnderWay == stream \in {"add", "wait"}
Stage == Head(todo)
StageTasks == {<<Stage, k>> : k \in TaskOf(Stage)}
Introduced == queue \cup finished \cup {task[x] : x \in Live}

\* A task is in one place.
Placed ==
  /\ todo # <<>> /\ TaskOf(Stage) # {}
  /\ queue \subseteq StageTasks /\ finished \subseteq StageTasks /\ queue \cap finished = {}
  /\ \A x \in Live :
       task[x] \in StageTasks \ queue /\ (task[x] \in finished <=> x \in Releasing)
  /\ \A x, y \in Live : task[x] = task[y] => x = y
  /\ toAdd \subseteq Initial(Stage)
  /\ \A k \in toAdd : <<Stage, k>> \notin Introduced
  /\ stream = "wait" => toAdd = {}

\* The predecessors of each task that have not told it.
Untold ==
  [k \in TaskOf(Stage) |->
     {p \in Predecessors(Stage, k) :
        \/ <<Stage, p>> \notin finished
        \/ \E x \in Releasing : task[x] = <<Stage, p>> /\ k \in successors[x]}]

\* The tasks not counted done.
Uncounted ==
  {k \in TaskOf(Stage) : <<Stage, k>> \notin finished \/ \E x \in Live : task[x] = <<Stage, k>>}

\* The two counters, and what a zero of the first one means.
Counted ==
  /\ predecessorsLeft \in [TaskOf(Stage) -> Nat]
  /\ \A k \in TaskOf(Stage) : predecessorsLeft[k] = Cardinality(Untold[k])
  /\ \A k \in TaskOf(Stage) : <<Stage, k>> \in Introduced => predecessorsLeft[k] = 0
  /\ tasksLeft = Cardinality(Uncounted)

\* Who is the last one: it will signal, or has.
Signalled ==
  /\ tasksLeft > 0 => allTasksSignal = 0 /\ \A x \in Runners : ~last[x]
  /\ tasksLeft = 0 =>
       \/ allTasksSignal = 1 /\ \A x \in Runners : ~last[x]
       \/ allTasksSignal = 0 /\ \E x \in Runners : last[x] /\ \A y \in Runners \ {x} : ~last[y]

\* Nothing is left of a stage that is over.
Quiet == queue = {} /\ Live = {} /\ allTasksSignal = 0 /\ \A x \in Runners : ~last[x]

StageShape ==
  /\ tasksLeft \in Nat
  /\ UnderWay => Placed /\ Counted /\ Signalled
  /\ ~UnderWay => Quiet
  /\ stream \in {"pause", "finish"} => todo # <<>> /\ finished = StageTasks

\* Every finished task has been reported, or its thread is on the way to it.
Reported ==
  stream \in {"add", "wait", "pause", "finish"} =>
    \A t \in finished \ didRun :
      \E x \in Runners : task[x] = t /\ (At(x, "successors") \/ At(x, "profile"))

-----------------------------------------------------------------------------
(* Types                                                                   *)

\* A task is a stage and a task of its graph, and its successors are tasks of the graph.
LEMMA TaskShape ==
  ASSUME NEW t \in Tasks
  PROVE  /\ t[1] \in Stages /\ t[2] \in TaskOf(t[1]) /\ t = <<t[1], t[2]>>
         /\ Graph[t[1]][t[2]] \subseteq TaskOf(t[1])
         /\ \A k \in TaskOf(t[1]) : <<t[1], k>> \in Tasks
<1>1. PICK g \in Stages : t \in {<<g, k>> : k \in TaskOf(g)}
  BY ExecutorAssumption
<1>2. PICK k \in TaskOf(g) : t = <<g, k>>
  BY <1>1
<1>3. Graph[g][k] \subseteq TaskOf(g)
  BY <1>2, GraphAssumption
<1>4. \A j \in TaskOf(g) : <<g, j>> \in Tasks
  BY ExecutorAssumption
<1> QED
  BY <1>2, <1>3, <1>4

\* And the other way round.
LEMMA StageTask == \A g \in Stages : \A k \in TaskOf(g) : <<g, k>> \in Tasks
BY ExecutorAssumption

\* The stages the callback is about to execute.
LEMMA StagesOf ==
  ASSUME NEW voices \in Nat, NEW fx \in {<<>>, <<"fx">>},
         voices > 0 => "voice" \in Stages, fx # <<>> => "fx" \in Stages
  PROVE  [i \in 1 .. voices |-> "voice"] \o fx \in Seq(Stages)
<1>1. fx \in Seq(Stages)
  <2>1. CASE fx = <<>>
    BY <2>1
  <2>2. CASE fx # <<>>
    <3>1. fx = <<"fx">> /\ "fx" \in Stages
      BY <2>2
    <3> HIDE DEF Stages
    <3> QED
      BY <3>1
  <2> QED
    BY <2>1, <2>2
<1>2. [i \in 1 .. voices |-> "voice"] \in Seq(Stages)
  <2>1. \A i \in 1 .. voices : "voice" \in Stages
    BY SMT
  <2> QED
    BY <2>1, IsASeq
<1> QED
  BY <1>1, <1>2, ConcatProperties

LEMMA TypedStep ==
  ASSUME Typed, TasksHeld, StageShape, [Next]_vars
  PROVE  Typed'
<1> USE ThreadPoolAssumption
     DEF Typed, Runners, Goto, Move, pauseVars, queueVars, poolVars, runVars,
         streamVars, stateVars, outsideVars
<1>1. CASE Initialize
  BY <1>1 DEF Initialize, Start
<1>2. CASE Publish \/ Shutdown \/ ShutdownExchange \/ ShutdownAwait
  BY <1>2 DEF Publish, Shutdown, ShutdownExchange, ShutdownAwait
<1>3. CASE ShutdownInternal
  <2>1. CASE Stop
    BY <1>3, <2>1 DEF ShutdownInternal, Stop, StopPush, StopPushed, StopJoined
  <2>2. CASE StopPush(told)
    BY <1>3, <2>2 DEF ShutdownInternal, Stop, StopPush, StopPushed, StopJoined
  <2>3. CASE StopPushed(told)
    BY <1>3, <2>3 DEF ShutdownInternal, Stop, StopPush, StopPushed, StopJoined, BeginResume
  <2>4. CASE StopJoined
    BY <1>3, <2>4 DEF ShutdownInternal, Stop, StopPush, StopPushed, StopJoined
  <2> QED
    BY <1>3, <2>1, <2>2, <2>3, <2>4 DEF ShutdownInternal
<1>4. CASE Callback \/ Flip \/ SignalShutdown
  BY <1>4 DEF Callback, Flip, SignalShutdown
<1>5. CASE Flop
  <2>1. CASE todo' = todo
    BY <1>5, <2>1 DEF Flop
  <2>2. ASSUME NEW voices \in 0 .. MaxVoices, NEW fx \in {<<>>, <<"fx">>},
               voices > 0 => "voice" \in Stages, fx # <<>> => "fx" \in Stages,
               todo' = [i \in 1 .. voices |-> "voice"] \o fx
        PROVE  todo' \in Seq(Stages)
    <3>1. voices \in Nat
      BY ExecutorAssumption
    <3> QED
      BY <3>1, <2>2, StagesOf
  <2>3. todo' \in Seq(Stages)
    BY <1>5, <2>1, <2>2 DEF Flop
  <2> QED
    BY <1>5, <2>3 DEF Flop
<1>6. CASE BeginStage
  BY <1>6 DEF BeginStage
<1>7. CASE ResumeWorkers
  BY <1>7 DEF ResumeWorkers, Resume, BeginResume
<1>p. CASE PauseWorkers
  BY <1>p DEF PauseWorkers, Pause
<1>a. CASE AwaitTasks \/ EndChunk
  BY <1>a DEF AwaitTasks, EndChunk
<1>f. CASE FinishStage
  <2>1. Tail(todo) \in Seq(Stages)
    BY <1>f, HeadTailProperties DEF FinishStage, StageShape
  <2> QED
    BY <1>f, <2>1 DEF FinishStage
<1>8. CASE AddInitial
  <2>1. PICK k \in toAdd : Add(<<Head(todo), k>>)
    BY <1>8 DEF AddInitial
  <2>2. todo # <<>> /\ k \in Initial(Head(todo))
    BY <1>8 DEF AddInitial, StageShape, UnderWay, Placed, Stage
  <2>3. Head(todo) \in Stages /\ k \in TaskOf(Head(todo))
    BY <2>2, HeadTailProperties DEF Initial
  <2>4. <<Head(todo), k>> \in Tasks
    BY <2>3, StageTask
  <2>5. queue' \subseteq Tasks /\ refused' \subseteq Tasks
    BY <2>1, <2>4 DEF Add, AddTask
  <2> QED
    BY <1>8, <2>5 DEF AddInitial
<1>b. ASSUME NEW x \in Runners, BeginFunction(x)
      PROVE  Typed'
  BY <1>b DEF BeginFunction
<1>9. ASSUME NEW x \in Runners, DecrementRemaining(x)
      PROVE  Typed'
  BY <1>9 DEF DecrementRemaining
<1>10. ASSUME NEW x \in Runners, Runs(x)
       PROVE  task[x] \in Tasks
  BY <1>10 DEF TasksHeld, Runs
<1>11. ASSUME NEW x \in Runners, EndFunction(x)
       PROVE  Typed'
  <2>1. task[x] \in Tasks
    BY <1>10, <1>11 DEF EndFunction, At
  <2>2. Graph[task[x][1]][task[x][2]] \subseteq TaskNames
    BY <2>1, TaskShape DEF TaskNames
  <2> QED
    BY <1>11, <2>1, <2>2 DEF EndFunction
<1>12. ASSUME NEW x \in Runners, ReleaseSuccessor(x)
       PROVE  Typed'
  <2>1. task[x] \in Tasks
    BY <1>10, <1>12 DEF ReleaseSuccessor, At
  <2>2. successors[x] \subseteq TaskOf(task[x][1])
    BY <1>12, <2>1, TaskShape DEF ReleaseSuccessor, At, TasksHeld
  <2>3. PICK k \in successors[x] :
           /\ Add(<<task[x][1], k>>) \/ UNCHANGED <<queue, refused>>
           /\ successors' = [successors EXCEPT ![x] = @ \ {k}]
    BY <1>12 DEF ReleaseSuccessor
  <2>4. <<task[x][1], k>> \in Tasks
    BY <2>1, <2>2, TaskShape
  <2>5. queue' \subseteq Tasks /\ refused' \subseteq Tasks
    BY <2>3, <2>4 DEF Add, AddTask
  <2> QED
    BY <1>12, <2>3, <2>5 DEF ReleaseSuccessor
<1>13. ASSUME NEW x \in Runners, EndTask(x)
       PROVE  Typed'
  BY <1>10, <1>13 DEF EndTask, At
<1>14. ASSUME NEW x \in Runners, Notify(x)
       PROVE  Typed'
  BY <1>14 DEF Notify, SyncDone, TaskDone
<1>15. CASE PoolStep
  <2>0. CASE PauseLock
    BY <1>15, <2>0 DEF PoolStep, PauseLock
  <2>1. CASE ResumeLock
    BY <1>15, <2>1 DEF PoolStep, ResumeLock
  <2>2. CASE ResumeNotify
    BY <1>15, <2>2 DEF PoolStep, ResumeNotify, AfterResume
  <2>3. CASE SyncPop
    BY <1>15, <2>3 DEF PoolStep, SyncPop, AfterResume
  <2> QED
    BY <1>15, <2>0, <2>1, <2>2, <2>3 DEF PoolStep
<1>16. ASSUME NEW w \in Workers, UNCHANGED outsideVars,
              Check(w) \/ Lock(w) \/ Test(w) \/ Wait(w) \/ Woken(w) \/ SpuriousWake(w)
       PROVE  Typed'
  BY <1>16 DEF Check, Lock, Test, Wait, Woken, SpuriousWake
<1>17. ASSUME NEW w \in Workers, UNCHANGED outsideVars, Pop(w) \/ PopFree(w)
       PROVE  Typed'
  BY <1>17 DEF Pop, PopFree
<1>18. CASE UNCHANGED vars
  BY <1>18 DEF vars
<1> QED
  BY <1>1, <1>2, <1>3, <1>4, <1>5, <1>6, <1>7, <1>p, <1>a, <1>f, <1>8, <1>b, <1>9, <1>11, <1>12, <1>13, <1>14,
     <1>15, <1>16, <1>17, <1>18
     DEF Next, MainStep, StreamStep, WorkerStep, Loop, ProcessTask

-----------------------------------------------------------------------------
(* Who has a task                                                          *)

\* Whoever is in process_task has a task.
LEMMA RunningTask ==
  ASSUME Typed, TasksHeld, NEW x \in Runners, Runs(x)
  PROVE  task[x] \in Tasks
BY DEF TasksHeld, Runs, Runners

LEMMA HeldStep ==
  ASSUME Typed, TasksHeld, owner = "off" => \A w \in Workers : pc[w] = "off", [Next]_vars
  PROVE  TasksHeld'
<1> USE ThreadPoolAssumption
     DEF TasksHeld, Typed, Runners, Runs, Goto, Move, pauseVars, queueVars, poolVars, runVars,
         streamVars, stateVars, outsideVars
<1>1. CASE Initialize
  <2>1. owner = "off" /\ UNCHANGED <<task, step, successors, last>>
    BY <1>1 DEF Initialize, Start
  <2>2. \A x \in Runners : step[x] = "begin"
    BY <2>1
  <2>3. \A w \in Workers : pc'[w] \in {"check", "off"} /\ (w \notin threads' => pc'[w] = "off")
    BY <1>1 DEF Initialize, Start
  <2>4. owner' = "ready"
    BY <1>1 DEF Initialize, Start
  <2> QED
    BY <2>1, <2>2, <2>3, <2>4
<1>2. CASE Publish \/ Shutdown \/ ShutdownExchange \/ ShutdownAwait
  BY <1>2 DEF Publish, Shutdown, ShutdownExchange, ShutdownAwait
<1>3. CASE ShutdownInternal
  <2>1. CASE Stop
    BY <1>3, <2>1 DEF ShutdownInternal, Stop
  <2>2. CASE StopPush(told)
    BY <1>3, <2>2 DEF ShutdownInternal, StopPush
  <2>3. CASE StopPushed(told)
    BY <1>3, <2>3 DEF ShutdownInternal, StopPushed, BeginResume
  <2>4. CASE StopJoined
    <3>1. \A x \in Runners : ~Runs(x)
      BY <2>4 DEF StopJoined
    <3>2. \A x \in Runners : step[x] = "begin"
      BY <3>1
    <3>3. /\ \A w \in Workers : pc'[w] = "off" /\ task'[w] = NoTask
          /\ owner' = "off" /\ task'[Owner] = NoTask
      BY <2>4 DEF StopJoined
    <3>4. UNCHANGED <<step, successors, last>>
      BY <1>3 DEF ShutdownInternal
    <3> QED
      BY <3>2, <3>3, <3>4
  <2> QED
    BY <1>3, <2>1, <2>2, <2>3, <2>4 DEF ShutdownInternal
<1>4. CASE Callback \/ Flip \/ SignalShutdown \/ Flop
  BY <1>4 DEF Callback, Flip, SignalShutdown, Flop
<1>5. CASE BeginStage \/ AddInitial
  BY <1>5 DEF BeginStage, AddInitial
<1>6. CASE ResumeWorkers \/ PauseWorkers
  BY <1>6 DEF ResumeWorkers, Resume, BeginResume, PauseWorkers, Pause
<1>7. CASE AwaitTasks \/ FinishStage \/ EndChunk
  BY <1>7 DEF AwaitTasks, FinishStage, EndChunk
<1>8. ASSUME NEW x \in Runners, BeginFunction(x)
      PROVE  TasksHeld'
  BY <1>8 DEF BeginFunction, At
<1>9. ASSUME NEW x \in Runners, EndFunction(x)
      PROVE  TasksHeld'
  <2>1. successors'[x] = Graph[task[x][1]][task[x][2]]
    BY <1>9 DEF EndFunction
  <2> QED
    BY <1>9, <2>1 DEF EndFunction, At
<1>10. ASSUME NEW x \in Runners, ReleaseSuccessor(x)
       PROVE  TasksHeld'
  BY <1>10 DEF ReleaseSuccessor, At
<1>11. ASSUME NEW x \in Runners, DecrementRemaining(x)
       PROVE  TasksHeld'
  BY <1>11 DEF DecrementRemaining, At
<1>12. ASSUME NEW x \in Runners, EndTask(x)
       PROVE  TasksHeld'
  BY <1>12 DEF EndTask, At
<1>13. ASSUME NEW x \in Runners, Notify(x)
       PROVE  TasksHeld'
  <2>1. CASE x = Owner
    BY <1>13, <2>1 DEF Notify, SyncDone, At
  <2>2. CASE x \in Workers
    BY <1>13, <2>2 DEF Notify, TaskDone, At
  <2> QED
    BY <2>1, <2>2
<1>14. CASE PoolStep
  <2>1. CASE PauseLock
    BY <1>14, <2>1 DEF PoolStep, PauseLock
  <2>2. CASE ResumeLock
    BY <1>14, <2>2 DEF PoolStep, ResumeLock
  <2>3. CASE ResumeNotify
    BY <1>14, <2>3 DEF PoolStep, ResumeNotify, AfterResume
  <2>4. CASE SyncPop
    BY <1>14, <2>4 DEF PoolStep, SyncPop, AfterResume
  <2> QED
    BY <1>14, <2>1, <2>2, <2>3, <2>4 DEF PoolStep
<1>15. ASSUME NEW w \in Workers, UNCHANGED outsideVars,
              Check(w) \/ Lock(w) \/ Test(w) \/ Wait(w) \/ Woken(w) \/ SpuriousWake(w)
       PROVE  TasksHeld'
  <2>1. /\ pc[w] \in {"check", "lock", "test", "wait", "waiting", "woken"}
        /\ \E s \in {"check", "lock", "test", "wait", "waiting", "woken", "pop"} : Goto(w, s)
        /\ UNCHANGED <<threads, task, owner>>
    BY <1>15 DEF Check, Lock, Test, Wait, Woken, SpuriousWake
  <2> QED
    BY <1>15, <2>1
<1>16. ASSUME NEW w \in Workers, UNCHANGED outsideVars, Pop(w)
       PROVE  TasksHeld'
  BY <1>16 DEF Pop
<1>17. ASSUME NEW w \in Workers, UNCHANGED outsideVars, PopFree(w)
       PROVE  TasksHeld'
  BY <1>17 DEF PopFree
<1>18. CASE UNCHANGED vars
  BY <1>18 DEF vars
<1> QED
  BY <1>1, <1>2, <1>3, <1>4, <1>5, <1>6, <1>7, <1>8, <1>9, <1>10, <1>11, <1>12, <1>13, <1>14,
     <1>15, <1>16, <1>17, <1>18
     DEF Next, MainStep, StreamStep, WorkerStep, Loop, ProcessTask

-----------------------------------------------------------------------------
(* m_state and the pool                                                    *)

LEMMA HandshakeStep ==
  ASSUME Typed, Handshake, [Next]_vars
  PROVE  Handshake'
<1> USE DEF Handshake, Typed, InChunk, stateVars, streamVars
<1>1. CASE Initialize \/ Publish \/ Shutdown
  BY <1>1 DEF Initialize, Publish, Shutdown
<1>2. CASE ShutdownExchange \/ ShutdownAwait
  BY <1>2 DEF ShutdownExchange, ShutdownAwait
<1>3. CASE ShutdownInternal
  BY <1>3 DEF ShutdownInternal
<1>4. CASE Callback \/ Flip
  BY <1>4 DEF Callback, Flip
<1>5. CASE Flop
  BY <1>5 DEF Flop
<1>6. CASE SignalShutdown
  BY <1>6 DEF SignalShutdown
<1>7. CASE BeginStage \/ AddInitial \/ ResumeWorkers \/ AwaitTasks
  BY <1>7 DEF BeginStage, AddInitial, ResumeWorkers, AwaitTasks
<1>8. CASE PauseWorkers \/ FinishStage \/ EndChunk
  BY <1>8 DEF PauseWorkers, FinishStage, EndChunk
<1>9. ASSUME NEW x \in Runners, ProcessTask(x)
      PROVE  Handshake'
  <2>1. UNCHANGED <<stream, stateVars>>
    BY <1>9 DEF ProcessTask, BeginFunction, EndFunction, ReleaseSuccessor, DecrementRemaining,
                EndTask, Notify
  <2> QED
    BY <2>1
<1>10. CASE UNCHANGED outsideVars
  BY <1>10 DEF outsideVars
<1>11. CASE UNCHANGED vars
  BY <1>11 DEF vars
<1> QED
  BY <1>1, <1>2, <1>3, <1>4, <1>5, <1>6, <1>7, <1>8, <1>9, <1>10, <1>11
     DEF Next, MainStep, StreamStep, PoolStep, WorkerStep, Runners

LEMMA PoolUseStep ==
  ASSUME Typed, TasksHeld, Handshake, PoolUse, StageShape, [Next]_vars
  PROVE  PoolUse'
<1> USE ThreadPoolAssumption
     DEF PoolUse, Handshake, Typed, InChunk, Runners, Goto, pauseVars, queueVars, poolVars,
         runVars, streamVars, stateVars, outsideVars
<1>1. CASE Initialize
  BY <1>1 DEF Initialize, Start
<1>2. CASE Publish \/ Shutdown
  BY <1>2 DEF Publish, Shutdown
<1>3. CASE ShutdownExchange \/ ShutdownAwait
  BY <1>3 DEF ShutdownExchange, ShutdownAwait
<1>4. CASE ShutdownInternal
  <2>0. /\ main = "internal" /\ state = "uninitialized" /\ owner # "off"
        /\ stream \in {"out", "flip", "flop"}
        /\ UNCHANGED <<state, stream>>
    BY <1>4 DEF ShutdownInternal
  <2>1. CASE Stop /\ told' = 0 /\ UNCHANGED main
    <3>1. owner' = "stop_push" /\ stopping' /\ main' = "internal"
      BY <2>0, <2>1 DEF Stop
    <3> QED
      BY <2>0, <3>1
  <2>2. CASE StopPush(told) /\ told' = told + 1 /\ UNCHANGED main
    <3>1. /\ owner = "stop_push" /\ main' = "internal"
          /\ UNCHANGED <<owner, stopping, pc, task>>
      BY <2>0, <2>2 DEF StopPush
    <3> QED
      BY <2>0, <3>1
  <2>3. CASE StopPushed(told) /\ UNCHANGED <<told, main>>
    <3>1. /\ owner = "stop_push" /\ main' = "internal"
          /\ owner' \in {"resume_lock", "stop_join"}
          /\ UNCHANGED <<stopping, pc, task>>
      BY <2>0, <2>3 DEF StopPushed, BeginResume
    <3> QED
      BY <2>0, <3>1
  <2>4. CASE StopJoined /\ main' = "out" /\ UNCHANGED told
    <3>1. /\ owner' = "off" /\ ~stopping' /\ terminates' = 0 /\ main' = "out"
          /\ \A w \in Workers : pc'[w] = "off" /\ task'[w] # Terminate
      BY <2>0, <2>4 DEF StopJoined, Terminate, NoTask
    <3> QED
      BY <2>0, <3>1
  <2> QED
    BY <1>4, <2>1, <2>2, <2>3, <2>4 DEF ShutdownInternal
<1>5. CASE Callback \/ Flip
  BY <1>5 DEF Callback, Flip
<1>6. CASE Flop
  BY <1>6 DEF Flop
<1>7. CASE SignalShutdown
  BY <1>7 DEF SignalShutdown
<1>8. CASE BeginStage
  BY <1>8 DEF BeginStage
<1>9. CASE AddInitial
  BY <1>9 DEF AddInitial
<1>10. CASE ResumeWorkers
  BY <1>10 DEF ResumeWorkers, Resume, BeginResume
<1>11. CASE AwaitTasks
  BY <1>11 DEF AwaitTasks
<1>12. CASE PauseWorkers
  BY <1>12 DEF PauseWorkers, Pause
<1>13. CASE FinishStage
  BY <1>13 DEF FinishStage
<1>14. CASE EndChunk
  BY <1>14 DEF EndChunk
<1>15. ASSUME NEW x \in Runners,
              BeginFunction(x) \/ EndFunction(x) \/ ReleaseSuccessor(x) \/ DecrementRemaining(x)
                \/ EndTask(x)
       PROVE  PoolUse'
  <2>1. /\ UNCHANGED <<threads, terminates, pauseVars, pc, task, owner, stopping>>
        /\ UNCHANGED <<stream, stateVars>>
    BY <1>15 DEF BeginFunction, EndFunction, ReleaseSuccessor, DecrementRemaining, EndTask
  <2> QED
    BY <2>1
<1>16. ASSUME NEW x \in Runners, Notify(x)
       PROVE  PoolUse'
  <2>1. CASE x = Owner
    BY <1>16, <2>1 DEF Notify, SyncDone, NoTask, Terminate
  <2>2. CASE x \in Workers
    BY <1>16, <2>2 DEF Notify, TaskDone, NoTask, Terminate
  <2> QED
    BY <2>1, <2>2
<1>17. CASE PoolStep
  <2>1. CASE PauseLock
    BY <1>17, <2>1 DEF PoolStep, PauseLock
  <2>2. CASE ResumeLock
    BY <1>17, <2>2 DEF PoolStep, ResumeLock
  <2>3. CASE ResumeNotify
    BY <1>17, <2>3 DEF PoolStep, ResumeNotify, AfterResume
\* Outside a stage there is no task to pop.
  <2>4. CASE SyncPop
    <3>1. stream # "wait" => queue = {}
      BY <2>4 DEF SyncPop, StageShape, UnderWay, Quiet
    <3> QED
      BY <1>17, <2>4, <3>1 DEF PoolStep, SyncPop, AfterResume
  <2> QED
    BY <1>17, <2>1, <2>2, <2>3, <2>4 DEF PoolStep
<1>18. ASSUME NEW w \in Workers, UNCHANGED outsideVars,
              Check(w) \/ Lock(w) \/ Test(w) \/ Wait(w) \/ Woken(w) \/ SpuriousWake(w)
       PROVE  PoolUse'
  <2>1. /\ pc[w] # "off" /\ UNCHANGED <<task, owner, stopping, terminates>>
    BY <1>18 DEF Check, Lock, Test, Wait, Woken, SpuriousWake
  <2> QED
    BY <1>18, <2>1
<1>19. ASSUME NEW w \in Workers, UNCHANGED outsideVars, Pop(w)
       PROVE  PoolUse'
  BY <1>19 DEF Pop
<1>20. ASSUME NEW w \in Workers, UNCHANGED outsideVars, PopFree(w)
       PROVE  PoolUse'
  BY <1>20 DEF PopFree
<1>21. CASE UNCHANGED vars
  BY <1>21 DEF vars
<1> QED
  BY <1>1, <1>2, <1>3, <1>4, <1>5, <1>6, <1>7, <1>8, <1>9, <1>10, <1>11, <1>12, <1>13, <1>14,
     <1>15, <1>16, <1>17, <1>18, <1>19, <1>20, <1>21
     DEF Next, MainStep, StreamStep, WorkerStep, Loop, ProcessTask

-----------------------------------------------------------------------------
(* The stage under way                                                     *)

\* A task graph is finite, since there are finitely many tasks.
LEMMA FiniteGraph ==
  ASSUME NEW g \in Stages
  PROVE  /\ IsFiniteSet(TaskOf(g))
         /\ \A set \in SUBSET TaskOf(g) : IsFiniteSet(set) /\ Cardinality(set) \in Nat
<1> DEFINE name == [k \in TaskOf(g) |-> <<g, k>>]
<1>1. name \in Injection(TaskOf(g), Tasks)
  BY StageTask DEF Injection, IsInjective
<1>2. IsFiniteSet(TaskOf(g))
  BY <1>1, ThreadPoolAssumption, FS_Injection
<1> QED
  BY <1>2, FS_Subset, FS_CardinalityType

\* A graph without a task to begin with has no tasks.
LEMMA SomeInitial ==
  ASSUME NEW g \in Stages, Initial(g) = {}
  PROVE  TaskOf(g) = {}
<1>1. SUFFICES ASSUME TaskOf(g) # {} PROVE FALSE
  OBVIOUS
<1>2. PICK k \in TaskOf(g) : Predecessors(g, k) \cap TaskOf(g) = {}
  BY <1>1, GraphAssumption
<1> QED
  BY <1>2 DEF Initial, Predecessors

\* What the counters are about does not depend on where the threads are, nor on
\* tasks that have been counted done.
LEMMA StageSame ==
  ASSUME Placed, Counted,
         UNCHANGED <<queue, finished, toAdd, todo, predecessorsLeft, tasksLeft, successors>>,
         stream' = "wait" => toAdd' = {},
         Live' = Live, Releasing' = Releasing, \A x \in Live : task'[x] = task[x]
  PROVE  Placed' /\ Counted'
<1>1. Stage' = Stage /\ StageTasks' = StageTasks
  BY DEF Stage, StageTasks
<1>2. Introduced' = Introduced
  BY DEF Introduced
<1>3. Releasing \subseteq Live
  BY DEF Releasing
<1>4. Untold' = Untold
  BY <1>1, <1>3 DEF Untold
<1>5. Uncounted' = Uncounted
  BY <1>1 DEF Uncounted
<1>6. Placed'
  BY <1>1, <1>2 DEF Placed
<1>7. Counted'
  BY <1>1, <1>2, <1>4, <1>5 DEF Counted
<1> QED
  BY <1>6, <1>7

\* The predecessors are counted, and the tasks that have none are to be added.
LEMMA BeginStageStep ==
  ASSUME Typed, StageShape, BeginStage
  PROVE  StageShape'
<1> DEFINE g == Head(todo)
<1>1. /\ g \in Stages /\ Stage' = g /\ todo' = todo /\ todo # <<>>
      /\ UNCHANGED <<queue, task, step, last, successors, allTasksSignal>>
      /\ finished' = {} /\ toAdd' = Initial(g)
      /\ predecessorsLeft' = [k \in TaskOf(g) |-> Cardinality(Predecessors(g, k))]
      /\ tasksLeft' = Cardinality(TaskOf(g))
      /\ stream' = IF Initial(g) = {} THEN "finish" ELSE "add"
  BY HeadTailProperties DEF BeginStage, Stage, Typed, poolVars, queueVars
<1>2. Quiet
  BY DEF StageShape, UnderWay, BeginStage
<1>3. Live' = {} /\ Releasing' = {}
  BY <1>1, <1>2 DEF Quiet, Live, Releasing
<1>4. Quiet'
  BY <1>1, <1>2, <1>3 DEF Quiet
<1>5. tasksLeft' \in Nat
  BY <1>1, FiniteGraph
<1>6. CASE Initial(g) = {}
  <2>1. TaskOf(g) = {}
    BY <1>1, <1>6, SomeInitial
  <2>2. StageTasks' = {}
    BY <1>1, <2>1 DEF StageTasks
  <2> QED
    BY <1>1, <1>4, <1>5, <1>6, <2>2 DEF StageShape, UnderWay
<1>7. CASE Initial(g) # {}
  <2>1. Introduced' = {}
    BY <1>1, <1>2, <1>3 DEF Introduced, Quiet
  <2>2. Placed'
    BY <1>1, <1>2, <1>3, <1>7, <2>1 DEF Placed, Quiet, Initial
  <2>3. Untold' = [k \in TaskOf(g) |-> Predecessors(g, k)]
    BY <1>1, <1>3 DEF Untold
  <2>4. Uncounted' = TaskOf(g)
    BY <1>1, <1>3 DEF Uncounted
  <2>5. \A k \in TaskOf(g) : Predecessors(g, k) \in SUBSET TaskOf(g)
    BY DEF Predecessors
  <2>6. Counted'
    BY <1>1, <2>1, <2>3, <2>4, <2>5, FiniteGraph DEF Counted
  <2>7. tasksLeft' # 0
    BY <1>1, <1>7, FiniteGraph, FS_EmptySet DEF Initial
  <2>8. Signalled'
    BY <1>4, <1>5, <2>7 DEF Signalled, Quiet
  <2> QED
    BY <1>1, <1>5, <1>7, <2>2, <2>6, <2>8 DEF StageShape, UnderWay
<1> QED
  BY <1>6, <1>7

\* Adding a task that nobody has told, and that waits for nobody, or no longer.
LEMMA AddedTask ==
  ASSUME Placed, NEW k \in TaskOf(Stage), <<Stage, k>> \notin Introduced,
         Add(<<Stage, k>>), UNCHANGED <<finished, task, step>>
  PROVE  /\ queue' \subseteq queue \cup {<<Stage, k>>} /\ queue \subseteq queue'
         /\ Live' = Live /\ Releasing' = Releasing
         /\ Introduced' \subseteq Introduced \cup {<<Stage, k>>}
         /\ queue' \subseteq StageTasks /\ queue' \cap finished' = {}
         /\ \A x \in Live : task[x] \notin queue'
<1>1. queue' = queue \/ queue' = queue \cup {<<Stage, k>>}
  BY DEF Add, AddTask
<1>2. Live' = Live /\ Releasing' = Releasing
  BY DEF Live, Releasing
<1>3. Introduced' \subseteq Introduced \cup {<<Stage, k>>}
  BY <1>1, <1>2 DEF Introduced
<1>4. <<Stage, k>> \in StageTasks
  BY DEF StageTasks
<1> QED
  BY <1>1, <1>2, <1>3, <1>4 DEF Placed, Introduced

\* An initial task has nobody to wait for, so its counter is zero from the start.
LEMMA AddInitialStep ==
  ASSUME Typed, StageShape, AddInitial
  PROVE  StageShape'
<1>1. Placed /\ Counted /\ Signalled /\ UnderWay
  BY DEF AddInitial, StageShape, UnderWay
<1>2. PICK k \in toAdd : Add(<<Stage, k>>) /\ toAdd' = toAdd \ {k}
  BY DEF AddInitial, Stage
<1>3. /\ UNCHANGED <<task, step, last, successors, finished, predecessorsLeft, tasksLeft>>
      /\ UNCHANGED <<stream, allTasksSignal, todo>>
  BY DEF AddInitial
<1>4. k \in TaskOf(Stage) /\ Predecessors(Stage, k) = {} /\ <<Stage, k>> \notin Introduced
  BY <1>1, <1>2 DEF Placed, Initial
<1>5. /\ Live' = Live /\ Releasing' = Releasing
      /\ Introduced' \subseteq Introduced \cup {<<Stage, k>>}
      /\ queue' \subseteq StageTasks /\ queue' \cap finished' = {}
      /\ \A x \in Live : task[x] \notin queue'
  BY <1>1, <1>2, <1>3, <1>4, AddedTask
<1>6. Stage' = Stage /\ StageTasks' = StageTasks
  BY <1>3 DEF Stage, StageTasks
<1>7. Untold' = Untold /\ Uncounted' = Uncounted
  BY <1>3, <1>5, <1>6 DEF Untold, Uncounted
<1>8. Placed'
  BY <1>1, <1>2, <1>3, <1>5, <1>6 DEF Placed, AddInitial
<1>9. predecessorsLeft[k] = 0
  <2>1. Untold[k] = {}
    BY <1>4 DEF Untold
  <2> QED
    BY <1>1, <1>4, <2>1, FS_EmptySet DEF Counted
<1>10. Counted'
  BY <1>1, <1>3, <1>5, <1>6, <1>7, <1>9 DEF Counted
<1> QED
  BY <1>1, <1>3, <1>8, <1>10 DEF StageShape, UnderWay, Signalled

\* A task goes from the queue to a runner that had none.
LEMMA TakeStep ==
  ASSUME Typed, StageShape, NEW x \in Runners, NEW t \in queue,
         task[x] = NoTask, step[x] = "begin",
         queue' = queue \ {t}, task' = [task EXCEPT ![x] = t], UNCHANGED outsideVars
  PROVE  StageShape'
<1>1. Placed /\ Counted /\ Signalled /\ UnderWay
  BY DEF StageShape, Quiet
<1>2. /\ UNCHANGED <<step, last, successors, finished, predecessorsLeft, tasksLeft>>
      /\ UNCHANGED <<stream, allTasksSignal, todo, toAdd>>
  BY DEF outsideVars, runVars, streamVars
<1>3. x \notin Live /\ t \in Tasks /\ t \in StageTasks /\ t \notin finished
  BY <1>1, ThreadPoolAssumption DEF Live, Placed, Typed
<1>4. Live' = Live \cup {x} /\ Releasing' = Releasing
  BY <1>2, <1>3 DEF Live, Releasing, Typed
<1>5. task'[x] = t /\ \A y \in Live : task'[y] = task[y] /\ task[y] # t
  BY <1>1, <1>3 DEF Placed, Typed, Live
<1>6. Introduced' = Introduced
  BY <1>2, <1>4, <1>5 DEF Introduced
<1>7. Stage' = Stage /\ StageTasks' = StageTasks
  BY <1>2 DEF Stage, StageTasks
<1>8. Untold' = Untold
  BY <1>2, <1>4, <1>5, <1>7 DEF Untold, Releasing
<1>9. Uncounted' = Uncounted
  BY <1>2, <1>3, <1>4, <1>5, <1>7 DEF Uncounted
<1>10. Placed'
  BY <1>1, <1>2, <1>3, <1>4, <1>5, <1>6, <1>7 DEF Placed, Releasing
<1>11. Counted'
  BY <1>1, <1>2, <1>6, <1>7, <1>8, <1>9 DEF Counted
<1> QED
  BY <1>1, <1>2, <1>10, <1>11 DEF StageShape, UnderWay, Signalled

\* A runner between its pop and the end of the decrements is live.
LEMMA LiveRunner ==
  ASSUME Typed, TasksHeld, StageShape, NEW x \in Runners, Runs(x),
         step[x] \in {"begin", "function", "successors"}
  PROVE  /\ x \in Live /\ UnderWay /\ Placed /\ Counted /\ Signalled
         /\ task[x][1] = Stage /\ task[x][2] \in TaskOf(Stage)
         /\ task[x] = <<Stage, task[x][2]>> /\ Stage \in Stages
<1>1. task[x] \in Tasks
  BY RunningTask
<1>2. x \in Live
  BY <1>1 DEF Live
<1>3. UnderWay /\ Placed /\ Counted /\ Signalled
  BY <1>2 DEF StageShape, Quiet
<1>4. task[x] \in StageTasks
  BY <1>2, <1>3 DEF Placed
<1>5. Stage \in Stages
  BY <1>3, HeadTailProperties DEF Placed, Stage, Typed
<1> QED
  BY <1>2, <1>3, <1>4, <1>5 DEF StageTasks

\* The function of a task has returned: it is finished, but no successor is told.
LEMMA EndFunctionStep ==
  ASSUME Typed, TasksHeld, StageShape, NEW x \in Runners, EndFunction(x)
  PROVE  StageShape'
<1> DEFINE p == task[x][2]
<1>0. Runs(x) /\ step[x] = "function"
  BY DEF EndFunction, At
<1>1. /\ x \in Live /\ UnderWay /\ Placed /\ Counted /\ Signalled
      /\ task[x] = <<Stage, p>> /\ p \in TaskOf(Stage) /\ Stage \in Stages
  BY <1>0, LiveRunner
<1>2. /\ UNCHANGED <<queue, task, last, predecessorsLeft, tasksLeft>>
      /\ UNCHANGED <<stream, allTasksSignal, todo, toAdd>>
      /\ finished' = finished \cup {task[x]}
      /\ successors' = [successors EXCEPT ![x] = Graph[task[x][1]][task[x][2]]]
      /\ step' = [step EXCEPT ![x] = "successors"]
  BY DEF EndFunction, Move, poolVars, queueVars, streamVars
<1>3. successors'[x] = Graph[Stage][p] /\ \A y \in Runners \ {x} : successors'[y] = successors[y]
  BY <1>1, <1>2 DEF Typed
<1>4. Live' = Live /\ Releasing' = Releasing \cup {x}
  BY <1>1, <1>2 DEF Live, Releasing, Typed
<1>5. Introduced' = Introduced
  BY <1>1, <1>2, <1>4 DEF Introduced
<1>6. Stage' = Stage /\ StageTasks' = StageTasks
  BY <1>2 DEF Stage, StageTasks
<1>7. <<Stage, p>> \notin finished /\ x \notin Releasing
  BY <1>0, <1>1 DEF Placed, Releasing
<1>8. Untold' = Untold
  <2>1. ASSUME NEW k \in TaskOf(Stage), NEW q \in Predecessors(Stage, k)
        PROVE  /\ <<Stage, q>> \notin finished'
                    \/ \E y \in Releasing' : task'[y] = <<Stage, q>> /\ k \in successors'[y]
               <=> \/ <<Stage, q>> \notin finished
                   \/ \E y \in Releasing : task[y] = <<Stage, q>> /\ k \in successors[y]
    <3>1. CASE q = p
      <4>1. k \in successors'[x]
        BY <1>3, <2>1, <3>1 DEF Predecessors
      <4> QED
        BY <1>1, <1>2, <1>4, <1>7, <3>1, <4>1
    <3>2. CASE q # p
      <4>1. <<Stage, q>> # task[x]
        BY <1>1, <3>2
      <4>2. <<Stage, q>> \in finished' <=> <<Stage, q>> \in finished
        BY <1>2, <4>1
      <4>3. Releasing \subseteq Runners
        BY DEF Releasing, Live
      <4> QED
        BY <1>2, <1>3, <1>4, <1>7, <4>1, <4>2, <4>3
    <3> QED
      BY <3>1, <3>2
  <2> QED
    BY <1>6, <2>1 DEF Untold
<1>9. Uncounted' = Uncounted
  BY <1>1, <1>2, <1>4, <1>6, <1>7 DEF Uncounted
<1>10. Placed'
  BY <1>1, <1>2, <1>4, <1>5, <1>6 DEF Placed
<1>11. Counted'
  BY <1>1, <1>2, <1>5, <1>6, <1>8, <1>9 DEF Counted
<1> QED
  BY <1>1, <1>2, <1>10, <1>11 DEF StageShape, UnderWay, Signalled

\* One successor is told by one predecessor: the last one to tell it adds it.
LEMMA ReleaseFacts ==
  ASSUME Typed, TasksHeld, StageShape, NEW x \in Runners, At(x, "successors"),
         NEW k \in successors[x]
  PROVE  /\ x \in Releasing /\ UnderWay /\ Placed /\ Counted /\ Signalled
         /\ task[x] = <<Stage, task[x][2]>> /\ Stage \in Stages
         /\ k \in TaskOf(Stage) /\ task[x][2] \in Untold[k] /\ task[x] \in finished
         /\ predecessorsLeft[k] \in Nat \ {0}
         /\ <<Stage, k>> \notin Introduced
<1> DEFINE p == task[x][2]
<1>0. Runs(x) /\ step[x] = "successors"
  BY DEF At
<1>1. /\ x \in Live /\ UnderWay /\ Placed /\ Counted /\ Signalled
      /\ task[x] = <<Stage, p>> /\ task[x][1] = Stage /\ p \in TaskOf(Stage) /\ Stage \in Stages
  BY <1>0, LiveRunner
<1>2. x \in Releasing /\ task[x] \in finished
  BY <1>0, <1>1 DEF Releasing, Placed
<1>3. k \in Graph[Stage][p]
  BY <1>0, <1>1 DEF TasksHeld
<1>4. k \in TaskOf(Stage)
  BY <1>1, <1>3, GraphAssumption
<1>5. p \in Untold[k]
  BY <1>1, <1>2, <1>3, <1>4 DEF Untold, Predecessors
<1>6. Untold[k] \in SUBSET TaskOf(Stage)
  BY <1>4 DEF Untold, Predecessors
<1>7. predecessorsLeft[k] \in Nat \ {0}
  BY <1>1, <1>4, <1>5, <1>6, FiniteGraph, FS_EmptySet DEF Counted
<1>8. <<Stage, k>> \notin Introduced
  BY <1>1, <1>4, <1>7 DEF Counted
<1> QED
  BY <1>1, <1>2, <1>4, <1>5, <1>7, <1>8

\* The decrement takes one predecessor from those that have not told the successor.
LEMMA ReleaseSuccessorStep ==
  ASSUME Typed, TasksHeld, StageShape, NEW x \in Runners, ReleaseSuccessor(x)
  PROVE  StageShape'
<1> DEFINE p == task[x][2]
<1>1. PICK k \in successors[x] :
        /\ predecessorsLeft' = [predecessorsLeft EXCEPT ![k] = @ - 1]
        /\ IF predecessorsLeft[k] = 1 THEN Add(<<task[x][1], k>>) ELSE UNCHANGED <<queue, refused>>
        /\ successors' = [successors EXCEPT ![x] = @ \ {k}]
  BY DEF ReleaseSuccessor
<1>2. /\ x \in Releasing /\ UnderWay /\ Placed /\ Counted /\ Signalled
      /\ task[x] = <<Stage, p>> /\ Stage \in Stages
      /\ k \in TaskOf(Stage) /\ p \in Untold[k] /\ task[x] \in finished
      /\ predecessorsLeft[k] \in Nat \ {0} /\ <<Stage, k>> \notin Introduced
  BY ReleaseFacts DEF ReleaseSuccessor
<1>3. /\ UNCHANGED <<task, step, last, finished, tasksLeft>>
      /\ UNCHANGED <<stream, allTasksSignal, todo, toAdd>>
  BY DEF ReleaseSuccessor, streamVars
<1>4. Stage' = Stage /\ StageTasks' = StageTasks
  BY <1>3 DEF Stage, StageTasks
<1>5. /\ Live' = Live /\ Releasing' = Releasing
      /\ queue' \subseteq StageTasks /\ queue' \cap finished' = {}
      /\ \A y \in Live : task[y] \notin queue'
      /\ Introduced' \subseteq Introduced \cup {<<Stage, k>>}
      /\ predecessorsLeft[k] # 1 => Introduced' = Introduced
  <2>1. CASE predecessorsLeft[k] = 1
    <3>1. Add(<<Stage, k>>)
      BY <1>1, <1>2, <2>1
    <3> QED
      BY <1>2, <1>3, <2>1, <3>1, AddedTask
  <2>2. CASE predecessorsLeft[k] # 1
    <3>1. UNCHANGED queue
      BY <1>1, <2>2
    <3>2. Live' = Live /\ Releasing' = Releasing
      BY <1>3 DEF Live, Releasing
    <3> QED
      BY <1>2, <1>3, <3>1, <3>2 DEF Introduced, Placed
  <2> QED
    BY <2>1, <2>2
<1>6. \A y \in toAdd : y # k
  <2>1. p \in Predecessors(Stage, k)
    BY <1>2 DEF Untold
  <2> QED
    BY <1>2, <2>1 DEF Placed, Initial
<1>7. Placed'
  BY <1>2, <1>3, <1>4, <1>5, <1>6 DEF Placed
<1>8. Untold'[k] = Untold[k] \ {p}
  <2>1. \A y \in Releasing : task[y] = task[x] => y = x
    BY <1>2 DEF Placed, Releasing
  <2>2. successors'[x] = successors[x] \ {k} /\ \A y \in Runners \ {x} : successors'[y] = successors[y]
    BY <1>1 DEF Typed
  <2>3. Releasing \subseteq Runners
    BY DEF Releasing, Live
  <2>4. ASSUME NEW q \in Predecessors(Stage, k)
        PROVE  (\E y \in Releasing : task[y] = <<Stage, q>> /\ k \in successors'[y])
                 <=> q # p /\ \E y \in Releasing : task[y] = <<Stage, q>> /\ k \in successors[y]
    BY <1>2, <2>1, <2>2, <2>3
  <2>5. Untold'[k] = {q \in Predecessors(Stage, k) :
                        \/ <<Stage, q>> \notin finished
                        \/ \E y \in Releasing : task[y] = <<Stage, q>> /\ k \in successors'[y]}
    BY <1>2, <1>3, <1>4, <1>5 DEF Untold
  <2>6. Untold[k] = {q \in Predecessors(Stage, k) :
                       \/ <<Stage, q>> \notin finished
                       \/ \E y \in Releasing : task[y] = <<Stage, q>> /\ k \in successors[y]}
    BY <1>2 DEF Untold
  <2>7. ASSUME NEW q \in Predecessors(Stage, k)
        PROVE  q \in Untold'[k] <=> q \in Untold[k] /\ q # p
    <3>1. CASE q = p
      <4>1. <<Stage, q>> \in finished
        BY <1>2, <3>1
      <4>2. ~ \E y \in Releasing : task[y] = <<Stage, q>> /\ k \in successors'[y]
        BY <2>4, <3>1
      <4> QED
        BY <2>5, <3>1, <4>1, <4>2
    <3>2. CASE q # p
      BY <2>4, <2>5, <2>6, <3>2
    <3> QED
      BY <3>1, <3>2
  <2>8. Untold'[k] \subseteq Predecessors(Stage, k) /\ Untold[k] \subseteq Predecessors(Stage, k)
    BY <2>5, <2>6
  <2> QED
    BY <2>7, <2>8
<1>9. \A j \in TaskOf(Stage) \ {k} : Untold'[j] = Untold[j]
  <2>1. \A y \in Runners, j \in TaskOf(Stage) \ {k} : j \in successors'[y] <=> j \in successors[y]
    BY <1>1 DEF Typed
  <2>2. Releasing \subseteq Runners
    BY DEF Releasing, Live
  <2> QED
    BY <1>3, <1>4, <1>5, <2>1, <2>2 DEF Untold
<1>10. Uncounted' = Uncounted
  BY <1>3, <1>4, <1>5 DEF Uncounted
<1>11. Counted'
  <2>1. predecessorsLeft' \in [TaskOf(Stage) -> Nat]
    BY <1>1, <1>2 DEF Counted
  <2>2. Untold[k] \in SUBSET TaskOf(Stage)
    BY <1>2 DEF Untold, Predecessors
  <2>3. Cardinality(Untold'[k]) = Cardinality(Untold[k]) - 1
    BY <1>2, <1>8, <2>2, FiniteGraph, FS_RemoveElement
  <2>4. predecessorsLeft'[k] = Cardinality(Untold'[k])
    BY <1>1, <1>2, <2>3 DEF Counted
  <2>5. \A j \in TaskOf(Stage) \ {k} : predecessorsLeft'[j] = predecessorsLeft[j]
    BY <1>1, <1>2 DEF Counted
  <2>6. <<Stage, k>> \in Introduced' => predecessorsLeft'[k] = 0
    BY <1>1, <1>2, <1>5 DEF Counted
  <2>7. \A j \in TaskOf(Stage) : <<Stage, j>> \in Introduced' => predecessorsLeft'[j] = 0
    BY <1>2, <1>5, <2>5, <2>6 DEF Counted
  <2>8. \A j \in TaskOf(Stage) : predecessorsLeft'[j] = Cardinality(Untold'[j])
    BY <1>2, <1>9, <2>4, <2>5 DEF Counted
  <2> QED
    BY <1>2, <1>3, <1>4, <1>10, <2>1, <2>7, <2>8 DEF Counted
<1> QED
  BY <1>2, <1>3, <1>7, <1>11 DEF StageShape, UnderWay, Signalled

\* One task less: the last one is told by its decrement that it is.
LEMMA DecrementStep ==
  ASSUME Typed, TasksHeld, StageShape, NEW x \in Runners, DecrementRemaining(x)
  PROVE  StageShape'
<1> DEFINE p == task[x][2]
<1>0. Runs(x) /\ step[x] = "successors" /\ successors[x] = {}
  BY DEF DecrementRemaining, At
<1>1. /\ x \in Live /\ UnderWay /\ Placed /\ Counted /\ Signalled
      /\ task[x] = <<Stage, p>> /\ p \in TaskOf(Stage) /\ Stage \in Stages
  BY <1>0, LiveRunner
<1>2. /\ UNCHANGED <<queue, task, predecessorsLeft, successors, finished>>
      /\ UNCHANGED <<stream, allTasksSignal, todo, toAdd>>
      /\ tasksLeft' = tasksLeft - 1
      /\ last' = [last EXCEPT ![x] = tasksLeft = 1]
      /\ step' = [step EXCEPT ![x] = "profile"]
  BY DEF DecrementRemaining, Move, poolVars, queueVars, streamVars
<1>3. x \in Releasing /\ task[x] \in finished
  BY <1>0, <1>1 DEF Releasing, Placed
<1>4. Live' = Live \ {x} /\ Releasing' = Releasing \ {x}
  BY <1>1, <1>2 DEF Live, Releasing, Typed
<1>5. Introduced' = Introduced
  BY <1>2, <1>3, <1>4 DEF Introduced
<1>6. Stage' = Stage /\ StageTasks' = StageTasks
  BY <1>2 DEF Stage, StageTasks
<1>7. Untold' = Untold
  BY <1>0, <1>2, <1>4, <1>6 DEF Untold
<1>8. Uncounted' = Uncounted \ {p} /\ p \in Uncounted
  <2>1. \A y \in Live : task[y] = task[x] => y = x
    BY <1>1 DEF Placed
  <2> QED
    BY <1>1, <1>2, <1>3, <1>4, <1>6, <2>1 DEF Uncounted
<1>9. Uncounted \in SUBSET TaskOf(Stage)
  BY DEF Uncounted
<1>10. /\ tasksLeft \in Nat \ {0} /\ tasksLeft' \in Nat
       /\ tasksLeft' = Cardinality(Uncounted')
  <2>1. IsFiniteSet(Uncounted) /\ Cardinality(Uncounted) \in Nat
    BY <1>1, <1>9, FiniteGraph
  <2>2. Cardinality(Uncounted) # 0
    BY <1>8, <2>1, FS_EmptySet
  <2>3. Cardinality(Uncounted') = Cardinality(Uncounted) - 1
    BY <1>8, <2>1, FS_RemoveElement
  <2> QED
    BY <1>1, <1>2, <2>1, <2>2, <2>3 DEF Counted
<1>11. Placed'
  BY <1>1, <1>2, <1>4, <1>5, <1>6 DEF Placed
<1>12. Counted'
  BY <1>1, <1>2, <1>5, <1>6, <1>7, <1>10 DEF Counted
<1>13. Signalled'
  <2>1. allTasksSignal = 0 /\ \A y \in Runners : ~last[y]
    BY <1>1, <1>10 DEF Signalled
  <2>2. \A y \in Runners \ {x} : last'[y] = last[y]
    BY <1>2 DEF Typed
  <2>3. last'[x] <=> tasksLeft = 1
    BY <1>2 DEF Typed
  <2>4. tasksLeft' = 0 <=> tasksLeft = 1
    BY <1>2, <1>10
  <2> QED
    BY <1>2, <1>10, <2>1, <2>2, <2>3, <2>4 DEF Signalled
<1> QED
  BY <1>1, <1>2, <1>10, <1>11, <1>12, <1>13 DEF StageShape, UnderWay

\* Only the last one signals, and the signal is there when its flag is gone.
LEMMA NotifyStep ==
  ASSUME Typed, TasksHeld, StageShape, NEW x \in Runners, Notify(x)
  PROVE  StageShape'
<1>1. /\ UNCHANGED <<queue, predecessorsLeft, tasksLeft, successors, finished>>
      /\ UNCHANGED <<stream, todo, toAdd>>
      /\ allTasksSignal' = IF last[x] THEN allTasksSignal + 1 ELSE allTasksSignal
      /\ last' = [last EXCEPT ![x] = FALSE]
      /\ step' = [step EXCEPT ![x] = "begin"]
      /\ task' = [task EXCEPT ![x] = NoTask]
      /\ step[x] = "notify"
  BY DEF Notify, SyncDone, TaskDone, Move, At, queueVars
<1>2. Live' = Live /\ Releasing' = Releasing /\ x \notin Live
  BY <1>1, ThreadPoolAssumption DEF Live, Releasing, Typed
<1>3. \A y \in Live : task'[y] = task[y]
  BY <1>1, <1>2 DEF Typed, Live
<1>4. ~last'[x] /\ \A y \in Runners \ {x} : last'[y] = last[y]
  BY <1>1 DEF Typed
<1>5. CASE UnderWay
  <2>1. Placed /\ Counted /\ Signalled
    BY <1>5 DEF StageShape
  <2>2. Placed' /\ Counted'
    BY <1>1, <1>2, <1>3, <2>1, StageSame DEF Placed
  <2>3. Signalled'
    <3>1. CASE last[x]
      BY <1>1, <1>4, <2>1, <3>1 DEF Signalled, StageShape
    <3>2. CASE ~last[x]
      <4>1. \A y \in Runners : last'[y] <=> last[y]
        BY <1>4, <3>2
      <4> QED
        BY <1>1, <2>1, <3>2, <4>1 DEF Signalled
    <3> QED
      BY <3>1, <3>2
  <2> QED
    BY <1>1, <1>5, <2>2, <2>3 DEF StageShape, UnderWay
<1>6. CASE ~UnderWay
  <2>1. Quiet
    BY <1>6 DEF StageShape
  <2>2. Quiet'
    BY <1>1, <1>2, <1>4, <2>1 DEF Quiet
  <2>3. StageTasks' = StageTasks
    BY <1>1 DEF StageTasks, Stage
  <2> QED
    BY <1>1, <1>6, <2>2, <2>3 DEF StageShape, UnderWay
<1> QED
  BY <1>5, <1>6

\* The callback gets the signal of the last one: every task has been counted done.
LEMMA AwaitTasksStep ==
  ASSUME Typed, StageShape, AwaitTasks
  PROVE  StageShape'
<1>1. Placed /\ Counted /\ Signalled /\ allTasksSignal > 0 /\ stream' = "pause"
  BY DEF AwaitTasks, StageShape, UnderWay
<1>2. /\ UNCHANGED <<queue, task, step, last, finished, tasksLeft, todo>>
      /\ allTasksSignal' = allTasksSignal - 1
  BY DEF AwaitTasks, poolVars, queueVars, runVars
<1>3. tasksLeft = 0 /\ allTasksSignal = 1 /\ \A x \in Runners : ~last[x]
  BY <1>1 DEF Signalled, StageShape
<1>4. Stage \in Stages
  BY <1>1, HeadTailProperties DEF Placed, Stage, Typed
<1>5. Uncounted \in SUBSET TaskOf(Stage)
  BY DEF Uncounted
<1>6. Uncounted = {}
  BY <1>1, <1>3, <1>4, <1>5, FiniteGraph, FS_EmptySet DEF Counted
<1>7. finished = StageTasks
  BY <1>1, <1>6 DEF Placed, StageTasks, Uncounted
<1>8. Live = {}
  BY <1>1, <1>6 DEF Placed, StageTasks, Uncounted
<1>9. queue = {}
  BY <1>1, <1>7 DEF Placed
<1>10. Live' = Live /\ StageTasks' = StageTasks
  BY <1>2 DEF Live, StageTasks, Stage
<1>11. Quiet'
  BY <1>2, <1>3, <1>8, <1>9, <1>10 DEF Quiet
<1> QED
  BY <1>1, <1>2, <1>7, <1>10, <1>11 DEF StageShape, UnderWay, Placed

\* Everything else leaves the tasks and the counters alone, or happens when no
\* stage is under way.
LEMMA OutsideStep ==
  ASSUME StageShape, ~UnderWay, ~UnderWay', queue' = {}, Live' = {},
         UNCHANGED <<last, allTasksSignal, tasksLeft>>,
         stream' \in {"pause", "finish"} =>
           stream \in {"pause", "finish"} /\ UNCHANGED <<todo, finished>>
  PROVE  StageShape'
<1>1. Quiet'
  BY DEF StageShape, Quiet
<1>2. UNCHANGED todo => StageTasks' = StageTasks
  BY DEF StageTasks, Stage
<1> QED
  BY <1>1, <1>2 DEF StageShape

\* A step that moves a runner, but gives it no task and takes none away.
LEMMA QuietStep ==
  ASSUME StageShape,
         UNCHANGED <<queue, task, successors, last, finished, predecessorsLeft, tasksLeft>>,
         UNCHANGED <<stream, allTasksSignal, todo, toAdd>>,
         Live' = Live, Releasing' = Releasing
  PROVE  StageShape'
<1>1. StageTasks' = StageTasks
  BY DEF StageTasks, Stage
<1>2. CASE UnderWay
  <2>1. Placed' /\ Counted'
    BY <1>2, StageSame DEF StageShape, Placed
  <2> QED
    BY <1>2, <2>1 DEF StageShape, UnderWay, Signalled
<1>3. CASE ~UnderWay
  BY <1>1, <1>3 DEF StageShape, UnderWay, Quiet
<1> QED
  BY <1>2, <1>3

\* The counters stay right.
LEMMA StageStep ==
  ASSUME Typed, TasksHeld, Handshake, PoolUse, StageShape, [Next]_vars
  PROVE  StageShape'
<1> USE DEF queueVars, poolVars, runVars, streamVars, outsideVars
<1>s. ASSUME UNCHANGED <<task, step>> PROVE Live' = Live /\ Releasing' = Releasing
  BY <1>s DEF Live, Releasing
<1>0. ASSUME ~UnderWay PROVE queue = {} /\ Live = {}
  BY <1>0 DEF StageShape, Quiet
<1>1. CASE Initialize
  <2>1. ~UnderWay
    BY <1>1 DEF Initialize, Handshake, InChunk, UnderWay
  <2>2. /\ queue' = {} /\ UNCHANGED <<task, step, last, allTasksSignal, tasksLeft>>
        /\ UNCHANGED <<stream, todo, finished>>
    BY <1>1 DEF Initialize, Start
  <2> QED
    BY <2>1, <2>2, <1>s, <1>0, OutsideStep DEF UnderWay
<1>2. CASE Publish \/ Shutdown \/ ShutdownExchange \/ ShutdownAwait
  BY <1>2, <1>s, QuietStep DEF Publish, Shutdown, ShutdownExchange, ShutdownAwait
<1>3. CASE ShutdownInternal
  <2>1. ~UnderWay
    BY <1>3 DEF ShutdownInternal, Handshake, InChunk, UnderWay
  <2>2. UNCHANGED <<step, last, allTasksSignal, tasksLeft, stream, todo, finished>>
    BY <1>3 DEF ShutdownInternal
  <2>3. CASE StopJoined
    <3>1. queue' = {} /\ \A x \in Runners : task'[x] = NoTask
      BY <2>3 DEF StopJoined, Runners
    <3>2. Live' = {}
      BY <3>1, ThreadPoolAssumption DEF Live
    <3> QED
      BY <2>1, <2>2, <3>1, <3>2, OutsideStep DEF UnderWay
  <2>4. CASE Stop \/ StopPush(told) \/ StopPushed(told)
    <3>1. UNCHANGED <<queue, task>>
      BY <2>4 DEF Stop, StopPush, StopPushed
    <3> QED
      BY <2>1, <2>2, <3>1, <1>s, <1>0, OutsideStep DEF UnderWay
  <2> QED
    BY <1>3, <2>3, <2>4 DEF ShutdownInternal
<1>4. CASE Callback \/ Flip \/ Flop \/ SignalShutdown
  <2>1. ~UnderWay /\ stream' \in {"flip", "flop", "chunk", "signal", "out"}
    BY <1>4 DEF Callback, Flip, Flop, SignalShutdown, UnderWay
  <2>2. UNCHANGED <<queue, task, step, last, allTasksSignal, tasksLeft>>
    BY <1>4 DEF Callback, Flip, Flop, SignalShutdown
  <2> QED
    BY <2>1, <2>2, <1>s, <1>0, OutsideStep DEF UnderWay
<1>5. CASE FinishStage \/ EndChunk
  <2>1. ~UnderWay /\ stream' \in {"chunk", "out"}
    BY <1>5 DEF FinishStage, EndChunk, UnderWay
  <2>2. UNCHANGED <<queue, task, step, last, allTasksSignal, tasksLeft>>
    BY <1>5 DEF FinishStage, EndChunk
  <2> QED
    BY <2>1, <2>2, <1>s, <1>0, OutsideStep DEF UnderWay
<1>6. CASE PauseWorkers
  <2>1. ~UnderWay /\ stream = "pause" /\ stream' = "finish"
    BY <1>6 DEF PauseWorkers, UnderWay
  <2>2. UNCHANGED <<queue, task, step, last, allTasksSignal, tasksLeft, todo, finished>>
    BY <1>6 DEF PauseWorkers, Pause
  <2> QED
    BY <2>1, <2>2, <1>s, <1>0, OutsideStep DEF UnderWay
<1>7. CASE ResumeWorkers
  <2>1. /\ UNCHANGED <<queue, task, step, last, allTasksSignal, tasksLeft, todo, finished>>
        /\ UNCHANGED <<successors, predecessorsLeft, toAdd>>
        /\ stream = "add" /\ stream' = "wait" /\ toAdd = {}
    BY <1>7 DEF ResumeWorkers, Resume
  <2>2. Placed' /\ Counted'
    BY <2>1, <1>s, StageSame DEF StageShape, UnderWay
  <2> QED
    BY <2>1, <2>2 DEF StageShape, UnderWay, Signalled
<1>8. CASE BeginStage
  BY <1>8, BeginStageStep
<1>9. CASE AddInitial
  BY <1>9, AddInitialStep
<1>10. CASE AwaitTasks
  BY <1>10, AwaitTasksStep
<1>11. ASSUME NEW x \in Runners, BeginFunction(x) \/ EndTask(x)
       PROVE  StageShape'
  <2>1. Live' = Live /\ Releasing' = Releasing
    BY <1>11 DEF BeginFunction, EndTask, At, Move, Live, Releasing, Typed
  <2>2. /\ UNCHANGED <<queue, task, successors, last, finished, predecessorsLeft, tasksLeft>>
        /\ UNCHANGED <<stream, allTasksSignal, todo, toAdd>>
    BY <1>11 DEF BeginFunction, EndTask
  <2> QED
    BY <2>1, <2>2, QuietStep
<1>12. ASSUME NEW x \in Runners,
              EndFunction(x) \/ ReleaseSuccessor(x) \/ DecrementRemaining(x) \/ Notify(x)
       PROVE  StageShape'
  BY <1>12, EndFunctionStep, ReleaseSuccessorStep, DecrementStep, NotifyStep
<1>13. CASE PoolStep
  <2>1. CASE PauseLock \/ ResumeLock \/ ResumeNotify
    <3>1. UNCHANGED <<queue, task>>
      BY <2>1 DEF PauseLock, ResumeLock, ResumeNotify
    <3> QED
      BY <1>13, <3>1, <1>s, QuietStep DEF PoolStep
  <2>2. CASE SyncPop
    <3>1. Owner \in Runners /\ task[Owner] = NoTask /\ step[Owner] = "begin"
      BY <2>2, ThreadPoolAssumption DEF SyncPop, TasksHeld, Runs, Runners
    <3>2. CASE \E t \in queue : queue' = queue \ {t} /\ task' = [task EXCEPT ![Owner] = t]
      BY <1>13, <3>1, <3>2, TakeStep DEF PoolStep
    <3>3. CASE UNCHANGED <<queue, task>>
      BY <1>13, <3>3, <1>s, QuietStep DEF PoolStep
    <3> QED
      BY <2>2, <3>2, <3>3 DEF SyncPop
  <2> QED
    BY <1>13, <2>1, <2>2 DEF PoolStep
<1>14. ASSUME NEW w \in Workers, UNCHANGED outsideVars,
              Check(w) \/ Lock(w) \/ Test(w) \/ Wait(w) \/ Woken(w) \/ SpuriousWake(w) \/ PopFree(w)
       PROVE  StageShape'
  <2>1. UNCHANGED <<queue, task>>
    BY <1>14 DEF Check, Lock, Test, Wait, Woken, SpuriousWake, PopFree
  <2> QED
    BY <1>14, <2>1, <1>s, QuietStep
<1>15. ASSUME NEW w \in Workers, UNCHANGED outsideVars, Pop(w)
       PROVE  StageShape'
  <2>1. w \in Runners /\ task[w] = NoTask /\ step[w] = "begin"
    BY <1>15, ThreadPoolAssumption DEF Pop, TasksHeld, Runs, Runners
  <2>2. CASE \E t \in queue : queue' = queue \ {t} /\ task' = [task EXCEPT ![w] = t]
    BY <1>15, <2>1, <2>2, TakeStep
  <2>3. CASE UNCHANGED queue /\ task' = [task EXCEPT ![w] = Terminate]
    <3>1. /\ UNCHANGED step /\ w \notin Live
          /\ \A y \in Runners \ {w} : task'[y] = task[y]
          /\ task'[w] = Terminate
      BY <1>15, <2>1, <2>3, ThreadPoolAssumption DEF Live, Typed
    <3>2. Live' = Live /\ Releasing' = Releasing /\ \A y \in Live : task'[y] = task[y]
      BY <3>1, ThreadPoolAssumption DEF Live, Releasing
    <3>3. CASE UnderWay
      <4>1. Placed' /\ Counted'
        BY <1>15, <2>3, <3>2, <3>3, StageSame DEF StageShape, Placed
      <4> QED
        BY <1>15, <3>3, <4>1 DEF StageShape, UnderWay, Signalled
    <3>4. CASE ~UnderWay
      BY <1>15, <2>3, <3>2, <3>4, <1>0, OutsideStep DEF UnderWay
    <3> QED
      BY <3>3, <3>4
  <2>4. CASE UNCHANGED <<queue, task>>
    BY <1>15, <2>4, <1>s, QuietStep
  <2> QED
    BY <1>15, <2>2, <2>3, <2>4 DEF Pop
<1>16. CASE UNCHANGED vars
  BY <1>16, <1>s, QuietStep DEF vars
<1> QED
  BY <1>1, <1>2, <1>3, <1>4, <1>5, <1>6, <1>7, <1>8, <1>9, <1>10, <1>11, <1>12, <1>13, <1>14,
     <1>15, <1>16
     DEF Next, MainStep, StreamStep, WorkerStep, Loop, ProcessTask, Runners

-----------------------------------------------------------------------------
(* The queue has room                                                      *)

\* What has been introduced has finished predecessors.
LEMMA PredecessorsFinished ==
  ASSUME Placed, Counted, Stage \in Stages, NEW k \in TaskOf(Stage), <<Stage, k>> \in Introduced,
         NEW p \in Predecessors(Stage, k)
  PROVE  <<Stage, p>> \in finished
<1>1. Untold[k] \in SUBSET TaskOf(Stage)
  BY DEF Untold, Predecessors
<1>2. Cardinality(Untold[k]) = 0
  BY DEF Counted
<1>3. Untold[k] = {}
  BY <1>1, <1>2, FiniteGraph, FS_EmptySet
<1> QED
  BY <1>3 DEF Untold

\* The tasks in the queue and one more are ready together, so they are no more
\* than max_tasks, and every node not yet freed has a thread of its own.
LEMMA RoomForReady ==
  ASSUME Typed, TasksHeld, terminates = 0, Placed, Counted, Stage \in Stages,
         NEW k \in TaskOf(Stage), <<Stage, k>> \notin Introduced,
         \A p \in Predecessors(Stage, k) : <<Stage, p>> \in finished
  PROVE  HasRoom
<1> DEFINE done == {j \in TaskOf(Stage) : <<Stage, j>> \in finished}
           waiting == queue \cup {<<Stage, k>>}
           index == [t \in waiting |-> t[2]]
<1>1. /\ done \in SUBSET TaskOf(Stage)
      /\ \A j \in done : Predecessors(Stage, j) \subseteq done
  <2>1. ASSUME NEW j \in done, NEW p \in Predecessors(Stage, j)
        PROVE  p \in done
    <3>1. <<Stage, p>> \in finished
      BY PredecessorsFinished DEF Introduced
    <3> QED
      BY <3>1 DEF Predecessors
  <2> QED
    BY <2>1
<1>2. Cardinality(Ready(Stage, done)) <= MaxTasks
  BY <1>1, GraphAssumption
<1>3. Ready(Stage, done) \in SUBSET TaskOf(Stage)
  BY DEF Ready
<1>4. \A t \in waiting : t = <<Stage, t[2]>> /\ t[2] \in Ready(Stage, done)
  <2>1. k \in Ready(Stage, done)
    BY DEF Introduced, Ready, Predecessors
  <2>2. ASSUME NEW t \in queue
        PROVE  t = <<Stage, t[2]>> /\ t[2] \in Ready(Stage, done)
    <3>1. PICK j \in TaskOf(Stage) : t = <<Stage, j>>
      BY DEF Placed, StageTasks
    <3>2. t \notin finished /\ t \in Introduced
      BY DEF Placed, Introduced
    <3>3. \A p \in Predecessors(Stage, j) : <<Stage, p>> \in finished
      BY <3>1, <3>2, PredecessorsFinished
    <3> QED
      BY <3>1, <3>2, <3>3 DEF Ready, Predecessors
  <2> QED
    BY <2>1, <2>2
<1>5. index \in Injection(waiting, Ready(Stage, done))
  <2>1. index \in [waiting -> Ready(Stage, done)]
    BY <1>4
  <2>2. \A s, t \in waiting : index[s] = index[t] => s = t
    BY <1>4
  <2> QED
    BY <2>1, <2>2 DEF Injection, IsInjective
<1>6. /\ IsFiniteSet(waiting) /\ Cardinality(waiting) <= Cardinality(Ready(Stage, done))
      /\ Cardinality(Ready(Stage, done)) \in Nat
  BY <1>3, <1>5, FiniteGraph, FS_Injection
<1>7. IsFiniteSet(queue) /\ Cardinality(queue) \in Nat
  BY ThreadPoolAssumption, FS_Subset, FS_CardinalityType DEF Typed
<1>8. Cardinality(waiting) = Cardinality(queue) + 1
  <2>1. <<Stage, k>> \notin queue
    BY DEF Introduced
  <2> QED
    BY <1>7, <2>1, FS_AddElement
<1>9. IsFiniteSet(threads) /\ Cardinality(threads) \in Nat
  BY ThreadPoolAssumption, FS_Subset, FS_CardinalityType DEF Typed
<1>10. Unfreed \in SUBSET threads
  BY DEF Unfreed, TasksHeld
<1>11. Cardinality(Unfreed) \in Nat /\ Cardinality(Unfreed) <= Cardinality(threads)
  BY <1>9, <1>10, FS_Subset, FS_CardinalityType
<1> QED
  BY <1>2, <1>6, <1>7, <1>8, <1>9, <1>11, ThreadPoolAssumption DEF HasRoom, Capacity

\* add_task is called in two places, and finds room in both.
LEMMA RefusedStep ==
  ASSUME Typed, TasksHeld, Handshake, PoolUse, StageShape, NoTaskRefused, [Next]_vars
  PROVE  NoTaskRefused'
<1> USE DEF NoTaskRefused
\* A stage is under way only in a chunk, when nobody stops the pool.
<1>0. ASSUME UnderWay PROVE terminates = 0 /\ Placed /\ Counted /\ Stage \in Stages
  <2>1. ~stopping
    BY <1>0 DEF UnderWay, Handshake, PoolUse, InChunk
  <2>2. Placed /\ Counted
    BY <1>0 DEF StageShape
  <2>3. Stage \in Stages
    BY <2>2, HeadTailProperties DEF Placed, Stage, Typed
  <2> QED
    BY <2>1, <2>2, <2>3 DEF PoolUse
<1>1. CASE AddInitial
  <2>1. PICK k \in toAdd : Add(<<Stage, k>>)
    BY <1>1 DEF AddInitial, Stage
  <2>2. UnderWay
    BY <1>1 DEF AddInitial, UnderWay
  <2>3. /\ k \in TaskOf(Stage) /\ <<Stage, k>> \notin Introduced
        /\ Predecessors(Stage, k) = {}
    BY <1>0, <2>2 DEF Placed, Initial
  <2>4. HasRoom
    BY <1>0, <2>2, <2>3, RoomForReady
  <2> QED
    BY <2>1, <2>4 DEF Add
<1>2. ASSUME NEW x \in Runners, ReleaseSuccessor(x)
      PROVE  NoTaskRefused'
  <2>1. PICK k \in successors[x] :
          IF predecessorsLeft[k] = 1 THEN Add(<<task[x][1], k>>) ELSE UNCHANGED <<queue, refused>>
    BY <1>2 DEF ReleaseSuccessor
  <2>2. CASE predecessorsLeft[k] = 1
    <3>1. /\ UnderWay /\ task[x] = <<Stage, task[x][2]>> /\ task[x] \in finished
          /\ k \in TaskOf(Stage) /\ <<Stage, k>> \notin Introduced
          /\ task[x][2] \in Untold[k]
      BY <1>2, ReleaseFacts DEF ReleaseSuccessor
    <3>2. Untold[k] \in SUBSET TaskOf(Stage) /\ Cardinality(Untold[k]) = 1
      BY <1>0, <2>2, <3>1 DEF Untold, Predecessors, Counted
    <3>3. PICK q : Untold[k] = {q}
      BY <1>0, <3>1, <3>2, FiniteGraph, FS_Singleton
    <3>4. Untold[k] = {task[x][2]}
      BY <3>1, <3>3
    <3>5. \A p \in Predecessors(Stage, k) : <<Stage, p>> \in finished
      BY <3>1, <3>4 DEF Untold
    <3>6. HasRoom
      BY <1>0, <3>1, <3>5, RoomForReady
    <3>7. Add(<<task[x][1], k>>)
      BY <2>1, <2>2
    <3> QED
      BY <3>6, <3>7 DEF Add
  <2> QED
    BY <2>1, <2>2
<1>3. ASSUME NEW x \in Runners,
             BeginFunction(x) \/ EndFunction(x) \/ DecrementRemaining(x) \/ EndTask(x) \/ Notify(x)
      PROVE  NoTaskRefused'
  BY <1>3 DEF BeginFunction, EndFunction, DecrementRemaining, EndTask, Notify
<1>4. CASE Initialize \/ Publish \/ Shutdown \/ ShutdownExchange \/ ShutdownAwait
             \/ ShutdownInternal
  BY <1>4 DEF Initialize, Publish, Shutdown, ShutdownExchange, ShutdownAwait, ShutdownInternal,
              runVars
<1>5. CASE Callback \/ Flip \/ Flop \/ SignalShutdown \/ BeginStage
  BY <1>5 DEF Callback, Flip, Flop, SignalShutdown, BeginStage, runVars
<1>6. CASE ResumeWorkers \/ AwaitTasks \/ PauseWorkers \/ FinishStage \/ EndChunk
  BY <1>6 DEF ResumeWorkers, AwaitTasks, PauseWorkers, FinishStage, EndChunk, runVars
<1>7. CASE UNCHANGED outsideVars \/ UNCHANGED vars
  BY <1>7 DEF outsideVars, vars, runVars
<1> QED
  BY <1>1, <1>2, <1>3, <1>4, <1>5, <1>6, <1>7
     DEF Next, MainStep, StreamStep, PoolStep, WorkerStep, ProcessTask, Runners

-----------------------------------------------------------------------------
(* The profiler                                                            *)

LEMMA ReportedStep ==
  ASSUME Typed, TasksHeld, Handshake, Reported, [Next]_vars
  PROVE  Reported'
<1> DEFINE reports(x, t) == task[x] = t /\ Runs(x) /\ step[x] \in {"successors", "profile"}
<1>r. Reported <=> (stream \in {"add", "wait", "pause", "finish"} =>
                     \A t \in finished \ didRun : \E x \in Runners : reports(x, t))
  BY DEF Reported, At
<1>q. Reported' <=> (stream' \in {"add", "wait", "pause", "finish"} =>
                      \A t \in finished' \ didRun' : \E x \in Runners : reports(x, t)')
  BY DEF Reported, At
\* What keeps a report from being lost.
<1>k. ASSUME finished' \subseteq finished, didRun \subseteq didRun',
             stream' \in {"add", "wait", "pause", "finish"} =>
               stream \in {"add", "wait", "pause", "finish"},
             \A x \in Runners : Runs(x) /\ step[x] \in {"successors", "profile"} =>
               \/ Runs(x)' /\ UNCHANGED <<task[x], step[x]>>
               \/ task[x] \in didRun'
      PROVE  Reported'
  BY <1>k, <1>r, <1>q
<1> USE DEF outsideVars, runVars, streamVars, stateVars, poolVars
<1>1. CASE Initialize
  BY <1>1, <1>q DEF Initialize, Handshake, InChunk
<1>2. CASE Publish \/ Shutdown \/ ShutdownExchange \/ ShutdownAwait
  BY <1>2, <1>k DEF Publish, Shutdown, ShutdownExchange, ShutdownAwait, Runs
<1>3. CASE ShutdownInternal
  BY <1>3, <1>q DEF ShutdownInternal, Handshake, InChunk
<1>4. CASE Callback \/ Flip \/ Flop \/ SignalShutdown \/ FinishStage \/ EndChunk
  BY <1>4, <1>q DEF Callback, Flip, Flop, SignalShutdown, FinishStage, EndChunk
<1>5. CASE BeginStage
  BY <1>5, <1>q DEF BeginStage
<1>6. CASE AddInitial \/ AwaitTasks
  BY <1>6, <1>k DEF AddInitial, AwaitTasks, Runs
<1>7. CASE ResumeWorkers \/ PauseWorkers
  BY <1>7, <1>k DEF ResumeWorkers, Resume, BeginResume, PauseWorkers, Pause, Runs
<1>8. ASSUME NEW x \in Runners, BeginFunction(x) \/ ReleaseSuccessor(x)
      PROVE  Reported'
  BY <1>8, <1>k DEF BeginFunction, ReleaseSuccessor, Runs, Move, At, Typed
<1>9. ASSUME NEW x \in Runners, EndFunction(x)
      PROVE  Reported'
  BY <1>9, <1>r, <1>q DEF EndFunction, Runs, Move, At, Typed
<1>10. ASSUME NEW x \in Runners, DecrementRemaining(x)
       PROVE  Reported'
  BY <1>10, <1>r, <1>q DEF DecrementRemaining, Runs, Move, At, Typed
<1>11. ASSUME NEW x \in Runners, EndTask(x)
       PROVE  Reported'
  BY <1>11, <1>k DEF EndTask, Runs, Move, At, Typed
<1>12. ASSUME NEW x \in Runners, Notify(x)
       PROVE  Reported'
  <2>1. /\ \A y \in Runners \ {x} : UNCHANGED <<task[y], step[y]>> /\ (Runs(y) => Runs(y)')
        /\ step[x] = "notify" /\ UNCHANGED <<finished, didRun, stream>>
    BY <1>12, ThreadPoolAssumption
       DEF Notify, SyncDone, TaskDone, Goto, Runs, Move, At, Typed, Runners
  <2> QED
    BY <2>1, <1>k
<1>13. CASE PoolStep
  <2>1. \A x \in Runners : Runs(x) => UNCHANGED <<task[x], step[x]>> /\ Runs(x)'
    BY <1>13, ThreadPoolAssumption
       DEF PoolStep, PauseLock, ResumeLock, ResumeNotify, SyncPop, Runs, Typed, Runners
  <2> QED
    BY <1>13, <2>1, <1>k DEF PoolStep
<1>14. ASSUME NEW w \in Workers, UNCHANGED outsideVars, Loop(w) \/ SpuriousWake(w)
       PROVE  Reported'
  <2>1. /\ pc[w] # "run" /\ UNCHANGED owner
        /\ \A y \in Runners \ {w} : task'[y] = task[y]
        /\ \A y \in Workers \ {w} : pc'[y] = pc[y]
    BY <1>14 DEF Loop, Check, Lock, Test, Wait, Woken, Pop, PopFree, SpuriousWake, Goto, Typed
  <2>2. \A x \in Runners : Runs(x) => UNCHANGED <<task[x], step[x]>> /\ Runs(x)'
    BY <1>14, <2>1, ThreadPoolAssumption DEF Runs, Runners
  <2> QED
    BY <1>14, <2>2, <1>k
<1>15. CASE UNCHANGED vars
  BY <1>15, <1>k DEF vars, Runs
<1> QED
  BY <1>1, <1>2, <1>3, <1>4, <1>5, <1>6, <1>7, <1>8, <1>9, <1>10, <1>11, <1>12, <1>13, <1>14,
     <1>15
     DEF Next, MainStep, StreamStep, WorkerStep, ProcessTask, Runners

-----------------------------------------------------------------------------
(* The theorems                                                            *)

Inv ==
  /\ Typed /\ TasksHeld /\ Handshake /\ PoolUse
  /\ StageShape /\ NoTaskRefused /\ Reported

LEMMA InvInit == Init => Inv
<1> SUFFICES ASSUME Init PROVE Inv
  OBVIOUS
<1> USE ThreadPoolAssumption DEF Init, PoolInit, Runners
<1>1. Typed
  BY EmptySeq DEF Typed
<1>2. TasksHeld
  BY DEF TasksHeld, Runs
<1>3. Handshake /\ PoolUse /\ Reported /\ NoTaskRefused
  BY DEF Handshake, PoolUse, Reported, NoTaskRefused, InChunk, NoTask, Terminate
<1>4. StageShape
  BY DEF StageShape, UnderWay, Quiet, Live
<1> QED
  BY <1>1, <1>2, <1>3, <1>4 DEF Inv

LEMMA InvStep == Inv /\ [Next]_vars => Inv'
<1> SUFFICES ASSUME Inv, [Next]_vars PROVE Inv'
  OBVIOUS
<1>1. owner = "off" => \A w \in Workers : pc[w] = "off"
  BY DEF Inv, PoolUse
<1> QED
  BY <1>1, TypedStep, HeldStep, HandshakeStep, PoolUseStep, StageStep, RefusedStep, ReportedStep
     DEF Inv

\* The inductive invariant holds in every state of c_executor.
THEOREM InvHolds == Spec => []Inv
BY InvInit, InvStep, PTL DEF Spec

\* Every variable of the executor has a value of its type: neither signal is notified
\* twice before it is waited for, and m_tasks_remaining never goes below zero.
THEOREM ExecutorTyped == Spec => []TypeOK
<1>1. Inv => TypeOK
  <2> SUFFICES ASSUME Inv PROVE TypeOK
    OBVIOUS
  <2>1. allTasksSignal \in 0 .. 1
    BY DEF Inv, StageShape, Quiet, Signalled
  <2>2. tasksLeft \in Nat
    BY DEF Inv, StageShape
  <2> QED
    BY <2>1, <2>2 DEF Inv, Typed, Handshake, TypeOK
<1> QED
  BY <1>1, InvHolds, PTL

\* process_task calls a task function only after those of all its predecessors have
\* returned, and at most once per stage: whatever the graph, the number of workers and
\* the order of their decrements.
THEOREM TasksRunInOrder == Spec => []DependenciesRespected
<1>1. Inv => DependenciesRespected
  <2> SUFFICES ASSUME Inv, NEW x \in Runners, At(x, "function")
      PROVE  /\ task[x] \notin finished
             /\ {<<task[x][1], p>> : p \in Predecessors(task[x][1], task[x][2])} \subseteq finished
             /\ \A y \in Runners \ {x} : Busy(y) => task[y] # task[x]
    BY DEF DependenciesRespected
  <2>1. /\ x \in Live /\ Placed /\ Counted /\ task[x][1] = Stage
        /\ task[x][2] \in TaskOf(Stage) /\ task[x] = <<Stage, task[x][2]>> /\ Stage \in Stages
    BY LiveRunner DEF Inv, At
  <2>2. task[x] \notin finished
    BY <2>1 DEF Placed, Releasing, At
  <2>3. task[x] \in Introduced
    BY <2>1 DEF Introduced
  <2>4. \A p \in Predecessors(Stage, task[x][2]) : <<Stage, p>> \in finished
    BY <2>1, <2>3, PredecessorsFinished
  <2>5. \A y \in Runners \ {x} : Busy(y) => task[y] # task[x]
    <3>1. ASSUME NEW y \in Runners \ {x}, Busy(y) PROVE y \in Live
      BY <3>1, LiveRunner DEF Busy, Inv
    <3> QED
      BY <2>1, <3>1 DEF Placed
  <2> QED
    BY <2>1, <2>2, <2>4, <2>5
<1> QED
  BY <1>1, InvHolds, PTL

\* process_instrument_stage returns only when every task function of the stage has
\* returned and no thread is about to touch the counters that the next one resets.
THEOREM StagesEnd == Spec => []StageIsOver
<1>1. Inv => StageIsOver
  <2> SUFFICES ASSUME Inv, stream \in {"out", "pause", "finish", "chunk"}
      PROVE  /\ queue = {} /\ \A x \in Runners : ~Busy(x)
             /\ stream \in {"pause", "finish"} =>
                  /\ finished = {<<Head(todo), k>> : k \in TaskOf(Head(todo))}
                  /\ finished \subseteq didRun \cup {task[x] : x \in {y \in Runners : At(y, "profile")}}
    BY DEF StageIsOver
  <2>1. Quiet
    BY DEF Inv, StageShape, UnderWay
  <2>2. \A x \in Runners : ~Busy(x)
    BY <2>1, LiveRunner DEF Inv, Busy, Quiet
  <2>3. \A x \in Runners : ~At(x, "successors")
    BY <2>2 DEF Busy, At
  <2>4. CASE stream \in {"pause", "finish"}
    <3>1. finished = {<<Head(todo), k>> : k \in TaskOf(Head(todo))}
      BY <2>4 DEF Inv, StageShape, StageTasks, Stage
    <3>2. finished \subseteq didRun \cup {task[x] : x \in {y \in Runners : At(y, "profile")}}
      BY <2>3, <2>4 DEF Inv, Reported
    <3> QED
      BY <2>1, <2>2, <3>1, <3>2 DEF Quiet
  <2> QED
    BY <2>1, <2>2, <2>4 DEF Quiet
<1> QED
  BY <1>1, InvHolds, PTL

\* add_task ignores what c_thread_pool::add_task answers, and is right to: with max_tasks
\* from get_max_task_concurrency() there is always room.
THEOREM QueueIsLargeEnough == Spec => []NoTaskRefused
<1>1. Inv => NoTaskRefused
  BY DEF Inv
<1> QED
  BY <1>1, InvHolds, PTL

\* shutdown_internal() runs only when the callback is outside execute_internal and no task
\* is left: the handshake over m_state and m_shutdown_signal works for every interleaving.
THEOREM ShutdownWaits == Spec => []ShutdownIsQuiet
<1>1. Inv => ShutdownIsQuiet
  <2> SUFFICES ASSUME Inv, main = "internal"
      PROVE  /\ state = "uninitialized"
             /\ stream \notin {"chunk", "add", "wait", "pause", "finish"}
             /\ queue = {} /\ \A x \in Runners : ~Busy(x)
    BY DEF ShutdownIsQuiet
  <2>1. state = "uninitialized" /\ ~InChunk
    BY DEF Inv, Handshake, InChunk
  <2>2. Quiet
    BY <2>1 DEF Inv, StageShape, UnderWay, InChunk
  <2>3. \A x \in Runners : ~Busy(x)
    BY <2>2, LiveRunner DEF Inv, Busy, Quiet
  <2> QED
    BY <2>1, <2>2, <2>3 DEF Quiet, InChunk
<1> QED
  BY <1>1, InvHolds, PTL

=============================================================================
