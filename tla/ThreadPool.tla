----------------------------- MODULE ThreadPool -----------------------------
(***************************************************************************)
(* c_thread_pool (engine/thread_pool.cpp): worker threads that take tasks  *)
(* from a lock-free queue, a pause made of an atomic flag, a mutex and a   *)
(* condition variable, and one owner thread that starts, pauses, resumes   *)
(* and stops them.  With no worker the owner runs the tasks in resume().   *)
(*                                                                         *)
(* The queue is a set: c_lock_free_queue keeps what is pushed until it is  *)
(* popped, but with several producers promises no order (LockFreeQueue).   *)
(***************************************************************************)
EXTENDS Integers, FiniteSets

CONSTANTS
  Workers,    \* the worker threads a start can create, at most
  Tasks,      \* the tasks the clients add, whatever identifies them
  MaxTasks    \* settings.max_tasks

Terminate == <<"terminate">>   \* the task without a function
NoTask == <<"no_task">>
Owner == "owner"

ASSUME ThreadPoolAssumption ==
  /\ IsFiniteSet(Workers) /\ IsFiniteSet(Tasks)
  /\ MaxTasks \in Nat \ {0}
  /\ Owner \notin Workers /\ Terminate \notin Tasks /\ NoTask \notin Tasks

VARIABLES
  threads,       \* m_threads
  queue,         \* the tasks in m_pending_tasks
  terminates,    \* the terminate tasks in m_pending_tasks
  checkPaused,   \* m_check_paused
  paused,        \* m_paused
  mutex,         \* m_pause_mutex: {} or the thread that holds it
  pc,            \* where each worker is
  task,          \* the task each worker, or the owner in resume(), has popped
  owner,         \* where the owner is
  stopping       \* the owner is in stop()

queueVars == <<queue, terminates>>
pauseVars == <<checkPaused, paused, mutex>>
poolVars == <<threads, queueVars, pauseVars, pc, task, owner, stopping>>

PoolInit ==
  /\ threads = {} /\ queue = {} /\ terminates = 0
  /\ checkPaused = FALSE /\ paused = FALSE /\ mutex = {}
  /\ pc = [w \in Workers |-> "off"]
  /\ task = [x \in Workers \cup {Owner} |-> NoTask]
  /\ owner = "off" /\ stopping = FALSE

Goto(w, step) == pc' = [pc EXCEPT ![w] = step]

\* A mutated Capacity: no elements set aside for termination.
CapacityForTasks == MaxTasks

\* A mutated Capacity: the dummy is forgotten.
CapacityWithDummy == MaxTasks + Cardinality(threads) - 1

\* "N tasks for thread termination plus an extra element for lock free lists":
\* the extra element is the queue's dummy and stores no task.
Capacity == MaxTasks + Cardinality(threads)

\* A pop keeps its node until it has freed it.
Unfreed == {w \in Workers : pc[w] = "pop_free"}

\* What m_pending_tasks.push returns.
HasRoom == Cardinality(queue) + terminates + Cardinality(Unfreed) < Capacity

AddTask(k) == queue' = IF HasRoom THEN queue \cup {k} ELSE queue

-----------------------------------------------------------------------------
(* The owner                                                               *)

Start(set, startPaused) ==
  /\ owner = "off"
  /\ threads' = set
  /\ queue' = {} /\ terminates' = 0
  /\ checkPaused' = startPaused /\ paused' = startPaused
  /\ pc' = [w \in Workers |-> IF w \in set THEN "check" ELSE "off"]
  /\ owner' = "ready"
  /\ UNCHANGED <<mutex, task, stopping>>

\* pause(): the flag first, then m_paused under the mutex.
Pause ==
  /\ owner = "ready" /\ ~checkPaused
  /\ checkPaused' = TRUE
  /\ owner' = "pause_lock"
  /\ UNCHANGED <<threads, queueVars, paused, mutex, pc, task, stopping>>

PauseLock ==
  /\ owner = "pause_lock" /\ mutex = {}
  /\ paused' = TRUE
  /\ owner' = "ready"
  /\ UNCHANGED <<threads, queueVars, checkPaused, mutex, pc, task, stopping>>

\* The exchange with which resume() begins.
BeginResume ==
  /\ checkPaused' = FALSE
  /\ owner' = "resume_lock"

Resume ==
  /\ owner = "ready" /\ checkPaused
  /\ BeginResume
  /\ UNCHANGED <<threads, queueVars, paused, mutex, pc, task, stopping>>

\* A mutated ResumeLock: m_paused is cleared without the mutex.
ResumeUnlocked ==
  /\ owner = "resume_lock"
  /\ paused' = FALSE
  /\ owner' = "resume_notify"
  /\ UNCHANGED <<threads, queueVars, checkPaused, mutex, pc, task, stopping>>

ResumeLock ==
  /\ owner = "resume_lock" /\ mutex = {}
  /\ paused' = FALSE
  /\ owner' = "resume_notify"
  /\ UNCHANGED <<threads, queueVars, checkPaused, mutex, pc, task, stopping>>

AfterResume == IF stopping THEN "stop_join" ELSE "ready"

\* notify_all; without workers the pending tasks are executed at once.
ResumeNotify ==
  /\ owner = "resume_notify"
  /\ pc' = [w \in Workers |-> IF pc[w] = "waiting" THEN "woken" ELSE pc[w]]
  /\ owner' = IF threads = {} THEN "sync" ELSE AfterResume
  /\ UNCHANGED <<threads, queueVars, pauseVars, task, stopping>>

\* execute_all_tasks_synchronous pops and frees a node, then runs the task.
SyncPop ==
  /\ owner = "sync"
  /\ \/ \E k \in queue :
          /\ queue' = queue \ {k}
          /\ task' = [task EXCEPT ![Owner] = k]
          /\ owner' = "sync_run"
     \/ /\ queue = {}
        /\ owner' = AfterResume
        /\ UNCHANGED <<queue, task>>
  /\ UNCHANGED <<threads, terminates, pauseVars, pc, stopping>>

SyncDone ==
  /\ owner = "sync_run"
  /\ task' = [task EXCEPT ![Owner] = NoTask]
  /\ owner' = "sync"
  /\ UNCHANGED <<threads, queueVars, pauseVars, pc, stopping>>

Stop ==
  /\ owner = "ready"
  /\ stopping' = TRUE
  /\ owner' = "stop_push"
  /\ UNCHANGED <<threads, queueVars, pauseVars, pc, task>>

\* A terminate task for each thread, one after the other; "told" counts them.
\* Workers may take the first ones before the last is pushed.
StopPush(told) ==
  /\ owner = "stop_push" /\ told < Cardinality(threads)
  /\ terminates' = IF HasRoom THEN terminates + 1 ELSE terminates
  /\ UNCHANGED <<threads, queue, pauseVars, pc, task, owner, stopping>>

\* A mutated StopPushed: it joins without resuming.
StopPushedPaused(told) ==
  /\ owner = "stop_push" /\ told = Cardinality(threads)
  /\ owner' = "stop_join"
  /\ UNCHANGED <<threads, queueVars, pauseVars, pc, task, stopping>>

\* All are pushed: resume() if the pool is paused, then join.
StopPushed(told) ==
  /\ owner = "stop_push" /\ told = Cardinality(threads)
  /\ \/ checkPaused /\ BeginResume
     \/ ~checkPaused /\ owner' = "stop_join" /\ UNCHANGED checkPaused
  /\ UNCHANGED <<threads, queueVars, paused, mutex, pc, task, stopping>>

\* A mutated StopJoined: it drains the queue without joining.
StopUnjoined ==
  /\ owner = "stop_join"
  /\ threads' = {}
  /\ queue' = {} /\ terminates' = 0
  /\ pc' = [w \in Workers |-> "off"]
  /\ task' = [x \in Workers \cup {Owner} |-> NoTask]
  /\ owner' = "off" /\ stopping' = FALSE
  /\ UNCHANGED pauseVars

\* join returns when every worker has ended; what is left is drained and counted.
StopJoined ==
  /\ owner = "stop_join"
  /\ \A w \in threads : pc[w] = "ended"
  /\ threads' = {}
  /\ queue' = {} /\ terminates' = 0
  /\ pc' = [w \in Workers |-> "off"]
  /\ task' = [x \in Workers \cup {Owner} |-> NoTask]
  /\ owner' = "off" /\ stopping' = FALSE
  /\ UNCHANGED pauseVars

Unexecuted == Cardinality(queue) + terminates

-----------------------------------------------------------------------------
(* A worker: worker_thread_entry_point                                     *)

Check(w) ==
  /\ pc[w] = "check"
  /\ Goto(w, IF checkPaused THEN "lock" ELSE "pop")
  /\ UNCHANGED <<threads, queueVars, pauseVars, task, owner, stopping>>

\* A mutated Lock: it does not wait for the mutex.
LockAnyway(w) ==
  /\ pc[w] = "lock"
  /\ mutex' = mutex \cup {w}
  /\ Goto(w, "test")
  /\ UNCHANGED <<threads, queueVars, checkPaused, paused, task, owner, stopping>>

Lock(w) ==
  /\ pc[w] = "lock" /\ mutex = {}
  /\ mutex' = {w}
  /\ Goto(w, "test")
  /\ UNCHANGED <<threads, queueVars, checkPaused, paused, task, owner, stopping>>

Test(w) ==
  /\ pc[w] = "test"
  /\ \/ paused /\ Goto(w, "wait") /\ UNCHANGED mutex
     \/ ~paused /\ Goto(w, "check") /\ mutex' = {}
  /\ UNCHANGED <<threads, queueVars, checkPaused, paused, task, owner, stopping>>

\* The condition variable releases the mutex and sleeps in one step.
Wait(w) ==
  /\ pc[w] = "wait"
  /\ mutex' = {}
  /\ Goto(w, "waiting")
  /\ UNCHANGED <<threads, queueVars, checkPaused, paused, task, owner, stopping>>

SpuriousWake(w) ==
  /\ pc[w] = "waiting"
  /\ Goto(w, "woken")
  /\ UNCHANGED <<threads, queueVars, pauseVars, task, owner, stopping>>

\* A woken thread takes the mutex, and gives it up at the end of its scope.
Woken(w) ==
  /\ pc[w] = "woken" /\ mutex = {}
  /\ Goto(w, "check")
  /\ UNCHANGED <<threads, queueVars, pauseVars, task, owner, stopping>>

Pop(w) ==
  /\ pc[w] = "pop"
  /\ \/ \E k \in queue :
          /\ queue' = queue \ {k}
          /\ task' = [task EXCEPT ![w] = k]
          /\ Goto(w, "pop_free")
          /\ UNCHANGED terminates
     \/ /\ terminates > 0
        /\ terminates' = terminates - 1
        /\ task' = [task EXCEPT ![w] = Terminate]
        /\ Goto(w, "pop_free")
        /\ UNCHANGED queue
     \/ /\ queue = {} /\ terminates = 0
        /\ Goto(w, "check")
        /\ UNCHANGED <<queueVars, task>>
  /\ UNCHANGED <<threads, pauseVars, owner, stopping>>

PopFree(w) ==
  /\ pc[w] = "pop_free"
  /\ Goto(w, IF task[w] = Terminate THEN "ended" ELSE "run")
  /\ UNCHANGED <<threads, queueVars, pauseVars, task, owner, stopping>>

\* The task function has returned.
TaskDone(w) ==
  /\ pc[w] = "run"
  /\ task' = [task EXCEPT ![w] = NoTask]
  /\ Goto(w, "check")
  /\ UNCHANGED <<threads, queueVars, pauseVars, owner, stopping>>

\* The loop up to the call of a task function.
Loop(w) == Check(w) \/ Lock(w) \/ Test(w) \/ Wait(w) \/ Woken(w) \/ Pop(w) \/ PopFree(w)

\* The owner's steps inside a call, the runs of task functions apart.
OwnerSteps == PauseLock \/ ResumeLock \/ ResumeNotify \/ SyncPop \/ StopJoined
=============================================================================
