------------------------- MODULE ThreadPool_proofs -------------------------
(***************************************************************************)
(* Proofs about ThreadPool under ThreadPoolClient, for any finite set of   *)
(* workers and of tasks, any queue size and any number of calls: no        *)
(* wake-up is lost.                                                        *)
(***************************************************************************)
EXTENDS ThreadPoolClient, FiniteSetTheorems, TLAPS

\* The pause mutex is held by the one worker between its lock and its wait.
MutexHeld == \A w \in Workers : pc[w] \in {"test", "wait"} <=> mutex = {w}

\* A worker outside m_threads does not run, and no thread outlives stop().
ThreadsRun ==
  /\ \A w \in Workers : w \notin threads => pc[w] = "off"
  /\ owner = "off" => threads = {}

\* A thread has a task from its pop until the task function returns; a worker
\* keeps the one that ended it.
TasksHeld ==
  /\ \A w \in Workers :
       /\ pc[w] = "pop_free" => task[w] \in Tasks \cup {Terminate}
       /\ pc[w] = "run" => task[w] \in Tasks
       /\ pc[w] = "ended" => task[w] = Terminate
       /\ pc[w] \notin {"pop_free", "run", "ended"} => task[w] = NoTask
  /\ IF owner = "sync_run" THEN task[Owner] \in Tasks ELSE task[Owner] = NoTask

Basics == TypeOK /\ TasksHeld /\ MutexHeld /\ ThreadsRun

-----------------------------------------------------------------------------
(* Types                                                                   *)

LEMMA UnexecutedType == TypeOK => Unexecuted \in Nat
<1> SUFFICES ASSUME TypeOK PROVE Unexecuted \in Nat
  OBVIOUS
<1>1. IsFiniteSet(queue)
  BY ThreadPoolAssumption, FS_Subset DEF TypeOK
<1> QED
  BY <1>1, FS_CardinalityType DEF TypeOK, Unexecuted

LEMMA BasicsStep == Basics /\ [Next]_vars => Basics'
<1> SUFFICES ASSUME Basics, [Next]_vars PROVE Basics'
  OBVIOUS
<1> USE ThreadPoolAssumption, ClientAssumption 
     DEF Basics, TypeOK, TasksHeld, MutexHeld, ThreadsRun, Goto, pauseVars, queueVars, clientVars
<1>1. CASE ClientStart
  BY <1>1 DEF ClientStart, Start
<1>2. CASE ClientPause
  BY <1>2 DEF ClientPause, Pause
<1>3. CASE ClientResume
  BY <1>3 DEF ClientResume, Resume, BeginResume
<1>4. CASE ClientStop
  BY <1>4 DEF ClientStop, Stop
<1>5. ASSUME NEW x \in Workers \cup {Owner}, NEW k \in Tasks, ClientAdd(x, k)
      PROVE  Basics'
  BY <1>5 DEF ClientAdd, AddTask
<1>6. CASE PauseLock /\ UNCHANGED clientVars
  BY <1>6 DEF PauseLock
<1>7. CASE ResumeLock /\ UNCHANGED clientVars
  BY <1>7 DEF ResumeLock
<1>8. CASE ResumeNotify /\ UNCHANGED clientVars
  BY <1>8 DEF ResumeNotify, AfterResume
<1>9. CASE SyncPop /\ UNCHANGED clientVars
  BY <1>9 DEF SyncPop, AfterResume
<1>10. CASE Execute(Owner)
  BY <1>10 DEF Execute, SyncDone
<1>11. CASE PushTerminate
  BY <1>11 DEF PushTerminate, StopPush
<1>12. CASE ResumeOrJoin
  BY <1>12 DEF ResumeOrJoin, StopPushed, BeginResume
<1>13. CASE Joined
  BY <1>13, UnexecutedType DEF Joined, StopJoined
<1>14. ASSUME NEW w \in Workers, Check(w) /\ UNCHANGED clientVars
       PROVE  Basics'
  BY <1>14 DEF Check
<1>15. ASSUME NEW w \in Workers, Lock(w) /\ UNCHANGED clientVars
       PROVE  Basics'
  BY <1>15 DEF Lock
<1>16. ASSUME NEW w \in Workers, Test(w) /\ UNCHANGED clientVars
       PROVE  Basics'
  BY <1>16 DEF Test
<1>17. ASSUME NEW w \in Workers, Wait(w) /\ UNCHANGED clientVars
       PROVE  Basics'
  BY <1>17 DEF Wait
<1>18. ASSUME NEW w \in Workers, Woken(w) /\ UNCHANGED clientVars
       PROVE  Basics'
  BY <1>18 DEF Woken
<1>19. ASSUME NEW w \in Workers, Pop(w) /\ UNCHANGED clientVars
       PROVE  Basics'
  BY <1>19 DEF Pop
<1>20. ASSUME NEW w \in Workers, PopFree(w) /\ UNCHANGED clientVars
       PROVE  Basics'
  BY <1>20 DEF PopFree
<1>21. ASSUME NEW w \in Workers, Execute(w)
       PROVE  Basics'
  BY <1>21 DEF Execute, TaskDone
<1>22. ASSUME NEW w \in Workers, SpuriousWake(w) /\ UNCHANGED clientVars
       PROVE  Basics'
  BY <1>22 DEF SpuriousWake
<1>23. CASE UNCHANGED vars
  BY <1>23 DEF vars, poolVars
<1> QED
  BY <1>1, <1>2, <1>3, <1>4, <1>5, <1>6, <1>7, <1>8, <1>9, <1>10, <1>11, <1>12, <1>13, <1>14,
     <1>15, <1>16, <1>17, <1>18, <1>19, <1>20, <1>21, <1>22, <1>23
     DEF Next, OwnerInside, WorkerStep, Loop

-----------------------------------------------------------------------------
(* No wake-up is lost                                                      *)

LEMMA WakeStep == Basics /\ NoLostWakeup /\ [Next]_vars => NoLostWakeup'
<1> SUFFICES ASSUME Basics, NoLostWakeup, [Next]_vars PROVE NoLostWakeup'
  OBVIOUS
<1> USE DEF Basics, TypeOK, NoLostWakeup, Goto, pauseVars, queueVars, clientVars
<1>1. CASE ClientStart \/ ClientPause \/ ClientResume \/ ClientStop
  BY <1>1 DEF ClientStart, ClientPause, ClientResume, ClientStop, Start, Pause, Resume,
              BeginResume, Stop
<1>2. CASE \E x \in Workers \cup {Owner}, k \in Tasks : ClientAdd(x, k)
  BY <1>2 DEF ClientAdd
\* m_paused is cleared under the mutex: nobody is between its test and its wait.
<1>3. CASE ResumeLock
  BY <1>3 DEF ResumeLock, MutexHeld
<1>4. CASE ResumeNotify
  BY <1>4 DEF ResumeNotify
<1>5. CASE PauseLock \/ SyncPop \/ Execute(Owner)
  BY <1>5 DEF PauseLock, SyncPop, AfterResume, Execute, SyncDone
<1>6. CASE PushTerminate \/ ResumeOrJoin \/ Joined
  BY <1>6 DEF PushTerminate, StopPush, ResumeOrJoin, StopPushed, BeginResume, Joined, StopJoined
\* A worker decides to wait only when it reads m_paused set.
<1>7. ASSUME NEW w \in Workers, Check(w) \/ Lock(w) \/ Test(w) \/ Wait(w) \/ Woken(w)
      PROVE  NoLostWakeup'
  BY <1>7 DEF Check, Lock, Test, Wait, Woken
<1>8. ASSUME NEW w \in Workers, Pop(w) \/ PopFree(w) \/ Execute(w) \/ SpuriousWake(w)
      PROVE  NoLostWakeup'
  BY <1>8, ThreadPoolAssumption DEF Pop, PopFree, Execute, TaskDone, SpuriousWake
<1>9. CASE UNCHANGED vars
  BY <1>9 DEF vars, poolVars
<1> QED
  BY <1>1, <1>2, <1>3, <1>4, <1>5, <1>6, <1>7, <1>8, <1>9
     DEF Next, OwnerInside, WorkerStep, Loop

-----------------------------------------------------------------------------
(* Every worker is told to end                                             *)

\* The workers that have a task to run but have not freed its node.
Unstarted == {w \in Unfreed : task[w] # Terminate}

\* The workers that have taken a terminate task.
Ending == {w \in Workers : task[w] = Terminate}

\* stop() pushes one terminate task for each thread, each of them is waiting or
\* taken, and the other tasks have no more than their own elements.
StopCounts ==
  /\ owner # "off" => terminates + Cardinality(Ending) = told
  /\ owner \in {"off", "ready", "pause_lock"} => ~stopping
  /\ owner \in {"stop_push", "stop_join"} => stopping
  /\ ~stopping /\ owner # "off" => told = 0
  /\ owner = "stop_push" => told <= Cardinality(threads)
  /\ stopping /\ owner # "stop_push" => told = Cardinality(threads)
  /\ Waiting <= MaxTasks

LEMMA Finite ==
  ASSUME TypeOK
  PROVE  /\ IsFiniteSet(threads) /\ IsFiniteSet(queue) /\ IsFiniteSet(Unfreed)
         /\ IsFiniteSet(Unstarted) /\ IsFiniteSet(Ending)
         /\ Cardinality(threads) \in Nat /\ Cardinality(queue) \in Nat
         /\ Cardinality(Unfreed) \in Nat
         /\ Cardinality(Unstarted) \in Nat /\ Cardinality(Ending) \in Nat
<1>1. /\ threads \in SUBSET Workers /\ queue \in SUBSET Tasks /\ Unfreed \in SUBSET Workers
      /\ Unstarted \in SUBSET Workers /\ Ending \in SUBSET Workers
  BY DEF TypeOK, Unfreed, Unstarted, Ending
<1>2. /\ IsFiniteSet(threads) /\ IsFiniteSet(queue) /\ IsFiniteSet(Unfreed)
      /\ IsFiniteSet(Unstarted) /\ IsFiniteSet(Ending)
  BY <1>1, ThreadPoolAssumption, FS_Subset
<1> QED
  BY <1>2, FS_CardinalityType

\* While fewer terminate tasks are pushed than there are threads, there is room
\* for one more: the nodes that are still to be freed after the pop of a
\* terminate task are among those set aside for termination.
LEMMA RoomToTerminate ==
  ASSUME Basics, StopCounts, owner = "stop_push", told < Cardinality(threads)
  PROVE  HasRoom
<1>1. Unfreed \subseteq Unstarted \cup Ending
  BY DEF Unfreed, Unstarted, Ending
<1>2. Cardinality(Unfreed) <= Cardinality(Unstarted \cup Ending)
  BY <1>1, Finite, FS_Union, FS_Subset DEF Basics
<1>3. /\ Cardinality(Unstarted \cup Ending)
          = Cardinality(Unstarted) + Cardinality(Ending) - Cardinality(Unstarted \cap Ending)
      /\ Cardinality(Unstarted \cap Ending) \in Nat
  BY Finite, FS_Union, FS_Intersection, FS_CardinalityType DEF Basics
<1>4. Cardinality(Unstarted) + Cardinality(queue) <= MaxTasks
  BY Finite DEF StopCounts, Waiting, Unstarted, Basics
<1> QED
  BY <1>2, <1>3, <1>4, Finite, ThreadPoolAssumption
     DEF StopCounts, HasRoom, Capacity, Basics, TypeOK

LEMMA CountsStep == Basics /\ StopCounts /\ [Next]_vars => StopCounts'
<1> SUFFICES ASSUME Basics, StopCounts, [Next]_vars PROVE StopCounts'
  OBVIOUS
<1>0. Basics'
  BY BasicsStep
<1>f. /\ IsFiniteSet(threads) /\ IsFiniteSet(queue)
      /\ IsFiniteSet(Unstarted) /\ IsFiniteSet(Ending)
      /\ Cardinality(threads) \in Nat /\ Cardinality(queue) \in Nat
      /\ Cardinality(Unstarted) \in Nat /\ Cardinality(Ending) \in Nat
  BY Finite DEF Basics
<1>w. Waiting = Cardinality(queue) + Cardinality(Unstarted)
  BY DEF Waiting, Unstarted
<1>v. Waiting' = Cardinality(queue)' + Cardinality(Unstarted)'
  BY DEF Waiting, Unstarted
<1>n. MaxTasks \in Nat /\ told \in Nat /\ terminates \in Nat /\ stopping \in BOOLEAN
  BY ThreadPoolAssumption DEF Basics, TypeOK
<1>s. ASSUME UNCHANGED <<pc, task>> PROVE Unstarted' = Unstarted /\ Ending' = Ending
  BY <1>s DEF Unstarted, Ending, Unfreed
<1> USE DEF StopCounts, pauseVars, queueVars, clientVars
<1>1. CASE ClientStart
  <2>1. Unstarted' = {} /\ Ending' = {}
    BY <1>1, <1>0 DEF ClientStart, Start, Unstarted, Ending, Unfreed, Basics, TypeOK, TasksHeld,
                      NoTask, Terminate
  <2> QED
    BY <1>1, <2>1, <1>n, <1>v, FS_EmptySet DEF ClientStart, Start
<1>2. CASE ClientPause \/ ClientResume \/ ClientStop
  <2>1. UNCHANGED <<pc, task, queue, terminates, told, threads>>
    BY <1>2 DEF ClientPause, ClientResume, ClientStop, Pause, Resume, BeginResume, Stop
  <2>2. Unstarted' = Unstarted /\ Ending' = Ending
    BY <2>1, <1>s
  <2>3. /\ owner = "ready" /\ ~stopping
        /\ \/ owner' = "stop_push" /\ stopping' = TRUE
           \/ owner' \in {"pause_lock", "resume_lock"} /\ stopping' = FALSE
    BY <1>2, <1>n
       DEF ClientPause, ClientResume, ClientStop, Pause, Resume, BeginResume, Stop
  <2>4. told' = 0 /\ terminates' + Cardinality(Ending') = 0
    BY <2>1, <2>2, <2>3
  <2>5. Waiting' <= MaxTasks
    BY <2>1, <2>2, <1>w, <1>v
  <2>6. 0 <= Cardinality(threads')
    BY <2>1, <1>f
  <2> QED
    BY <2>3, <2>4, <2>5, <2>6
\* The client waits until there is room for its task.
<1>3. ASSUME NEW x \in Workers \cup {Owner}, NEW k \in Tasks, ClientAdd(x, k)
      PROVE  StopCounts'
  <2>1. UNCHANGED <<pc, task>> /\ Waiting < MaxTasks
    BY <1>3 DEF ClientAdd
  <2>a. /\ IsFiniteSet(queue \cup {k})
        /\ Cardinality(queue \cup {k}) =
             IF k \in queue THEN Cardinality(queue) ELSE Cardinality(queue) + 1
    BY <1>f, FS_AddElement, Zenon
  <2>0. /\ IsFiniteSet(queue \cup {k})
        /\ Cardinality(queue \cup {k}) <= Cardinality(queue) + 1
    BY <1>f, <2>a
  <2>2. Cardinality(queue \cup {k}) \in Nat
    BY <2>0, FS_CardinalityType
  <2>3. /\ Cardinality(queue') \in Nat
        /\ Cardinality(queue') <= Cardinality(queue) + 1
    BY <1>3, <1>f, <2>0, <2>2 DEF ClientAdd, AddTask
  <2> QED
    BY <1>3, <2>1, <2>3, <1>s, <1>w, <1>v, <1>f, <1>n DEF ClientAdd
<1>4. CASE (PauseLock \/ ResumeLock) /\ UNCHANGED clientVars
  <2>1. UNCHANGED <<pc, task, queue, terminates, threads, stopping>>
    BY <1>4 DEF PauseLock, ResumeLock
  <2>2. Unstarted' = Unstarted /\ Ending' = Ending
    BY <2>1, <1>s
  <2> QED
    BY <1>4, <2>1, <2>2, <1>w, <1>v, <1>f, <1>n DEF PauseLock, ResumeLock
<1>5. CASE ResumeNotify /\ UNCHANGED clientVars
  <2>1. Unstarted' = Unstarted /\ Ending' = Ending
    BY <1>5 DEF ResumeNotify, Unstarted, Ending, Unfreed, Basics, TypeOK
  <2> QED
    BY <1>5, <2>1, <1>w, <1>v, <1>f, <1>n DEF ResumeNotify, AfterResume
<1>6. CASE SyncPop /\ UNCHANGED clientVars
  <2>1. Unstarted' = Unstarted /\ Ending' = Ending
    BY <1>6, ThreadPoolAssumption DEF SyncPop, Unstarted, Ending, Unfreed, Basics, TypeOK
  <2>2. queue' \in SUBSET queue
    BY <1>6 DEF SyncPop
  <2>3. Cardinality(queue') \in Nat /\ Cardinality(queue') <= Cardinality(queue)
    BY <2>2, <1>f, FS_Subset, FS_CardinalityType
  <2>4. /\ UNCHANGED <<terminates, told, threads, stopping>>
        /\ owner = "sync"
        /\ owner' = "sync_run" \/ owner' = AfterResume
    BY <1>6 DEF SyncPop
  <2> QED
    BY <2>1, <2>3, <2>4, <1>w, <1>v, <1>f, <1>n DEF AfterResume
<1>7. CASE Execute(Owner)
  <2>1. Unstarted' = Unstarted /\ Ending' = Ending
    BY <1>7, ThreadPoolAssumption
       DEF Execute, SyncDone, Unstarted, Ending, Unfreed, Basics, TypeOK
  <2> QED
    BY <1>7, <2>1, <1>w, <1>v, <1>f, <1>n DEF Execute, SyncDone
<1>8. CASE PushTerminate
  <2>1. HasRoom
    BY <1>8, RoomToTerminate DEF PushTerminate, StopPush
  <2> QED
    BY <1>8, <2>1, <1>s, <1>w, <1>v, <1>f, <1>n DEF PushTerminate, StopPush
<1>9. CASE ResumeOrJoin
  BY <1>9, <1>s, <1>w, <1>v, <1>f, <1>n DEF ResumeOrJoin, StopPushed, BeginResume
<1>10. CASE Joined
  <2>1. Unstarted' = {}
    BY <1>10 DEF Joined, StopJoined, Unstarted, Unfreed
  <2> QED
    BY <1>10, <2>1, <1>v, <1>n, FS_EmptySet DEF Joined, StopJoined
<1>11. ASSUME NEW w \in Workers, UNCHANGED clientVars,
              Check(w) \/ Lock(w) \/ Test(w) \/ Wait(w) \/ Woken(w) \/ SpuriousWake(w)
       PROVE  StopCounts'
  <2>1. Unstarted' = Unstarted /\ Ending' = Ending
    BY <1>11 DEF Check, Lock, Test, Wait, Woken, SpuriousWake, Goto, Unstarted, Ending, Unfreed,
                 Basics, TypeOK
  <2>2. UNCHANGED <<queueVars, threads, owner, stopping>>
    BY <1>11 DEF Check, Lock, Test, Wait, Woken, SpuriousWake
  <2> QED
    BY <1>11, <2>1, <2>2, <1>w, <1>v, <1>f, <1>n
<1>12. ASSUME NEW w \in Workers, Pop(w) /\ UNCHANGED clientVars
       PROVE  StopCounts'
  <2>0. pc[w] = "pop" /\ w \notin Unstarted /\ w \notin Ending
    BY <1>12 DEF Pop, Unstarted, Unfreed, Ending, Basics, TasksHeld, NoTask, Terminate
  <2>1. CASE \E k \in queue :
               /\ queue' = queue \ {k} /\ task' = [task EXCEPT ![w] = k]
               /\ Goto(w, "pop_free") /\ UNCHANGED terminates
    <3>1. PICK k \in queue :
               /\ queue' = queue \ {k} /\ task' = [task EXCEPT ![w] = k]
               /\ Goto(w, "pop_free") /\ UNCHANGED terminates
      BY <2>1
    <3>2. k \in Tasks /\ k # Terminate
      BY ThreadPoolAssumption DEF Basics, TypeOK
    <3>3. Unstarted' = Unstarted \cup {w} /\ Ending' = Ending
      BY <3>1, <3>2, <2>0 DEF Goto, Unstarted, Unfreed, Ending, Basics, TypeOK
    <3>4. /\ Cardinality(Unstarted') = Cardinality(Unstarted) + 1
          /\ Cardinality(queue') = Cardinality(queue) - 1
      BY <3>1, <3>3, <2>0, <1>f, FS_AddElement, FS_RemoveElement
    <3> QED
      BY <1>12, <3>1, <3>3, <3>4, <1>w, <1>v, <1>f, <1>n DEF Pop
  <2>2. CASE /\ terminates > 0 /\ terminates' = terminates - 1
             /\ task' = [task EXCEPT ![w] = Terminate]
             /\ Goto(w, "pop_free") /\ UNCHANGED queue
    <3>1. Unstarted' = Unstarted /\ Ending' = Ending \cup {w}
      BY <2>2, <2>0 DEF Goto, Unstarted, Unfreed, Ending, Basics, TypeOK
    <3>2. Cardinality(Ending') = Cardinality(Ending) + 1
      BY <3>1, <2>0, <1>f, FS_AddElement
    <3> QED
      BY <1>12, <2>2, <3>1, <3>2, <1>w, <1>v, <1>f, <1>n DEF Pop
  <2>3. CASE Goto(w, "check") /\ UNCHANGED <<queueVars, task>>
    <3>1. Unstarted' = Unstarted /\ Ending' = Ending
      BY <2>3, <2>0 DEF Goto, Unstarted, Unfreed, Ending, Basics, TypeOK
    <3> QED
      BY <1>12, <2>3, <3>1, <1>w, <1>v, <1>f, <1>n DEF Pop
  <2> QED
    BY <1>12, <2>1, <2>2, <2>3 DEF Pop
<1>13. ASSUME NEW w \in Workers, PopFree(w) /\ UNCHANGED clientVars
       PROVE  StopCounts'
  <2>1. Unstarted' \in SUBSET Unstarted /\ Ending' = Ending
    BY <1>13 DEF PopFree, Goto, Unstarted, Unfreed, Ending, Basics, TypeOK
  <2>2. Cardinality(Unstarted') \in Nat /\ Cardinality(Unstarted') <= Cardinality(Unstarted)
    BY <2>1, <1>f, FS_Subset, FS_CardinalityType
  <2> QED
    BY <1>13, <2>1, <2>2, <1>w, <1>v, <1>f, <1>n DEF PopFree
<1>14. ASSUME NEW w \in Workers, Execute(w)
       PROVE  StopCounts'
  <2>0. Execute(w) /\ w # Owner
    BY <1>14, ThreadPoolAssumption
  <2>1. task[w] # Terminate
    BY <2>0, ThreadPoolAssumption DEF Execute, TaskDone, Basics, TasksHeld
  <2>2. Unstarted' = Unstarted /\ Ending' = Ending
    BY <2>0, <2>1 DEF Execute, TaskDone, Goto, Unstarted, Unfreed, Ending, Basics, TypeOK, NoTask,
                     Terminate
  <2> QED
    BY <2>0, <2>2, <1>w, <1>v, <1>f, <1>n DEF Execute, TaskDone
<1>15. CASE UNCHANGED vars
  BY <1>15, <1>s, <1>w, <1>v, <1>f, <1>n DEF vars, poolVars
<1> QED
  BY <1>1, <1>2, <1>3, <1>4, <1>5, <1>6, <1>7, <1>8, <1>9, <1>10, <1>11, <1>12, <1>13, <1>14,
     <1>15 DEF Next, OwnerInside, WorkerStep, Loop

LEMMA CountsTold == Basics /\ StopCounts => EveryWorkerTold
<1> SUFFICES ASSUME Basics, StopCounts, owner = "stop_join"
             PROVE  terminates + Cardinality({w \in threads : task[w] = Terminate})
                      = Cardinality(threads)
  BY DEF EveryWorkerTold
<1>1. {w \in threads : task[w] = Terminate} = Ending
  BY DEF Ending, Basics, TypeOK, ThreadsRun, TasksHeld, NoTask, Terminate
<1> QED
  BY <1>1 DEF StopCounts

-----------------------------------------------------------------------------
(* Every task that was added is executed, waiting or under way             *)

Threads == Workers \cup {Owner}

\* A task is in one place, and has been added exactly if it is somewhere.
TasksOnce ==
  owner # "off" =>
    \A k \in Tasks :
      /\ k \in added <=> k \in executed \/ k \in queue \/ \E x \in Threads : task[x] = k
      /\ k \notin executed \/ k \notin queue
      /\ \A x \in Threads : task[x] = k => k \notin executed /\ k \notin queue
      /\ \A x, y \in Threads : task[x] = k /\ task[y] = k => x = y

LEMMA OnceStep == Basics /\ TasksOnce /\ [Next]_vars => TasksOnce'
<1> SUFFICES ASSUME Basics, TasksOnce, [Next]_vars PROVE TasksOnce'
  OBVIOUS
<1> USE ThreadPoolAssumption DEF TasksOnce, Threads, Basics, TypeOK, TasksHeld, Goto, pauseVars, queueVars, clientVars
<1>1. CASE ClientStart
  BY <1>1 DEF ClientStart, Start, ThreadsRun
<1>2. CASE ClientPause \/ ClientResume \/ ClientStop
  BY <1>2 DEF ClientPause, ClientResume, ClientStop, Pause, Resume, BeginResume, Stop
<1>3. ASSUME NEW x \in Workers \cup {Owner}, NEW k \in Tasks, ClientAdd(x, k)
      PROVE  TasksOnce'
  BY <1>3 DEF ClientAdd, AddTask, MayAdd, ThreadsRun
<1>4. CASE (PauseLock \/ ResumeLock \/ ResumeNotify) /\ UNCHANGED clientVars
  BY <1>4 DEF PauseLock, ResumeLock, ResumeNotify
<1>5. CASE SyncPop /\ UNCHANGED clientVars
  BY <1>5 DEF SyncPop
<1>6. CASE Execute(Owner)
  BY <1>6 DEF Execute, SyncDone
<1>7. CASE PushTerminate \/ ResumeOrJoin \/ Joined
  BY <1>7 DEF PushTerminate, StopPush, ResumeOrJoin, StopPushed, BeginResume, Joined, StopJoined
<1>8. ASSUME NEW w \in Workers, UNCHANGED clientVars,
             Check(w) \/ Lock(w) \/ Test(w) \/ Wait(w) \/ Woken(w) \/ SpuriousWake(w) \/ PopFree(w)
      PROVE  TasksOnce'
  BY <1>8 DEF Check, Lock, Test, Wait, Woken, SpuriousWake, PopFree
<1>9. ASSUME NEW w \in Workers, Pop(w) /\ UNCHANGED clientVars
      PROVE  TasksOnce'
  BY <1>9 DEF Pop
<1>10. ASSUME NEW w \in Workers, Execute(w)
       PROVE  TasksOnce'
  BY <1>10 DEF Execute, TaskDone
<1>11. CASE UNCHANGED vars
  BY <1>11 DEF vars, poolVars
<1> QED
  BY <1>1, <1>2, <1>3, <1>4, <1>5, <1>6, <1>7, <1>8, <1>9, <1>10, <1>11
     DEF Next, OwnerInside, WorkerStep, Loop

\* When the workers have ended, no task is under way and all terminate tasks
\* are taken: what is left in the queue was never executed.
LEMMA AccountsStep ==
  Basics /\ StopCounts /\ TasksOnce /\ StopAccounts /\ [Next]_vars => StopAccounts'
<1> SUFFICES ASSUME Basics, StopCounts, TasksOnce, StopAccounts, [Next]_vars
             PROVE  StopAccounts'
  OBVIOUS
<1>1. CASE Joined
  <2>1. owner = "stop_join" /\ \A w \in threads : pc[w] = "ended"
    BY <1>1 DEF Joined, StopJoined
  <2>2. /\ task[Owner] = NoTask
        /\ \A w \in Workers : IF w \in threads THEN task[w] = Terminate ELSE task[w] = NoTask
    BY <2>1 DEF Basics, TasksHeld, ThreadsRun
  <2>3. \A x \in Threads : task[x] \notin Tasks
    BY <2>2, ThreadPoolAssumption DEF Threads
  <2>4. added \ executed = queue
    BY <2>1, <2>3 DEF TasksOnce, Basics, TypeOK
  <2>5. Ending = threads
    BY <2>2 DEF Ending, Basics, TypeOK, Terminate, NoTask
  <2>6. terminates + Cardinality(threads) = Cardinality(threads)
    BY <2>1, <2>5 DEF StopCounts
  <2>7. terminates = 0
    BY <2>6, Finite DEF Basics, TypeOK
  <2>8. Cardinality(queue) \in Nat
    BY Finite DEF Basics
  <2>9. Unexecuted = Cardinality(queue)
    BY <2>7, <2>8 DEF Unexecuted
  <2> QED
    BY <1>1, <2>4, <2>9 DEF Joined, StopJoined, StopAccounts
<1>2. CASE ~Joined /\ owner # "off"
  <2>1. owner' # "off"
    BY <1>2
       DEF Next, OwnerInside, WorkerStep, Loop, ClientStart, ClientPause, ClientResume, ClientStop,
           ClientAdd, Start, Pause, Resume, BeginResume, Stop, PauseLock, ResumeLock,
           ResumeNotify, SyncPop, AfterResume, Execute, SyncDone, TaskDone, PushTerminate,
           StopPush, ResumeOrJoin, StopPushed, Check, Lock, Test, Wait, Woken, Pop, PopFree,
           SpuriousWake, vars, poolVars
  <2> QED
    BY <2>1 DEF StopAccounts
\* Before a start nothing runs.
<1>3. CASE owner = "off"
  <2>1. \A w \in Workers : pc[w] = "off"
    BY <1>3 DEF Basics, ThreadsRun
  <2>2. owner' # "off" \/ UNCHANGED <<owner, added, executed, unexecuted>>
    BY <1>3, <2>1, ThreadPoolAssumption
       DEF Next, OwnerInside, WorkerStep, Loop, ClientStart, ClientPause, ClientResume, ClientStop,
           ClientAdd, MayAdd, Start, Pause, Resume, Stop, PauseLock, ResumeLock,
           ResumeNotify, SyncPop, Execute, SyncDone, TaskDone, PushTerminate,
           StopPush, ResumeOrJoin, StopPushed, Joined, StopJoined, Check, Lock, Test, Wait, Woken,
           Pop, PopFree, SpuriousWake, vars, poolVars, clientVars
  <2> QED
    BY <2>2, <1>3 DEF StopAccounts
<1> QED
  BY <1>1, <1>2, <1>3 DEF Joined, StopJoined

-----------------------------------------------------------------------------
(* The invariant                                                           *)

\* The inductive invariant: the types, the counts and the places of the tasks,
\* with the three properties they carry.
ThreadPoolInv == Basics /\ NoLostWakeup /\ StopCounts /\ TasksOnce /\ StopAccounts

LEMMA InitInv == Init => ThreadPoolInv
<1> SUFFICES ASSUME Init PROVE ThreadPoolInv
  OBVIOUS
<1> USE DEF Init, PoolInit
<1>1. Basics
  <2>1. TypeOK
    <3>1. mutex \in {{}} \cup {{w} : w \in Workers}
      OBVIOUS
    <3>2. task \in [Workers \cup {Owner} -> Tasks \cup {Terminate, NoTask}]
      OBVIOUS
    <3>3. pauses \in 0 .. MaxPauses /\ starts \in 0 .. MaxStarts
      BY ClientAssumption
    <3>4. checkPaused \in BOOLEAN /\ paused \in BOOLEAN /\ stopping \in BOOLEAN
      OBVIOUS
    <3> QED
      BY <3>1, <3>2, <3>3, <3>4 DEF TypeOK
  <2>2. TasksHeld
    BY DEF TasksHeld
  <2>3. MutexHeld /\ ThreadsRun
    BY DEF MutexHeld, ThreadsRun
  <2> QED
    BY <2>1, <2>2, <2>3 DEF Basics
<1>2. NoLostWakeup /\ TasksOnce
  BY DEF NoLostWakeup, TasksOnce
<1>3. Cardinality(queue) = 0 /\ Cardinality({w \in Unfreed : task[w] # Terminate}) = 0
  BY FS_EmptySet DEF Unfreed
<1>4. StopCounts
  BY <1>3, ThreadPoolAssumption DEF StopCounts, Waiting
<1>5. StopAccounts
  BY FS_EmptySet DEF StopAccounts
<1> QED
  BY <1>1, <1>2, <1>4, <1>5 DEF ThreadPoolInv

LEMMA InvHolds == Spec => []ThreadPoolInv
<1>1. ThreadPoolInv /\ [Next]_vars => ThreadPoolInv'
  BY BasicsStep, WakeStep, CountsStep, OnceStep, AccountsStep DEF ThreadPoolInv
<1> QED
  BY InitInv, <1>1, PTL DEF Spec

\* The types, for every number of workers, tasks, queue elements and calls.
THEOREM ThreadPoolTyped == Spec => []TypeOK
<1>1. ThreadPoolInv => TypeOK
  BY DEF ThreadPoolInv, Basics
<1> QED
  BY InvHolds, <1>1, PTL

\* resume() never leaves a worker asleep: whoever sleeps when it has cleared
\* m_paused is notified, and nobody goes to sleep afterwards.
THEOREM WakeupsArrive == Spec => []NoLostWakeup
<1>1. ThreadPoolInv => NoLostWakeup
  BY DEF ThreadPoolInv
<1> QED
  BY InvHolds, <1>1, PTL

\* No terminate task of stop() is refused by the full queue, so that every
\* thread that is joined has one to take.
THEOREM TerminatesFit == Spec => []EveryWorkerTold
<1>1. ThreadPoolInv => EveryWorkerTold
  BY CountsTold DEF ThreadPoolInv
<1> QED
  BY InvHolds, <1>1, PTL

\* stop() returns the number of the tasks that were accepted and not executed.
THEOREM StopCountsTheRest == Spec => []StopAccounts
<1>1. ThreadPoolInv => StopAccounts
  BY DEF ThreadPoolInv
<1> QED
  BY InvHolds, <1>1, PTL
=============================================================================
