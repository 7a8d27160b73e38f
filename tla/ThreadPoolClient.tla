-------------------------- MODULE ThreadPoolClient --------------------------
(***************************************************************************)
(* ThreadPool under its most general client: an owner that starts, adds,   *)
(* pauses, resumes and stops in any order the asserts allow, and tasks     *)
(* that add tasks.  The client keeps to settings.max_tasks: it never has   *)
(* more than MaxTasks tasks waiting.  It adds each task once per start.    *)
(***************************************************************************)
EXTENDS ThreadPool

CONSTANTS
  MaxPauses,  \* bound: calls of pause()
  MaxStarts   \* bound: calls of start()

ASSUME ClientAssumption == MaxPauses \in Nat /\ MaxStarts \in Nat

VARIABLES
  told,        \* terminate tasks stop() has pushed
  added,       \* tasks add_task has accepted since the last start
  executed,    \* tasks whose function has returned
  unexecuted,  \* what the last stop() returned
  pauses, starts

clientVars == <<told, added, executed, unexecuted, pauses, starts>>
vars == <<poolVars, clientVars>>

Init ==
  /\ PoolInit
  /\ told = 0 /\ added = {} /\ executed = {} /\ unexecuted = 0
  /\ pauses = 0 /\ starts = 0

Waiting == Cardinality(queue) + Cardinality({w \in Unfreed : task[w] # Terminate})

\* Runs the owner, or worker x, calls add_task.
MayAdd(x) == IF x = Owner THEN owner \in {"ready", "sync_run"} ELSE pc[x] = "run"

ClientAdd(x, k) ==
  /\ MayAdd(x) /\ k \notin added /\ Waiting < MaxTasks
  /\ AddTask(k)
  /\ added' = IF HasRoom THEN added \cup {k} ELSE added
  /\ UNCHANGED <<threads, terminates, pauseVars, pc, task, owner, stopping>>
  /\ UNCHANGED <<told, executed, unexecuted, pauses, starts>>

ClientStart ==
  /\ starts < MaxStarts
  /\ \E set \in SUBSET Workers, startPaused \in BOOLEAN : Start(set, startPaused)
  /\ starts' = starts + 1
  /\ added' = {} /\ executed' = {} /\ told' = 0 /\ unexecuted' = 0
  /\ UNCHANGED pauses

ClientPause ==
  /\ pauses < MaxPauses /\ Pause
  /\ pauses' = pauses + 1
  /\ UNCHANGED <<told, added, executed, unexecuted, starts>>

ClientResume == Resume /\ UNCHANGED clientVars

ClientStop == Stop /\ UNCHANGED clientVars

Execute(x) ==
  /\ IF x = Owner THEN SyncDone ELSE TaskDone(x)
  /\ executed' = executed \cup {task[x]}
  /\ UNCHANGED <<told, added, unexecuted, pauses, starts>>

PushTerminate ==
  /\ StopPush(told)
  /\ told' = told + 1
  /\ UNCHANGED <<added, executed, unexecuted, pauses, starts>>

ResumeOrJoin == StopPushed(told) /\ UNCHANGED clientVars

\* stop() returns how many tasks it popped after the join.
Joined ==
  /\ StopJoined
  /\ unexecuted' = Unexecuted
  /\ UNCHANGED <<told, added, executed, pauses, starts>>

OwnerInside ==
  \/ /\ PauseLock \/ ResumeLock \/ ResumeNotify \/ SyncPop
     /\ UNCHANGED clientVars
  \/ Execute(Owner) \/ PushTerminate \/ ResumeOrJoin \/ Joined

WorkerStep(w) == (Loop(w) /\ UNCHANGED clientVars) \/ Execute(w)

Next ==
  \/ ClientStart \/ ClientPause \/ ClientResume \/ ClientStop
  \/ \E x \in Workers \cup {Owner}, k \in Tasks : ClientAdd(x, k)
  \/ OwnerInside
  \/ \E w \in Workers : WorkerStep(w) \/ (SpuriousWake(w) /\ UNCHANGED clientVars)

\* Every thread keeps running, every task function returns, and a thread that
\* waits for the mutex gets it when it is released often enough.
Fairness ==
  /\ WF_vars(OwnerInside)
  /\ SF_vars((PauseLock \/ ResumeLock) /\ UNCHANGED clientVars)
  /\ \A w \in Workers :
       /\ WF_vars(WorkerStep(w))
       /\ SF_vars((Lock(w) \/ Woken(w)) /\ UNCHANGED clientVars)

Spec == Init /\ [][Next]_vars /\ Fairness

-----------------------------------------------------------------------------
\* Every variable holds a value of its type.
TypeOK ==
  /\ threads \subseteq Workers
  /\ queue \subseteq Tasks /\ terminates \in Nat
  /\ checkPaused \in BOOLEAN /\ paused \in BOOLEAN
  /\ mutex \in {{}} \cup {{w} : w \in Workers}
  /\ pc \in [Workers -> {"off", "check", "lock", "test", "wait", "waiting", "woken", "pop",
                         "pop_free", "run", "ended"}]
  /\ task \in [Workers \cup {Owner} -> Tasks \cup {Terminate, NoTask}]
  /\ owner \in {"off", "ready", "pause_lock", "resume_lock", "resume_notify", "sync",
                "sync_run", "stop_push", "stop_join"}
  /\ stopping \in BOOLEAN
  /\ told \in Nat /\ unexecuted \in Nat /\ pauses \in 0 .. MaxPauses /\ starts \in 0 .. MaxStarts
  /\ added \subseteq Tasks /\ executed \subseteq Tasks

\* No wake-up is lost: resume() never finds a worker asleep, or about to sleep,
\* that its notification will miss.
NoLostWakeup ==
  \A w \in Workers :
    \/ pc[w] \notin {"wait", "waiting"}
    \/ paused
    \/ pc[w] = "waiting" /\ owner = "resume_notify"

\* stop() always finds room for its terminate tasks, one for every thread, as
\* its "wl_assert(push_result)" says: the tasks cannot use up their elements.
EveryWorkerTold ==
  owner = "stop_join" =>
    terminates + Cardinality({w \in threads : task[w] = Terminate}) = Cardinality(threads)

\* stop() returns the number of tasks that were added and never executed, and
\* when it returns no task is under way.
StopAccounts == owner = "off" => unexecuted = Cardinality(added \ executed)

\* stop() returns, paused or not, whatever the workers are doing; and while the
\* pool is not paused, its workers take up every task.
EveryoneServed ==
  /\ stopping ~> owner = "off"
  /\ \A k \in Tasks : (k \in queue /\ threads # {}) ~> (k \notin queue \/ checkPaused)
=============================================================================
