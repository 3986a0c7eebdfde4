------------------------- MODULE AsyncTaskScheduler -------------------------
(***************************************************************************)
(* The thread pool of include/codepad/ui/async_task.h.  Worker threads     *)
(* wait on a counting semaphore, pop a task under a mutex and run it;      *)
(* start_task() may be called by any thread; wait_finish() and             *)
(* shutdown_and_wait() belong to the main thread.  A step is what a thread *)
(* does between two points at which another thread may run: each critical  *)
(* section of the mutex, each access to the semaphore, each store to a     *)
(* task's atomic status.                                                   *)
(***************************************************************************)
EXTENDS Naturals, Sequences, FiniteSets

CONSTANTS
  Workers,   \* _threads; empty when hardware_concurrency() is 1
  Clients,   \* the threads that call start_task()
  Main,      \* the client that also waits for tasks and shuts the pool down
  Tasks,     \* every async_task_base the clients ever create
  NoTask     \* an empty std::shared_ptr

ASSUME SchedulerAssumption ==
  /\ IsFiniteSet(Workers)
  /\ IsFiniteSet(Clients)
  /\ Main \in Clients
  /\ NoTask \notin Tasks

VARIABLES
  queue,     \* _queued_tasks
  sem,       \* value of _semaphore
  shutdown,  \* _shutdown
  status,    \* async_task_base::_status of every task
  wpc,       \* where each worker is in _task_thread()
  wtask,     \* the local variable `task' of each worker
  cpc,       \* where each client is
  waited,    \* the task whose wait_finish() the main thread is in
  call,      \* what became of the start_task() call for each task
  token      \* the token the main thread keeps for each task

vars == <<queue, sem, shutdown, status, wpc, wtask, cpc, waited, call, token>>
workerVars == <<wpc, wtask>>
clientVars == <<cpc, waited, call, token>>

Final == {"cancelled", "finished"}
WorkerLabels == {"check", "acquire", "pop", "start", "execute", "discard", "exited"}
ClientLabels == {"idle", "release", "wait_queued", "wait_running", "wake", "join"}

QueuedTasks == {queue[i] : i \in 1..Len(queue)}
WorkersAt(label) == {w \in Workers : wpc[w] = label}
ClientsAt(label) == {c \in Clients : cpc[c] = label}

TypeOK ==
  /\ queue \in Seq(Tasks)
  /\ sem \in Nat
  /\ shutdown \in BOOLEAN
  /\ status \in [Tasks -> {"queued", "running"} \cup Final]
  /\ wpc \in [Workers -> WorkerLabels]
  /\ wtask \in [Workers -> Tasks \cup {NoTask}]
  /\ cpc \in [Clients -> ClientLabels]
  /\ waited \in Tasks \cup {NoTask}
  /\ call \in [Tasks -> {"none", "accepted", "discarded"}]
  /\ token \in [Tasks -> {"empty", "strong", "weak"}]

Init ==
  /\ queue = <<>>
  /\ sem = 0
  /\ shutdown = FALSE
  /\ status = [t \in Tasks |-> "queued"]
  /\ wpc = [w \in Workers |-> "check"]
  /\ wtask = [w \in Workers |-> NoTask]
  /\ cpc = [c \in Clients |-> "idle"]
  /\ waited = NoTask
  /\ call = [t \in Tasks |-> "none"]
  /\ token = [t \in Tasks |-> "empty"]

-----------------------------------------------------------------------------
(* start_task(): the critical section, which refuses the task after a      *)
(* shutdown.  Only the main thread's token outlives the call.              *)
StartTask(c, t) ==
  /\ cpc[c] = "idle"
  /\ call[t] = "none"
  /\ IF shutdown
       THEN /\ call' = [call EXCEPT ![t] = "discarded"]
            /\ UNCHANGED <<queue, cpc, token>>
       ELSE /\ queue' = Append(queue, t)
            /\ call' = [call EXCEPT ![t] = "accepted"]
            /\ cpc' = [cpc EXCEPT ![c] = "release"]
            /\ token' = [token EXCEPT ![t] = IF c = Main THEN "strong" ELSE @]
  /\ UNCHANGED <<sem, shutdown, status, waited, workerVars>>

(* Mutant of ReleaseSemaphore: a binary semaphore. *)
ReleaseBinary(c) ==
  /\ cpc[c] = "release"
  /\ sem' = 1
  /\ cpc' = [cpc EXCEPT ![c] = "idle"]
  /\ UNCHANGED <<queue, shutdown, status, waited, call, token, workerVars>>

(* start_task(): the semaphore is released after the mutex. *)
ReleaseSemaphore(c) ==
  /\ cpc[c] = "release"
  /\ sem' = sem + 1
  /\ cpc' = [cpc EXCEPT ![c] = "idle"]
  /\ UNCHANGED <<queue, shutdown, status, waited, call, token, workerVars>>

(* token::weaken(). *)
Weaken(t) ==
  /\ cpc[Main] = "idle"
  /\ token[t] = "strong"
  /\ token' = [token EXCEPT ![t] = "weak"]
  /\ UNCHANGED <<queue, sem, shutdown, status, cpc, waited, call, workerVars>>

(* Somebody holds a strong reference to t: what token::get_task() asks. *)
Alive(t) ==
  \/ token[t] = "strong"
  \/ t \in QueuedTasks
  \/ \E w \in Workers : wtask[w] = t

(* get_task() yields the task, and wait_finish() is called on it. *)
WaitFinish(t) ==
  /\ cpc[Main] = "idle"
  /\ token[t] # "empty"
  /\ Alive(t)
  /\ waited' = t
  /\ cpc' = [cpc EXCEPT ![Main] = "wait_queued"]
  /\ UNCHANGED <<queue, sem, shutdown, status, call, token, workerVars>>

(* _status.wait(status::queued) returns. *)
WaitQueued ==
  /\ cpc[Main] = "wait_queued"
  /\ status[waited] # "queued"
  /\ cpc' = [cpc EXCEPT ![Main] = "wait_running"]
  /\ UNCHANGED <<queue, sem, shutdown, status, waited, call, token, workerVars>>

(* _status.wait(status::running) returns. *)
WaitRunning ==
  /\ cpc[Main] = "wait_running"
  /\ status[waited] # "running"
  /\ cpc' = [cpc EXCEPT ![Main] = "idle"]
  /\ waited' = NoTask
  /\ UNCHANGED <<queue, sem, shutdown, status, call, token, workerVars>>

(* shutdown_and_wait(): the critical section.  A second call does nothing. *)
Shutdown ==
  /\ cpc[Main] = "idle"
  /\ ~shutdown
  /\ shutdown' = TRUE
  /\ queue' = <<>>
  /\ cpc' = [cpc EXCEPT ![Main] = "wake"]
  /\ UNCHANGED <<sem, status, waited, call, token, workerVars>>

(* Mutant of WakeWorkers: one release in all. *)
WakeOneWorker ==
  /\ cpc[Main] = "wake"
  /\ sem' = sem + 1
  /\ cpc' = [cpc EXCEPT ![Main] = "join"]
  /\ UNCHANGED <<queue, shutdown, status, waited, call, token, workerVars>>

(* shutdown_and_wait(): one release for every worker. *)
WakeWorkers ==
  /\ cpc[Main] = "wake"
  /\ sem' = sem + Cardinality(Workers)
  /\ cpc' = [cpc EXCEPT ![Main] = "join"]
  /\ UNCHANGED <<queue, shutdown, status, waited, call, token, workerVars>>

(* Mutant of JoinWorkers: the threads are detached. *)
DetachWorkers ==
  /\ cpc[Main] = "join"
  /\ cpc' = [cpc EXCEPT ![Main] = "idle"]
  /\ UNCHANGED <<queue, sem, shutdown, status, waited, call, token, workerVars>>

JoinWorkers ==
  /\ cpc[Main] = "join"
  /\ \A w \in Workers : wpc[w] = "exited"
  /\ cpc' = [cpc EXCEPT ![Main] = "idle"]
  /\ UNCHANGED <<queue, sem, shutdown, status, waited, call, token, workerVars>>

-----------------------------------------------------------------------------
(* The condition of the loop of _task_thread(). *)
CheckShutdown(w) ==
  /\ wpc[w] = "check"
  /\ wpc' = [wpc EXCEPT ![w] = IF shutdown THEN "exited" ELSE "acquire"]
  /\ UNCHANGED <<queue, sem, shutdown, status, wtask, clientVars>>

AcquireSemaphore(w) ==
  /\ wpc[w] = "acquire"
  /\ sem > 0
  /\ sem' = sem - 1
  /\ wpc' = [wpc EXCEPT ![w] = "pop"]
  /\ UNCHANGED <<queue, shutdown, status, wtask, clientVars>>

(* Mutants of PopTask: front() without pop_front(), and the newest task. *)
PeekTask(w) ==
  /\ wpc[w] = "pop"
  /\ queue # <<>>
  /\ wtask' = [wtask EXCEPT ![w] = Head(queue)]
  /\ wpc' = [wpc EXCEPT ![w] = "start"]
  /\ UNCHANGED <<queue, sem, shutdown, status, clientVars>>

PopNewest(w) ==
  /\ wpc[w] = "pop"
  /\ queue # <<>>
  /\ wtask' = [wtask EXCEPT ![w] = queue[Len(queue)]]
  /\ queue' = SubSeq(queue, 1, Len(queue) - 1)
  /\ wpc' = [wpc EXCEPT ![w] = "start"]
  /\ UNCHANGED <<sem, shutdown, status, clientVars>>

(* The critical section of _task_thread(). *)
PopTask(w) ==
  /\ wpc[w] = "pop"
  /\ queue # <<>>
  /\ wtask' = [wtask EXCEPT ![w] = Head(queue)]
  /\ queue' = Tail(queue)
  /\ wpc' = [wpc EXCEPT ![w] = "start"]
  /\ UNCHANGED <<sem, shutdown, status, clientVars>>

(* The same with nothing to pop: `continue'. *)
PopNothing(w) ==
  /\ wpc[w] = "pop"
  /\ queue = <<>>
  /\ wpc' = [wpc EXCEPT ![w] = "check"]
  /\ UNCHANGED <<queue, sem, shutdown, status, wtask, clientVars>>

MarkRunning(w) ==
  /\ wpc[w] = "start"
  /\ status' = [status EXCEPT ![wtask[w]] = "running"]
  /\ wpc' = [wpc EXCEPT ![w] = "execute"]
  /\ UNCHANGED <<queue, sem, shutdown, wtask, clientVars>>

(* Mutant of FinishTask: the result of execute() is not stored. *)
FinishSilently(w) ==
  /\ wpc[w] = "execute"
  /\ wpc' = [wpc EXCEPT ![w] = "discard"]
  /\ UNCHANGED <<queue, sem, shutdown, status, wtask, clientVars>>

(* execute() returns, and its result is stored. *)
FinishTask(w) ==
  /\ wpc[w] = "execute"
  /\ \E result \in Final : status' = [status EXCEPT ![wtask[w]] = result]
  /\ wpc' = [wpc EXCEPT ![w] = "discard"]
  /\ UNCHANGED <<queue, sem, shutdown, wtask, clientVars>>

(* The worker's reference goes away at the end of the loop body. *)
DiscardTask(w) ==
  /\ wpc[w] = "discard"
  /\ wtask' = [wtask EXCEPT ![w] = NoTask]
  /\ wpc' = [wpc EXCEPT ![w] = "check"]
  /\ UNCHANGED <<queue, sem, shutdown, status, clientVars>>

-----------------------------------------------------------------------------
WorkerStep(w) ==
  \/ CheckShutdown(w) \/ AcquireSemaphore(w) \/ PopTask(w) \/ PopNothing(w)
  \/ MarkRunning(w) \/ FinishTask(w) \/ DiscardTask(w)

(* What a client does once it is inside a call: it need not call again.    *)
ClientStep(c) ==
  \/ ReleaseSemaphore(c)
  \/ c = Main /\ (WaitQueued \/ WaitRunning \/ WakeWorkers \/ JoinWorkers)

Next ==
  \/ \E w \in Workers : WorkerStep(w)
  \/ \E c \in Clients : ClientStep(c)
  \/ \E c \in Clients, t \in Tasks : StartTask(c, t)
  \/ \E t \in Tasks : Weaken(t) \/ WaitFinish(t)
  \/ Shutdown

Spec == Init /\ [][Next]_vars

(* The operating system runs every thread that can run, tasks end, and the *)
(* semaphore is not fair: a worker may lose the race for it for ever.      *)
Fairness ==
  /\ \A w \in Workers : WF_vars(WorkerStep(w))
  /\ \A c \in Clients : WF_vars(ClientStep(c))

FairSpec == Spec /\ Fairness

-----------------------------------------------------------------------------
(* Where a task is, as the threads that use the pool see it.               *)
TaskPhase(t) ==
  IF call[t] = "none" THEN "new"
  ELSE IF call[t] = "discarded" THEN "rejected"
  ELSE IF status[t] \in Final THEN "done"
  ELSE IF t \in QueuedTasks THEN "pending"
  ELSE IF \E w \in Workers : wtask[w] = t THEN "taken"
  ELSE "dropped"

(* _semaphore counts the queued tasks, up to the threads that are between  *)
(* their access to the queue and their access to the semaphore; so a       *)
(* worker that finds the queue empty knows that the pool is shut down.     *)
SemaphoreCountsTasks ==
  ~shutdown =>
    sem + Cardinality(WorkersAt("pop")) + Cardinality(ClientsAt("release")) = Len(queue)

(* Once shutdown_and_wait() has released the semaphore there is a unit for *)
(* every worker that may still block on it, so none can be left behind.    *)
NoWorkerStranded ==
  shutdown /\ cpc[Main] # "wake" => sem >= Cardinality(WorkersAt("acquire"))

(* The semaphore neither loses a task nor leaves a worker behind, and is   *)
(* never acquired below zero (TypeOK).                                     *)
SemaphoreInv == TypeOK /\ SemaphoreCountsTasks /\ NoWorkerStranded

(* A task has at most one place: one position in the queue or one worker,  *)
(* and its status tells which; a task that nothing holds is either over or *)
(* was thrown away by the shutdown.                                        *)
TaskHasOnePlace ==
  /\ \A i, j \in 1..Len(queue) : queue[i] = queue[j] => i = j
  /\ \A w, v \in Workers : wtask[w] = wtask[v] /\ wtask[w] # NoTask => w = v
  /\ \A w \in Workers : wtask[w] \notin QueuedTasks
  /\ \A t \in Tasks : status[t] = "running" <=> \E w \in WorkersAt("execute") : wtask[w] = t
  /\ \A t \in Tasks :
       call[t] = "accepted" /\ ~shutdown
         => t \in QueuedTasks \/ status[t] \in Final \/ \E w \in Workers : wtask[w] = t

(* "make sure the queue is always empty after shutdown".                   *)
QueueEmptyAfterShutdown == shutdown => queue = <<>>

(* The facts about program counters and places that make the invariants    *)
(* above inductive.                                                        *)
OnlyMainWaits ==
  /\ \A c \in Clients : cpc[c] \in {"idle", "release"} \/ c = Main
  /\ cpc[Main] \in {"wake", "join"} => shutdown

PlacesAgree ==
  /\ \A w \in Workers :
       /\ wtask[w] # NoTask <=> wpc[w] \in {"start", "execute", "discard"}
       /\ wpc[w] = "start" => status[wtask[w]] = "queued"
       /\ wpc[w] = "execute" => status[wtask[w]] = "running"
       /\ wpc[w] = "discard" => status[wtask[w]] \in Final
       /\ wtask[w] # NoTask => call[wtask[w]] = "accepted"
  /\ \A t \in QueuedTasks : status[t] = "queued" /\ call[t] = "accepted"
  /\ \A t \in Tasks : call[t] # "accepted" => status[t] = "queued"

CountingInv == TypeOK /\ OnlyMainWaits /\ SemaphoreCountsTasks /\ NoWorkerStranded
PlacesInv == TypeOK /\ QueueEmptyAfterShutdown /\ PlacesAgree /\ TaskHasOnePlace

(* When shutdown_and_wait() returns no task is running and none will.      *)
QuietAfterJoin ==
  [][cpc[Main] = "join" /\ cpc'[Main] = "idle"
       => \A t \in Tasks : status[t] # "running" /\ ~\E w \in Workers : wtask[w] = t]_vars

(* A task in a running pool is eventually over, whichever worker gets it.  *)
AcceptedTaskEnds ==
  \A t \in Tasks : call[t] = "accepted" ~> (status[t] \in Final \/ shutdown)

(* The main thread's calls return: shutdown_and_wait(), because every      *)
(* worker leaves its loop, and wait_finish(), unless the shutdown threw    *)
(* the task away before the main thread came to wait for it.               *)
ShutdownReturns ==
  cpc[Main] = "wake" ~> (cpc[Main] = "idle" /\ \A w \in Workers : wpc[w] = "exited")
WaitReturns ==
  \A t \in Tasks :
    waited = t ~> (waited # t \/ (TaskPhase(t) = "dropped" /\ status[t] = "queued"))
CallsReturn == ShutdownReturns /\ WaitReturns

-----------------------------------------------------------------------------
(* The scheduler implements the abstract pool of TaskPool.                 *)
Pool == INSTANCE TaskPool WITH
          phase <- [t \in Tasks |-> TaskPhase(t)], pending <- queue, open <- ~shutdown

PoolSpec == Pool!Spec

=============================================================================
