---------------------- MODULE AsyncTaskScheduler_proofs ----------------------
(***************************************************************************)
(* Proofs about the thread pool for any number of workers, clients and     *)
(* tasks: type correctness, the semaphore's count and that no worker is    *)
(* left behind by a shutdown, the place of every task, and that the pool   *)
(* implements TaskPool.                                                    *)
(***************************************************************************)
EXTENDS AsyncTaskScheduler, FiniteSetTheorems, QueueLemmas

-----------------------------------------------------------------------------
(* The initial state is typed. *)
LEMMA InitTypeOK == Init => TypeOK
<1> SUFFICES ASSUME Init PROVE TypeOK
  OBVIOUS
<1>1. queue \in Seq(Tasks)
  BY EmptySeq, Zenon DEF Init
<1>2. sem \in Nat /\ shutdown \in BOOLEAN
  BY DEF Init
<1>3. status \in [Tasks -> {"queued", "running"} \cup Final]
  BY DEF Init
<1>4. wpc \in [Workers -> WorkerLabels] /\ wtask \in [Workers -> Tasks \cup {NoTask}]
  BY DEF Init, WorkerLabels
<1>5. cpc \in [Clients -> ClientLabels] /\ waited \in Tasks \cup {NoTask}
  BY DEF Init, ClientLabels
<1>6. /\ call \in [Tasks -> {"none", "accepted", "discarded"}]
      /\ token \in [Tasks -> {"empty", "strong", "weak"}]
  BY DEF Init
<1> QED   BY <1>1, <1>2, <1>3, <1>4, <1>5, <1>6 DEF TypeOK

(* Every variable keeps to its type. *)
THEOREM TypeCorrect == Spec => []TypeOK
<1>2. TypeOK /\ [Next]_vars => TypeOK'
  <2> SUFFICES ASSUME TypeOK, [Next]_vars
               PROVE  TypeOK'
    OBVIOUS
  <2> USE SchedulerAssumption DEF TypeOK, WorkerLabels, ClientLabels, Final,
          workerVars, clientVars
  <2>1. ASSUME NEW w \in Workers, WorkerStep(w)
        PROVE  TypeOK'
    <3>1. CASE CheckShutdown(w)   BY <3>1 DEF CheckShutdown
    <3>2. CASE AcquireSemaphore(w)   BY <3>2 DEF AcquireSemaphore
    <3>3. CASE PopTask(w)
      <4>1. Head(queue) \in Tasks /\ Tail(queue) \in Seq(Tasks)
        BY <3>3, HeadTailProperties DEF PopTask
      <4> QED   BY <3>3, <4>1 DEF PopTask
    <3>4. CASE PopNothing(w)   BY <3>4 DEF PopNothing
    <3>5. CASE MarkRunning(w)   BY <3>5 DEF MarkRunning
    <3>6. CASE FinishTask(w)   BY <3>6 DEF FinishTask
    <3>7. CASE DiscardTask(w)   BY <3>7 DEF DiscardTask
    <3> QED   BY <2>1, <3>1, <3>2, <3>3, <3>4, <3>5, <3>6, <3>7 DEF WorkerStep
  <2>2. ASSUME NEW c \in Clients, ClientStep(c)
        PROVE  TypeOK'
    <3>1. CASE ReleaseSemaphore(c)   BY <3>1 DEF ReleaseSemaphore
    <3>2. CASE WaitQueued   BY <3>2 DEF WaitQueued
    <3>3. CASE WaitRunning   BY <3>3 DEF WaitRunning
    <3>4. CASE WakeWorkers   BY <3>4, FS_CardinalityType DEF WakeWorkers
    <3>5. CASE JoinWorkers   BY <3>5 DEF JoinWorkers
    <3> QED   BY <2>2, <3>1, <3>2, <3>3, <3>4, <3>5 DEF ClientStep
  <2>3. ASSUME NEW c \in Clients, NEW t \in Tasks, StartTask(c, t)
        PROVE  TypeOK'
    <3>1. Append(queue, t) \in Seq(Tasks)   OBVIOUS
    <3> QED   BY <2>3, <3>1 DEF StartTask
  <2>4. ASSUME NEW t \in Tasks, Weaken(t) \/ WaitFinish(t)
        PROVE  TypeOK'
    BY <2>4 DEF Weaken, WaitFinish
  <2>5. CASE Shutdown   BY <2>5 DEF Shutdown
  <2>6. CASE UNCHANGED vars   BY <2>6 DEF vars
  <2> QED   BY <2>1, <2>2, <2>3, <2>4, <2>5, <2>6 DEF Next
<1> QED   BY InitTypeOK, <1>2, PTL DEF Spec

-----------------------------------------------------------------------------
(* How the size of a set changes with the membership of one element.       *)
LEMMA CountAfterMove ==
  ASSUME NEW S, IsFiniteSet(S), NEW A, A \subseteq S, NEW B, B \subseteq S,
         NEW x, A \ {x} = B \ {x}
  PROVE  /\ Cardinality(A) \in Nat
         /\ Cardinality(B) \in Nat
         /\ x \notin A /\ x \in B => Cardinality(B) = Cardinality(A) + 1
         /\ x \in A /\ x \notin B => Cardinality(A) = Cardinality(B) + 1
         /\ x \notin A /\ x \notin B => Cardinality(B) = Cardinality(A)
<1>1. IsFiniteSet(A) /\ IsFiniteSet(B)
  BY FS_Subset
<1>2. Cardinality(A) \in Nat /\ Cardinality(B) \in Nat
  BY <1>1, FS_CardinalityType
<1>3. ASSUME x \notin A, x \in B
      PROVE  Cardinality(B) = Cardinality(A) + 1
  <2>1. B = A \cup {x}   BY <1>3
  <2> QED   BY <1>1, <1>3, <2>1, FS_AddElement
<1>4. ASSUME x \in A, x \notin B
      PROVE  Cardinality(A) = Cardinality(B) + 1
  <2>1. A = B \cup {x}   BY <1>4
  <2> QED   BY <1>1, <1>4, <2>1, FS_AddElement
<1>5. ASSUME x \notin A, x \notin B
      PROVE  B = A
  BY <1>5
<1> QED   BY <1>2, <1>3, <1>4, <1>5

(* The number of workers, and of clients, at a label when one of them      *)
(* moves.                                                                  *)
LEMMA WorkerMoves ==
  ASSUME NEW w \in Workers, NEW label, \A y \in Workers \ {w} : wpc'[y] = wpc[y]
  PROVE  /\ Cardinality(WorkersAt(label)) \in Nat
         /\ Cardinality(WorkersAt(label)') \in Nat
         /\ wpc[w] # label /\ wpc'[w] = label =>
              Cardinality(WorkersAt(label)') = Cardinality(WorkersAt(label)) + 1
         /\ wpc[w] = label /\ wpc'[w] # label =>
              Cardinality(WorkersAt(label)) = Cardinality(WorkersAt(label)') + 1
         /\ wpc[w] # label /\ wpc'[w] # label =>
              Cardinality(WorkersAt(label)') = Cardinality(WorkersAt(label))
<1> DEFINE A == {y \in Workers : wpc[y] = label}
           B == {y \in Workers : wpc'[y] = label}
<1>1. A \subseteq Workers /\ B \subseteq Workers /\ A \ {w} = B \ {w}
  OBVIOUS
<1>2. /\ w \in A <=> wpc[w] = label
      /\ w \in B <=> wpc'[w] = label
  OBVIOUS
<1>3. A = WorkersAt(label) /\ B = WorkersAt(label)'
  BY DEF WorkersAt
<1>4. IsFiniteSet(Workers)
  BY SchedulerAssumption DEF SchedulerAssumption
<1> HIDE DEF A, B
<1>5. /\ Cardinality(A) \in Nat
      /\ Cardinality(B) \in Nat
      /\ w \notin A /\ w \in B => Cardinality(B) = Cardinality(A) + 1
      /\ w \in A /\ w \notin B => Cardinality(A) = Cardinality(B) + 1
      /\ w \notin A /\ w \notin B => Cardinality(B) = Cardinality(A)
  BY <1>1, <1>4, CountAfterMove
<1> QED   BY <1>2, <1>3, <1>5

(* The same for a client that moves. *)
LEMMA ClientMoves ==
  ASSUME NEW c \in Clients, NEW label, \A y \in Clients \ {c} : cpc'[y] = cpc[y]
  PROVE  /\ Cardinality(ClientsAt(label)) \in Nat
         /\ Cardinality(ClientsAt(label)') \in Nat
         /\ cpc[c] # label /\ cpc'[c] = label =>
              Cardinality(ClientsAt(label)') = Cardinality(ClientsAt(label)) + 1
         /\ cpc[c] = label /\ cpc'[c] # label =>
              Cardinality(ClientsAt(label)) = Cardinality(ClientsAt(label)') + 1
         /\ cpc[c] # label /\ cpc'[c] # label =>
              Cardinality(ClientsAt(label)') = Cardinality(ClientsAt(label))
<1> DEFINE A == {y \in Clients : cpc[y] = label}
           B == {y \in Clients : cpc'[y] = label}
<1>1. A \subseteq Clients /\ B \subseteq Clients /\ A \ {c} = B \ {c}
  OBVIOUS
<1>2. /\ c \in A <=> cpc[c] = label
      /\ c \in B <=> cpc'[c] = label
  OBVIOUS
<1>3. A = ClientsAt(label) /\ B = ClientsAt(label)'
  BY DEF ClientsAt
<1>4. IsFiniteSet(Clients)
  BY SchedulerAssumption DEF SchedulerAssumption
<1> HIDE DEF A, B
<1>5. /\ Cardinality(A) \in Nat
      /\ Cardinality(B) \in Nat
      /\ c \notin A /\ c \in B => Cardinality(B) = Cardinality(A) + 1
      /\ c \in A /\ c \notin B => Cardinality(A) = Cardinality(B) + 1
      /\ c \notin A /\ c \notin B => Cardinality(B) = Cardinality(A)
  BY <1>1, <1>4, CountAfterMove
<1> QED   BY <1>2, <1>3, <1>5

-----------------------------------------------------------------------------
(* Once a shutdown begins _semaphore only has to wake the workers that     *)
(* wait; before, it counts the tasks.  A worker step moves one worker.     *)
LEMMA WorkerKeepsCount ==
  ASSUME CountingInv, TypeOK', NEW w \in Workers, WorkerStep(w)
  PROVE  CountingInv'
<1> USE SchedulerAssumption
<1>0. /\ TypeOK /\ OnlyMainWaits /\ SemaphoreCountsTasks /\ NoWorkerStranded
      /\ cpc' = cpc /\ shutdown' = shutdown
      /\ \A v \in Workers \ {w} : wpc'[v] = wpc[v]
  BY DEF CountingInv, WorkerStep, CheckShutdown, AcquireSemaphore, PopTask, PopNothing,
         MarkRunning, FinishTask, DiscardTask, clientVars, TypeOK
<1>1. ClientsAt("release")' = ClientsAt("release") /\ OnlyMainWaits'
  BY <1>0 DEF ClientsAt, OnlyMainWaits
<1> DEFINE atPop == Cardinality(WorkersAt("pop"))
           atAcquire == Cardinality(WorkersAt("acquire"))
           atRelease == Cardinality(ClientsAt("release"))
<1>2. /\ atPop \in Nat /\ atPop' \in Nat
      /\ wpc[w] # "pop" /\ wpc'[w] = "pop" => atPop' = atPop + 1
      /\ wpc[w] = "pop" /\ wpc'[w] # "pop" => atPop = atPop' + 1
      /\ wpc[w] # "pop" /\ wpc'[w] # "pop" => atPop' = atPop
  BY <1>0, WorkerMoves, Zenon
<1>3. /\ atAcquire \in Nat /\ atAcquire' \in Nat
      /\ wpc[w] # "acquire" /\ wpc'[w] = "acquire" => atAcquire' = atAcquire + 1
      /\ wpc[w] = "acquire" /\ wpc'[w] # "acquire" => atAcquire = atAcquire' + 1
      /\ wpc[w] # "acquire" /\ wpc'[w] # "acquire" => atAcquire' = atAcquire
  BY <1>0, WorkerMoves, Zenon
<1>4. ClientsAt("release") \in SUBSET Clients
  BY DEF ClientsAt
<1>5. atRelease \in Nat /\ atRelease' = atRelease
  BY <1>1, <1>4, FS_Subset, FS_CardinalityType
<1>6. sem \in Nat /\ sem' \in Nat /\ Len(queue) \in Nat /\ wpc \in [Workers -> WorkerLabels]
  BY <1>0, LenProperties DEF TypeOK
<1>7. SUFFICES /\ ~shutdown => sem' + atPop' + atRelease = Len(queue')
               /\ shutdown /\ cpc[Main] # "wake" => sem' >= atAcquire'
  <2>1. (~shutdown' => sem' + atPop' + atRelease' = Len(queue')) => SemaphoreCountsTasks'
    BY DEF SemaphoreCountsTasks
  <2>2. (shutdown' /\ cpc'[Main] # "wake" => sem' >= atAcquire') => NoWorkerStranded'
    BY DEF NoWorkerStranded
  <2> QED   BY <1>0, <1>1, <1>5, <2>1, <2>2 DEF CountingInv
<1>8. /\ ~shutdown => sem + atPop + atRelease = Len(queue)
      /\ shutdown /\ cpc[Main] # "wake" => sem >= atAcquire
  BY <1>0 DEF SemaphoreCountsTasks, NoWorkerStranded
<1>16. /\ atPop \in Nat /\ atPop' \in Nat /\ atAcquire \in Nat /\ atAcquire' \in Nat
       /\ atRelease \in Nat /\ sem \in Nat /\ sem' \in Nat /\ Len(queue) \in Nat
  BY <1>2, <1>3, <1>5, <1>6
<1>9. CASE CheckShutdown(w)
  BY <1>2, <1>3, <1>5, <1>6, <1>8, <1>9 DEF CheckShutdown
<1>10. CASE AcquireSemaphore(w)
  <2>1. atPop' = atPop + 1 /\ atAcquire = atAcquire' + 1
    BY <1>2, <1>3, <1>6, <1>10 DEF AcquireSemaphore
  <2>2. sem > 0 /\ sem' = sem - 1 /\ Len(queue') = Len(queue)
    BY <1>10 DEF AcquireSemaphore
  <2> QED   BY <1>8, <1>16, <2>1, <2>2
<1>11. CASE PopTask(w)
  <2>1. Len(queue') = Len(queue) - 1
    BY <1>0, <1>11, HeadTailProperties DEF PopTask, TypeOK
  <2>2. atPop = atPop' + 1 /\ atAcquire' = atAcquire /\ sem' = sem
    BY <1>2, <1>3, <1>6, <1>11 DEF PopTask
  <2> QED   BY <1>8, <1>16, <2>1, <2>2
<1>12. CASE PopNothing(w)
  <2>1. Len(queue) = 0 /\ Len(queue') = 0
    BY <1>12 DEF PopNothing
  <2>2. atPop' + 1 = atPop /\ atAcquire' = atAcquire /\ sem' = sem
    BY <1>2, <1>3, <1>6, <1>12 DEF PopNothing
  <2> QED   BY <1>8, <1>16, <2>1, <2>2
<1>13. CASE MarkRunning(w)
  BY <1>2, <1>3, <1>5, <1>6, <1>8, <1>13 DEF MarkRunning
<1>14. CASE FinishTask(w)
  BY <1>2, <1>3, <1>5, <1>6, <1>8, <1>14 DEF FinishTask
<1>15. CASE DiscardTask(w)
  BY <1>2, <1>3, <1>5, <1>6, <1>8, <1>15 DEF DiscardTask
<1> QED   BY <1>9, <1>10, <1>11, <1>12, <1>13, <1>14, <1>15 DEF WorkerStep

(* A client step leaves every worker where it is. *)
LEMMA ClientKeepsCount ==
  ASSUME CountingInv, TypeOK', NEW c \in Clients,
         ClientStep(c) \/ \E t \in Tasks : StartTask(c, t)
  PROVE  CountingInv'
<1> USE SchedulerAssumption
<1>0. /\ TypeOK /\ OnlyMainWaits /\ SemaphoreCountsTasks /\ NoWorkerStranded
      /\ wpc' = wpc /\ shutdown' = shutdown
  BY DEF CountingInv, ClientStep, StartTask, ReleaseSemaphore, WaitQueued, WaitRunning,
         WakeWorkers, JoinWorkers, workerVars
<1>1. \A d \in Clients \ {c} : cpc'[d] = cpc[d]
  BY <1>0 DEF ClientStep, StartTask, ReleaseSemaphore, WaitQueued, WaitRunning,
         WakeWorkers, JoinWorkers, TypeOK
<1> DEFINE atPop == Cardinality(WorkersAt("pop"))
           atAcquire == Cardinality(WorkersAt("acquire"))
           atRelease == Cardinality(ClientsAt("release"))
<1>2. /\ WorkersAt("pop")' = WorkersAt("pop")
      /\ WorkersAt("acquire")' = WorkersAt("acquire")
      /\ WorkersAt("pop") \in SUBSET Workers
      /\ WorkersAt("acquire") \in SUBSET Workers
  BY <1>0 DEF WorkersAt
<1>3. IsFiniteSet(Workers)
  BY DEF SchedulerAssumption
<1>4. /\ atPop \in Nat /\ atAcquire \in Nat /\ Cardinality(Workers) \in Nat
      /\ atAcquire <= Cardinality(Workers)
      /\ atPop' = atPop /\ atAcquire' = atAcquire
  BY <1>2, <1>3, FS_Subset, FS_CardinalityType
<1>5. /\ atRelease \in Nat /\ atRelease' \in Nat
      /\ cpc[c] # "release" /\ cpc'[c] = "release" => atRelease' = atRelease + 1
      /\ cpc[c] = "release" /\ cpc'[c] # "release" => atRelease = atRelease' + 1
      /\ cpc[c] # "release" /\ cpc'[c] # "release" => atRelease' = atRelease
  BY <1>1, ClientMoves, Zenon
<1>6. sem \in Nat /\ sem' \in Nat /\ Len(queue) \in Nat /\ cpc \in [Clients -> ClientLabels]
      /\ Main \in Clients
  BY <1>0, LenProperties DEF TypeOK, SchedulerAssumption
<1>8. /\ ~shutdown => sem + atPop + atRelease = Len(queue)
      /\ shutdown /\ cpc[Main] # "wake" => sem >= atAcquire
      /\ cpc[Main] \in {"wake", "join"} => shutdown
  BY <1>0 DEF SemaphoreCountsTasks, NoWorkerStranded, OnlyMainWaits
<1>9. SUFFICES /\ ~shutdown => sem' + atPop + atRelease' = Len(queue')
               /\ shutdown /\ cpc'[Main] # "wake" => sem' >= atAcquire
               /\ OnlyMainWaits'
  BY <1>0, <1>4 DEF SemaphoreCountsTasks, NoWorkerStranded, CountingInv
<1>10. ASSUME NEW t \in Tasks, StartTask(c, t)
       PROVE  /\ ~shutdown => sem' + atPop + atRelease' = Len(queue')
              /\ shutdown /\ cpc'[Main] # "wake" => sem' >= atAcquire
              /\ OnlyMainWaits'
  <2>1. CASE shutdown
    BY <1>0, <1>5, <1>6, <1>8, <1>10, <2>1 DEF StartTask, OnlyMainWaits
  <2>2. CASE ~shutdown
    <3>1. Len(queue') = Len(queue) + 1
      BY <1>0, <1>10, <2>2 DEF StartTask, TypeOK
    <3>2. atRelease' = atRelease + 1 /\ sem' = sem
      BY <1>5, <1>6, <1>10, <2>2 DEF StartTask
    <3>3. OnlyMainWaits'
      BY <1>0, <1>6, <1>10, <2>2 DEF StartTask, OnlyMainWaits
    <3> QED   BY <1>4, <1>5, <1>6, <1>8, <2>2, <3>1, <3>2, <3>3
  <2> QED   BY <2>1, <2>2
<1>11. CASE ReleaseSemaphore(c)
  <2>1. atRelease = atRelease' + 1 /\ sem' = sem + 1 /\ Len(queue') = Len(queue)
    BY <1>5, <1>6, <1>11 DEF ReleaseSemaphore
  <2>2. OnlyMainWaits' /\ (cpc'[Main] # "wake" => cpc[Main] # "wake")
    BY <1>0, <1>6, <1>11 DEF ReleaseSemaphore, OnlyMainWaits
  <2> QED   BY <1>4, <1>5, <1>6, <1>8, <2>1, <2>2
<1>12. CASE c = Main /\ WakeWorkers
  <2>1. shutdown /\ OnlyMainWaits'
    BY <1>0, <1>6, <1>8, <1>12 DEF WakeWorkers, OnlyMainWaits
  <2>2. sem' = sem + Cardinality(Workers)
    BY <1>12 DEF WakeWorkers
  <2> QED   BY <1>4, <1>6, <2>1, <2>2
<1>13. CASE c = Main /\ (WaitQueued \/ WaitRunning \/ JoinWorkers)
  <2>1. /\ sem' = sem /\ queue' = queue
        /\ cpc[c] # "release" /\ cpc'[c] # "release" /\ cpc[Main] # "wake"
    BY <1>6, <1>13 DEF WaitQueued, WaitRunning, JoinWorkers
  <2>2. OnlyMainWaits'
    BY <1>0, <1>6, <1>13 DEF WaitQueued, WaitRunning, JoinWorkers, OnlyMainWaits
  <2> QED   BY <1>4, <1>5, <1>6, <1>8, <2>1, <2>2
<1> QED   BY <1>10, <1>11, <1>12, <1>13 DEF ClientStep

(* As long as the pool is running the semaphore counts its tasks, and once *)
(* it is shut down no worker stays blocked on the semaphore for want of a  *)
(* release: for any number of threads and tasks.                           *)
THEOREM NoLostWakeup == Spec => []SemaphoreInv
<1> USE SchedulerAssumption
<1>1. Init => CountingInv
  <2> SUFFICES ASSUME Init PROVE CountingInv
    OBVIOUS
  <2>1. WorkersAt("pop") = {} /\ WorkersAt("acquire") = {} /\ ClientsAt("release") = {}
    BY DEF Init, WorkersAt, ClientsAt
  <2>2. OnlyMainWaits
    BY DEF Init, OnlyMainWaits, SchedulerAssumption
  <2>3. Len(queue) = 0 /\ sem = 0 /\ ~shutdown
    BY DEF Init
  <2>4. SemaphoreCountsTasks /\ NoWorkerStranded
    <3>1. Cardinality({}) = 0
      BY FS_EmptySet
    <3>2. /\ Cardinality(WorkersAt("pop")) = 0
          /\ Cardinality(WorkersAt("acquire")) = 0
          /\ Cardinality(ClientsAt("release")) = 0
      BY <2>1, <3>1, Zenon
    <3> QED   BY <2>3, <3>2 DEF SemaphoreCountsTasks, NoWorkerStranded
  <2>5. TypeOK
    BY InitTypeOK
  <2> QED   BY <2>2, <2>4, <2>5 DEF CountingInv
<1>2. CountingInv /\ TypeOK' /\ [Next]_vars => CountingInv'
  <2> SUFFICES ASSUME CountingInv, TypeOK', [Next]_vars
               PROVE  CountingInv'
    OBVIOUS
  <2>1. ASSUME NEW t \in Tasks, Weaken(t) \/ WaitFinish(t)
        PROVE  CountingInv'
    <3>1. /\ sem' = sem /\ queue' = queue /\ shutdown' = shutdown /\ wpc' = wpc
          /\ ClientsAt("release")' = ClientsAt("release") /\ OnlyMainWaits'
          /\ cpc[Main] # "wake"
      BY <2>1 DEF Weaken, WaitFinish, workerVars, CountingInv, OnlyMainWaits, ClientsAt,
                  TypeOK, SchedulerAssumption
    <3> QED   BY <3>1 DEF CountingInv, SemaphoreCountsTasks, NoWorkerStranded, WorkersAt
  <2>2. CASE Shutdown
    <3>1. shutdown' /\ cpc'[Main] = "wake" /\ OnlyMainWaits'
      BY <2>2 DEF Shutdown, CountingInv, OnlyMainWaits, TypeOK, SchedulerAssumption
    <3> QED   BY <3>1 DEF CountingInv, SemaphoreCountsTasks, NoWorkerStranded
  <2>3. CASE UNCHANGED vars
    BY <2>3 DEF vars, CountingInv, OnlyMainWaits, SemaphoreCountsTasks, NoWorkerStranded,
                WorkersAt, ClientsAt
  <2> QED   BY <2>1, <2>2, <2>3, WorkerKeepsCount, ClientKeepsCount DEF Next
<1>3. CountingInv => SemaphoreInv
  BY DEF CountingInv, SemaphoreInv
<1> QED   BY <1>1, <1>2, <1>3, TypeCorrect, PTL DEF Spec

-----------------------------------------------------------------------------
(* A worker step takes a task from one place to the next one. *)
LEMMA WorkerKeepsPlaces ==
  ASSUME PlacesInv, TypeOK', NEW w \in Workers, WorkerStep(w)
  PROVE  PlacesInv'
<1> USE SchedulerAssumption DEF Final
<1>0. TypeOK /\ QueueEmptyAfterShutdown /\ PlacesAgree /\ TaskHasOnePlace
  BY DEF PlacesInv
<1>1. call' = call /\ shutdown' = shutdown
  BY DEF WorkerStep, CheckShutdown, AcquireSemaphore, PopTask, PopNothing, MarkRunning,
         FinishTask, DiscardTask, clientVars
<1>2. ASSUME CheckShutdown(w) \/ AcquireSemaphore(w) \/ PopNothing(w)
      PROVE  PlacesInv'
  <2>1. /\ queue' = queue /\ status' = status /\ wtask' = wtask
        /\ wpc[w] \notin {"start", "execute", "discard"}
        /\ wpc'[w] \notin {"start", "execute", "discard"}
        /\ \A v \in Workers \ {w} : wpc'[v] = wpc[v]
    BY <1>0, <1>2 DEF CheckShutdown, AcquireSemaphore, PopNothing, TypeOK, WorkerLabels
  <2>2. WorkersAt("execute")' = WorkersAt("execute") /\ QueuedTasks' = QueuedTasks
    BY <2>1 DEF WorkersAt, QueuedTasks
  <2>3. PlacesAgree'
    BY <1>0, <1>1, <2>1, <2>2 DEF PlacesAgree
  <2>4. TaskHasOnePlace' /\ QueueEmptyAfterShutdown'
    BY <1>0, <1>1, <2>1, <2>2 DEF TaskHasOnePlace, QueueEmptyAfterShutdown
  <2> QED   BY <2>3, <2>4 DEF PlacesInv
<1>3. CASE PopTask(w)
  <2> DEFINE t == Head(queue)
  <2>1. /\ \A i, j \in 1..Len(queue') : queue'[i] = queue'[j] => i = j
        /\ QueuedTasks' = QueuedTasks \ {t}
        /\ t \in QueuedTasks
    <3>1. queue \in Seq(Tasks) /\ queue # <<>> /\ queue' = Tail(queue)
      BY <1>0, <1>3 DEF PopTask, TypeOK
    <3>2. NoRepetition(queue)
      BY <1>0 DEF TaskHasOnePlace, NoRepetition
    <3>3. /\ NoRepetition(Tail(queue))
          /\ ElementsOf(Tail(queue)) = ElementsOf(queue) \ {Head(queue)}
          /\ Head(queue) \in ElementsOf(queue)
      BY <3>1, <3>2, PopElements
    <3> QED   BY <3>1, <3>3, Zenon DEF QueuedTasks, ElementsOf, NoRepetition
  <2>2. QueuedTasks \subseteq Tasks /\ t \in Tasks /\ t # NoTask
    BY <1>0, <2>1, ElementOfSeq DEF TypeOK, QueuedTasks, SchedulerAssumption
  <2>3. /\ status' = status /\ wpc[w] = "pop" /\ wpc'[w] = "start"
        /\ wtask'[w] = t
        /\ \A v \in Workers \ {w} : wpc'[v] = wpc[v] /\ wtask'[v] = wtask[v]
    BY <1>0, <1>3 DEF PopTask, TypeOK
  <2>4. wtask[w] = NoTask /\ status[t] = "queued" /\ call[t] = "accepted"
        /\ \A v \in Workers : wtask[v] # t
    BY <1>0, <2>1, <2>3 DEF PlacesAgree, TaskHasOnePlace
  <2>5. WorkersAt("execute")' = WorkersAt("execute")
    BY <2>3 DEF WorkersAt
  <2>6. PlacesAgree'
    BY <1>0, <1>1, <2>1, <2>2, <2>3, <2>4 DEF PlacesAgree
  <2>7. QueueEmptyAfterShutdown'
    BY <1>0, <1>1, <1>3 DEF QueueEmptyAfterShutdown, PopTask
  <2>8. \A v, u \in Workers : wtask'[v] = wtask'[u] /\ wtask'[v] # NoTask => v = u
    BY <1>0, <2>3, <2>4 DEF TaskHasOnePlace
  <2>9. \A v \in Workers : wtask'[v] \notin QueuedTasks'
    BY <1>0, <2>1, <2>3, <2>4 DEF TaskHasOnePlace
  <2>10. \A s \in Tasks : status'[s] = "running" <=> \E v \in WorkersAt("execute")' : wtask'[v] = s
    BY <1>0, <2>3, <2>5 DEF TaskHasOnePlace, WorkersAt
  <2>11. \A s \in Tasks :
           call'[s] = "accepted" /\ ~shutdown'
             => s \in QueuedTasks' \/ status'[s] \in Final \/ \E v \in Workers : wtask'[v] = s
    BY <1>0, <1>1, <2>1, <2>3, <2>4 DEF TaskHasOnePlace
  <2> QED   BY <2>1, <2>6, <2>7, <2>8, <2>9, <2>10, <2>11 DEF PlacesInv, TaskHasOnePlace
<1>4. ASSUME MarkRunning(w) \/ FinishTask(w)
      PROVE  PlacesInv'
  <2> DEFINE t == wtask[w]
  <2>1. /\ queue' = queue /\ wtask' = wtask
        /\ wpc[w] \in {"start", "execute"}
        /\ \A v \in Workers \ {w} : wpc'[v] = wpc[v]
        /\ wpc[w] = "start" <=> wpc'[w] = "execute"
        /\ wpc[w] = "execute" <=> wpc'[w] = "discard"
    BY <1>0, <1>4 DEF MarkRunning, FinishTask, TypeOK, WorkerLabels
  <2>2. t \in Tasks /\ t # NoTask /\ t \notin QueuedTasks /\ call[t] = "accepted"
        /\ \A v \in Workers \ {w} : wtask[v] # t
    BY <1>0, <2>1 DEF PlacesAgree, TaskHasOnePlace, TypeOK
  <2>3. /\ \A s \in Tasks \ {t} : status'[s] = status[s]
        /\ wpc'[w] = "execute" => status'[t] = "running"
        /\ wpc'[w] = "discard" => status'[t] \in Final
    BY <1>0, <1>4, <2>1, <2>2 DEF MarkRunning, FinishTask, TypeOK
  <2>4. QueuedTasks' = QueuedTasks /\ QueuedTasks \subseteq Tasks
    BY <1>0, <2>1, ElementOfSeq DEF QueuedTasks, TypeOK
  <2>5. PlacesAgree'
    <3>1. \A v \in Workers :
            /\ wtask[v] # NoTask <=> wpc'[v] \in {"start", "execute", "discard"}
            /\ wpc'[v] = "start" => status'[wtask[v]] = "queued"
            /\ wpc'[v] = "execute" => status'[wtask[v]] = "running"
            /\ wpc'[v] = "discard" => status'[wtask[v]] \in Final
      <4> SUFFICES ASSUME NEW v \in Workers
                   PROVE  /\ wtask[v] # NoTask <=> wpc'[v] \in {"start", "execute", "discard"}
                          /\ wpc'[v] = "start" => status'[wtask[v]] = "queued"
                          /\ wpc'[v] = "execute" => status'[wtask[v]] = "running"
                          /\ wpc'[v] = "discard" => status'[wtask[v]] \in Final
        OBVIOUS
      <4>1. CASE v = w   BY <1>0, <2>1, <2>2, <2>3, <4>1 DEF PlacesAgree
      <4>2. CASE v # w
        <5>1. wtask[v] \in Tasks \ {t} \/ wtask[v] = NoTask
          BY <1>0, <2>2, <4>2 DEF TypeOK
        <5> QED   BY <1>0, <2>1, <2>3, <4>2, <5>1 DEF PlacesAgree
      <4> QED   BY <4>1, <4>2
    <3>2. \A s \in QueuedTasks : status'[s] = "queued" /\ call[s] = "accepted"
      BY <1>0, <2>2, <2>3, <2>4 DEF PlacesAgree
    <3>3. \A s \in Tasks : call[s] # "accepted" => status'[s] = "queued"
      BY <1>0, <2>2, <2>3 DEF PlacesAgree
    <3> QED   BY <1>0, <1>1, <2>1, <2>4, <3>1, <3>2, <3>3 DEF PlacesAgree
  <2>6. \A s \in Tasks : status'[s] = "running" <=> \E v \in WorkersAt("execute")' : wtask'[v] = s
    <3> SUFFICES ASSUME NEW s \in Tasks
                 PROVE  status'[s] = "running" <=> \E v \in Workers : wpc'[v] = "execute" /\ wtask[v] = s
      BY <2>1 DEF WorkersAt
    <3>1. status[s] = "running" <=> \E v \in Workers : wpc[v] = "execute" /\ wtask[v] = s
      BY <1>0 DEF TaskHasOnePlace, WorkersAt
    <3>2. CASE s = t   BY <2>1, <2>2, <2>3, <3>2
    <3>3. CASE s # t   BY <2>1, <2>3, <3>1, <3>3
    <3> QED   BY <3>2, <3>3
  <2>7. \A s \in Tasks :
          call'[s] = "accepted" /\ ~shutdown'
            => s \in QueuedTasks' \/ status'[s] \in Final \/ \E v \in Workers : wtask'[v] = s
    BY <1>0, <1>1, <2>1, <2>3, <2>4 DEF TaskHasOnePlace
  <2>8. TaskHasOnePlace' /\ QueueEmptyAfterShutdown'
    BY <1>0, <1>1, <2>1, <2>4, <2>6, <2>7 DEF TaskHasOnePlace, QueueEmptyAfterShutdown
  <2> QED   BY <2>5, <2>8 DEF PlacesInv
<1>5. CASE DiscardTask(w)
  <2>1. /\ queue' = queue /\ status' = status
        /\ wpc[w] = "discard" /\ wpc'[w] = "check" /\ wtask'[w] = NoTask
        /\ \A v \in Workers \ {w} : wpc'[v] = wpc[v] /\ wtask'[v] = wtask[v]
    BY <1>0, <1>5 DEF DiscardTask, TypeOK
  <2>2. WorkersAt("execute")' = WorkersAt("execute") /\ QueuedTasks' = QueuedTasks
        /\ QueuedTasks \subseteq Tasks
    BY <1>0, <2>1, ElementOfSeq DEF WorkersAt, QueuedTasks, TypeOK
  <2>3. PlacesAgree'
    BY <1>0, <1>1, <2>1, <2>2 DEF PlacesAgree
  <2>4. status[wtask[w]] \in Final
    BY <1>0, <2>1 DEF PlacesAgree
  <2>5. \A v, u \in Workers : wtask'[v] = wtask'[u] /\ wtask'[v] # NoTask => v = u
    BY <1>0, <2>1 DEF TaskHasOnePlace
  <2>6. \A v \in Workers : wtask'[v] \notin QueuedTasks'
    BY <1>0, <2>1, <2>2 DEF TaskHasOnePlace, SchedulerAssumption
  <2>7. \A s \in Tasks : status'[s] = "running" <=> \E v \in WorkersAt("execute")' : wtask'[v] = s
    BY <1>0, <2>1, <2>2 DEF TaskHasOnePlace, WorkersAt
  <2>8. \A s \in Tasks :
          call'[s] = "accepted" /\ ~shutdown'
            => s \in QueuedTasks' \/ status'[s] \in Final \/ \E v \in Workers : wtask'[v] = s
    BY <1>0, <1>1, <2>1, <2>2, <2>4 DEF TaskHasOnePlace
  <2>9. TaskHasOnePlace' /\ QueueEmptyAfterShutdown'
    BY <1>0, <1>1, <2>1, <2>2, <2>5, <2>6, <2>7, <2>8 DEF TaskHasOnePlace, QueueEmptyAfterShutdown
  <2> QED   BY <2>3, <2>9 DEF PlacesInv
<1> QED   BY <1>2, <1>3, <1>4, <1>5 DEF WorkerStep

(* start_task() gives a new task its place at the end of the queue. *)
LEMMA StartKeepsPlaces ==
  ASSUME PlacesInv, TypeOK', NEW c \in Clients, NEW t \in Tasks, StartTask(c, t)
  PROVE  PlacesInv'
<1> USE SchedulerAssumption DEF Final
<1>0. TypeOK /\ QueueEmptyAfterShutdown /\ PlacesAgree /\ TaskHasOnePlace
  BY DEF PlacesInv
<1>1. /\ status' = status /\ wpc' = wpc /\ wtask' = wtask /\ shutdown' = shutdown
      /\ call[t] = "none" /\ \A s \in Tasks \ {t} : call'[s] = call[s]
      /\ WorkersAt("execute")' = WorkersAt("execute")
  BY <1>0 DEF StartTask, TypeOK, workerVars, WorkersAt
<1>2. /\ status[t] = "queued" /\ t \notin QueuedTasks
      /\ \A w \in Workers : wtask[w] # t
  BY <1>0, <1>1, SchedulerAssumption DEF PlacesAgree, SchedulerAssumption
<1>3. CASE shutdown
  <2>1. queue' = queue /\ call'[t] = "discarded"
    BY <1>0, <1>3 DEF StartTask, TypeOK
  <2>2. QueuedTasks' = QueuedTasks
    BY <2>1 DEF QueuedTasks
  <2>3. PlacesAgree'
    BY <1>0, <1>1, <1>2, <2>1, <2>2, ElementOfSeq DEF PlacesAgree, TypeOK, QueuedTasks
  <2>4. TaskHasOnePlace' /\ QueueEmptyAfterShutdown'
    BY <1>0, <1>1, <1>3, <2>1, <2>2 DEF TaskHasOnePlace, QueueEmptyAfterShutdown
  <2> QED   BY <2>3, <2>4 DEF PlacesInv
<1>4. CASE ~shutdown
  <2>1. queue' = Append(queue, t) /\ call'[t] = "accepted" /\ queue \in Seq(Tasks)
    BY <1>0, <1>4 DEF StartTask, TypeOK
  <2>2. /\ \A i, j \in 1..Len(queue') : queue'[i] = queue'[j] => i = j
        /\ QueuedTasks' = QueuedTasks \cup {t}
    <3>1. NoRepetition(queue)
      BY <1>0 DEF TaskHasOnePlace, NoRepetition
    <3>2. t \notin ElementsOf(queue)
      BY <1>2 DEF QueuedTasks, ElementsOf
    <3>3. /\ NoRepetition(Append(queue, t))
          /\ ElementsOf(Append(queue, t)) = ElementsOf(queue) \cup {t}
      BY <2>1, <3>1, <3>2, AppendElements
    <3> QED   BY <2>1, <3>3, Zenon DEF QueuedTasks, ElementsOf, NoRepetition
  <2>3. PlacesAgree'
    <3>1. QueuedTasks \subseteq Tasks
      BY <2>1, ElementOfSeq DEF QueuedTasks
    <3> QED   BY <1>0, <1>1, <1>2, <2>1, <2>2, <3>1 DEF PlacesAgree, TypeOK
  <2>4. TaskHasOnePlace' /\ QueueEmptyAfterShutdown'
    BY <1>0, <1>1, <1>2, <1>4, <2>1, <2>2 DEF TaskHasOnePlace, QueueEmptyAfterShutdown
  <2> QED   BY <2>3, <2>4 DEF PlacesInv
<1> QED   BY <1>3, <1>4

(* Every task has at most one place, which its status agrees with, and the *)
(* queue stays empty after a shutdown.                                     *)
THEOREM PlacesCorrect == Spec => [](TaskHasOnePlace /\ QueueEmptyAfterShutdown /\ PlacesInv)
<1> USE SchedulerAssumption
<1>1. Init => PlacesInv
  <2> SUFFICES ASSUME Init PROVE PlacesInv
    OBVIOUS
  <2>1. Len(queue) = 0 /\ QueuedTasks = {} /\ WorkersAt("execute") = {}
    BY DEF Init, QueuedTasks, WorkersAt
  <2>2. PlacesAgree
    BY <2>1 DEF Init, PlacesAgree
  <2>3. TaskHasOnePlace /\ QueueEmptyAfterShutdown
    BY <2>1 DEF Init, TaskHasOnePlace, QueueEmptyAfterShutdown
  <2> QED   BY <2>2, <2>3, InitTypeOK DEF PlacesInv
<1>2. PlacesInv /\ TypeOK' /\ [Next]_vars => PlacesInv'
  <2> SUFFICES ASSUME PlacesInv, TypeOK', [Next]_vars
               PROVE  PlacesInv'
    OBVIOUS
  <2>1. ASSUME /\ UNCHANGED <<queue, shutdown, status, call>>
               /\ UNCHANGED workerVars
        PROVE  PlacesInv'
    BY <2>1 DEF workerVars, PlacesInv, PlacesAgree, TaskHasOnePlace, QueueEmptyAfterShutdown,
                WorkersAt, QueuedTasks
  <2>2. ASSUME NEW c \in Clients, ClientStep(c)
        PROVE  PlacesInv'
    BY <2>1, <2>2 DEF ClientStep, ReleaseSemaphore, WaitQueued, WaitRunning, WakeWorkers,
                      JoinWorkers
  <2>3. ASSUME NEW t \in Tasks, Weaken(t) \/ WaitFinish(t)
        PROVE  PlacesInv'
    BY <2>1, <2>3 DEF Weaken, WaitFinish
  <2>4. CASE Shutdown
    <3>1. /\ status' = status /\ call' = call /\ wpc' = wpc /\ wtask' = wtask
          /\ shutdown' /\ queue' = <<>> /\ Len(queue') = 0
      BY <2>4 DEF Shutdown, workerVars
    <3>2. QueuedTasks' = {} /\ WorkersAt("execute")' = WorkersAt("execute")
      BY <3>1 DEF QueuedTasks, WorkersAt
    <3>3. PlacesAgree'
      BY <3>1, <3>2 DEF PlacesInv, PlacesAgree
    <3>4. TaskHasOnePlace' /\ QueueEmptyAfterShutdown'
      BY <3>1, <3>2 DEF PlacesInv, TaskHasOnePlace, QueueEmptyAfterShutdown
    <3> QED   BY <3>3, <3>4 DEF PlacesInv
  <2>5. CASE UNCHANGED vars
    BY <2>1, <2>5 DEF vars, workerVars
  <2> QED   BY <2>2, <2>3, <2>4, <2>5, WorkerKeepsPlaces, StartKeepsPlaces DEF Next
<1>3. PlacesInv => TaskHasOnePlace /\ QueueEmptyAfterShutdown
  BY DEF PlacesInv
<1> QED   BY <1>1, <1>2, <1>3, TypeCorrect, PTL DEF Spec

-----------------------------------------------------------------------------
(* The refinement of TaskPool.  A step that touches neither the queue nor  *)
(* what TaskPhase looks at leaves the abstract pool as it is.              *)
LEMMA PoolStutters ==
  ASSUME UNCHANGED <<queue, shutdown, call>>,
         \A t \in Tasks : TaskPhase(t)' = TaskPhase(t)
  PROVE  UNCHANGED Pool!poolVars
BY DEF Pool!poolVars

(* A step that leaves alone what TaskPhase looks at keeps every phase. *)
LEMMA SamePhase ==
  ASSUME NEW t \in Tasks, UNCHANGED <<queue, call>>,
         status'[t] \in Final <=> status[t] \in Final,
         status[t] \in Final \/ \A w \in Workers : wtask'[w] = t <=> wtask[w] = t
  PROVE  TaskPhase(t)' = TaskPhase(t)
BY DEF TaskPhase, QueuedTasks

(* A worker step is a Take, a Complete, or invisible to the users. *)
LEMMA WorkerImplementsPool ==
  ASSUME PlacesInv, PlacesInv', NEW w \in Workers, WorkerStep(w)
  PROVE  Pool!Next \/ UNCHANGED Pool!poolVars
<1> USE SchedulerAssumption
<1>0. TypeOK /\ PlacesAgree /\ TaskHasOnePlace /\ TypeOK' /\ PlacesAgree'
  BY DEF PlacesInv
<1>1. ASSUME CheckShutdown(w) \/ AcquireSemaphore(w) \/ PopNothing(w)
      PROVE  UNCHANGED Pool!poolVars
  <2>1. UNCHANGED <<queue, shutdown, call, status, wtask>>
    BY <1>1 DEF CheckShutdown, AcquireSemaphore, PopNothing, clientVars
  <2> QED   BY <2>1, SamePhase, PoolStutters
<1>2. CASE PopTask(w)
  <2>0. PICK t \in Tasks : t = Head(queue)
    BY <1>0, <1>2, HeadTailProperties DEF PopTask, TypeOK
  <2>1. queue # <<>> /\ queue' = Tail(queue) /\ wtask'[w] = t
        /\ UNCHANGED <<shutdown, call, status>>
        /\ wtask[w] = NoTask
        /\ \A v \in Workers \ {w} : wtask'[v] = wtask[v]
    BY <1>0, <1>2, <2>0 DEF PopTask, clientVars, TypeOK, PlacesAgree
  <2>2. QueuedTasks' = QueuedTasks \ {t} /\ t \in QueuedTasks
    <3>1. queue \in Seq(Tasks) /\ NoRepetition(queue)
      BY <1>0 DEF TypeOK, TaskHasOnePlace, NoRepetition
    <3>2. ElementsOf(Tail(queue)) = ElementsOf(queue) \ {t} /\ t \in ElementsOf(queue)
      BY <2>0, <2>1, <3>1, PopElements
    <3> QED   BY <2>1, <3>2, Zenon DEF QueuedTasks, ElementsOf
  <2>3. TaskPhase(t)' = "taken"
    <3>1. status[t] = "queued" /\ call[t] = "accepted"
      BY <1>0, <2>2 DEF PlacesAgree
    <3> QED   BY <2>1, <2>2, <3>1 DEF TaskPhase, Final
  <2>4. \A s \in Tasks \ {t} : TaskPhase(s)' = TaskPhase(s)
    BY <2>1, <2>2, SchedulerAssumption DEF TaskPhase, SchedulerAssumption
  <2>5. Pool!Take
    <3>0. TaskPhase(t)' = "taken" /\ \A s \in Tasks : s # t => TaskPhase(s)' = TaskPhase(s)
      BY <2>3, <2>4
    <3>1. [s \in Tasks |-> TaskPhase(s)']
            = [[s \in Tasks |-> TaskPhase(s)] EXCEPT ![Head(queue)] = "taken"]
      BY <2>0, <3>0
    <3> QED   BY <2>1, <3>1 DEF Pool!Take
  <2> QED   BY <2>5 DEF Pool!Next
<1>3. CASE MarkRunning(w)
  <2>1. UNCHANGED <<queue, shutdown, call, wtask>>
    BY <1>3 DEF MarkRunning, clientVars
  <2>2. \A s \in Tasks : status'[s] \in Final <=> status[s] \in Final
    BY <1>0, <1>3 DEF MarkRunning, TypeOK, PlacesAgree, Final
  <2> QED   BY <2>1, <2>2, SamePhase, PoolStutters
<1>4. CASE FinishTask(w)
  <2> DEFINE t == wtask[w]
  <2>1. /\ UNCHANGED <<queue, shutdown, call, wtask>>
        /\ t \in Tasks /\ t \notin QueuedTasks /\ call[t] = "accepted"
        /\ status[t] \notin Final /\ status'[t] \in Final
        /\ \A s \in Tasks \ {t} : status'[s] = status[s]
    BY <1>0, <1>4 DEF FinishTask, clientVars, TypeOK, PlacesAgree, TaskHasOnePlace, Final
  <2>2. TaskPhase(t) = "taken" /\ TaskPhase(t)' = "done"
    BY <2>1 DEF TaskPhase, QueuedTasks
  <2>3. \A s \in Tasks \ {t} : TaskPhase(s)' = TaskPhase(s)
    BY <2>1, SamePhase
  <2>4. Pool!Complete(t)
    BY <2>1, <2>2, <2>3 DEF Pool!Complete
  <2> QED   BY <2>1, <2>4 DEF Pool!Next
<1>5. CASE DiscardTask(w)
  <2>1. /\ UNCHANGED <<queue, shutdown, call, status>>
        /\ status[wtask[w]] \in Final
        /\ wtask'[w] = NoTask
        /\ \A v \in Workers \ {w} : wtask'[v] = wtask[v]
    BY <1>0, <1>5 DEF DiscardTask, clientVars, TypeOK, PlacesAgree
  <2>2. \A s \in Tasks : status[s] \in Final \/ \A v \in Workers : wtask'[v] = s <=> wtask[v] = s
    BY <2>1 DEF SchedulerAssumption
  <2> QED   BY <2>1, <2>2, SamePhase, PoolStutters
<1> QED   BY <1>1, <1>2, <1>3, <1>4, <1>5 DEF WorkerStep

(* The critical section of start_task() is a Submit or a Reject. *)
LEMMA StartImplementsPool ==
  ASSUME PlacesInv, NEW c \in Clients, NEW t \in Tasks, StartTask(c, t)
  PROVE  Pool!Next
<1>0. TypeOK /\ PlacesAgree /\ TaskHasOnePlace
  BY DEF PlacesInv
<1>1. /\ UNCHANGED <<shutdown, status, wtask>> /\ call[t] = "none" /\ TaskPhase(t) = "new"
      /\ \A s \in Tasks \ {t} : call'[s] = call[s]
      /\ status[t] = "queued"
  BY <1>0 DEF StartTask, workerVars, TypeOK, TaskPhase, PlacesAgree
<1>2. CASE shutdown
  <2>1. queue' = queue /\ call'[t] = "discarded"
    BY <1>0, <1>2 DEF StartTask, TypeOK
  <2>2. TaskPhase(t)' = "rejected" /\ \A s \in Tasks \ {t} : TaskPhase(s)' = TaskPhase(s)
    BY <1>1, <2>1 DEF TaskPhase, QueuedTasks
  <2>3. Pool!Reject(t)
    BY <1>1, <1>2, <2>1, <2>2 DEF Pool!Reject
  <2> QED   BY <2>3 DEF Pool!Next
<1>3. CASE ~shutdown
  <2>1. queue' = Append(queue, t) /\ call'[t] = "accepted" /\ queue \in Seq(Tasks)
    BY <1>0, <1>3 DEF StartTask, TypeOK
  <2>2. QueuedTasks' = QueuedTasks \cup {t}
    <3>1. NoRepetition(queue) /\ t \notin ElementsOf(queue)
      BY <1>0, <1>1 DEF TaskHasOnePlace, NoRepetition, PlacesAgree, QueuedTasks, ElementsOf
    <3>2. ElementsOf(Append(queue, t)) = ElementsOf(queue) \cup {t}
      BY <2>1, <3>1, AppendElements
    <3> QED   BY <2>1, <3>2, Zenon DEF QueuedTasks, ElementsOf
  <2>3. TaskPhase(t)' = "pending" /\ \A s \in Tasks \ {t} : TaskPhase(s)' = TaskPhase(s)
    BY <1>1, <2>1, <2>2 DEF TaskPhase, Final
  <2>4. Pool!Submit(t)
    BY <1>1, <1>3, <2>1, <2>3 DEF Pool!Submit
  <2> QED   BY <2>4 DEF Pool!Next
<1> QED   BY <1>2, <1>3

(* The critical section of shutdown_and_wait() is a Close. *)
LEMMA ShutdownImplementsPool ==
  ASSUME PlacesInv, Shutdown
  PROVE  Pool!Next
<1>0. TypeOK /\ PlacesAgree /\ TaskHasOnePlace
  BY DEF PlacesInv
<1>1. UNCHANGED <<status, call, wtask>> /\ ~shutdown /\ shutdown' /\ queue' = <<>>
      /\ QueuedTasks' = {}
  <2>1. Len(<<>>) = 0
    OBVIOUS
  <2> QED   BY <2>1 DEF Shutdown, workerVars, QueuedTasks
<1>2. \A t \in Tasks : TaskPhase(t)' = IF TaskPhase(t) = "pending" THEN "dropped" ELSE TaskPhase(t)
  <2> SUFFICES ASSUME NEW t \in Tasks
               PROVE  TaskPhase(t)' = IF TaskPhase(t) = "pending" THEN "dropped" ELSE TaskPhase(t)
    OBVIOUS
  <2>1. CASE t \in QueuedTasks
    <3>1. status[t] = "queued" /\ call[t] = "accepted" /\ \A w \in Workers : wtask[w] # t
      BY <1>0, <2>1 DEF PlacesAgree, TaskHasOnePlace
    <3> QED   BY <1>1, <2>1, <3>1 DEF TaskPhase, Final
  <2>2. CASE t \notin QueuedTasks
    BY <1>1, <2>2 DEF TaskPhase
  <2> QED   BY <2>1, <2>2
<1>3. Pool!Close
  BY <1>1, <1>2 DEF Pool!Close
<1> QED   BY <1>3 DEF Pool!Next

(* The thread pool implements TaskPool: tasks are taken in the order they  *)
(* were started and at most once, and only a shutdown loses any.           *)
THEOREM ImplementsTaskPool == Spec => PoolSpec
<1>1. Init => Pool!Init
  <2> SUFFICES ASSUME Init PROVE Pool!Init
    OBVIOUS
  <2>1. \A t \in Tasks : TaskPhase(t) = "new"
    BY DEF Init, TaskPhase
  <2> QED   BY <2>1 DEF Init, Pool!Init
<1>2. PlacesInv /\ PlacesInv' /\ [Next]_vars => [Pool!Next]_(Pool!poolVars)
  <2> SUFFICES ASSUME PlacesInv, PlacesInv', [Next]_vars
               PROVE  Pool!Next \/ UNCHANGED Pool!poolVars
    OBVIOUS
  <2>1. ASSUME UNCHANGED <<queue, shutdown, call, status, wtask>>
        PROVE  UNCHANGED Pool!poolVars
    BY <2>1, SamePhase, PoolStutters
  <2>2. ASSUME NEW c \in Clients, ClientStep(c)
        PROVE  UNCHANGED Pool!poolVars
    BY <2>1, <2>2 DEF ClientStep, ReleaseSemaphore, WaitQueued, WaitRunning, WakeWorkers,
                      JoinWorkers, workerVars
  <2>3. ASSUME NEW t \in Tasks, Weaken(t) \/ WaitFinish(t)
        PROVE  UNCHANGED Pool!poolVars
    BY <2>1, <2>3 DEF Weaken, WaitFinish, workerVars
  <2>4. CASE UNCHANGED vars
    BY <2>1, <2>4 DEF vars
  <2> QED   BY <2>2, <2>3, <2>4, WorkerImplementsPool, StartImplementsPool,
               ShutdownImplementsPool DEF Next
<1> QED   BY <1>1, <1>2, PlacesCorrect, PTL DEF Spec, PoolSpec, Pool!Spec

(* shutdown_and_wait() returns to a quiet pool: no task is running then,   *)
(* and no worker holds one that it could still run.                        *)
THEOREM QuietAtReturn == Spec => QuietAfterJoin
<1>1. PlacesInv /\ [Next]_vars
        => [cpc[Main] = "join" /\ cpc'[Main] = "idle"
              => \A t \in Tasks : status[t] # "running" /\ ~\E w \in Workers : wtask[w] = t]_vars
  <2> SUFFICES ASSUME PlacesInv, Next, cpc[Main] = "join", cpc'[Main] = "idle"
               PROVE  \A t \in Tasks : status[t] # "running" /\ ~\E w \in Workers : wtask[w] = t
    OBVIOUS
  <2>0. Main \in Clients /\ NoTask \notin Tasks /\ cpc \in [Clients -> ClientLabels]
    BY SchedulerAssumption DEF PlacesInv, TypeOK
  <2>1. \A w \in Workers : wpc[w] = "exited"
    <3>1. cpc' # cpc
      OBVIOUS
    <3>2. \A w \in Workers : ~ WorkerStep(w)
      BY <3>1 DEF WorkerStep, CheckShutdown, AcquireSemaphore, PopTask, PopNothing, MarkRunning, FinishTask,
                  DiscardTask, clientVars
    <3>3. \A c \in Clients, t \in Tasks : ~ StartTask(c, t)
      BY <2>0 DEF StartTask
    <3>4. \A t \in Tasks : ~ Weaken(t) /\ ~ WaitFinish(t)
      BY DEF Weaken, WaitFinish
    <3>5. \A c \in Clients : ~ ReleaseSemaphore(c)
      BY <2>0 DEF ReleaseSemaphore
    <3>6. ~ WaitQueued /\ ~ WaitRunning /\ ~ WakeWorkers /\ ~ Shutdown
      BY DEF WaitQueued, WaitRunning, WakeWorkers, Shutdown
    <3>7. JoinWorkers
      BY <3>2, <3>3, <3>4, <3>5, <3>6 DEF Next, ClientStep
    <3> QED   BY <3>7 DEF JoinWorkers
  <2>2. \A w \in Workers : wtask[w] = NoTask
    BY <2>1 DEF PlacesInv, PlacesAgree
  <2>3. WorkersAt("execute") = {}
    BY <2>1 DEF WorkersAt
  <2> QED   BY <2>0, <2>2, <2>3 DEF PlacesInv, TaskHasOnePlace
<1> QED   BY <1>1, PlacesCorrect, PTL DEF Spec, QuietAfterJoin
=============================================================================
