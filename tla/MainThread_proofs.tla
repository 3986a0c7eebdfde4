------------------------- MODULE MainThread_proofs -------------------------
(***************************************************************************)
(* Proofs about what the main thread keeps for the interface and the       *)
(* plugins: the synchronous tasks, whose queue and lists agree; and, of    *)
(* the buffers, the plugins, an event, the hotkeys, a setting and the tree *)
(* of elements, that what MainThreadParts_proofs shows of them by          *)
(* themselves holds of them on the main thread.                            *)
(***************************************************************************)
EXTENDS MCMainThread, QueueLemmas, FiniteSetTheorems, TLAPS

-----------------------------------------------------------------------------
(* The lists of the elements: each task is in one of them, once.           *)
AllOf(l) == UNION {ToSet(l[e]) : e \in Elements}

(* Each task is in one list, once.                                         *)
ListedOnce(l) ==
  /\ l \in [Elements -> Seq(Tasks)]
  /\ \A e \in Elements : NoRepetition(l[e])
  /\ \A e, f \in Elements : e # f => ToSet(l[e]) \cap ToSet(l[f]) = {}

(* SequencesExt and QueueLemmas name the same set.                         *)
LEMMA ToSetIsElements ==
  ASSUME NEW S, NEW s \in Seq(S)
  PROVE  ToSet(s) = ElementsOf(s)
BY LenProperties DEF ToSet, ElementsOf

(* Appending a task that is in no list adds it.                            *)
LEMMA ListsAfterAppend ==
  ASSUME NEW l, ListedOnce(l), NEW t \in Tasks, t \notin AllOf(l), NEW e \in Elements
  PROVE  LET after == [l EXCEPT ![e] = Append(@, t)]
         IN  ListedOnce(after) /\ AllOf(after) = AllOf(l) \cup {t}
<1> DEFINE after == [l EXCEPT ![e] = Append(@, t)]
<1>1. /\ l[e] \in Seq(Tasks) /\ NoRepetition(l[e]) /\ t \notin ElementsOf(l[e])
  BY ToSetIsElements DEF ListedOnce, AllOf
<1>2. Append(l[e], t) \in Seq(Tasks)
  BY <1>1, AppendProperties
<1>3. NoRepetition(Append(l[e], t)) /\ ToSet(Append(l[e], t)) = ToSet(l[e]) \cup {t}
  <2>1. NoRepetition(Append(l[e], t)) /\ ElementsOf(Append(l[e], t)) = ElementsOf(l[e]) \cup {t}
    BY <1>1, AppendElements
  <2>2. ToSet(Append(l[e], t)) = ElementsOf(Append(l[e], t)) /\ ToSet(l[e]) = ElementsOf(l[e])
    BY <1>1, <1>2, ToSetIsElements
  <2> QED   BY <2>1, <2>2
<1>4. /\ after \in [Elements -> Seq(Tasks)] /\ after[e] = Append(l[e], t)
      /\ \A f \in Elements : f # e => after[f] = l[f]
  BY <1>2 DEF ListedOnce
<1> HIDE DEF after
<1>5. ListedOnce(after)
  <2>1. \A f \in Elements : NoRepetition(after[f])
    BY <1>3, <1>4 DEF ListedOnce
  <2>2. ASSUME NEW f \in Elements, NEW g \in Elements, f # g PROVE ToSet(after[f]) \cap ToSet(after[g]) = {}
    <3>1. ToSet(l[f]) \cap ToSet(l[g]) = {} /\ t \notin ToSet(l[f]) /\ t \notin ToSet(l[g])
      BY <2>2 DEF ListedOnce, AllOf
    <3>2. CASE f = e
      BY <1>3, <1>4, <2>2, <3>1, <3>2
    <3>3. CASE g = e
      BY <1>3, <1>4, <2>2, <3>1, <3>3
    <3>4. CASE f # e /\ g # e
      BY <1>4, <3>1, <3>4
    <3> QED   BY <3>2, <3>3, <3>4
  <2> QED   BY <1>4, <2>1, <2>2 DEF ListedOnce
<1>6. AllOf(after) = AllOf(l) \cup {t}
  <2>1. ASSUME NEW x \in AllOf(after) PROVE x \in AllOf(l) \cup {t}
    <3>1. PICK f \in Elements : x \in ToSet(after[f])
      BY DEF AllOf
    <3> QED   BY <1>3, <1>4, <3>1 DEF AllOf
  <2>2. ASSUME NEW x \in AllOf(l) PROVE x \in AllOf(after)
    <3>1. PICK f \in Elements : x \in ToSet(l[f])
      BY DEF AllOf
    <3>2. x \in ToSet(after[f])
      BY <1>3, <1>4, <3>1
    <3> QED   BY <3>2 DEF AllOf
  <2>3. t \in AllOf(after)
    BY <1>3, <1>4 DEF AllOf
  <2> QED   BY <2>1, <2>2, <2>3
<1> QED   BY <1>5, <1>6 DEF after

(* Lists from which at most t has gone. *)
LEMMA ListsWithout ==
  ASSUME NEW l, ListedOnce(l), NEW t, NEW after \in [Elements -> Seq(Tasks)],
         \A e \in Elements : NoRepetition(after[e]) /\ ToSet(after[e]) = ToSet(l[e]) \ {t}
  PROVE  ListedOnce(after) /\ AllOf(after) = AllOf(l) \ {t}
<1>1. \A e, f \in Elements : e # f => ToSet(after[e]) \cap ToSet(after[f]) = {}
  BY DEF ListedOnce
<1>2. AllOf(after) = AllOf(l) \ {t}
  <2>1. ASSUME NEW x \in AllOf(after) PROVE x \in AllOf(l) \ {t}
    <3>1. PICK f \in Elements : x \in ToSet(after[f])
      BY DEF AllOf
    <3> QED   BY <3>1 DEF AllOf
  <2>2. ASSUME NEW x \in AllOf(l) \ {t} PROVE x \in AllOf(after)
    <3>1. PICK f \in Elements : x \in ToSet(l[f])
      BY DEF AllOf
    <3>2. x \in ToSet(after[f])
      BY <3>1
    <3> QED   BY <3>2 DEF AllOf
  <2> QED   BY <2>1, <2>2
<1> QED   BY <1>1, <1>2 DEF ListedOnce

(* _cancel_sync_task() takes the task, and nothing else, out of its list.  *)
LEMMA ListsAfterUnlist ==
  ASSUME ListedOnce(lists), NEW t
  PROVE  ListedOnce(Unlist(t)) /\ AllOf(Unlist(t)) = AllOf(lists) \ {t}
<1>1. ASSUME NEW e \in Elements
      PROVE  /\ Unlist(t)[e] \in Seq(Tasks) /\ NoRepetition(Unlist(t)[e])
             /\ ToSet(Unlist(t)[e]) = ToSet(lists[e]) \ {t}
  <2> DEFINE l == lists[e]
             i == CHOOSE i \in DOMAIN l : l[i] = t
  <2>1. l \in Seq(Tasks) /\ NoRepetition(l) /\ ToSet(l) = ElementsOf(l) /\ DOMAIN l = 1..Len(l)
    BY ToSetIsElements, LenProperties DEF ListedOnce
  <2>2. Unlist(t)[e] = IF t \in ToSet(l) THEN RemoveAt(l, i) ELSE l
    BY DEF Unlist
  <2>3. t \in ToSet(l) => i \in 1..Len(l) /\ l[i] = t
    BY <2>1 DEF ElementsOf
  <2> HIDE DEF l, i
  <2>4. CASE t \in ToSet(l)
    <3>1. /\ RemoveAt(l, i) \in Seq(Tasks) /\ NoRepetition(RemoveAt(l, i))
          /\ ElementsOf(RemoveAt(l, i)) = ElementsOf(l) \ {t}
      BY <2>1, <2>3, <2>4, RemoveAtProperties, RemoveAtElements
    <3>2. ToSet(RemoveAt(l, i)) = ElementsOf(RemoveAt(l, i))
      BY <3>1, ToSetIsElements
    <3> QED   BY <2>1, <2>2, <2>4, <3>1, <3>2 DEF l
  <2>5. CASE t \notin ToSet(l)
    BY <2>1, <2>2, <2>5 DEF l
  <2> QED   BY <2>4, <2>5
<1>2. Unlist(t) \in [Elements -> Seq(Tasks)]
  <2>1. Unlist(t) = [e \in Elements |-> Unlist(t)[e]]
    BY DEF Unlist
  <2> QED   BY <1>1, <2>1
<1> QED   BY <1>1, <1>2, ListsWithout

(* The disposal of an element takes the first task out of its list.        *)
LEMMA ListsAfterTail ==
  ASSUME NEW l, ListedOnce(l), NEW e \in Elements, l[e] # <<>>
  PROVE  LET after == [l EXCEPT ![e] = Tail(@)]
         IN  /\ ListedOnce(after) /\ AllOf(after) = AllOf(l) \ {Head(l[e])}
             /\ Head(l[e]) \in AllOf(l)
             /\ Len(l[e]) # 1 => after[e] # <<>>
<1> DEFINE after == [l EXCEPT ![e] = Tail(@)]
           t == Head(l[e])
<1>1. l \in [Elements -> Seq(Tasks)] /\ l[e] \in Seq(Tasks) /\ NoRepetition(l[e])
  BY DEF ListedOnce
<1>2. /\ Tail(l[e]) \in Seq(Tasks) /\ NoRepetition(Tail(l[e]))
      /\ ElementsOf(Tail(l[e])) = ElementsOf(l[e]) \ {t} /\ t \in ElementsOf(l[e])
      /\ Len(l[e]) # 1 => Tail(l[e]) # <<>>
  <2>1. Tail(l[e]) \in Seq(Tasks) /\ Len(Tail(l[e])) = Len(l[e]) - 1 /\ Len(l[e]) \in Nat
    BY <1>1, HeadTailProperties, LenProperties
  <2>2. Len(l[e]) # 1 => Tail(l[e]) # <<>>
    <3>1. Len(<<>>) = 0
      OBVIOUS
    <3>2. Len(l[e]) # 1 => Len(Tail(l[e])) # 0
      BY <2>1
    <3> QED   BY <3>1, <3>2, Zenon
  <2> QED   BY <1>1, <2>1, <2>2, PopElements
<1>3. ToSet(Tail(l[e])) = ToSet(l[e]) \ {t} /\ t \in ToSet(l[e])
  BY <1>1, <1>2, ToSetIsElements
<1>4. /\ after \in [Elements -> Seq(Tasks)] /\ after[e] = Tail(l[e])
      /\ \A f \in Elements : f # e => after[f] = l[f]
  BY <1>1, <1>2
<1> HIDE DEF after, t
<1>5. ASSUME NEW f \in Elements PROVE NoRepetition(after[f]) /\ ToSet(after[f]) = ToSet(l[f]) \ {t}
  <2>1. CASE f = e
    BY <1>2, <1>3, <1>4, <2>1
  <2>2. CASE f # e
    <3>1. t \notin ToSet(l[f])
      BY <1>3, <2>2 DEF ListedOnce
    <3> QED   BY <1>4, <2>2, <3>1 DEF ListedOnce
  <2> QED   BY <2>1, <2>2
<1>6. ListedOnce(after) /\ AllOf(after) = AllOf(l) \ {t}
  BY <1>4, <1>5, ListsWithout
<1>7. t \in AllOf(l)
  BY <1>3 DEF AllOf
<1> QED   BY <1>2, <1>4, <1>6, <1>7 DEF after, t

-----------------------------------------------------------------------------
(* The queue is a heap of different tasks which know their positions.      *)
QueueOk ==
  /\ queue \in Seq(Tasks) /\ NoRepetition(queue) /\ HeapIntegrity
  /\ index \in [Tasks -> Nat] /\ Placed(queue, index)
  /\ scheduled \in [Tasks -> 0..MaxTime + 1]

(* The lists have the same tasks as the queue, those for which a token is  *)
(* held.                                                                   *)
ListsOk ==
  /\ ListedOnce(lists) /\ ElementsOf(queue) = Registered
  /\ token \in [Tasks -> TokenStates]
  /\ \A t \in Tasks : token[t] = "held" <=> t \in Registered

(* While a task runs it stays on top: whatever it registers is not earlier.*)
LoopOk ==
  /\ now \in 0..MaxTime /\ before \in 0..MaxTime /\ before <= now
  /\ mpc \in {"idle", "update", "task"} \cup Elements
  /\ mpc \in Elements => lists[mpc] # <<>>
  /\ mpc # "task" => running = NoTask
  /\ mpc = "task" => /\ queue # <<>> /\ queue[1] = running /\ running \in Tasks
                     /\ scheduled[running] <= before

(* The inductive invariant.                                                *)
TasksInv == QueueOk /\ ListsOk /\ LoopOk

(* What a step of the main loop needs to know of the program counter.      *)
LEMMA ProgramCounters ==
  ASSUME TasksInv
  PROVE  /\ "idle" \notin Elements /\ "update" \notin Elements /\ "task" \notin Elements
         /\ NoTask \notin Tasks /\ MaxTime \in Nat
         /\ now \in Nat /\ before \in Nat
         /\ scheduled \in [Tasks -> Nat] /\ queue \in Seq(Tasks) /\ index \in [Tasks -> Nat]
         /\ Registered = AllOf(lists) /\ Registered' = AllOf(lists')
<1>1. MaxTime \in Nat /\ NoTask \notin Tasks /\ "idle" \notin Elements /\ "update" \notin Elements /\ "task" \notin Elements
  BY SyncTaskAssumption
<1>2. scheduled \in [Tasks -> Nat]
  BY <1>1 DEF TasksInv, QueueOk
<1>3. now \in Nat /\ before \in Nat
  BY <1>1 DEF TasksInv, LoopOk
<1> QED   BY <1>1, <1>2, <1>3 DEF TasksInv, QueueOk, Registered, AllOf

(* A task that is registered is where its index says.                      *)
LEMMA FoundByIndex ==
  ASSUME TasksInv, NEW t \in Registered
  PROVE  index[t] \in 1..Len(queue) /\ queue[index[t]] = t
<1>1. t \in ElementsOf(queue)
  BY DEF TasksInv, ListsOk
<1>2. PICK k \in 1..Len(queue) : queue[k] = t
  BY <1>1 DEF ElementsOf
<1>3. index[t] = k
  BY <1>2 DEF TasksInv, QueueOk, Placed
<1> QED   BY <1>2, <1>3

(* At first there are no tasks.                                            *)
LEMMA SyncInit == Init => TasksInv
<1> SUFFICES ASSUME Init PROVE TasksInv
  OBVIOUS
<1>1. MaxTime \in Nat /\ "idle" \notin Elements
  BY SyncTaskAssumption
<1>2. Len(queue) = 0
  BY DEF Init
<1>3. QueueOk
  BY <1>1, <1>2 DEF Init, QueueOk, NoRepetition, HeapIntegrity, HeapOrdered, Placed
<1>4. \A e \in Elements : lists[e] = <<>> /\ ToSet(lists[e]) = {} /\ NoRepetition(lists[e])
  BY DEF Init, ToSet, NoRepetition
<1>5. Registered = {} /\ ListedOnce(lists)
  BY <1>4 DEF Init, Registered, ListedOnce
<1>6. ElementsOf(queue) = {}
  BY <1>2 DEF ElementsOf
<1>7. ListsOk
  BY <1>5, <1>6 DEF Init, ListsOk, TokenStates
<1>8. LoopOk
  BY <1>1 DEF Init, LoopOk
<1> QED   BY <1>3, <1>7, <1>8 DEF TasksInv

(* register_synchronous_task() keeps the invariant.  A task that runs      *)
(* stays on top of the queue, as none is registered for a time before its  *)
(* own.                                                                    *)
LEMMA RegisterKeeps ==
  ASSUME TasksInv, NEW t \in Tasks, NEW e \in Elements, NEW time \in Times, Register(t, e, time)
  PROVE  TasksInv'
<1> DEFINE r == Push(queue, scheduled', t)
<1>1. /\ mpc \in {"idle", "task"} /\ token[t] = "unused"
      /\ scheduled' = [scheduled EXCEPT ![t] = time]
      /\ lists' = [lists EXCEPT ![e] = Append(@, t)]
      /\ token' = [token EXCEPT ![t] = "held"]
      /\ queue' = r.array /\ index' = Notified(index, r)
      /\ now' = now /\ before' = before /\ running' = running /\ mpc' = mpc
  BY DEF Register, Calling, Replace, loopVars
<1>2. t \notin Registered /\ t \notin ElementsOf(queue)
  BY <1>1 DEF TasksInv, ListsOk
<1>3. time \in Nat /\ time \in 0..MaxTime + 1 /\ before <= time
  BY ProgramCounters DEF Times, TasksInv, LoopOk
<1>4. /\ scheduled' \in [Tasks -> 0..MaxTime + 1] /\ scheduled' \in [Tasks -> Nat]
      /\ scheduled'[t] = time /\ \A u \in Tasks : u # t => scheduled'[u] = scheduled[u]
  BY <1>1, <1>3, ProgramCounters DEF TasksInv, QueueOk
<1>5. \A k \in 1..Len(queue) : queue[k] \in Tasks /\ queue[k] # t /\ scheduled'[queue[k]] = scheduled[queue[k]]
  <2>1. ASSUME NEW k \in 1..Len(queue) PROVE queue[k] \in Tasks /\ queue[k] # t
    BY <1>2, ProgramCounters DEF ElementsOf
  <2> QED   BY <1>4, <2>1
<1>6. HeapOrdered(queue, scheduled')
  <2>1. ASSUME NEW k \in 2..Len(queue) PROVE scheduled'[queue[Parent(k)]] <= scheduled'[queue[k]]
    <3>1. k \in Nat /\ k >= 2 /\ k <= Len(queue) /\ k \in 1..Len(queue) /\ Len(queue) \in Nat
      BY ProgramCounters
    <3>2. Parent(k) \in Nat /\ 1 <= Parent(k) /\ Parent(k) < k
      BY <3>1, HeapPositions
    <3>3. Parent(k) \in 1..Len(queue)
      BY <3>1, <3>2
    <3>4. scheduled[queue[Parent(k)]] <= scheduled[queue[k]]
      BY DEF TasksInv, QueueOk, HeapIntegrity, HeapOrdered
    <3> QED   BY <1>5, <3>1, <3>3, <3>4
  <2> QED   BY <2>1 DEF HeapOrdered
<1>7. Pushed(r, Tasks, queue, scheduled', t)
  <2>1. queue \in Seq(Tasks) /\ NoRepetition(queue)
    BY DEF TasksInv, QueueOk
  <2> QED   BY <1>2, <1>4, <1>6, <2>1, PushProperties
<1> HIDE DEF r
<1>8. QueueOk'
  <2>1. Notified(index, r) \in [Tasks -> Nat] /\ Placed(r.array, Notified(index, r))
    BY <1>7, ProgramCounters, PlacedAfterPush DEF TasksInv, QueueOk
  <2>2. r.array \in Seq(Tasks) /\ NoRepetition(r.array) /\ HeapOrdered(r.array, scheduled')
    BY <1>7 DEF Pushed
  <2> QED   BY <1>1, <1>4, <2>1, <2>2 DEF QueueOk, HeapIntegrity
<1>9. ListsOk'
  <2>1. ListedOnce(lists') /\ AllOf(lists') = AllOf(lists) \cup {t}
    BY <1>1, <1>2, ProgramCounters, ListsAfterAppend DEF TasksInv, ListsOk
  <2>2. Registered' = Registered \cup {t}
    BY <2>1, ProgramCounters
  <2>3. ElementsOf(queue') = Registered'
    BY <1>1, <1>7, <2>2 DEF Pushed, TasksInv, ListsOk
  <2>4. token' \in [Tasks -> TokenStates] /\ token'[t] = "held" /\ \A u \in Tasks : u # t => token'[u] = token[u]
    BY <1>1 DEF TasksInv, ListsOk, TokenStates
  <2>5. \A u \in Tasks : token'[u] = "held" <=> u \in Registered'
    BY <2>2, <2>4 DEF TasksInv, ListsOk
  <2> QED   BY <2>1, <2>3, <2>4, <2>5 DEF ListsOk
<1>10. LoopOk'
  <2>1. mpc \notin Elements
    BY <1>1, ProgramCounters
  <2>2. CASE mpc = "task"
    <3>1. queue # <<>> /\ queue[1] = running /\ running \in Tasks /\ scheduled[running] <= before
      BY <2>2 DEF TasksInv, LoopOk
    <3>2. 1 \in 1..Len(queue)
      BY <3>1, ProgramCounters, EmptySeq
    <3>3. scheduled'[running] = scheduled[running] /\ running # t
      BY <1>5, <3>1, <3>2
    <3>4. scheduled'[queue[1]] <= scheduled'[t]
      BY <1>3, <1>4, <3>1, <3>3, ProgramCounters
    <3>5. r.array[1] = queue[1]
      BY <1>7, <3>1, <3>4 DEF Pushed
    <3>6. queue' # <<>>
      <4>1. Len(queue') = Len(queue) + 1 /\ Len(queue) \in Nat
        BY <1>1, <1>7, ProgramCounters DEF Pushed
      <4> QED   BY <4>1
    <3> QED   BY <1>1, <2>1, <2>2, <3>1, <3>3, <3>5, <3>6 DEF TasksInv, LoopOk
  <2>3. CASE mpc # "task"
    BY <1>1, <2>1, <2>3 DEF TasksInv, LoopOk
  <2> QED   BY <2>2, <2>3
<1> QED   BY <1>8, <1>9, <1>10 DEF TasksInv

(* A task goes: the queue loses it at its index, the lists where it is.    *)
LEMMA TaskGoes ==
  ASSUME TasksInv, NEW t \in Registered, Replace(EraseAt(queue, scheduled, index[t])),
         scheduled' = scheduled, ListedOnce(lists'), AllOf(lists') = AllOf(lists) \ {t},
         token' = [token EXCEPT ![t] = "spent"]
  PROVE  /\ QueueOk' /\ ListsOk' /\ Registered' = Registered \ {t}
         /\ queue # <<>> /\ queue[1] # t => queue' # <<>> /\ queue'[1] = queue[1]
<1> DEFINE i == index[t]
           r == EraseAt(queue, scheduled, i)
<1>1. queue' = r.array /\ index' = Notified(index, r)
  BY DEF Replace
<1>2. i \in 1..Len(queue) /\ queue[i] = t
  BY FoundByIndex
<1>3. /\ queue \in Seq(Tasks) /\ NoRepetition(queue) /\ HeapOrdered(queue, scheduled) /\ Placed(queue, index)
      /\ scheduled \in [Tasks -> Nat] /\ index \in [Tasks -> Nat] /\ t \in Tasks
  <2>1. t \in Tasks
    BY <1>2, ProgramCounters
  <2> QED   BY <2>1, ProgramCounters DEF TasksInv, QueueOk, HeapIntegrity
<1> HIDE DEF i
<1>4. Erased(r, Tasks, queue, scheduled, i)
  BY <1>2, <1>3, EraseProperties
<1> HIDE DEF r
<1>5. QueueOk'
  <2>1. Notified(index, r) \in [Tasks -> Nat] /\ Placed(r.array, Notified(index, r))
    BY <1>2, <1>3, <1>4, PlacedAfterErase
  <2>2. r.array \in Seq(Tasks) /\ NoRepetition(r.array) /\ HeapOrdered(r.array, scheduled)
    BY <1>4 DEF Erased
  <2> QED   BY <1>1, <2>1, <2>2 DEF TasksInv, QueueOk, HeapIntegrity
<1>6. Registered' = Registered \ {t}
  BY ProgramCounters
<1>7. ListsOk'
  <2>1. ElementsOf(queue') = Registered'
    BY <1>1, <1>2, <1>4, <1>6 DEF Erased, TasksInv, ListsOk
  <2>2. token' \in [Tasks -> TokenStates] /\ token'[t] = "spent" /\ \A u \in Tasks : u # t => token'[u] = token[u]
    BY <1>3 DEF TasksInv, ListsOk, TokenStates
  <2>3. \A u \in Tasks : token'[u] = "held" <=> u \in Registered'
    BY <1>6, <2>2 DEF TasksInv, ListsOk
  <2> QED   BY <2>1, <2>2, <2>3 DEF ListsOk
<1>8. ASSUME queue # <<>>, queue[1] # t PROVE queue' # <<>> /\ queue'[1] = queue[1]
  <2>1. i # 1 /\ Len(queue) \in Nat /\ i \in Int /\ i <= Len(queue) /\ 1 <= i
    BY <1>2, <1>3, <1>8
  <2>2. Len(queue') = Len(queue) - 1 /\ queue'[1] = queue[1]
    BY <1>1, <1>4, <2>1 DEF Erased
  <2>3. Len(queue) # 1
    <3>1. \A x \in Int, n \in Nat : x # 1 /\ 1 <= x /\ x <= n => n # 1
      OBVIOUS
    <3> QED   BY <2>1, <3>1, Zenon
  <2>4. Len(queue') # 0
    BY <2>1, <2>2, <2>3
  <2> QED   BY <2>2, <2>4
<1> QED   BY <1>5, <1>6, <1>7, <1>8

(* Cancelling a task other than the running one keeps the invariant: the   *)
(* top of the queue stays where it is.                                     *)
LEMMA CancelKeeps ==
  ASSUME TasksInv, ~ MayCancelSelf, NEW t \in Tasks, Cancel(t)
  PROVE  TasksInv'
<1>1. /\ mpc \in {"idle", "task"} /\ token[t] = "held" /\ t # running
      /\ lists' = Unlist(queue[index[t]]) /\ Replace(EraseAt(queue, scheduled, index[t]))
      /\ token' = [token EXCEPT ![t] = "spent"] /\ scheduled' = scheduled
      /\ now' = now /\ before' = before /\ running' = running /\ mpc' = mpc
  BY DEF Cancel, CancelTask, Calling, loopVars
<1>2. t \in Registered
  BY <1>1 DEF TasksInv, ListsOk
<1>3. lists' = Unlist(t)
  BY <1>1, <1>2, FoundByIndex
<1>4. ListedOnce(lists') /\ AllOf(lists') = AllOf(lists) \ {t}
  BY <1>3, ListsAfterUnlist DEF TasksInv, ListsOk
<1>5. /\ QueueOk' /\ ListsOk'
      /\ queue # <<>> /\ queue[1] # t => queue' # <<>> /\ queue'[1] = queue[1]
  BY <1>1, <1>2, <1>4, TaskGoes
<1>6. LoopOk'
  <2>1. mpc \notin Elements
    BY <1>1, ProgramCounters
  <2>2. mpc = "task" => queue' # <<>> /\ queue'[1] = running
    BY <1>1, <1>5 DEF TasksInv, LoopOk
  <2> QED   BY <1>1, <2>1, <2>2 DEF TasksInv, LoopOk
<1> QED   BY <1>5, <1>6 DEF TasksInv

(* What the task that has run returned is nothing: it is the one that goes.*)
LEMMA DoneKeeps ==
  ASSUME TasksInv, Done
  PROVE  /\ TasksInv' /\ Registered' = Registered \ {running} /\ scheduled' = scheduled
<1>1. /\ mpc = "task" /\ lists' = Unlist(queue[index[queue[1]]])
      /\ Replace(EraseAt(queue, scheduled, index[queue[1]]))
      /\ token' = [token EXCEPT ![running] = "spent"] /\ scheduled' = scheduled
      /\ now' = now /\ before' = before /\ running' = NoTask /\ mpc' = "update"
  BY DEF Done, CancelTask
<1>2. queue # <<>> /\ queue[1] = running
  BY <1>1 DEF TasksInv, LoopOk
<1>3. running \in Registered
  <2>1. 1 \in 1..Len(queue)
    BY <1>2, ProgramCounters, EmptySeq
  <2>2. running \in ElementsOf(queue)
    BY <1>2, <2>1 DEF ElementsOf
  <2> QED   BY <2>2 DEF TasksInv, ListsOk
<1>4. lists' = Unlist(running)
  BY <1>1, <1>2, <1>3, FoundByIndex
<1>5. ListedOnce(lists') /\ AllOf(lists') = AllOf(lists) \ {running}
  BY <1>4, ListsAfterUnlist DEF TasksInv, ListsOk
<1>6. QueueOk' /\ ListsOk' /\ Registered' = Registered \ {running}
  BY <1>1, <1>2, <1>3, <1>5, TaskGoes
<1>7. LoopOk'
  BY <1>1, ProgramCounters DEF TasksInv, LoopOk
<1> QED   BY <1>1, <1>6, <1>7 DEF TasksInv

(* The disposal of one task of an element keeps the invariant.             *)
LEMMA DisposeTaskKeeps ==
  ASSUME TasksInv, NEW e \in Elements, DisposeTask(e)
  PROVE  TasksInv'
<1> DEFINE t == Head(lists[e])
<1>1. /\ mpc = e /\ Replace(EraseAt(queue, scheduled, index[t]))
      /\ lists' = [lists EXCEPT ![e] = Tail(@)] /\ token' = [token EXCEPT ![t] = "spent"]
      /\ mpc' = IF Len(lists[e]) = 1 THEN "idle" ELSE e
      /\ scheduled' = scheduled /\ now' = now /\ before' = before /\ running' = running
  BY DEF DisposeTask
<1>2. lists[e] # <<>> /\ mpc # "task" /\ running = NoTask
  BY <1>1, ProgramCounters DEF TasksInv, LoopOk
<1>3. /\ ListedOnce(lists') /\ AllOf(lists') = AllOf(lists) \ {t} /\ t \in AllOf(lists)
      /\ Len(lists[e]) # 1 => lists'[e] # <<>>
  BY <1>1, <1>2, ListsAfterTail DEF TasksInv, ListsOk
<1> HIDE DEF t
<1>4. t \in Registered
  BY <1>3, ProgramCounters
<1>5. QueueOk' /\ ListsOk'
  BY <1>1, <1>3, <1>4, TaskGoes
<1>6. LoopOk'
  BY <1>1, <1>2, <1>3, ProgramCounters DEF TasksInv, LoopOk
<1> QED   BY <1>5, <1>6 DEF TasksInv

(* The time that the task returned becomes that of the task.               *)
LEMMA RepeatKeeps ==
  ASSUME TasksInv, NEW time \in Times, Repeat(time)
  PROVE  /\ TasksInv' /\ Registered' = Registered
         /\ \A u \in Tasks \ {running} : scheduled'[u] = scheduled[u]
<1> DEFINE r == AdjustDown(queue, scheduled', 1)
<1>1. /\ mpc = "task" /\ queue # <<>> /\ scheduled' = [scheduled EXCEPT ![queue[1]] = time]
      /\ queue' = r.array /\ index' = Notified(index, r)
      /\ running' = NoTask /\ mpc' = "update" /\ lists' = lists /\ token' = token /\ now' = now /\ before' = before
  BY DEF Repeat, Replace
<1>2. queue[1] = running /\ running \in Tasks
  BY <1>1 DEF TasksInv, LoopOk
<1>3. 1 \in 1..Len(queue) /\ Len(queue) \in Nat
  BY <1>1, ProgramCounters, EmptySeq
<1>4. time \in 0..MaxTime + 1
  BY ProgramCounters DEF Times, TasksInv, LoopOk
<1>5. /\ scheduled' \in [Tasks -> 0..MaxTime + 1] /\ scheduled' \in [Tasks -> Nat]
      /\ \A u \in Tasks \ {running} : scheduled'[u] = scheduled[u]
  <2>1. \A x \in 0..MaxTime + 1 : x \in Nat
    BY ProgramCounters
  <2> QED   BY <1>1, <1>2, <1>4, <2>1 DEF TasksInv, QueueOk
<1>6. HeapBut(queue, scheduled', 1)
  <2>1. ASSUME NEW k \in 2..Len(queue), Parent(k) # 1 PROVE scheduled'[queue[Parent(k)]] <= scheduled'[queue[k]]
    <3>1. k \in Nat /\ k >= 2 /\ k <= Len(queue) /\ k \in 1..Len(queue) /\ k # 1
      BY <1>3
    <3>2. Parent(k) \in Nat /\ 1 <= Parent(k) /\ Parent(k) < k
      BY <3>1, HeapPositions
    <3>3. Parent(k) \in 1..Len(queue)
      BY <1>3, <3>1, <3>2
    <3>4. queue[k] \in Tasks \ {running} /\ queue[Parent(k)] \in Tasks \ {running}
      <4>1. queue[k] \in Tasks /\ queue[Parent(k)] \in Tasks
        BY <3>1, <3>3, ProgramCounters
      <4>2. \A x, y \in 1..Len(queue) : queue[x] = queue[y] => x = y
        BY DEF TasksInv, QueueOk, NoRepetition
      <4>3. queue[k] # queue[1] /\ queue[Parent(k)] # queue[1]
        BY <1>3, <2>1, <3>1, <3>3, <4>2
      <4> QED   BY <1>2, <4>1, <4>3
    <3>5. scheduled[queue[Parent(k)]] <= scheduled[queue[k]]
      BY DEF TasksInv, QueueOk, HeapIntegrity, HeapOrdered
    <3> QED   BY <1>5, <3>4, <3>5
  <2> QED   BY <2>1 DEF HeapBut
<1>7. AdjustedDown(r, Tasks, queue, scheduled', 1)
  BY <1>3, <1>5, <1>6, ProgramCounters, AdjustDownProperties
<1> HIDE DEF r
<1>8. /\ r.array \in Seq(Tasks) /\ Adjusts(r, queue, 1) /\ HeapOrdered(r.array, scheduled')
  BY <1>7 DEF AdjustedDown
<1>9. NoRepetition(r.array) /\ ElementsOf(r.array) = ElementsOf(queue)
  BY <1>8 DEF Adjusts, TasksInv, QueueOk
<1>10. QueueOk'
  <2>1. Notified(index, r) \in [Tasks -> Nat] /\ Placed(r.array, Notified(index, r))
    BY <1>8, ProgramCounters, PlacedAfterAdjust DEF TasksInv, QueueOk
  <2> QED   BY <1>1, <1>5, <1>8, <1>9, <2>1 DEF QueueOk, HeapIntegrity
<1>11. Registered' = Registered
  BY <1>1, ProgramCounters
<1>12. ListsOk'
  BY <1>1, <1>9, <1>11 DEF TasksInv, ListsOk
<1>13. LoopOk'
  BY <1>1, ProgramCounters DEF TasksInv, LoopOk
<1> QED   BY <1>5, <1>10, <1>11, <1>12, <1>13 DEF TasksInv

(* The steps that leave the queue and the lists alone. *)
LEMMA LoopStepKeeps ==
  ASSUME TasksInv, UNCHANGED <<queue, index, scheduled, lists, token>>,
         \/ Tick \/ StartUpdate \/ RunTop \/ EndUpdate \/ (\E e \in Elements : Dispose(e)) \/ UNCHANGED vars
  PROVE  TasksInv'
<1>1. Registered' = Registered
  BY ProgramCounters
<1>2. QueueOk' /\ ListsOk'
  BY <1>1 DEF TasksInv, QueueOk, ListsOk, HeapIntegrity
<1>3. LoopOk'
  <2>1. CASE Tick
    BY <2>1, ProgramCounters DEF Tick, TasksInv, LoopOk
  <2>2. CASE StartUpdate
    BY <2>2, ProgramCounters DEF StartUpdate, TasksInv, LoopOk
  <2>3. CASE RunTop
    <3>1. queue # <<>> /\ scheduled[queue[1]] <= before
      BY <2>3 DEF RunTop, Due
    <3>2. queue[1] \in Tasks
      BY <3>1, ProgramCounters, EmptySeq
    <3> QED   BY <2>3, <3>1, <3>2, ProgramCounters DEF RunTop, TasksInv, LoopOk
  <2>4. CASE EndUpdate
    BY <2>4, ProgramCounters DEF EndUpdate, TasksInv, LoopOk
  <2>5. CASE \E e \in Elements : Dispose(e)
    BY <2>5, ProgramCounters DEF Dispose, TasksInv, LoopOk
  <2>6. CASE UNCHANGED vars
    BY <2>6 DEF vars, TasksInv, LoopOk
  <2> QED   BY <2>1, <2>2, <2>3, <2>4, <2>5, <2>6
<1> QED   BY <1>2, <1>3 DEF TasksInv

(* So does every step.                                                     *)
LEMMA SyncStep ==
  ASSUME TasksInv, ~ MayCancelSelf, [Next]_vars
  PROVE  TasksInv'
<1>1. CASE Tick \/ StartUpdate \/ RunTop \/ EndUpdate \/ (\E e \in Elements : Dispose(e)) \/ UNCHANGED vars
  <2>1. UNCHANGED <<queue, index, scheduled, lists, token>>
    BY <1>1 DEF Tick, StartUpdate, RunTop, EndUpdate, Dispose, vars
  <2> QED   BY <1>1, <2>1, LoopStepKeeps
<1>2. CASE Done
  BY <1>2, DoneKeeps
<1>3. CASE \E time \in Times : Repeat(time)
  BY <1>3, RepeatKeeps
<1>4. CASE \E t \in Tasks : Cancel(t)
  BY <1>4, CancelKeeps
<1>5. CASE \E t \in Tasks : \E e \in Elements, time \in Times : Register(t, e, time)
  BY <1>5, RegisterKeeps
<1>6. CASE \E e \in Elements : DisposeTask(e)
  BY <1>6, DisposeTaskKeeps
<1> QED   BY <1>1, <1>2, <1>3, <1>4, <1>5, <1>6 DEF Next, UpdateStep

(* The invariant implies the property that the run checks.                 *)
LEMMA InvImpliesMatch == TasksInv => QueueMatchesLists
<1> SUFFICES ASSUME TasksInv PROVE QueueMatchesLists
  OBVIOUS
<1>1. TypeOK
  <2>1. mpc = "task" <=> running # NoTask
    BY ProgramCounters DEF TasksInv, LoopOk
  <2>2. running \in Tasks \cup {NoTask}
    BY DEF TasksInv, LoopOk
  <2> QED   BY <2>1, <2>2 DEF TypeOK, TasksInv, QueueOk, ListsOk, LoopOk, ListedOnce
<1>2. HeapIntegrity
  BY DEF TasksInv, QueueOk
<1>3. IndexIsPosition
  BY FoundByIndex DEF IndexIsPosition
<1>4. ToSet(queue) = Registered
  BY ProgramCounters, ToSetIsElements DEF TasksInv, ListsOk
<1>5. Len(queue) = Cardinality(Registered)
  <2>1. Len(queue) \in Nat /\ queue \in [1..Len(queue) -> Tasks]
    BY ProgramCounters
  <2>2. queue \in [1..Len(queue) -> Registered]
    BY <2>1 DEF TasksInv, ListsOk, ElementsOf
  <2>3. queue \in Bijection(1..Len(queue), Registered)
    BY <2>2 DEF Bijection, Injection, IsInjective, Surjection, TasksInv, QueueOk, NoRepetition, ListsOk, ElementsOf
  <2>4. IsFiniteSet(1..Len(queue)) /\ Cardinality(1..Len(queue)) = Len(queue)
    BY <2>1, FS_Interval
  <2>5. Cardinality(Registered) = Cardinality(1..Len(queue))
    BY <2>3, <2>4, FS_Bijection DEF ExistsBijection
  <2> QED   BY <2>4, <2>5
<1> QED   BY <1>1, <1>2, <1>3, <1>4, <1>5 DEF QueueMatchesLists

(* What a step of the tasks may not do, and what it does.                  *)
ReturnApplies ==
  running # NoTask /\ running' = NoTask =>
    \A t \in Tasks \ {running} :
      scheduled'[t] = scheduled[t] /\ (t \in Registered => t \in Registered')

(* What starts to run is due no later than any other.                      *)
RunsEarliest ==
  running' # running /\ running' # NoTask =>
    \A t \in Registered : scheduled[running'] <= scheduled[t]

(* Under the invariant every step does both.                               *)
LEMMA StepRunsAsScheduled ==
  ASSUME TasksInv, ~ MayCancelSelf, [Next]_vars
  PROVE  ReturnApplies /\ RunsEarliest
<1>1. CASE Done
  <2>1. running' = NoTask
    BY <1>1 DEF Done
  <2> QED   BY <1>1, <2>1, DoneKeeps DEF ReturnApplies, RunsEarliest
<1>2. CASE \E time \in Times : Repeat(time)
  <2>1. running' = NoTask
    BY <1>2 DEF Repeat
  <2>2. Registered' = Registered /\ \A u \in Tasks \ {running} : scheduled'[u] = scheduled[u]
    BY <1>2, RepeatKeeps
  <2> QED   BY <2>1, <2>2 DEF ReturnApplies, RunsEarliest
<1>3. CASE RunTop
  <2>1. running = NoTask /\ running' = queue[1] /\ queue # <<>>
    BY <1>3 DEF RunTop, Due, TasksInv, LoopOk
  <2>2. \A k \in 1..Len(queue) : scheduled[queue[1]] <= scheduled[queue[k]]
    BY ProgramCounters, RootIsLeast DEF TasksInv, QueueOk, HeapIntegrity
  <2>3. \A t \in Registered : \E k \in 1..Len(queue) : queue[k] = t
    BY DEF TasksInv, ListsOk, ElementsOf
  <2> QED   BY <2>1, <2>2, <2>3 DEF ReturnApplies, RunsEarliest
<1>4. CASE running' = running
  BY <1>4 DEF ReturnApplies, RunsEarliest
<1>5. \/ Done \/ (\E time \in Times : Repeat(time)) \/ RunTop \/ running' = running
  BY DEF Next, UpdateStep, Tick, StartUpdate, EndUpdate, Cancel, Register, Dispose, DisposeTask, loopVars, vars
<1> QED   BY <1>1, <1>2, <1>3, <1>4, <1>5

-----------------------------------------------------------------------------
(* On the main thread the tasks take the steps of SyncTasks or none.       *)
LEMMA MainTasks ==
  /\ MainInit => Init
  /\ [MainNext]_mainVars => [Next]_vars
<1>1. [MainNext]_mainVars => Next \/ UNCHANGED vars
  BY DEF MainNext, mainVars
<1> QED   BY <1>1 DEF MainInit

(* update_synchronous_tasks(), register_synchronous_task(), the            *)
(* cancelling of a task and the disposal of an element leave a queue and   *)
(* lists that have the same tasks, each once and found by its index, and   *)
(* the queue a heap, for any tasks, elements and times, as long as no task *)
(* cancels itself.                                                         *)
THEOREM TasksInOrder == ~ MayCancelSelf => (MainSpec => []QueueMatchesLists)
<1> SUFFICES ASSUME ~ MayCancelSelf PROVE MainSpec => []QueueMatchesLists
  OBVIOUS
<1>1. MainInit => TasksInv
  BY MainTasks, SyncInit
<1>2. TasksInv /\ [MainNext]_mainVars => TasksInv'
  BY MainTasks, SyncStep
<1>3. TasksInv => QueueMatchesLists
  BY InvImpliesMatch
<1> QED   BY <1>1, <1>2, <1>3, PTL DEF MainSpec

(* update_synchronous_tasks() runs the task that is due first, and applies *)
(* what it returns to that task, whatever the task has registered or       *)
(* cancelled while it ran, as long as it was not itself.                   *)
THEOREM TasksRunAsScheduled == ~ MayCancelSelf => (MainSpec => RunsAsScheduled)
<1> SUFFICES ASSUME ~ MayCancelSelf PROVE MainSpec => RunsAsScheduled
  OBVIOUS
<1>1. MainInit => TasksInv
  BY MainTasks, SyncInit
<1>2. TasksInv /\ [MainNext]_mainVars => TasksInv'
  BY MainTasks, SyncStep
<1>3. TasksInv /\ [MainNext]_mainVars => [ReturnApplies]_vars /\ [RunsEarliest]_vars
  BY MainTasks, StepRunsAsScheduled
<1>4. ReturnAppliesToRunning <=> [][ReturnApplies]_vars
  BY PTL DEF ReturnAppliesToRunning, ReturnApplies
<1>5. EarliestFirst <=> [][RunsEarliest]_vars
  BY PTL DEF EarliestFirst, RunsEarliest
<1> QED   BY <1>1, <1>2, <1>3, <1>4, <1>5, PTL DEF MainSpec, RunsAsScheduled

-----------------------------------------------------------------------------

(* The buffers, plugins, events, settings, hotkeys and elements by         *)
(* themselves.                                                             *)
Parts == INSTANCE MainThreadParts_proofs WITH
  Entry <- {"4"}, NoEntry <- None, Missing <- "missing",
  Group <- 1..2, Gesture <- {"x", "y", "shift"}, Modifier <- {"shift"}, Hotkey <- HotkeyEntries

-----------------------------------------------------------------------------
(* The buffers of the two instances are the same.                          *)
LEMMA SameBuffers ==
  /\ Parts!ObjectsApart <=> Buffers!ObjectsApart
  /\ Buffers!Init => Parts!Init
  /\ [Buffers!Next]_Buffers!vars => [Parts!Next]_Parts!vars
  /\ Parts!BuffersInv => Buffers!BuffersInv
<1> USE DEF Buffers!Open, Parts!Open, Buffers!Existing, Parts!Existing,
            Buffers!NoInterpretations, Parts!NoInterpretations,
            Buffers!bufferVars, Parts!bufferVars, Buffers!tagVars, Parts!tagVars,
            Buffers!Front, Parts!Front, Buffers!Last, Parts!Last, Buffers!ToSet, Parts!ToSet,
            Buffers!IsInjective, Parts!IsInjective
<1>1. Parts!ObjectsApart <=> Buffers!ObjectsApart
  BY DEF Buffers!ObjectsApart, Parts!ObjectsApart
<1>2. Buffers!Init => Parts!Init
  BY DEF Buffers!Init, Parts!Init
<1>3. Parts!Registered = Buffers!Registered
  BY DEF Buffers!Registered, Parts!Registered
<1>4. ASSUME Buffers!Next PROVE Parts!Next
  <2> USE DEF Buffers!InterpretationsOf, Parts!InterpretationsOf
  <2>1. \A f \in File : Buffers!OpenFile(f) => Parts!OpenFile(f)
    BY DEF Buffers!OpenFile, Parts!OpenFile
  <2>2. \A b \in Buffer : Buffers!NewFile(b) => Parts!NewFile(b)
    BY DEF Buffers!NewFile, Parts!NewFile
  <2>3. \A b \in Buffer : Buffers!ReleaseBuffer(b) => Parts!ReleaseBuffer(b)
    BY DEF Buffers!ReleaseBuffer, Parts!ReleaseBuffer, Buffers!DeleteBuffer, Parts!DeleteBuffer
  <2>4. \A b \in Buffer, e \in Encoding : Buffers!OpenInterpretation(b, e) => Parts!OpenInterpretation(b, e)
    BY DEF Buffers!OpenInterpretation, Parts!OpenInterpretation
  <2>5. \A i \in Interpretation : Buffers!ReleaseInterpretation(i) => Parts!ReleaseInterpretation(i)
    BY DEF Buffers!ReleaseInterpretation, Parts!ReleaseInterpretation,
           Buffers!DeleteBuffer, Parts!DeleteBuffer
  <2>6. Buffers!AllocateTag => Parts!AllocateTag
    BY <1>3 DEF Buffers!AllocateTag, Parts!AllocateTag
  <2>7. \A k \in 1..MaxTags : Buffers!DeallocateTag(k) => Parts!DeallocateTag(k)
    BY <1>3 DEF Buffers!DeallocateTag, Parts!DeallocateTag, Buffers!Cleared, Parts!Cleared
  <2>8. \A i \in Interpretation, k \in 1..MaxTags : Buffers!SetTag(i, k) => Parts!SetTag(i, k)
    BY DEF Buffers!SetTag, Parts!SetTag
  <2> QED   BY <1>4, <2>1, <2>2, <2>3, <2>4, <2>5, <2>6, <2>7, <2>8 DEF Buffers!Next, Parts!Next
<1>5. Parts!BuffersInv => Buffers!BuffersInv
  <2>1. Parts!BuffersFound => Buffers!BuffersFound
    BY DEF Buffers!BuffersFound, Parts!BuffersFound
  <2>2. Parts!InterpretationsShared => Buffers!InterpretationsShared
    BY <1>3 DEF Buffers!InterpretationsShared, Parts!InterpretationsShared
  <2>3. Parts!TagsClean => Buffers!TagsClean
    BY DEF Buffers!TagsClean, Parts!TagsClean
  <2> QED   BY <2>1, <2>2, <2>3 DEF Buffers!BuffersInv, Parts!BuffersInv
<1> QED   BY <1>1, <1>2, <1>4, <1>5 DEF Buffers!vars, Parts!vars

(* What the main thread does is for the buffers a behaviour of their own.  *)
LEMMA BuffersByThemselves == MainSpec => Parts!Spec
<1>1. MainInit => Parts!Init
  BY SameBuffers DEF MainInit
<1>2. [MainNext]_mainVars => [Parts!Next]_Parts!vars
  <2>1. [MainNext]_mainVars => Buffers!Next \/ UNCHANGED bufferVars
    BY DEF MainNext, mainVars
  <2>2. UNCHANGED bufferVars => UNCHANGED Buffers!vars
    BY DEF bufferVars, Buffers!vars, Buffers!bufferVars, Buffers!tagVars
  <2> QED   BY <2>1, <2>2, SameBuffers
<1> QED   BY <1>1, <1>2, PTL DEF MainSpec, Parts!Spec

(* Buffers and interpretations are shared and found, and a tag slot that   *)
(* is given out again is empty, whatever is opened and released in         *)
(* whatever order.                                                         *)
THEOREM OpenBuffersCorrect == MainSpec => []BuffersInv
<1>1. Parts!Spec => []Parts!BuffersInv
  BY Parts!BuffersCorrect, BuffersAssumption, SameBuffers
<1>2. Parts!BuffersInv => BuffersInv
  BY SameBuffers DEF BuffersInv
<1> QED   BY <1>1, <1>2, BuffersByThemselves, PTL

-----------------------------------------------------------------------------
(* The plugins of the two instances are the same.                          *)
LEMMA SamePlugins ==
  /\ Plugins!Init => Parts!Plugins!Init
  /\ Plugins!Next => Parts!Plugins!Next
  /\ Plugins!vars = Parts!Plugins!vars
  /\ Parts!Plugins!PluginsInv => Plugins!PluginsInv
<1> USE DEF Plugins!ToSet, Parts!Plugins!ToSet, Plugins!IsInjective, Parts!Plugins!IsInjective,
            Plugins!Finalize, Parts!Plugins!Finalize, Plugins!Released, Parts!Plugins!Released,
            Plugins!OnPluginDetached, Parts!Plugins!OnPluginDetached
<1>1. \A S : Plugins!SetToSeqs(S) = Parts!Plugins!SetToSeqs(S)
  BY DEF Plugins!SetToSeqs, Parts!Plugins!SetToSeqs, Plugins!Cardinality, Parts!Plugins!Cardinality
<1>2. \A deps : \A p \in Plugin : Plugins!Attach(p, deps) => Parts!Plugins!Attach(p, deps)
  BY DEF Plugins!Attach, Parts!Plugins!Attach, Plugins!Counted, Parts!Plugins!Counted
<1>3. \A p \in Plugin : /\ Plugins!Enable(p) => Parts!Plugins!Enable(p)
                        /\ Plugins!Disable(p) => Parts!Plugins!Disable(p)
                        /\ Plugins!Detach(p) => Parts!Plugins!Detach(p)
  BY DEF Plugins!Enable, Parts!Plugins!Enable, Plugins!Disable, Parts!Plugins!Disable,
         Plugins!Detach, Parts!Plugins!Detach
<1>4. Plugins!Shutdown => Parts!Plugins!Shutdown
  BY <1>1 DEF Plugins!Shutdown, Parts!Plugins!Shutdown, Plugins!InNameOrder, Parts!Plugins!InNameOrder
<1>5. Plugins!ShutdownNext => Parts!Plugins!ShutdownNext
  BY <1>1 DEF Plugins!ShutdownNext, Parts!Plugins!ShutdownNext, Plugins!InOrderOf, Parts!Plugins!InOrderOf,
              Plugins!OnlyDependentOf, Parts!Plugins!OnlyDependentOf, Plugins!Front, Parts!Plugins!Front,
              Plugins!Last, Parts!Plugins!Last
<1>6. /\ Plugins!ShutdownLeft => Parts!Plugins!ShutdownLeft
      /\ Plugins!FinalizeLeft => Parts!Plugins!FinalizeLeft
  BY DEF Plugins!ShutdownLeft, Parts!Plugins!ShutdownLeft, Plugins!FinalizeLeft, Parts!Plugins!FinalizeLeft
<1>7. Plugins!Next => Parts!Plugins!Next
  BY <1>1, <1>2, <1>3, <1>4, <1>5, <1>6 DEF Plugins!Next, Parts!Plugins!Next
<1>8. Parts!Plugins!PluginsInv => Plugins!PluginsInv
  <2> USE DEF Plugins!Loaded, Parts!Plugins!Loaded, Plugins!Discarded, Parts!Plugins!Discarded
  <2>1. Parts!Plugins!CountsMatch => Plugins!CountsMatch
    BY DEF Plugins!CountsMatch, Parts!Plugins!CountsMatch, Plugins!Cardinality, Parts!Plugins!Cardinality
  <2>2. Parts!Plugins!DependenciesOutlive => Plugins!DependenciesOutlive
    BY DEF Plugins!DependenciesOutlive, Parts!Plugins!DependenciesOutlive
  <2>3. Parts!Plugins!EachTakenApart => Plugins!EachTakenApart
    BY DEF Plugins!EachTakenApart, Parts!Plugins!EachTakenApart
  <2>4. Parts!Plugins!EnabledAreLoaded => Plugins!EnabledAreLoaded
    BY DEF Plugins!EnabledAreLoaded, Parts!Plugins!EnabledAreLoaded
  <2> QED   BY <2>1, <2>2, <2>3, <2>4 DEF Plugins!PluginsInv, Parts!Plugins!PluginsInv
<1> QED   BY <1>7, <1>8 DEF Plugins!Init, Parts!Plugins!Init, Plugins!vars, Parts!Plugins!vars

(* Whatever is attached, detached and enabled, each plugin is counted by   *)
(* those that depend on it, shutdown() finalizes each loaded plugin once,  *)
(* before those that it depends on, and without discarded plugins nothing  *)
(* is left for its loop for cycles.                                        *)
THEOREM PluginsTakenApart == MainSpec => []PluginsInv
<1>1. MainInit => Parts!Plugins!Init
  BY SamePlugins DEF MainInit
<1>2. [MainNext]_mainVars => [Parts!Plugins!Next]_Parts!Plugins!vars
  <2>1. [MainNext]_mainVars => Plugins!Next \/ UNCHANGED pluginVars
    BY DEF MainNext, mainVars
  <2>2. UNCHANGED pluginVars => UNCHANGED Parts!Plugins!vars
    BY DEF pluginVars, Parts!Plugins!vars
  <2> QED   BY <2>1, <2>2, SamePlugins
<1>3. MainSpec => Parts!Plugins!Spec
  BY <1>1, <1>2, PTL DEF MainSpec, Parts!Plugins!Spec
<1>4. Parts!Plugins!PluginsInv => PluginsInv
  BY SamePlugins DEF PluginsInv
<1>5. Parts!Plugins!Spec => []Parts!Plugins!PluginsInv
  BY Parts!PluginsCorrect
<1> QED   BY <1>3, <1>4, <1>5, PTL

-----------------------------------------------------------------------------
(* The events of the two instances are the same.                           *)
LEMMA SameEvents ==
  /\ Events!Init => Parts!Events!Init
  /\ Events!Next => Parts!Events!Next
  /\ Events!vars = Parts!Events!vars
  /\ Parts!Events!EventsInv => Events!EventsInv
<1> USE DEF Events!ToSet, Parts!Events!ToSet, Events!Depth, Parts!Events!Depth, Events!Top, Parts!Events!Top,
            Events!PositionOf, Parts!Events!PositionOf, Events!RemoveAt, Parts!Events!RemoveAt
<1>1. \A h \in Tab : Events!Register(h) => Parts!Events!Register(h)
  BY DEF Events!Register, Parts!Events!Register
<1>2. \A h \in Tab : Events!Unregister(h) => Parts!Events!Unregister(h)
  BY DEF Events!Unregister, Parts!Events!Unregister, Events!Without, Parts!Events!Without,
         Events!MayUnregister, Parts!Events!MayUnregister, Events!IsExecuting, Parts!Events!IsExecuting,
         Events!NoLongerDue, Parts!Events!NoLongerDue
<1>3. Events!Invoke => Parts!Events!Invoke
  BY DEF Events!Invoke, Parts!Events!Invoke
<1>4. Events!HandlerReturns => Parts!Events!HandlerReturns
  BY DEF Events!HandlerReturns, Parts!Events!HandlerReturns, Events!Continue, Parts!Events!Continue,
         Events!Front, Parts!Events!Front
<1>5. Events!Next => Parts!Events!Next
  BY <1>1, <1>2, <1>3, <1>4 DEF Events!Next, Parts!Events!Next
<1>6. Parts!Events!EventsInv => Events!EventsInv
  BY DEF Events!EventsInv, Parts!Events!EventsInv, Events!RunsWhatIsDue, Parts!Events!RunsWhatIsDue,
         Events!IteratorsValid, Parts!Events!IteratorsValid, Events!ListIsRegistered, Parts!Events!ListIsRegistered,
         Events!IsPrefix, Parts!Events!IsPrefix
<1> QED   BY <1>5, <1>6 DEF Events!Init, Parts!Events!Init, Events!vars, Parts!Events!vars

(* Each invocation of an event runs what is registered when its turn       *)
(* comes, in order, each handler once, whatever handlers are registered or *)
(* unregistered and however invocations nest; its iterator is never that   *)
(* of an erased handler.                                                   *)
THEOREM EventsRunInOrder == MainSpec => []EventsInv
<1>1. MainInit => Parts!Events!Init
  BY SameEvents DEF MainInit
<1>2. [MainNext]_mainVars => [Parts!Events!Next]_Parts!Events!vars
  <2>1. [MainNext]_mainVars => Events!Next \/ UNCHANGED eventVars
    BY DEF MainNext, mainVars
  <2>2. UNCHANGED eventVars => UNCHANGED Parts!Events!vars
    BY DEF eventVars, Parts!Events!vars
  <2> QED   BY <2>1, <2>2, SameEvents
<1>3. MainSpec => Parts!Events!Spec
  BY <1>1, <1>2, PTL DEF MainSpec, Parts!Events!Spec
<1>4. Parts!Events!EventsInv => EventsInv
  BY SameEvents DEF EventsInv
<1>5. Parts!Events!Spec => []Parts!Events!EventsInv
  BY Parts!EventsCorrect
<1> QED   BY <1>3, <1>4, <1>5, PTL

-----------------------------------------------------------------------------
(* The settings of the two instances are the same.                         *)
LEMMA SameSettings ==
  /\ Profiles!ProfilesApart => Parts!Profiles!ProfilesApart
  /\ Profiles!Init => Parts!Profiles!Init
  /\ Profiles!Next => Parts!Profiles!Next
  /\ Profiles!vars = Parts!Profiles!vars
  /\ Parts!Profiles!SettingsInv => Profiles!SettingsInv
<1> USE DEF Profiles!Entries, Parts!Profiles!Entries, Profiles!NoProfiles, Parts!Profiles!NoProfiles,
            Profiles!Front, Parts!Profiles!Front
<1>1. \A p : Profiles!Above(p) = Parts!Profiles!Above(p)
  BY DEF Profiles!Above, Parts!Profiles!Above, Profiles!IsPrefix, Parts!Profiles!IsPrefix
<1>2. Profiles!Storages = Parts!Profiles!Storages
  BY <1>1 DEF Profiles!Storages, Parts!Profiles!Storages
<1>3. \A s : Profiles!Set(s) => Parts!Profiles!Set(s)
  BY DEF Profiles!Set, Parts!Profiles!Set
<1>4. \A d, p : Profiles!FindDeepest(d, p) = Parts!Profiles!FindDeepest(d, p)
  BY <1>1 DEF Profiles!FindDeepest, Parts!Profiles!FindDeepest, Profiles!FoundProfile, Parts!Profiles!FoundProfile
<1>5. \A d, p : Profiles!Retrieve(d, p) = Parts!Profiles!Retrieve(d, p)
  BY DEF Profiles!Retrieve, Parts!Profiles!Retrieve, Profiles!Above, Parts!Profiles!Above,
         Profiles!IsPrefix, Parts!Profiles!IsPrefix
<1>6. \A p \in ProfilePaths : Profiles!GetValue(p) => Parts!Profiles!GetValue(p)
  BY <1>4, <1>5 DEF Profiles!GetValue, Parts!Profiles!GetValue, Profiles!vars, Parts!Profiles!vars
<1>7. Profiles!Next => Parts!Profiles!Next
  BY <1>2, <1>3, <1>6 DEF Profiles!Next, Parts!Profiles!Next
<1>8. Profiles!Written = Parts!Profiles!Written
  BY DEF Profiles!Written, Parts!Profiles!Written
<1>9. Parts!Profiles!SettingsInv => Profiles!SettingsInv
  BY <1>8 DEF Profiles!SettingsInv, Parts!Profiles!SettingsInv
<1> QED   BY <1>7, <1>9 DEF Profiles!ProfilesApart, Parts!Profiles!ProfilesApart, Profiles!Init, Parts!Profiles!Init,
                 Profiles!vars, Parts!Profiles!vars

(* Asked at any time, a getter returns the setting of the innermost        *)
(* profile that has it as it is written now, whatever was asked before.    *)
THEOREM GettersFollow == MainSpec => []SettingsInv
<1>1. MainInit => Parts!Profiles!Init
  BY SameSettings DEF MainInit
<1>2. [MainNext]_mainVars => [Parts!Profiles!Next]_Parts!Profiles!vars
  <2>1. [MainNext]_mainVars => Profiles!Next \/ UNCHANGED settingVars
    BY DEF MainNext, mainVars
  <2>2. UNCHANGED settingVars => UNCHANGED Parts!Profiles!vars
    BY DEF settingVars, Parts!Profiles!vars
  <2> QED   BY <2>1, <2>2, SameSettings
<1>3. MainSpec => Parts!Profiles!Spec
  BY <1>1, <1>2, PTL DEF MainSpec, Parts!Profiles!Spec
<1>4. Parts!Profiles!SettingsInv => SettingsInv
  BY SameSettings DEF SettingsInv
<1>5. Parts!Profiles!Spec => []Parts!Profiles!SettingsInv
  BY Parts!SettingsCorrect, ProfilesAssumption, SameSettings
<1> QED   BY <1>3, <1>4, <1>5, PTL

-----------------------------------------------------------------------------
(* The hotkeys of the two instances are the same.                          *)
LEMMA SameHotkeys ==
  /\ Hotkeys!HotkeysAreKeys => Parts!Hotkeys!HotkeysAreKeys
  /\ Hotkeys!Init => Parts!Hotkeys!Init
  /\ Hotkeys!Next => Parts!Hotkeys!Next
  /\ Hotkeys!vars = Parts!Hotkeys!vars
  /\ Parts!Hotkeys!ChainInv => Hotkeys!ChainInv
  /\ Parts!Hotkeys!KeysAnswered => Hotkeys!KeysAnswered
<1> USE DEF Hotkeys!Fresh, Parts!Hotkeys!Fresh, Hotkeys!NoAnswer, Parts!Hotkeys!NoAnswer
<1>1. \A s, t : Hotkeys!IsPrefix(s, t) <=> Parts!Hotkeys!IsPrefix(s, t)
  BY DEF Hotkeys!IsPrefix, Parts!Hotkeys!IsPrefix
<1>2. \A G, s : Hotkeys!IsNode(G, s) <=> Parts!Hotkeys!IsNode(G, s)
  BY <1>1 DEF Hotkeys!IsNode, Parts!Hotkeys!IsNode
<1>3. Hotkeys!Init => Parts!Hotkeys!Init
  <2>1. \A e : Hotkeys!Parsed(e) = Parts!Hotkeys!Parsed(e)
    BY DEF Hotkeys!Parsed, Parts!Hotkeys!Parsed, Hotkeys!Registered, Parts!Hotkeys!Registered,
           Hotkeys!IsPrefix, Parts!Hotkeys!IsPrefix
  <2> QED   BY <2>1 DEF Hotkeys!Init, Parts!Hotkeys!Init
<1>4. Hotkeys!GroupLists = Parts!Hotkeys!GroupLists
  BY DEF Hotkeys!GroupLists, Parts!Hotkeys!GroupLists
<1>5. \A key : Hotkeys!Pressed(key) = Parts!Hotkeys!Pressed(key)
  BY DEF Hotkeys!Pressed, Parts!Hotkeys!Pressed, Hotkeys!OnKeypress, Parts!Hotkeys!OnKeypress,
         Hotkeys!UpdateState, Parts!Hotkeys!UpdateState, Hotkeys!IsNode, Parts!Hotkeys!IsNode,
         Hotkeys!IsPrefix, Parts!Hotkeys!IsPrefix
<1>6. \A key : Hotkeys!Triggers(key) = Parts!Hotkeys!Triggers(key)
  BY <1>5 DEF Hotkeys!Triggers, Parts!Hotkeys!Triggers
<1>7. \A key : Hotkeys!Follow(key) <=> Parts!Hotkeys!Follow(key)
  BY <1>2 DEF Hotkeys!Follow, Parts!Hotkeys!Follow
<1>8. \A key : Hotkeys!OnKeyDown(key) <=> Parts!Hotkeys!OnKeyDown(key)
  <2>1. \A key : Hotkeys!OnOtherKey(key) <=> Parts!Hotkeys!OnOtherKey(key)
    BY <1>5, <1>6 DEF Hotkeys!OnOtherKey, Parts!Hotkeys!OnOtherKey
  <2>2. \A key, m, g : Hotkeys!OnHotkey(key, m, g) <=> Parts!Hotkeys!OnHotkey(key, m, g)
    BY <1>6 DEF Hotkeys!OnHotkey, Parts!Hotkeys!OnHotkey
  <2> QED   BY <1>4, <1>7, <2>1, <2>2, Zenon DEF Hotkeys!OnKeyDown, Parts!Hotkeys!OnKeyDown
<1>9. \A g : Hotkeys!ResetGroups(g) => Parts!Hotkeys!ResetGroups(g)
  BY DEF Hotkeys!ResetGroups, Parts!Hotkeys!ResetGroups
<1>10. Hotkeys!Next => Parts!Hotkeys!Next
  BY <1>4, <1>8, <1>9 DEF Hotkeys!Next, Parts!Hotkeys!Next
<1>11. Parts!Hotkeys!ChainInv => Hotkeys!ChainInv
  <2>1. \A s : Hotkeys!WithoutModifiers(s) = Parts!Hotkeys!WithoutModifiers(s)
    BY DEF Hotkeys!WithoutModifiers, Parts!Hotkeys!WithoutModifiers
  <2>2. Parts!Hotkeys!GroupsFollowKeys => Hotkeys!GroupsFollowKeys
    BY <1>2, <2>1 DEF Hotkeys!GroupsFollowKeys, Parts!Hotkeys!GroupsFollowKeys
  <2>3. Parts!Hotkeys!NoneHidesAnother => Hotkeys!NoneHidesAnother
    BY <1>1 DEF Hotkeys!NoneHidesAnother, Parts!Hotkeys!NoneHidesAnother
  <2> QED   BY <2>2, <2>3 DEF Hotkeys!ChainInv, Parts!Hotkeys!ChainInv
<1>12. Parts!Hotkeys!KeysAnswered => Hotkeys!KeysAnswered
  <2>1. \A key : Parts!Hotkeys!KeyAnswered(key) => Hotkeys!KeyAnswered(key)
    BY <1>2 DEF Hotkeys!KeyAnswered, Parts!Hotkeys!KeyAnswered
  <2> QED   BY <1>8, <2>1 DEF Hotkeys!KeysAnswered, Parts!Hotkeys!KeysAnswered
<1> QED   BY <1>3, <1>10, <1>11, <1>12 DEF Hotkeys!HotkeysAreKeys, Parts!Hotkeys!HotkeysAreKeys,
               Hotkeys!vars, Parts!Hotkeys!vars

(* No hotkey of a group begins another; every group of the focus is where  *)
(* the keys of the chain lead in it, and a key completes the hotkey of the *)
(* first group that has what was typed and is passed on only if it belongs *)
(* to none, whatever was typed, configured and focused before.             *)
THEOREM KeysTriggerHotkeys == MainSpec => HotkeysFollowed
<1>1. MainInit => Parts!Hotkeys!Init
  BY SameHotkeys DEF MainInit
<1>2. [MainNext]_mainVars => [Parts!Hotkeys!Next]_Parts!Hotkeys!vars
  <2>1. [MainNext]_mainVars => Hotkeys!Next \/ UNCHANGED hotkeyVars
    BY DEF MainNext, mainVars
  <2>2. UNCHANGED hotkeyVars => UNCHANGED Parts!Hotkeys!vars
    BY DEF hotkeyVars, Parts!Hotkeys!vars
  <2> QED   BY <2>1, <2>2, SameHotkeys
<1>3. Parts!Hotkeys!Init => Parts!HotkeysIInv
  BY Parts!HotkeysInit, HotkeysAssumption, SameHotkeys
<1>4. Parts!HotkeysIInv /\ [Parts!Hotkeys!Next]_Parts!Hotkeys!vars => Parts!HotkeysIInv'
  BY Parts!HotkeysNext
<1>5. Parts!HotkeysIInv => (subject = "hotkeys" => Hotkeys!ChainInv)
  BY Parts!HotkeysHold, SameHotkeys
<1>6. Parts!HotkeysIInv => (subject = "hotkeys" => Hotkeys!KeysAnswered)
  BY Parts!KeysAreAnswered, SameHotkeys
<1> QED   BY <1>1, <1>2, <1>3, <1>4, <1>5, <1>6, PTL DEF MainSpec, HotkeysFollowed

-----------------------------------------------------------------------------
(* The paths of elements are the same in the two instances.                *)
LEMMA SamePaths ==
  /\ \A s : Tree!ToSet(s) = Parts!Tree!ToSet(s)
  /\ \A st, e : Tree!Path(st, e) = Parts!Tree!Path(st, e)
  /\ \A st, e, f : Tree!Under(st, e, f) <=> Parts!Tree!Under(st, e, f)
  /\ \A st, e : Tree!WindowOf(st, e) = Parts!Tree!WindowOf(st, e)
  /\ \A st, e : Tree!ScopeOf(st, e) = Parts!Tree!ScopeOf(st, e)
  /\ \A st, e : Tree!TakesOver(st, e) = Parts!Tree!TakesOver(st, e)
<1>1. \A s : Tree!ToSet(s) = Parts!Tree!ToSet(s)
  BY DEF Tree!ToSet, Parts!Tree!ToSet
<1>2. \A st, e : Tree!Path(st, e) = Parts!Tree!Path(st, e)
  BY Zenon DEF Tree!Path, Parts!Tree!Path
<1>3. \A st, e, f : Tree!Under(st, e, f) <=> Parts!Tree!Under(st, e, f)
  BY <1>1, <1>2 DEF Tree!Under, Parts!Tree!Under
<1>4. \A st, e : Tree!WindowOf(st, e) = Parts!Tree!WindowOf(st, e)
  BY <1>2 DEF Tree!WindowOf, Parts!Tree!WindowOf, Tree!Last, Parts!Tree!Last
<1>5. \A st, e, among : Tree!Nearest(st, e, among) = Parts!Tree!Nearest(st, e, among)
  <2> DEFINE above(p, among) == {i \in 2..Len(p) : p[i] \in among}
             found(p, among) ==
               IF above(p, among) = {} THEN None
               ELSE p[CHOOSE i \in above(p, among) : \A j \in above(p, among) : i <= j]
  <2>1. \A st, e, among : /\ Tree!Nearest(st, e, among) = found(Tree!Path(st, e), among)
                          /\ Parts!Tree!Nearest(st, e, among) = found(Parts!Tree!Path(st, e), among)
    BY Zenon DEF Tree!Nearest, Parts!Tree!Nearest
  <2> HIDE DEF found
  <2> QED   BY <1>2, <2>1
<1> QED   BY <1>1, <1>2, <1>3, <1>4, <1>5 DEF Tree!ScopeOf, Parts!Tree!ScopeOf, Tree!TakesOver, Parts!Tree!TakesOver

(* A request for the focus is the same.                                    *)
LEMMA SameFocus == \A st, e : Tree!SetFocusedElement(st, e) = Parts!Tree!SetFocusedElement(st, e)
<1> DEFINE moved(st, e, new, path, on, w) ==
      LET InScope(s) ==
            LET at == CHOOSE i \in 1..Len(path) : path[i] = s
                below == {i \in 1..at - 1 : i = 1 \/ path[i] \in Scope}
            IN  path[CHOOSE i \in below : \A j \in below : j <= i]
      IN  IF (e # None /\ w \notin {st.focused} \ {None}) \/ new = st.focus THEN st
          ELSE [st EXCEPT !.focus = new, !.groups = path,
                  !.scope = [s \in Scope |-> IF s \in on \ {new} THEN InScope(s) ELSE @[s]]]
<1>1. \A st, e : Tree!Innermost(st, e) = Parts!Tree!Innermost(st, e)
  BY Zenon DEF Tree!Innermost, Parts!Tree!Innermost
<1>2. ASSUME NEW st, NEW e
      PROVE  Tree!SetFocusedElement(st, e) =
               moved(st, e, Tree!Innermost(st, e), Tree!Path(st, Tree!Innermost(st, e)),
                     Tree!ToSet(Tree!Path(st, Tree!Innermost(st, e))), Tree!WindowOf(st, e))
  BY Zenon DEF Tree!SetFocusedElement
<1>3. ASSUME NEW st, NEW e
      PROVE  Parts!Tree!SetFocusedElement(st, e) =
               moved(st, e, Parts!Tree!Innermost(st, e), Parts!Tree!Path(st, Parts!Tree!Innermost(st, e)),
                     Parts!Tree!ToSet(Parts!Tree!Path(st, Parts!Tree!Innermost(st, e))), Parts!Tree!WindowOf(st, e))
  BY Zenon DEF Parts!Tree!SetFocusedElement
<1> HIDE DEF moved
<1> QED   BY <1>1, <1>2, <1>3, SamePaths

(* So are removing and disposing of elements.                              *)
LEMMA SameDisposal ==
  /\ \A st, e : Tree!RemoveChild(st, e) = Parts!Tree!RemoveChild(st, e)
  /\ \A st, elements : Tree!DisposeElements(st, elements) = Parts!Tree!DisposeElements(st, elements)
<1>1. \A st, e : Tree!ScopeLeft(st, e) = Parts!Tree!ScopeLeft(st, e)
  BY SamePaths DEF Tree!ScopeLeft, Parts!Tree!ScopeLeft
<1>2. \A st, e : Tree!FocusLeft(st, e) = Parts!Tree!FocusLeft(st, e)
  BY SamePaths, SameFocus DEF Tree!FocusLeft, Parts!Tree!FocusLeft
<1>3. \A st, e : Tree!CaptureLeft(st, e) = Parts!Tree!CaptureLeft(st, e)
  BY SamePaths DEF Tree!CaptureLeft, Parts!Tree!CaptureLeft
<1>4. \A st, e : Tree!OnRemoving(st, e) = Parts!Tree!OnRemoving(st, e)
  BY <1>1, <1>2, <1>3 DEF Tree!OnRemoving, Parts!Tree!OnRemoving
<1>5. \A st, e : Tree!RemoveChild(st, e) = Parts!Tree!RemoveChild(st, e)
  BY <1>4 DEF Tree!RemoveChild, Parts!Tree!RemoveChild
<1>6. \A st, elements : Tree!RemoveChildren(st, elements) = Parts!Tree!RemoveChildren(st, elements)
  BY <1>5, Zenon DEF Tree!RemoveChildren, Parts!Tree!RemoveChildren
<1>7. \A S : Tree!SetToSeq(S) = Parts!Tree!SetToSeq(S)
  BY Zenon DEF Tree!SetToSeq, Parts!Tree!SetToSeq, Tree!Cardinality, Parts!Tree!Cardinality,
               Tree!IsInjective, Parts!Tree!IsInjective
<1>8. \A st, e : Tree!Children(st, e) = Parts!Tree!Children(st, e)
  BY DEF Tree!Children, Parts!Tree!Children
<1>9. \A st, e : Tree!DisposeElement(st, e) = Parts!Tree!DisposeElement(st, e)
  <2> SUFFICES ASSUME NEW st, NEW e PROVE Tree!DisposeElement(st, e) = Parts!Tree!DisposeElement(st, e)
    OBVIOUS
  <2> DEFINE theirs == Tree!Children(st, e)
             order == Tree!SetToSeq(theirs)
             begun == IF e \in Window THEN Tree!OnRemoving(st, e) ELSE st
             told == [begun EXCEPT !.marked = @ \cup theirs]
             alone == Tree!RemoveChildren(told, order)
             gone == IF st.parent[e] = None THEN alone ELSE Tree!RemoveChild(alone, e)
             theirs2 == Parts!Tree!Children(st, e)
             order2 == Parts!Tree!SetToSeq(theirs2)
             begun2 == IF e \in Window THEN Parts!Tree!OnRemoving(st, e) ELSE st
             told2 == [begun2 EXCEPT !.marked = @ \cup theirs2]
             alone2 == Parts!Tree!RemoveChildren(told2, order2)
             gone2 == IF st.parent[e] = None THEN alone2 ELSE Parts!Tree!RemoveChild(alone2, e)
  <2>1. Tree!DisposeElement(st, e) = [gone EXCEPT !.existing = @ \ {e}, !.marked = @ \ {e}]
    BY Zenon DEF Tree!DisposeElement
  <2>2. Parts!Tree!DisposeElement(st, e) = [gone2 EXCEPT !.existing = @ \ {e}, !.marked = @ \ {e}]
    BY Zenon DEF Parts!Tree!DisposeElement
  <2>3. theirs = theirs2 /\ begun = begun2
    BY <1>4, <1>8
  <2> HIDE DEF theirs, theirs2, begun, begun2
  <2>4. told = told2 /\ order = order2
    BY <1>7, <2>3
  <2> HIDE DEF told, told2, order, order2
  <2>5. alone = alone2
    BY <1>6, <2>4
  <2> HIDE DEF alone, alone2
  <2>6. gone = gone2
    BY <1>5, <2>5
  <2> HIDE DEF gone, gone2
  <2> QED   BY <2>1, <2>2, <2>6, Zenon
<1>10. \A st, elements : Tree!DisposeElements(st, elements) = Parts!Tree!DisposeElements(st, elements)
  BY <1>9, Zenon DEF Tree!DisposeElements, Parts!Tree!DisposeElements
<1> QED   BY <1>5, <1>10

(* So is the whole tree.                                                   *)
LEMMA SameElements ==
  /\ Tree!ElementsNested => Parts!Tree!ElementsNested
  /\ Tree!Init => Parts!Tree!Init
  /\ Tree!Next => Parts!Tree!Next
  /\ Tree!vars = Parts!Tree!vars
  /\ Parts!Tree!FocusInv => Tree!FocusInv
<1>1. Tree!ElementsNested => Parts!Tree!ElementsNested
  BY DEF Tree!ElementsNested, Parts!Tree!ElementsNested, Tree!IsFiniteSet, Parts!Tree!IsFiniteSet
<1>2. Tree!Now = Parts!Tree!Now /\ \A st : Tree!Become(st) <=> Parts!Tree!Become(st)
  BY DEF Tree!Now, Parts!Tree!Now, Tree!Become, Parts!Tree!Become
<1>3. ASSUME NEW e \in Element, NEW p \in Panel, Tree!Add(e, p) PROVE Parts!Tree!Add(e, p)
  BY <1>2, <1>3, SamePaths DEF Tree!Add, Parts!Tree!Add
<1>4. ASSUME NEW e \in Element, Tree!RemoveElement(e) PROVE Parts!Tree!RemoveElement(e)
  BY <1>2, <1>4, SameDisposal DEF Tree!RemoveElement, Parts!Tree!RemoveElement
<1>5. ASSUME NEW e \in Element, Tree!MarkForDisposal(e) PROVE Parts!Tree!MarkForDisposal(e)
  BY <1>5 DEF Tree!MarkForDisposal, Parts!Tree!MarkForDisposal, Tree!Cardinality, Parts!Tree!Cardinality
<1>6. ASSUME NEW e \in Element, Tree!Focus(e) PROVE Parts!Tree!Focus(e)
  BY <1>2, <1>6, SameFocus DEF Tree!Focus, Parts!Tree!Focus
<1>7. ASSUME NEW e \in Element, Tree!SetMouseCapture(e) PROVE Parts!Tree!SetMouseCapture(e)
  BY <1>2, <1>7, SamePaths DEF Tree!SetMouseCapture, Parts!Tree!SetMouseCapture
<1>8. ASSUME Tree!DisposeBatch PROVE Parts!Tree!DisposeBatch
  <2>1. \A S : Tree!SetToSeqs(S) = Parts!Tree!SetToSeqs(S)
    BY Zenon DEF Tree!SetToSeqs, Parts!Tree!SetToSeqs, Tree!Cardinality, Parts!Tree!Cardinality
  <2> QED   BY <1>2, <1>8, <2>1, SameDisposal DEF Tree!DisposeBatch, Parts!Tree!DisposeBatch
<1>9. ASSUME NEW w, Tree!SystemFocus(w) PROVE Parts!Tree!SystemFocus(w)
  BY <1>2, <1>9, SameFocus DEF Tree!SystemFocus, Parts!Tree!SystemFocus
<1>10. ASSUME NEW w \in Window, Tree!ReleaseMouseCapture(w) PROVE Parts!Tree!ReleaseMouseCapture(w)
  BY <1>10 DEF Tree!ReleaseMouseCapture, Parts!Tree!ReleaseMouseCapture
<1>11. Tree!Next => Parts!Tree!Next
  BY <1>3, <1>4, <1>5, <1>6, <1>7, <1>8, <1>9, <1>10 DEF Tree!Next, Parts!Tree!Next
<1>12. Tree!Init => Parts!Tree!Init
  BY DEF Tree!Init, Parts!Tree!Init, Tree!kSubset, Parts!Tree!kSubset, Tree!Cardinality, Parts!Tree!Cardinality
<1>13. Parts!Tree!FocusInv => Tree!FocusInv
  BY <1>2, SamePaths DEF Tree!FocusInv, Parts!Tree!FocusInv, Tree!FocusAttached, Parts!Tree!FocusAttached,
     Tree!HotkeysFollowFocus, Parts!Tree!HotkeysFollowFocus, Tree!ScopeFocusWithin, Parts!Tree!ScopeFocusWithin,
     Tree!CaptureWithin, Parts!Tree!CaptureWithin, Tree!DeletedAreGone, Parts!Tree!DeletedAreGone
<1> QED   BY <1>1, <1>11, <1>12, <1>13 DEF Tree!vars, Parts!Tree!vars

(* Whatever is added, removed, marked and disposed of in batches, focused  *)
(* and captured, in any tree of any elements: the focus is an element of   *)
(* the focused window that exists, the hotkeys are those of what it is in, *)
(* the focus of a scope is in the scope with no other between them, a      *)
(* captured mouse is for an element of the window, and what was deleted is *)
(* out of the tree.                                                        *)
THEOREM FocusInTree == MainSpec => []FocusInv
<1>1. MainInit => Parts!Tree!Init
  BY SameElements DEF MainInit
<1>2. [MainNext]_mainVars => [Parts!Tree!Next]_Parts!Tree!vars
  <2>1. [MainNext]_mainVars => Tree!Next \/ UNCHANGED treeVars
    BY DEF MainNext, mainVars
  <2>2. UNCHANGED treeVars => UNCHANGED Parts!Tree!vars
    BY DEF treeVars, Parts!Tree!vars
  <2> QED   BY <2>1, <2>2, SameElements
<1>3. MainSpec => Parts!Tree!Spec
  BY <1>1, <1>2, PTL DEF MainSpec, Parts!Tree!Spec
<1>4. Parts!Tree!FocusInv => FocusInv
  BY SameElements DEF FocusInv
<1>5. Parts!Tree!Spec => []Parts!Tree!FocusInv
  BY Parts!FocusCorrect, ElementsAssumption, SameElements
<1> QED   BY <1>3, <1>4, <1>5, PTL
=============================================================================
