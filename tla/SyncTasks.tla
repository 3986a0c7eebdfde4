----------------------------- MODULE SyncTasks -----------------------------
(***************************************************************************)
(* The synchronous tasks of ui::scheduler: functions that elements         *)
(* register to be run by the main loop at a point of time, again and again *)
(* or once.  _sync_tasks keeps them by element, _sync_task_queue by time;  *)
(* the two refer to each other by iterator and by index.  While a task     *)
(* runs it may register and cancel tasks, so that the queue moves under    *)
(* update_synchronous_tasks().                                             *)
(***************************************************************************)
EXTENDS Naturals, Sequences, FiniteSets, SequencesExt,
        IntrusivePriorityQueue

CONSTANTS
  Tasks,        \* every _sync_task_info that may ever be registered
  NoTask,
  Elements,
  MaxTime,      \* bound on the clock
  MayCancelSelf \* whether a running task may cancel itself, as that of scrollbar does

ASSUME SyncTaskAssumption ==
  /\ NoTask \notin Tasks
  /\ Elements \cap {"idle", "update", "task"} = {}
  /\ MaxTime \in Nat
  /\ MayCancelSelf \in BOOLEAN

VARIABLES
  queue,      \* _sync_task_queue
  index,      \* _sync_task_info::queue_index
  scheduled,  \* _sync_task_info::scheduled
  lists,      \* _sync_tasks: the tasks of each element
  token,      \* whether the owner of a task holds a token of it
  now,        \* the clock
  before,     \* execute_before of update_synchronous_tasks()
  running,    \* the task that is being run
  mpc         \* "idle", "update" between two tasks, "task", or the element that goes

vars == <<queue, index, scheduled, lists, token, now, before, running, mpc>>
loopVars == <<now, before, running, mpc>>

Registered == UNION {ToSet(lists[e]) : e \in Elements}
TokenStates == {"unused", "held", "spent"}

TypeOK ==
  /\ queue \in Seq(Tasks)
  /\ index \in [Tasks -> Nat]
  /\ scheduled \in [Tasks -> 0..MaxTime + 1]
  /\ lists \in [Elements -> Seq(Tasks)]
  /\ token \in [Tasks -> TokenStates]
  /\ now \in 0..MaxTime
  /\ before \in 0..MaxTime
  /\ running \in Tasks \cup {NoTask}
  /\ mpc \in {"idle", "update", "task"} \cup Elements
  /\ mpc = "task" <=> running # NoTask

Init ==
  /\ queue = <<>>
  /\ index = [t \in Tasks |-> 0]
  /\ scheduled = [t \in Tasks |-> 0]
  /\ lists = [e \in Elements |-> <<>>]
  /\ token = [t \in Tasks |-> "unused"]
  /\ now = 0
  /\ before = 0
  /\ running = NoTask
  /\ mpc = "idle"

Replace(result) == queue' = result.array /\ index' = Notified(index, result)

(* The clock advances at any time. *)
Tick ==
  /\ now < MaxTime
  /\ now' = now + 1
  /\ UNCHANGED <<queue, index, scheduled, lists, token, before, running, mpc>>

-----------------------------------------------------------------------------
(* Elements call from an event handler or from the task that is running.   *)
Calling == mpc \in {"idle", "task"}

(* register_synchronous_task(): all callers pass the present or a later    *)
(* time.                                                                   *)
Register(t, e, time) ==
  /\ Calling
  /\ token[t] = "unused"
  /\ scheduled' = [scheduled EXCEPT ![t] = time]
  /\ lists' = [lists EXCEPT ![e] = Append(@, t)]
  /\ token' = [token EXCEPT ![t] = "held"]
  /\ Replace(Push(queue, scheduled', t))
  /\ UNCHANGED loopVars

(* The entry of t is erased from the list that has it.                     *)
Unlist(t) ==
  [e \in Elements |-> IF t \in ToSet(lists[e])
                       THEN RemoveAt(lists[e], CHOOSE i \in DOMAIN lists[e] : lists[e][i] = t)
                       ELSE lists[e]]

(* _cancel_sync_task(): the task leaves the list that the queue entry at   *)
(* its index refers to, and the queue loses that entry.                    *)
CancelTask(t) ==
  /\ lists' = Unlist(queue[index[t]])
  /\ Replace(EraseAt(queue, scheduled, index[t]))

(* cancel_synchronous_task(), with the token of a task that has neither    *)
(* ended nor gone with its element.                                        *)
Cancel(t) ==
  /\ Calling
  /\ token[t] = "held"
  /\ t # running \/ MayCancelSelf
  /\ CancelTask(t)
  /\ token' = [token EXCEPT ![t] = "spent"]
  /\ UNCHANGED <<scheduled, loopVars>>

-----------------------------------------------------------------------------
(* update_synchronous_tasks() *)
StartUpdate ==
  /\ mpc = "idle"
  /\ before' = now
  /\ mpc' = "update"
  /\ UNCHANGED <<queue, index, scheduled, lists, token, now, running>>

Due == queue # <<>> /\ scheduled[queue[1]] <= before

RunTop ==
  /\ mpc = "update"
  /\ Due
  /\ running' = queue[1]
  /\ mpc' = "task"
  /\ UNCHANGED <<queue, index, scheduled, lists, token, now, before>>

(* Mutant of Repeat: the new time is stored without on_key_decreased().    *)
RepeatInPlace(time) ==
  /\ mpc = "task" /\ queue # <<>>
  /\ scheduled' = [scheduled EXCEPT ![queue[1]] = time]
  /\ running' = NoTask
  /\ mpc' = "update"
  /\ UNCHANGED <<queue, index, lists, token, now, before>>

(* Mutant of Repeat: the time is given to the last entry of the queue. *)
RepeatLast(time) ==
  /\ mpc = "task" /\ queue # <<>>
  /\ scheduled' = [scheduled EXCEPT ![queue[Len(queue)]] = time]
  /\ Replace(AdjustUp(queue, scheduled', Len(queue)))
  /\ running' = NoTask
  /\ mpc' = "update"
  /\ UNCHANGED <<lists, token, now, before>>

(* The task returns when to run again: `ref' is what is now on top (and    *)
(* undefined when the queue has been emptied: no step).  The container is  *)
(* a deque, so that registering another task leaves the reference valid.   *)
Repeat(time) ==
  /\ mpc = "task" /\ queue # <<>>
  /\ scheduled' = [scheduled EXCEPT ![queue[1]] = time]
  /\ Replace(AdjustDown(queue, scheduled', 1))
  /\ running' = NoTask
  /\ mpc' = "update"
  /\ UNCHANGED <<lists, token, now, before>>

(* The task returns nothing and is cancelled; its owner has given up its   *)
(* token while it ran.                                                     *)
Done ==
  /\ mpc = "task" /\ queue # <<>>
  /\ CancelTask(queue[1])
  /\ token' = [token EXCEPT ![running] = "spent"]
  /\ running' = NoTask
  /\ mpc' = "update"
  /\ UNCHANGED <<scheduled, now, before>>

EndUpdate ==
  /\ mpc = "update"
  /\ ~Due
  /\ mpc' = "idle"
  /\ UNCHANGED <<queue, index, scheduled, lists, token, now, before, running>>

-----------------------------------------------------------------------------
(* dispose_marked_elements(): the tasks of the element are erased one by   *)
(* one, each at the index that the previous erasures have left it.         *)
Dispose(e) ==
  /\ mpc = "idle"
  /\ lists[e] # <<>>
  /\ mpc' = e
  /\ UNCHANGED <<queue, index, scheduled, lists, token, now, before, running>>

(* Mutant of DisposeTask: the indices are not kept up to date. *)
DisposeNotNotified(e) ==
  /\ mpc = e
  /\ queue' = EraseAt(queue, scheduled, index[Head(lists[e])]).array
  /\ lists' = [lists EXCEPT ![e] = Tail(@)]
  /\ token' = [token EXCEPT ![Head(lists[e])] = "spent"]
  /\ mpc' = IF Len(lists[e]) = 1 THEN "idle" ELSE e
  /\ UNCHANGED <<index, scheduled, now, before, running>>

DisposeTask(e) ==
  /\ mpc = e
  /\ Replace(EraseAt(queue, scheduled, index[Head(lists[e])]))
  /\ lists' = [lists EXCEPT ![e] = Tail(@)]
  /\ token' = [token EXCEPT ![Head(lists[e])] = "spent"]
  /\ mpc' = IF Len(lists[e]) = 1 THEN "idle" ELSE e
  /\ UNCHANGED <<scheduled, now, before, running>>

-----------------------------------------------------------------------------
Times == {now, now + 1}

UpdateStep ==
  \/ StartUpdate \/ RunTop \/ EndUpdate
  \/ Done
  \/ \E time \in Times : Repeat(time)

Next ==
  \/ Tick
  \/ UpdateStep
  \/ \E t \in Tasks :
       \/ Cancel(t)
       \/ \E e \in Elements, time \in Times : Register(t, e, time)
  \/ \E e \in Elements : Dispose(e) \/ DisposeTask(e)

Spec == Init /\ [][Next]_vars

-----------------------------------------------------------------------------
(* _verify_integrity() asserts "heap integrity compromised": after every   *)
(* operation no entry is scheduled before its parent.                      *)
HeapIntegrity == HeapOrdered(queue, scheduled)

(* queue_index of a registered task is where the queue has it; cancelling  *)
(* and disposing rely on it.                                               *)
IndexIsPosition == \A t \in Registered : index[t] \in 1..Len(queue) /\ queue[index[t]] = t

(* _sync_tasks and _sync_task_queue hold the same tasks, each once, and    *)
(* know each other: no entry refers to a destroyed _sync_task_info, no     *)
(* task is forgotten or found at the place of another one.                 *)
QueueMatchesLists ==
  /\ TypeOK /\ HeapIntegrity /\ IndexIsPosition
  /\ ToSet(queue) = Registered /\ Len(queue) = Cardinality(Registered)

(* What a task returns is applied to that task: no other one is            *)
(* rescheduled or dropped in its stead.                                    *)
ReturnAppliesToRunning ==
  [][running # NoTask /\ running' = NoTask =>
       \A t \in Tasks \ {running} :
         scheduled'[t] = scheduled[t] /\ (t \in Registered => t \in Registered')]_vars

(* Tasks run in the order of their times: none is started while another    *)
(* one was due before it.                                                  *)
EarliestFirst ==
  [][running' # running /\ running' # NoTask =>
       \A t \in Registered : scheduled[running'] <= scheduled[t]]_vars

(* Both: the task that is run is the first that is due, and what it returns*)
(* is applied to it.                                                       *)
RunsAsScheduled == ReturnAppliesToRunning /\ EarliestFirst
=============================================================================
