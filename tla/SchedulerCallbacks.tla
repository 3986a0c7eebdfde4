------------------------- MODULE SchedulerCallbacks -------------------------
(***************************************************************************)
(* Callbacks posted to the main thread: execute_callback(),                *)
(* callback_token::cancel() and wake_up() of ui::scheduler, called by any  *)
(* thread, against main_iteration() and _check_and_execute_callbacks() of  *)
(* the main thread.  A step is one critical section of _callback_mutex,    *)
(* one unlocked read of an atomic, one access to the event queue of the    *)
(* system, or the beginning or the end of a callback.                      *)
(***************************************************************************)
EXTENDS Naturals, Sequences, FiniteSets, SequencesExt

CONSTANTS
  Threads,     \* the threads that post or cancel callbacks
  Main,        \* the thread that runs main_iteration()
  Callbacks,   \* the functions that are posted
  NoCallback

ASSUME CallbackAssumption ==
  /\ Main \in Threads
  /\ NoCallback \notin Callbacks

VARIABLES
  callbacks,      \* _callbacks
  num_callbacks,  \* _num_callbacks
  timestamp,      \* _callback_timestamp
  batch,          \* the local list of _check_and_execute_callbacks()
  mpc,            \* where the main thread is in main_iteration()
  events,         \* the wake-up events in the queue of the system
  tpc,            \* where each thread is in execute_callback() or cancel()
  target,         \* the callback of that call
  stamp,          \* callback_token::_timestamp of each callback, 0 before it is posted
  token           \* what the owner of each callback's token knows

vars == <<callbacks, num_callbacks, timestamp, batch, mpc, events, tpc, target, stamp, token>>
listVars == <<callbacks, num_callbacks, timestamp>>
threadVars == <<tpc, target, stamp, token>>

MainLabels == {"check", "read", "swap", "next", "callback", "update", "wait", "handler"}

(* "none": not returned yet; "held": scheduler::callback_token; "true" and *)
(* "false": spent, with what cancel() returned.                            *)
TokenStates == {"none", "held", "true", "false"}

Queued == {callbacks[i] : i \in 1..Len(callbacks)}
Batched == {batch[i] : i \in 1..Len(batch)}

TypeOK ==
  /\ callbacks \in Seq(Callbacks)
  /\ num_callbacks \in Nat
  /\ timestamp \in Nat \ {0}
  /\ batch \in Seq(Callbacks)
  /\ mpc \in MainLabels
  /\ events \in Nat
  /\ tpc \in [Threads -> {"idle", "wake", "cancel"}]
  /\ target \in [Threads -> Callbacks \cup {NoCallback}]
  /\ stamp \in [Callbacks -> Nat]
  /\ token \in [Callbacks -> TokenStates]

Init ==
  /\ callbacks = <<>>
  /\ num_callbacks = 0
  /\ timestamp = 1
  /\ batch = <<>>
  /\ mpc = "check"
  /\ events = 0
  /\ tpc = [t \in Threads |-> "idle"]
  /\ target = [t \in Threads |-> NoCallback]
  /\ stamp = [c \in Callbacks |-> 0]
  /\ token = [c \in Callbacks |-> "none"]

-----------------------------------------------------------------------------
(* A thread is in its own code; for the main thread that is a callback or  *)
(* what update() and the event handlers call.                              *)
Free(t) == tpc[t] = "idle" /\ (t = Main => mpc \in {"callback", "update", "handler"})

(* execute_callback(): the critical section. *)
Post(t, c) ==
  /\ Free(t)
  /\ stamp[c] = 0
  /\ callbacks' = Append(callbacks, c)
  /\ num_callbacks' = num_callbacks + 1
  /\ stamp' = [stamp EXCEPT ![c] = timestamp]
  /\ tpc' = [tpc EXCEPT ![t] = "wake"]
  /\ target' = [target EXCEPT ![t] = c]
  /\ UNCHANGED <<timestamp, batch, mpc, events, token>>

(* Mutant of WakeUp: no event is posted. *)
NoWakeUp(t) ==
  /\ tpc[t] = "wake"
  /\ token' = [token EXCEPT ![target[t]] = "held"]
  /\ tpc' = [tpc EXCEPT ![t] = "idle"]
  /\ target' = [target EXCEPT ![t] = NoCallback]
  /\ UNCHANGED <<listVars, batch, mpc, events, stamp>>

(* execute_callback(): wake_up(), and the token is returned. *)
WakeUp(t) ==
  /\ tpc[t] = "wake"
  /\ events' = events + 1
  /\ token' = [token EXCEPT ![target[t]] = "held"]
  /\ tpc' = [tpc EXCEPT ![t] = "idle"]
  /\ target' = [target EXCEPT ![t] = NoCallback]
  /\ UNCHANGED <<listVars, batch, mpc, stamp>>

(* cancel(): the token is emptied and the timestamps compared unlocked. *)
CancelCheck(t, c) ==
  /\ Free(t)
  /\ token[c] = "held"
  /\ IF timestamp = stamp[c]
       THEN /\ tpc' = [tpc EXCEPT ![t] = "cancel"]
            /\ target' = [target EXCEPT ![t] = c]
            /\ token' = [token EXCEPT ![c] = "none"]
       ELSE /\ token' = [token EXCEPT ![c] = "false"]
            /\ UNCHANGED <<tpc, target>>
  /\ UNCHANGED <<listVars, batch, mpc, events, stamp>>

(* The iterator of target[t] is used: undefined once it is off the list.   *)
EraseTarget(t) ==
  \E i \in 1..Len(callbacks) :
    callbacks[i] = target[t] /\ callbacks' = RemoveAt(callbacks, i)

(* cancel(): the critical section. *)
CancelLocked(t) ==
  /\ tpc[t] = "cancel"
  /\ IF timestamp = stamp[target[t]]
       THEN /\ EraseTarget(t)
            /\ num_callbacks' = num_callbacks - 1
            /\ token' = [token EXCEPT ![target[t]] = "true"]
       ELSE /\ token' = [token EXCEPT ![target[t]] = "false"]
            /\ UNCHANGED <<callbacks, num_callbacks>>
  /\ tpc' = [tpc EXCEPT ![t] = "idle"]
  /\ target' = [target EXCEPT ![t] = NoCallback]
  /\ UNCHANGED <<timestamp, batch, mpc, events, stamp>>

-----------------------------------------------------------------------------
(* main_iteration(): needs_update(), which other work makes true as well. *)
NeedsUpdate ==
  /\ mpc = "check"
  /\ \E otherWork \in BOOLEAN :
       mpc' = IF num_callbacks > 0 \/ otherWork THEN "read" ELSE "wait"
  /\ UNCHANGED <<listVars, batch, events, threadVars>>

(* _check_and_execute_callbacks(): the unlocked read of _num_callbacks. *)
ReadCount ==
  /\ mpc = "read"
  /\ mpc' = IF num_callbacks > 0 THEN "swap" ELSE "update"
  /\ UNCHANGED <<listVars, batch, events, threadVars>>

(* Mutant of SwapCallbacks: the count is not reset. *)
SwapKeepsCount ==
  /\ mpc = "swap"
  /\ IF callbacks = <<>>
       THEN /\ mpc' = "update"
            /\ UNCHANGED <<listVars, batch>>
       ELSE /\ mpc' = "next"
            /\ batch' = callbacks
            /\ callbacks' = <<>>
            /\ timestamp' = timestamp + 1
            /\ UNCHANGED num_callbacks
  /\ UNCHANGED <<events, threadVars>>

(* _check_and_execute_callbacks(): the critical section.  The list may be  *)
(* empty: whatever was counted has been cancelled.                         *)
SwapCallbacks ==
  /\ mpc = "swap"
  /\ IF callbacks = <<>>
       THEN /\ mpc' = "update"
            /\ UNCHANGED <<listVars, batch>>
       ELSE /\ mpc' = "next"
            /\ batch' = callbacks
            /\ callbacks' = <<>>
            /\ timestamp' = timestamp + 1
            /\ num_callbacks' = 0
  /\ UNCHANGED <<events, threadVars>>

(* The loop over the batch: front() is called and stays in the list.       *)
CallFront ==
  /\ mpc = "next"
  /\ mpc' = IF batch = <<>> THEN "update" ELSE "callback"
  /\ UNCHANGED <<listVars, batch, events, threadVars>>

(* Mutant of PopFront: the rest of the batch is cleared. *)
PopAll ==
  /\ mpc = "callback"
  /\ tpc[Main] = "idle"
  /\ batch' = <<>>
  /\ mpc' = "next"
  /\ UNCHANGED <<listVars, events, threadVars>>

(* It returns, and is popped. *)
PopFront ==
  /\ mpc = "callback"
  /\ tpc[Main] = "idle"
  /\ batch' = Tail(batch)
  /\ mpc' = "next"
  /\ UNCHANGED <<listVars, events, threadVars>>

(* update() and the non-blocking handle_event() calls are over; some of    *)
(* the pending wake-up events were among those handled.                    *)
Update ==
  /\ mpc = "update"
  /\ tpc[Main] = "idle"
  /\ events' \in 0..events
  /\ mpc' = "check"
  /\ UNCHANGED <<listVars, batch, threadVars>>

(* handle_event(wait_type::blocking) returns with a wake-up event. *)
TakeWakeUp ==
  /\ mpc = "wait"
  /\ events > 0
  /\ events' = events - 1
  /\ mpc' = "handler"
  /\ UNCHANGED <<listVars, batch, threadVars>>

(* The same with the timer or an event of a window. *)
TakeOtherEvent ==
  /\ mpc = "wait"
  /\ mpc' = "handler"
  /\ UNCHANGED <<listVars, batch, events, threadVars>>

EndHandler ==
  /\ mpc = "handler"
  /\ tpc[Main] = "idle"
  /\ mpc' = "check"
  /\ UNCHANGED <<listVars, batch, events, threadVars>>

-----------------------------------------------------------------------------
(* What a thread does on its own once it is inside a call. *)
CallStep(t) == WakeUp(t) \/ CancelLocked(t)

MainStep ==
  \/ NeedsUpdate \/ ReadCount \/ SwapCallbacks \/ CallFront \/ PopFront
  \/ Update \/ TakeWakeUp \/ EndHandler

Next ==
  \/ \E t \in Threads : CallStep(t)
  \/ \E t \in Threads, c \in Callbacks : Post(t, c) \/ CancelCheck(t, c)
  \/ MainStep
  \/ TakeOtherEvent

Spec == Init /\ [][Next]_vars

(* Threads run, callbacks and handlers return, and a blocking wait ends    *)
(* when there is an event; nothing else need ever happen.                  *)
Fairness ==
  /\ \A t \in Threads : WF_vars(CallStep(t))
  /\ WF_vars(MainStep)

FairSpec == Spec /\ Fairness

-----------------------------------------------------------------------------
(* The callbacks of the batch that have not started, and all that wait.    *)
Unstarted == IF mpc = "callback" THEN Tail(batch) ELSE batch
Waiting == Unstarted \o callbacks
Running == IF mpc = "callback" THEN Head(batch) ELSE NoCallback

Fate(c) ==
  IF stamp[c] = 0 THEN "new"
  ELSE IF token[c] = "true" THEN "cancelled"
  ELSE IF Running = c THEN "running"
  ELSE IF c \in Queued \cup Batched THEN "waiting"
  ELSE "done"

(* "The number of entries in _callbacks": the unlocked readers rely on it. *)
CountMatchesList == num_callbacks = Len(callbacks)

(* cancel() uses an iterator into a list that is swapped away under it;    *)
(* the timestamp it compares with must tell exactly when that is so.       *)
IteratorValid ==
  \A c \in Callbacks :
    stamp[c] = timestamp /\ token[c] # "true" => c \in Queued

(* The main thread never blocks on the system's events with a callback     *)
(* queued, unless a wake-up event is there or about to be posted.          *)
NoSleepOnWork ==
  mpc = "wait" /\ callbacks # <<>> => events > 0 \/ \E t \in Threads : tpc[t] = "wake"

(* The facts that make the invariants above inductive: a callback is in at *)
(* most one list and there once; the ones swapped out have an earlier      *)
(* timestamp than any that can still be posted; a call in progress owns    *)
(* the token of its target; and the main thread only leaves its loop from  *)
(* the places where other code runs.                                       *)
ListsInv ==
  /\ \A i, j \in 1..Len(callbacks) : callbacks[i] = callbacks[j] => i = j
  /\ \A i, j \in 1..Len(batch) : batch[i] = batch[j] => i = j
  /\ \A c \in Queued : stamp[c] = timestamp /\ token[c] # "true"
  /\ \A c \in Batched : 0 < stamp[c] /\ stamp[c] < timestamp /\ token[c] # "true"
  /\ \A c \in Callbacks : stamp[c] <= timestamp /\ (stamp[c] = 0 => token[c] = "none")

CallsInv ==
  /\ \A t \in Threads : tpc[t] # "idle" =>
       target[t] \in Callbacks /\ stamp[target[t]] # 0 /\ token[target[t]] = "none"
  /\ \A t, u \in Threads : tpc[t] # "idle" /\ tpc[u] # "idle" /\ target[t] = target[u] => t = u
  /\ tpc[Main] # "idle" => mpc \in {"callback", "update", "handler"}
  /\ mpc = "callback" => batch # <<>>
  /\ mpc \notin {"next", "callback"} => batch = <<>>

CallbackInv == TypeOK /\ CountMatchesList /\ IteratorValid /\ NoSleepOnWork /\ ListsInv /\ CallsInv

(* A callback whose cancel() returned true is not run, then or later.      *)
CancelledNeverRuns ==
  \A c \in Callbacks : token[c] = "true" => c \notin Queued \cup Batched

(* Every posted callback runs or is cancelled.                             *)
PostedCallbackRuns ==
  \A c \in Callbacks : stamp[c] # 0 ~> Fate(c) \in {"done", "cancelled"}

(* The scheduler implements the abstract queue. *)
Queue == INSTANCE CallbackQueue WITH
           fate <- [c \in Callbacks |-> Fate(c)], waiting <- Waiting, running <- Running

QueueSpec == Queue!Spec

=============================================================================
