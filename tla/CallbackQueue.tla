--------------------------- MODULE CallbackQueue ---------------------------
(***************************************************************************)
(* What scheduler::execute_callback() promises: callbacks run on the main  *)
(* thread one at a time, in the order in which they were queued, each at   *)
(* most once, and one that was cancelled never runs.                       *)
(***************************************************************************)
EXTENDS Naturals, Sequences, SequencesExt

CONSTANTS
  Callbacks,   \* every function that may ever be queued
  NoCallback   \* no function is running

VARIABLES
  fate,      \* what has become of each callback
  waiting,   \* the callbacks that are still to run, in order
  running    \* the callback that the main thread is in

queueVars == <<fate, waiting, running>>

Init ==
  /\ fate = [c \in Callbacks |-> "new"]
  /\ waiting = <<>>
  /\ running = NoCallback

Post(c) ==
  /\ fate[c] = "new"
  /\ fate' = [fate EXCEPT ![c] = "waiting"]
  /\ waiting' = Append(waiting, c)
  /\ UNCHANGED running

(* A callback can be cancelled as long as it has not started. *)
Cancel(c) ==
  /\ fate[c] = "waiting"
  /\ fate' = [fate EXCEPT ![c] = "cancelled"]
  /\ \E i \in 1..Len(waiting) : waiting[i] = c /\ waiting' = RemoveAt(waiting, i)
  /\ UNCHANGED running

Start ==
  /\ running = NoCallback
  /\ waiting # <<>>
  /\ running' = Head(waiting)
  /\ waiting' = Tail(waiting)
  /\ fate' = [fate EXCEPT ![Head(waiting)] = "running"]

Finish ==
  /\ running # NoCallback
  /\ running' = NoCallback
  /\ fate' = [fate EXCEPT ![running] = "done"]
  /\ UNCHANGED waiting

Next ==
  \/ \E c \in Callbacks : Post(c) \/ Cancel(c)
  \/ Start
  \/ Finish

Spec == Init /\ [][Next]_queueVars

=============================================================================
