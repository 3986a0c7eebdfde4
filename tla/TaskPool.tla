------------------------------ MODULE TaskPool ------------------------------
(***************************************************************************)
(* What a pool of worker threads promises to whoever starts a task: tasks  *)
(* are taken in the order they were submitted, each at most once, a taken  *)
(* task is brought to an end, and closing the pool drops exactly the tasks *)
(* that were still pending.  AsyncTaskScheduler implements this module,    *)
(* and TreeSitterHighlight uses it in place of the threads.                *)
(***************************************************************************)
EXTENDS Naturals, Sequences

CONSTANTS Tasks       \* every task that may ever be created

VARIABLES
  phase,     \* where each task is
  pending,   \* the tasks waiting for a worker, in the order of submission
  open       \* whether the pool still accepts tasks

poolVars == <<phase, pending, open>>

Phases == {"new", "pending", "taken", "done", "dropped", "rejected"}

Init ==
  /\ phase = [t \in Tasks |-> "new"]
  /\ pending = <<>>
  /\ open = TRUE

(* A task is submitted to an open pool and waits for a worker. *)
Submit(t) ==
  /\ phase[t] = "new"
  /\ open
  /\ phase' = [phase EXCEPT ![t] = "pending"]
  /\ pending' = Append(pending, t)
  /\ open' = open

(* A closed pool discards what is submitted to it. *)
Reject(t) ==
  /\ phase[t] = "new"
  /\ ~open
  /\ phase' = [phase EXCEPT ![t] = "rejected"]
  /\ open' = open
  /\ UNCHANGED pending

(* Some worker takes the task that has waited longest. *)
Take ==
  /\ pending # <<>>
  /\ phase' = [phase EXCEPT ![Head(pending)] = "taken"]
  /\ pending' = Tail(pending)
  /\ open' = open

Complete(t) ==
  /\ phase[t] = "taken"
  /\ phase' = [phase EXCEPT ![t] = "done"]
  /\ open' = open
  /\ UNCHANGED pending

(* Closing the pool drops every pending task, and only those. *)
Close ==
  /\ open
  /\ open' = FALSE
  /\ phase' = [t \in Tasks |-> IF phase[t] = "pending" THEN "dropped" ELSE phase[t]]
  /\ pending' = <<>>

Next ==
  \/ \E t \in Tasks : Submit(t) \/ Reject(t) \/ Complete(t)
  \/ Take
  \/ Close

Spec == Init /\ [][Next]_poolVars

=============================================================================
