---------------------------- MODULE SearchPanel ----------------------------
(***************************************************************************)
(* A code::search_panel: the user types a pattern and edits the text,      *)
(* match tasks run in the thread pool (TaskPool) and hand the matches back *)
(* through a callback of the scheduler (CallbackQueue).  Tasks and         *)
(* callbacks refer to the panel by plain pointers.                         *)
(***************************************************************************)
EXTENDS Naturals, Sequences, FiniteSets

CONSTANTS
  Tasks,        \* every _match_task that may ever be created
  NoTask,
  NumWorkers,   \* the threads of the pool
  MaxVersion    \* bound on the changes of the text and of the pattern

(* What is assumed of them, where the module is used.                      *)
SearchAssumption ==
  /\ NoTask \notin Tasks
  /\ NumWorkers \in Nat
  /\ MaxVersion \in Nat

VARIABLES
  phase, pending,           \* the pool, as in TaskPool
  fate, waiting, running,   \* the callback each task posts, as in CallbackQueue
  at,           \* where each task is in execute(), and whether its object is gone
  cancelled,    \* _match_task::cancelled
  input,        \* the pattern and the text each task works on
  version,      \* the pattern and the text, pattern 0 being empty
  locked,       \* buffer::_lock is held exclusively
  shown,        \* what _results and the decorations were computed from, or Nothing
  current,      \* _task_token
  resultToken,  \* the task whose callback _task_result_token refers to
  panel,        \* "open", "closed" by on_close() or "disposed"
  mpc           \* what the main thread is doing

vars == <<phase, pending, fate, waiting, running, at, cancelled, input, version, locked,
          shown, current, resultToken, panel, mpc>>
poolVars == <<phase, pending>>
queueVars == <<fate, waiting, running>>
taskVars == <<at, cancelled, input>>
bufferVars == <<version, locked>>

Pool == INSTANCE TaskPool WITH open <- TRUE
Queue == INSTANCE CallbackQueue WITH Callbacks <- Tasks, NoCallback <- NoTask

Versions == [pattern : 0..MaxVersion, text : 0..MaxVersion]
FirstVersion == [pattern |-> 0, text |-> 0]
Nothing == [pattern |-> MaxVersion + 1, text |-> MaxVersion + 1]

TypeOK ==
  /\ phase \in [Tasks -> {"new", "pending", "taken", "done"}]
  /\ pending \in Seq(Tasks)
  /\ fate \in [Tasks -> {"new", "waiting", "running", "done", "cancelled"}]
  /\ waiting \in Seq(Tasks)
  /\ running \in Tasks \cup {NoTask}
  /\ at \in [Tasks -> {"start", "lock", "reading", "check", "post", "store", "return", "gone"}]
  /\ cancelled \in [Tasks -> BOOLEAN]
  /\ input \in [Tasks -> Versions]
  /\ version \in Versions
  /\ locked = (mpc = "editing")
  /\ shown \in Versions \cup {Nothing}
  /\ current \in Tasks
  /\ resultToken \in Tasks \cup {NoTask}
  /\ panel \in {"open", "closed", "disposed"}
  /\ mpc \in {"idle", "input", "begin", "acquire", "editing", "close", "dispose", "callback", "crashed"}

(* set_contents_region() has started the first search. *)
Init ==
  /\ Queue!Init
  /\ current \in Tasks
  /\ phase = [t \in Tasks |-> IF t = current THEN "pending" ELSE "new"]
  /\ pending = <<current>>
  /\ at = [t \in Tasks |-> "start"]
  /\ cancelled = [t \in Tasks |-> FALSE]
  /\ input = [t \in Tasks |-> FirstVersion]
  /\ version = FirstVersion
  /\ locked = FALSE
  /\ shown = Nothing
  /\ resultToken = NoTask
  /\ panel = "open"
  /\ mpc = "idle"

-----------------------------------------------------------------------------
(* _match_task::execute() on a worker thread. *)
Busy(t) == phase[t] = "taken" \/ (phase[t] = "done" /\ at[t] # "gone")

Take ==
  /\ Cardinality({t \in Tasks : Busy(t)}) < NumWorkers
  /\ Pool!Take
  /\ UNCHANGED <<queueVars, taskVars, bufferVars, shown, current, resultToken, panel, mpc>>

Goes(t, label) ==
  /\ at' = [at EXCEPT ![t] = label]
  /\ UNCHANGED <<cancelled, bufferVars, shown, current, panel, mpc>>

(* An empty pattern has no matches and the text is not read. *)
StartMatch(t) ==
  /\ phase[t] = "taken" /\ at[t] = "start"
  /\ \/ input[t].pattern = 0 /\ Goes(t, "check")
     \/ input[t].pattern # 0 /\ Goes(t, IF cancelled[t] THEN "return" ELSE "lock")
  /\ UNCHANGED <<poolVars, queueVars, input, resultToken>>

(* async_reader_lock *)
BeginRead(t) ==
  /\ at[t] = "lock"
  /\ ~locked
  /\ Goes(t, "reading")
  /\ input' = [input EXCEPT ![t].text = version.text]
  /\ UNCHANGED <<poolVars, queueVars, resultToken>>

(* The matching is done, or has noticed that it is cancelled.              *)
EndRead(t) ==
  /\ at[t] = "reading"
  /\ \/ Goes(t, "check")
     \/ cancelled[t] /\ Goes(t, "return")
  /\ UNCHANGED <<poolVars, queueVars, input, resultToken>>

CheckCancelled(t) ==
  /\ at[t] = "check"
  /\ Goes(t, IF cancelled[t] THEN "return" ELSE "post")
  /\ UNCHANGED <<poolVars, queueVars, input, resultToken>>

(* execute_callback() ... *)
PostResult(t) ==
  /\ at[t] = "post"
  /\ Queue!Post(t)
  /\ Goes(t, "store")
  /\ UNCHANGED <<poolVars, input, resultToken>>

(* ... and the worker stores its token in the panel. *)
StoreToken(t) ==
  /\ at[t] = "store"
  /\ resultToken' = t
  /\ Goes(t, "return")
  /\ UNCHANGED <<poolVars, queueVars, input>>

Finish(t) ==
  /\ at[t] = "return"
  /\ Pool!Complete(t)
  /\ UNCHANGED <<queueVars, taskVars, bufferVars, shown, current, resultToken, panel, mpc>>

Discard(t) ==
  /\ phase[t] = "done" /\ at[t] = "return"
  /\ Goes(t, "gone")
  /\ UNCHANGED <<poolVars, queueVars, input, resultToken>>

TaskStep(t) ==
  \/ StartMatch(t) \/ BeginRead(t) \/ EndRead(t) \/ CheckCancelled(t)
  \/ PostResult(t) \/ StoreToken(t) \/ Finish(t) \/ Discard(t)

-----------------------------------------------------------------------------
(* Main thread.  _cancel_task(): the task is told to stop ...              *)
HasTask == at[current] # "gone"
Cancel == cancelled' = IF HasTask THEN [cancelled EXCEPT ![current] = TRUE] ELSE cancelled
CancelAndGo(label) ==
  /\ Cancel
  /\ mpc' = label
  /\ UNCHANGED <<poolVars, queueVars, at, input, current, resultToken, panel>>

(* Mutant of Waited: the task is not waited for. *)
NotWaited == TRUE

(* ... is waited for ...                                                   *)
Waited == HasTask => phase[current] = "done"

(* Mutant of CancelResult: the callback is left in the queue. *)
KeepResult == resultToken' = NoTask /\ UNCHANGED queueVars

(* ... and a callback that it has posted is taken back.                    *)
CancelResult ==
  /\ resultToken' = NoTask
  /\ IF resultToken # NoTask /\ fate[resultToken] = "waiting"
       THEN Queue!Cancel(resultToken)
       ELSE UNCHANGED queueVars

(* _clear_results() modifies the decorations, which on_close() has removed *)
(* together with the token.                                                *)
Unstarted == {t \in Tasks : phase[t] = "new"}
Clear(label) ==
  IF panel = "closed" THEN mpc' = "crashed" /\ UNCHANGED shown
  ELSE mpc' = label /\ shown' = Nothing

(* _on_input_changed() when the text of the input has changed ...          *)
ChangePattern ==
  /\ mpc = "idle" /\ panel # "disposed" /\ version.pattern < MaxVersion /\ Unstarted # {}
  /\ version' = [version EXCEPT !.pattern = @ + 1]
  /\ Clear("input")
  /\ Cancel
  /\ UNCHANGED <<poolVars, queueVars, at, input, locked, current, resultToken, panel>>

(* ... starts a new task. *)
InputWaited ==
  /\ mpc = "input"
  /\ Waited
  /\ CancelResult
  /\ \E t \in Unstarted :
       /\ Pool!Submit(t)
       /\ current' = t
       /\ input' = [input EXCEPT ![t].pattern = version.pattern]
  /\ mpc' = "idle"
  /\ UNCHANGED <<at, cancelled, bufferVars, shown, panel>>

(* modifier::begin(), with the begin_edit handler of the panel until it is *)
(* disposed.                                                               *)
BeginEdit ==
  /\ mpc = "idle" /\ version.text < MaxVersion /\ Unstarted # {}
  /\ IF panel = "disposed" THEN mpc' = "acquire" /\ UNCHANGED cancelled ELSE mpc' = "begin" /\ Cancel
  /\ UNCHANGED <<poolVars, queueVars, at, input, bufferVars, shown, current, resultToken, panel>>

BeginEditWaited ==
  /\ mpc = "begin"
  /\ Waited
  /\ CancelResult
  /\ Clear("acquire")
  /\ UNCHANGED <<poolVars, taskVars, bufferVars, current, panel>>

AcquireLock ==
  /\ mpc = "acquire"
  /\ \A t \in Tasks : at[t] # "reading"
  /\ locked' = TRUE
  /\ mpc' = "editing"
  /\ UNCHANGED <<poolVars, queueVars, taskVars, version, shown, current, resultToken, panel>>

(* Mutant of EndEdit: the search is not started again. *)
EndEditNoRestart ==
  /\ mpc = "editing"
  /\ locked' = FALSE
  /\ version' = [version EXCEPT !.text = @ + 1]
  /\ mpc' = "idle"
  /\ UNCHANGED <<poolVars, queueVars, taskVars, shown, current, resultToken, panel>>

(* modifier::end() and _on_input_changed() *)
EndEdit ==
  /\ mpc = "editing"
  /\ locked' = FALSE
  /\ version' = [version EXCEPT !.text = @ + 1]
  /\ IF panel = "disposed" THEN mpc' = "idle" /\ UNCHANGED <<shown, cancelled>> ELSE Clear("input") /\ Cancel
  /\ UNCHANGED <<poolVars, queueVars, at, input, current, resultToken, panel>>

(* on_close() removes the decorations and marks the panel for disposal; a  *)
(* second time there is nothing to remove.                                 *)
Close ==
  /\ mpc = "idle" /\ panel # "disposed"
  /\ CancelAndGo("close")
  /\ UNCHANGED <<bufferVars, shown>>

CloseWaited ==
  /\ mpc = "close"
  /\ Waited
  /\ CancelResult
  /\ mpc' = IF panel = "closed" THEN "crashed" ELSE "idle"
  /\ panel' = "closed"
  /\ UNCHANGED <<poolVars, taskVars, bufferVars, shown, current>>

(* _dispose(), after on_close() or because the editor goes.                *)
Dispose ==
  /\ mpc = "idle" /\ panel # "disposed"
  /\ CancelAndGo("dispose")
  /\ UNCHANGED <<bufferVars, shown>>

DisposeWaited ==
  /\ mpc = "dispose"
  /\ Waited
  /\ CancelResult
  /\ panel' = "disposed"
  /\ shown' = Nothing
  /\ mpc' = "idle"
  /\ UNCHANGED <<poolVars, taskVars, bufferVars, current>>

(* _update_results() *)
StartCallback ==
  /\ mpc = "idle"
  /\ Queue!Start
  /\ shown' = input[Head(waiting)]
  /\ mpc' = "callback"
  /\ UNCHANGED <<poolVars, taskVars, bufferVars, current, resultToken, panel>>

EndCallback ==
  /\ mpc = "callback"
  /\ Queue!Finish
  /\ mpc' = "idle"
  /\ UNCHANGED <<poolVars, taskVars, bufferVars, shown, current, resultToken, panel>>

-----------------------------------------------------------------------------
MainStep ==
  \/ InputWaited \/ BeginEditWaited \/ AcquireLock \/ EndEdit
  \/ CloseWaited \/ DisposeWaited
  \/ StartCallback \/ EndCallback

UserStep == ChangePattern \/ BeginEdit \/ Close \/ Dispose

WorkerStep == Take \/ \E t \in Tasks : TaskStep(t)

Next == MainStep \/ UserStep \/ WorkerStep

Spec == Init /\ [][Next]_vars

(* Worker threads run, and the main loop turns whenever it is idle. *)
Fairness ==
  /\ WF_vars(Take)
  /\ \A t \in Tasks : WF_vars(TaskStep(t))
  /\ WF_vars(MainStep)

FairSpec == Spec /\ Fairness

-----------------------------------------------------------------------------
(* The matches that are shown are those of the pattern in the input and of *)
(* the text in the buffer, whatever tasks and callbacks are under way.     *)
ResultsAreCurrent ==
  shown # Nothing /\ mpc # "crashed" =>
    /\ shown.pattern = version.pattern
    /\ shown.pattern # 0 => shown.text = version.text

(* Neither a task nor a callback finds its panel deleted.                  *)
PanelOutlivesTask ==
  panel = "disposed" => \A t \in Tasks : phase[t] \notin {"pending", "taken"} /\ fate[t] \notin {"waiting", "running"}

(* _task_result_token is not synchronized: while the main thread uses it   *)
(* no task is at or before the place where it is written.                  *)
ReadsToken == mpc \in {"input", "begin", "close", "dispose"} /\ Waited
TokenNotShared == ReadsToken => \A t \in Tasks : phase[t] # "taken"

(* Panel, task and callback never meet where they must not: the panel is   *)
(* there as long as a task or a callback may use it, and the token is not  *)
(* used by two threads.                                                    *)
PanelLifetimeInv == TypeOK /\ PanelOutlivesTask /\ TokenNotShared

(* When the user rests, the matches in an open panel are shown.            *)
SearchCatchesUp == <>[](panel = "open" => shown # Nothing)
=============================================================================
