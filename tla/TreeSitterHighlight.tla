------------------------ MODULE TreeSitterHighlight ------------------------
(***************************************************************************)
(* Highlighting of one interpretation by the tree-sitter plugin: the main  *)
(* thread edits the buffer, changes its language, reloads the settings,    *)
(* opens and closes the interpretation and disables the plugin, while      *)
(* highlight tasks run in the thread pool (TaskPool) and hand their        *)
(* results back through the callbacks of the scheduler (CallbackQueue).    *)
(* A task owns a reference to the interpretation, which owns the tag,      *)
(* which the task uses through a plain C++ reference.                      *)
(***************************************************************************)
EXTENDS Naturals, Sequences, FiniteSets

CONSTANTS
  Tasks,        \* every _highlight_task that may ever be created
  NoTask,
  NumWorkers,   \* the threads of the pool
  MaxVersion    \* bound on the changes of the text, the language and the settings

ASSUME HighlightAssumption ==
  /\ NoTask \notin Tasks
  /\ NumWorkers \in Nat
  /\ MaxVersion \in Nat

VARIABLES
  phase, pending,           \* the pool, as in TaskPool
  fate, waiting, running,   \* the callback each task posts, as in CallbackQueue
  at,         \* where each task is in execute(), and whether its object is gone
  cancelled,  \* _cancellation_token of each task
  input,      \* the version each task has read
  locked,     \* buffer::_lock is held exclusively
  version,    \* the text, the language of the tag and the highlight configuration
  shown,      \* the version behind the contents of _theme_token
  current,    \* _task_token of the tag
  tag,        \* whether the interpretation_tag exists
  alive,      \* whether the interpretation exists
  opened,     \* whether the editors hold references to the interpretation
  plugin,     \* "enabled", "disabled" or "finalized"
  mpc         \* what the main thread is doing

vars == <<phase, pending, fate, waiting, running, at, cancelled, input, locked,
          version, shown, current, tag, alive, opened, plugin, mpc>>
poolVars == <<phase, pending>>
queueVars == <<fate, waiting, running>>
taskVars == <<at, cancelled, input>>
bufferVars == <<locked, version>>
tagVars == <<shown, current, tag>>
objectVars == <<alive, opened, plugin>>

Pool == INSTANCE TaskPool WITH open <- TRUE
Queue == INSTANCE CallbackQueue WITH Callbacks <- Tasks, NoCallback <- NoTask

Versions == [text : 0..MaxVersion, lang : 0..MaxVersion, config : 0..MaxVersion]
NoVersion == [text |-> 0, lang |-> 0, config |-> 0]
TaskLabels == {"lock", "reading", "check", "post", "moved", "return", "destroy", "gone"}
MainLabels == {"idle", "begin", "acquire", "editing", "language", "settings", "disable",
               "callback", "destroy", "crashed", "exit"}

TypeOK ==
  /\ phase \in [Tasks -> {"new", "pending", "taken", "done"}]
  /\ pending \in Seq(Tasks)
  /\ fate \in [Tasks -> {"new", "waiting", "running", "done"}]
  /\ waiting \in Seq(Tasks)
  /\ running \in Tasks \cup {NoTask}
  /\ at \in [Tasks -> TaskLabels]
  /\ cancelled \in [Tasks -> BOOLEAN]
  /\ input \in [Tasks -> Versions]
  /\ locked = (mpc = "editing")
  /\ version \in Versions
  /\ shown \in Versions
  /\ current \in Tasks \cup {NoTask}
  /\ tag \in BOOLEAN
  /\ current # NoTask => tag   \* the token belongs to the tag, which belongs to the interpretation
  /\ tag => alive
  /\ alive \in BOOLEAN
  /\ opened \in BOOLEAN
  /\ plugin \in {"enabled", "disabled", "finalized"}
  /\ mpc \in MainLabels

Init ==
  /\ Pool!Init
  /\ Queue!Init
  /\ at = [t \in Tasks |-> "lock"]
  /\ cancelled = [t \in Tasks |-> FALSE]
  /\ input = [t \in Tasks |-> NoVersion]
  /\ locked = FALSE
  /\ version = NoVersion
  /\ shown = NoVersion
  /\ current = NoTask
  /\ tag = FALSE
  /\ alive = FALSE
  /\ opened = FALSE
  /\ plugin = "enabled"
  /\ mpc = "idle"

-----------------------------------------------------------------------------
(* References to the interpretation: those of the editors, of tasks that   *)
(* have not given theirs away, of callbacks, and the one that              *)
(* for_each_interpretation() holds while its function runs.                *)
TaskHolds(t) == phase[t] # "new" /\ at[t] \notin {"moved", "destroy", "gone"}
Held == opened \/ \E t \in Tasks : TaskHolds(t) \/ fate[t] \in {"waiting", "running"}

HeldBesides(t) ==
  \/ opened
  \/ \E u \in Tasks \ {t} : TaskHolds(u)
  \/ \E u \in Tasks : fate[u] \in {"waiting", "running"}
  \/ mpc \in {"settings", "disable"}

(* The weak _task_token can still be locked. *)
HasTask == current # NoTask /\ at[current] \notin {"destroy", "gone"}
CancelCurrent == cancelled' = IF HasTask THEN [cancelled EXCEPT ![current] = TRUE] ELSE cancelled

(* wait_finish() of the current task returns. *)
Waited == HasTask => phase[current] = "done"

(* start_highlight_task(); Unstarted is the bound on the number of tasks. *)
Unstarted == {t \in Tasks : phase[t] = "new"}
Start(t) == Pool!Submit(t) /\ current' = t
NoStart == UNCHANGED <<poolVars, current>>

Below(field) == version[field] < MaxVersion
Bump(field) == version' = [version EXCEPT ![field] = @ + 1]

DropTag == tag' = FALSE /\ current' = NoTask /\ shown' = NoVersion

-----------------------------------------------------------------------------
(* Tasks: _highlight_task::execute() on a worker thread. *)

Busy(t) == phase[t] = "taken" \/ (phase[t] = "done" /\ at[t] # "gone")

Take ==
  /\ Cardinality({t \in Tasks : Busy(t)}) < NumWorkers
  /\ Pool!Take
  /\ UNCHANGED <<queueVars, taskVars, bufferVars, tagVars, objectVars, mpc>>

(* async_reader_lock, which an editing main thread holds off. *)
BeginRead(t) ==
  /\ phase[t] = "taken" /\ at[t] = "lock"
  /\ ~locked
  /\ at' = [at EXCEPT ![t] = "reading"]
  /\ input' = [input EXCEPT ![t] = version]
  /\ UNCHANGED <<poolVars, queueVars, cancelled, bufferVars, tagVars, objectVars, mpc>>

EndRead(t) ==
  /\ at[t] = "reading"
  /\ at' = [at EXCEPT ![t] = "check"]
  /\ UNCHANGED <<poolVars, queueVars, cancelled, input, bufferVars, tagVars, objectVars, mpc>>

(* The cancellation token is read; a cancelled task ends with its reference. *)
CheckCancelled(t) ==
  /\ at[t] = "check"
  /\ at' = [at EXCEPT ![t] = IF cancelled[t] THEN "return" ELSE "post"]
  /\ UNCHANGED <<poolVars, queueVars, cancelled, input, bufferVars, tagVars, objectVars, mpc>>

(* execute_callback(); the reference moves into the callback. *)
PostResult(t) ==
  /\ at[t] = "post"
  /\ Queue!Post(t)
  /\ at' = [at EXCEPT ![t] = "moved"]
  /\ UNCHANGED <<poolVars, cancelled, input, bufferVars, tagVars, objectVars, mpc>>

(* execute() returns and the pool stores the status. *)
Finish(t) ==
  /\ at[t] \in {"moved", "return"}
  /\ Pool!Complete(t)
  /\ UNCHANGED <<queueVars, taskVars, bufferVars, tagVars, objectVars, mpc>>

(* The worker drops the task, and with it the reference of a cancelled one. *)
Discard(t) ==
  /\ phase[t] = "done" /\ at[t] \in {"moved", "return"}
  /\ at' = [at EXCEPT ![t] = IF at[t] = "return" /\ ~HeldBesides(t) THEN "destroy" ELSE "gone"]
  /\ UNCHANGED <<poolVars, queueVars, cancelled, input, bufferVars, tagVars, objectVars, mpc>>

(* ~interpretation() and ~interpretation_tag() on the worker thread. *)
DestroyOnWorker(t) ==
  /\ at[t] = "destroy"
  /\ Waited
  /\ at' = [at EXCEPT ![t] = "gone"]
  /\ alive' = FALSE
  /\ DropTag
  /\ UNCHANGED <<poolVars, queueVars, cancelled, input, bufferVars, opened, plugin, mpc>>

TaskStep(t) ==
  \/ BeginRead(t) \/ EndRead(t) \/ CheckCancelled(t) \/ PostResult(t)
  \/ Finish(t) \/ Discard(t) \/ DestroyOnWorker(t)

-----------------------------------------------------------------------------
(* Main thread: the buffer. *)

(* Mutant of BeginEdit: modifier::begin() locks before it tells anyone. *)
LockFirst ==
  /\ mpc = "idle" /\ opened /\ Below("text") /\ Unstarted # {}
  /\ \A t \in Tasks : at[t] # "reading"
  /\ locked' = TRUE
  /\ CancelCurrent
  /\ mpc' = "begin"
  /\ UNCHANGED <<poolVars, queueVars, at, input, version, tagVars, objectVars>>

(* modifier::begin(): the tag cancels its task and waits for it ... *)
BeginEdit ==
  /\ mpc = "idle" /\ opened /\ Below("text") /\ Unstarted # {}
  /\ CancelCurrent
  /\ mpc' = "begin"
  /\ UNCHANGED <<poolVars, queueVars, at, input, bufferVars, tagVars, objectVars>>

(* Mutant of BeginEditWaited: the task is cancelled but not waited for. *)
BeginEditNotWaited ==
  /\ mpc = "begin"
  /\ mpc' = "acquire"
  /\ UNCHANGED <<poolVars, queueVars, taskVars, bufferVars, tagVars, objectVars>>

(* ... and wait_finish() returns to begin(). *)
BeginEditWaited ==
  /\ mpc = "begin"
  /\ Waited
  /\ mpc' = "acquire"
  /\ UNCHANGED <<poolVars, queueVars, taskVars, bufferVars, tagVars, objectVars>>

AcquireLock ==
  /\ mpc = "acquire"
  /\ \A t \in Tasks : at[t] # "reading"
  /\ locked' = TRUE
  /\ mpc' = "editing"
  /\ UNCHANGED <<poolVars, queueVars, taskVars, version, tagVars, objectVars>>

(* Mutant of EndEdit: no new task is started. *)
EndEditNoRestart ==
  /\ mpc = "editing"
  /\ locked' = FALSE
  /\ Bump("text")
  /\ mpc' = "idle"
  /\ UNCHANGED <<poolVars, queueVars, taskVars, tagVars, objectVars>>

(* modifier::end(): the lock is released, then the tag starts a new task. *)
EndEdit ==
  /\ mpc = "editing"
  /\ locked' = FALSE
  /\ Bump("text")
  /\ IF tag THEN \E t \in Unstarted : Start(t) ELSE NoStart
  /\ mpc' = "idle"
  /\ UNCHANGED <<queueVars, taskVars, shown, tag, objectVars>>

(* buffer::set_language(): the tag's language_changed handler. *)
SetLanguage ==
  /\ mpc = "idle" /\ opened /\ tag /\ Below("lang") /\ Unstarted # {}
  /\ CancelCurrent
  /\ mpc' = "language"
  /\ UNCHANGED <<poolVars, queueVars, at, input, bufferVars, tagVars, objectVars>>

(* Mutant of LanguageWaited: wait_finish() is not called. *)
LanguageNotWaited ==
  /\ mpc = "language"
  /\ Bump("lang")
  /\ \E t \in Unstarted : Start(t)
  /\ mpc' = "idle"
  /\ UNCHANGED <<locked, queueVars, taskVars, shown, tag, objectVars>>

LanguageWaited ==
  /\ mpc = "language"
  /\ Waited
  /\ Bump("lang")
  /\ \E t \in Unstarted : Start(t)
  /\ mpc' = "idle"
  /\ UNCHANGED <<locked, queueVars, taskVars, shown, tag, objectVars>>

-----------------------------------------------------------------------------
(* Main thread: the life of the interpretation. *)

(* What the main thread does once it has dropped a reference. *)
AfterRelease ==
  mpc' = IF alive /\ ~Held' /\ \A t \in Tasks : at[t] # "destroy" THEN "destroy" ELSE "idle"

(* open_interpretation(): the live one, or a new one with a new tag. *)
Open ==
  /\ mpc = "idle" /\ ~opened /\ plugin # "finalized"
  /\ Held \/ (~alive /\ Unstarted # {})
  /\ opened' = TRUE
  /\ IF Held
       THEN UNCHANGED <<poolVars, tagVars, alive>>
       ELSE /\ alive' = TRUE
            /\ shown' = NoVersion
            /\ tag' = (plugin = "enabled")
            /\ IF plugin = "enabled" THEN \E t \in Unstarted : Start(t) ELSE NoStart
  /\ UNCHANGED <<queueVars, taskVars, bufferVars, plugin, mpc>>

(* The last editor goes away; ~interpretation_tag() cancels the task. *)
Close ==
  /\ mpc = "idle" /\ opened
  /\ opened' = FALSE
  /\ UNCHANGED <<poolVars, queueVars, at, input, bufferVars, tagVars, alive, plugin>>
  /\ AfterRelease
  /\ IF Held' THEN UNCHANGED cancelled ELSE CancelCurrent

(* ~interpretation_tag() and ~interpretation() on the main thread. *)
DestroyWaited ==
  /\ mpc = "destroy"
  /\ Waited
  /\ DropTag
  /\ alive' = FALSE
  /\ mpc' = "idle"
  /\ UNCHANGED <<poolVars, queueVars, taskVars, bufferVars, opened, plugin>>

-----------------------------------------------------------------------------
(* Main thread: results.  The callback looks up the tag of its target.     *)
StartCallback ==
  /\ mpc = "idle"
  /\ Queue!Start
  /\ mpc' = IF plugin = "enabled" /\ ~tag THEN "crashed" ELSE "callback"
  /\ shown' = IF plugin = "enabled" /\ tag THEN input[Head(waiting)] ELSE shown
  /\ UNCHANGED <<poolVars, taskVars, bufferVars, current, tag, objectVars>>

(* The callback is destroyed, and with it its reference. *)
EndCallback ==
  /\ mpc = "callback"
  /\ Queue!Finish
  /\ UNCHANGED <<poolVars, at, input, bufferVars, tagVars, objectVars>>
  /\ AfterRelease
  /\ IF Held' THEN UNCHANGED cancelled ELSE CancelCurrent

-----------------------------------------------------------------------------
(* Main thread: the plugin.  get_tag_for() is applied to the live          *)
(* interpretation: without a token it returns nullptr, which is then used; *)
(* with a token and no tag its assertion fails.                            *)
CancelAll(label) ==
  /\ IF Held /\ tag THEN CancelCurrent ELSE UNCHANGED cancelled
  /\ mpc' = IF Held /\ ~tag THEN "crashed" ELSE label

(* settings::changed: the handler of the plugin manager ... *)
SettingsChanged ==
  /\ mpc = "idle" /\ plugin # "finalized" /\ Below("config")
  /\ CancelAll("settings")
  /\ UNCHANGED <<poolVars, queueVars, at, input, bufferVars, tagVars, objectVars>>

(* ... which then changes the configurations and restarts nothing. *)
SettingsWaited ==
  /\ mpc = "settings"
  /\ Waited
  /\ Bump("config")
  /\ UNCHANGED <<locked, poolVars, queueVars, taskVars, tagVars, objectVars>>
  /\ AfterRelease

(* manager::disable(): tasks are cancelled and waited for ... *)
Disable ==
  /\ mpc = "idle" /\ plugin = "enabled"
  /\ CancelAll("disable")
  /\ UNCHANGED <<poolVars, queueVars, at, input, bufferVars, tagVars, objectVars>>

(* Mutant of DisableWaited: the tags are destroyed while tasks run. *)
DisableNotWaited ==
  /\ mpc = "disable"
  /\ DropTag
  /\ plugin' = "disabled"
  /\ mpc' = "idle"
  /\ UNCHANGED <<poolVars, queueVars, taskVars, bufferVars, alive, opened>>

(* ... and deallocate_interpretation_tag() destroys the tags. *)
DisableWaited ==
  /\ mpc = "disable"
  /\ Waited
  /\ DropTag
  /\ plugin' = "disabled"
  /\ UNCHANGED <<poolVars, queueVars, taskVars, bufferVars, alive, opened>>
  /\ AfterRelease

(* manager::enable(): open interpretations get no tag. *)
Enable ==
  /\ mpc = "idle" /\ plugin = "disabled"
  /\ plugin' = "enabled"
  /\ UNCHANGED <<poolVars, queueVars, taskVars, bufferVars, tagVars, alive, opened, mpc>>

(* All tabs are closed: the main loop is over and plugins are finalized. *)
Finalize ==
  /\ mpc = "idle" /\ plugin = "disabled" /\ ~opened
  /\ plugin' = "finalized"
  /\ mpc' = "exit"
  /\ UNCHANGED <<poolVars, queueVars, taskVars, bufferVars, tagVars, alive, opened>>

-----------------------------------------------------------------------------
(* What the main thread does without the user asking for it. *)
MainStep ==
  \/ BeginEditWaited \/ AcquireLock \/ EndEdit
  \/ LanguageWaited
  \/ SettingsWaited
  \/ DisableWaited
  \/ DestroyWaited
  \/ StartCallback \/ EndCallback

UserStep ==
  \/ BeginEdit \/ SetLanguage
  \/ Open \/ Close
  \/ SettingsChanged
  \/ Disable \/ Enable \/ Finalize

WorkerStep == Take \/ \E t \in Tasks : TaskStep(t)

Next == MainStep \/ UserStep \/ WorkerStep

Spec == Init /\ [][Next]_vars

(* Worker threads run, and the main loop turns whenever it is idle. *)
Fairness ==
  /\ WF_vars(Take)
  /\ \A t \in Tasks : WF_vars(TaskStep(t))
  /\ WF_vars(MainStep)

FairSpec == Spec /\ Fairness

-----------------------------------------------------------------------------
(* "Ensure that there's only one instance of the task running at any given *)
(* time": edits, language changes, settings and reopening never leave two  *)
(* tasks of the interpretation queued or running.                          *)
Active(t) == phase[t] \in {"pending", "taken"}
OneTaskAtATime == \A t, u \in Tasks : Active(t) /\ Active(u) => t = u

(* A task that may still touch its tag finds it there: neither closing the *)
(* last editor, nor a callback or another task dropping the last reference,*)
(* nor disabling the plugin destroys the tag or the interpretation before. *)
UsesTag(t) == Active(t) /\ at[t] \in {"lock", "reading", "check", "post"}
TagOutlivesTask == \A t \in Tasks : UsesTag(t) => tag /\ alive /\ current = t

(* Whoever holds a reference holds an object: an interpretation is never   *)
(* destroyed while the editors, a task or a callback still refer to it.    *)
HeldIsAlive == Held => alive

(* All of it: one task at a time, which finds its tag and interpretation.  *)
TagLifetimeInv == TypeOK /\ OneTaskAtATime /\ TagOutlivesTask /\ HeldIsAlive

(* Text, language and configuration stand still under a task that reads.   *)
StableWhileRead == [][version' # version => \A t \in Tasks : at[t] # "reading"]_vars

(* Results reach the screen in the order of what they were computed from:  *)
(* a late callback never replaces a newer highlight with an older one.     *)
ShownNeverOlder ==
  [][tag /\ tag' => \A f \in {"text", "lang", "config"} : shown'[f] >= shown[f]]_vars

(* Both: what a task reads is one version, and the screen goes from one    *)
(* version to a later one.                                                 *)
VersionsInOrder == StableWhileRead /\ ShownNeverOlder

(* The main thread always comes back to its loop from a wait for a task.   *)
MainReturns == (mpc # "idle") ~> (mpc \in {"idle", "crashed", "exit"})

(* When the user rests, the highlight is that of the current text and      *)
(* language, unless a change of the settings cancelled the last task.      *)
UpToDate == shown.text = version.text /\ shown.lang = version.lang
HighlightCatchesUp ==
  <>[](opened /\ tag => UpToDate \/ (current # NoTask /\ cancelled[current]))

(* "All of the user interface logic runs on the main thread": that is also *)
(* where an interpretation leaves the registries of the user interface.    *)
DestroyedOnMainThread == \A t \in Tasks : at[t] # "destroy"
=============================================================================
