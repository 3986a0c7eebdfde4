# Verification of codepad

TLA+ models of the parts of codepad where threads, callbacks and long sequences
of edits meet, TLC configurations that check them on small instances, and proofs
for every instance of the thread pool, the callback queue, highlighting, the search
panel, the LSP client and most of what the main thread keeps. Paths are
relative to the repository. A module says *what the code does*: every definition
was translated from the source lines that `PROJECT.json` names for it, and where
the code departs from its comments the model follows the code.

    tlc -config AsyncTaskScheduler.cfg MCAsyncTaskScheduler   # a run
    tlapm AsyncTaskScheduler_proofs.tla                       # a proof

## 1. Inventory

codepad is an editor with one user interface thread, a pool of worker threads,
and plugins (`editors`, `tree_sitter`, `lsp`, ...) loaded into it. Components
in bold are modelled, the parts of them that are not are listed in section 6.

| component | state | operations | hard behaviour | correct when |
|---|---|---|---|---|
| **Thread pool** `ui/async_task.h` | queue, semaphore, shutdown flag, status of each task | `start_task`, `wait_finish`, tokens, the worker loop, `shutdown_and_wait` | queue and semaphore change in separate steps; tasks are started while the pool stops | no task or worker is lost, a task is run once, the join returns and nothing runs after it |
| **Scheduler: callbacks** `ui/scheduler.*` | list of callbacks, its size, timestamp; the token of each callback | `execute_callback`, `callback_token::cancel`, the main loop, `wake_up` | an unlocked counter and timestamp; iterators into a list that is swapped away; sleeping | first in first out, each at most once, no use of a stale iterator, no sleep while callbacks wait |
| **Scheduler: synchronous tasks** `ui/scheduler.*`, `core/intrusive_priority_queue.h` | heap of tasks by time, lists of tasks of each element | register, cancel, run, repeat, dispose | tasks change the heap while one of them runs | heap and lists agree, the earliest runs first, a return value goes to its task |
| **Buffer** `editors/buffer.*` | chunks of bytes, history, modifier, lock | modify, undo, redo, position patching | offsets between old and new positions wrap; edits of many carets | undo and redo restore the text, positions follow their bytes |
| **Syntax highlighting** `tree_sitter` | tag, task, highlight of each interpretation | edit, language, settings, open, close, enable, disable, tasks | cancellation, reference counts over three owners, results from the past | one task at a time, no use after destruction, nothing changes under a reader, the highlight catches up |
| **Search panel** `editors/code/search_panel.*` | pattern, task, results | typing, edits, results, closing, disposal | late results; the panel goes away | what is shown is current, nothing outlives the panel |
| **LSP client** `lsp` | request handlers, documents, versions, tooltip | send, receive, reply handlers, documents, shutdown | replies that name no version, handlers that outlive what they capture, a thread to be joined | server and editor have the same text, late replies are dropped, shutting down returns |
| **Plugin manager** `core/plugins.*` | plugins, dependencies, state of each | attach, enable, disable, detach, shut down | two plugins of one name, dependencies that have gone, the order of the shutdown | nothing is finalized before what depends on it, everything once |
| **Buffer manager, tag slots** `editors/buffer_manager.h` | registries of weak references, tag slots | open, create, release, allocate, deallocate | what is found may be about to go; numbers and slots are used again | one buffer of a file, one interpretation of a buffer and encoding, no tag of an earlier owner |
| **Interpretation, line breaks, encodings** `editors/code` | decoded chunks, lines | update after an edit | characters and CR LF pairs that straddle the edit, decoders that stay out of step | equal to decoding the whole text; the reported range is the one that changed |
| **Carets** `editors/caret_set.h` | disjoint ranges, relative positions | add, merge, remove, patch | carets that meet after an edit | stay disjoint and in order, none is lost |
| **Overlapping ranges** `editors/overlapping_range_registry.h` | tree of ranges | insert, erase, query, patch | synthesized maxima, searches that skip subtrees | queries equal those on a plain set |
| **Regular expressions** `core/regex` | machine, stacks of the matcher | compile, match, backtrack | state is not copied for backtracking but rebuilt from what was undone | the matches are those of the expression |
| **Tabs, drag and drop** `ui/elements/tabs` | hosts, tabs, split panels, the drag | open, activate, select, close, move, split, drag, drop | hosts that disappear, lists in two orders | every tab is in one host, one active and visible, empty hosts go |
| **Focus, disposal** `ui/scheduler.cpp`, `ui/panel.*`, `ui/window.*` | tree, focus of each scope, hotkey groups, mouse capture, marked elements | focus, capture, remove, dispose | what is removed holds the focus, or is marked twice | no reference to an element that is gone |
| **Events** `core/event.h` | list of handlers, the invocation in progress | register, unregister, invoke | handlers that change the list or invoke the event again | what is registered when its turn comes runs once, in order |
| **Hotkeys, commands** `ui/hotkey_registry.*`, `ui/commands.*` | trees of gestures, how far each group is in them | register, key events, changes of the focus | several groups follow a chain at once and drop out at different keys | the first group that has what was typed wins, no other key is swallowed |
| **Settings** `core/settings.*` | storage, separated profiles, timestamp, kept values | load, get | values and profiles that outlive a load | a value read is that of the last load, from the innermost profile that has it |
| Layout `ui/scheduler.cpp` | sets of elements | invalidate, update | handlers that invalidate again | everything invalid is laid out |

The others (view and rendering of text, tree-sitter queries, animation, JSON,
platform layer, Python host, command pack) are listed in `PROJECT.json` with
what keeps them out. They are sequential computations, input and output, or
bindings.

How they interact: the user interface thread starts tasks in the pool and waits
for them (`wait_finish`) in event handlers; tasks lock the buffer for reading and
come back through `execute_callback`; the main loop runs the callbacks between
events of the system and `update()`, which runs the synchronous tasks and
disposes of elements. The buffer raises `begin_edit` *before* it takes its lock,
so handlers may wait for tasks, and `end_edit` after it has released it. The
receiver thread of the LSP client posts callbacks as tasks do. Everything else
in the table belongs to the main thread alone: an operation runs to its end before
the next one starts, and its hazards are in the order of the operations.

## 2. Modules

```
TaskPool  <--implements-- AsyncTaskScheduler     <--proofs-- AsyncTaskScheduler_proofs
   ^  ^
   |  +------------------ SearchPanel  (panel, search tasks, buffer lock)     <--proofs-- Editors_proofs
   +--------------------- TreeSitterHighlight  (tag, highlight tasks, lock)   <--proofs-- TreeSitterHighlight_proofs
   |  |
   v  v
CallbackQueue <--implements-- SchedulerCallbacks <--proofs-- SchedulerCallbacks_proofs
   ^
   +..................... LspClient (posted callbacks come in order)           <--proofs-- LspClient_proofs

UndoHistory <--implements-- Buffer                                          <--proofs-- Editors_proofs

MCDataStructures  EXTENDS Interpretation -> LinebreakRegistry -> SumSynthesizer
   |  instances of
   +--> HeapOperations -> IntrusivePriorityQueue
   +--> ChunkedBytes           (chunks hold the sequence that Buffer edits)
   +--> CaretSet, OverlappingRanges -> SumSynthesizer
   +--> RegexMatcher -> RegexCompiler;  RegexLanguage the reference, RegexExpressions the cases

MCMainThread  EXTENDS MCSyncTasks -> SyncTasks -> IntrusivePriorityQueue    <--proofs-- MainThread_proofs
   |  instances of
   +--> TabHost -> ElementCollection       (run `tab_order`: TabHost alone)
   +--> ElementTree
   +--> BufferManager, PluginManager, EventBase, HotkeyListener, Settings     <--proofs-- MainThreadParts_proofs

QueueLemmas -> IntrusivePriorityQueue   <-- every module of proofs but the pool's
```

`MC*` modules give constants their values. MCDataStructures and MCMainThread also
put components that share no state into one run: a behaviour chooses a
subject in its first state and is about that component only, so the run
checks each of them by itself, as a run of its own would.

**TaskPool** and **CallbackQueue** say what the two shared services promise;
the modules of their users instantiate them and conjoin their actions
(`Pool!Submit(t)`, `Queue!Post(c)`) instead of carrying threads, semaphores and
locks along. That AsyncTaskScheduler and SchedulerCallbacks keep those promises
is checked *and* proved, so the substitution is sound for safety; the liveness of
the pool and the queue that the users assume as fairness are `AcceptedTaskEnds` and
`PostedCallbackRuns` of the two runs.

### AsyncTaskScheduler (`include/codepad/ui/async_task.h`)
`queue` is `_tasks`, `sem` the semaphore, `status` that of each task, `wpc` and
`wtask` are the program counter and the task of every worker, `cpc` and `waited` those of
the threads that call. Each critical section is one action, each atomic access another:
`StartTask` and `ReleaseSemaphore` are the two halves of `start_task()`;
`Shutdown`, `WakeWorkers`, `JoinWorkers` those of `shutdown_and_wait()`;
`WaitFinish`, `WaitQueued`, `WaitRunning` the two waits on the status;
`CheckShutdown`, `AcquireSemaphore`, `PopTask`/`PopNothing`, `MarkRunning`, `FinishTask`,
`DiscardTask` one turn of `_task_thread()`. Only the main thread waits and shuts
down, as in the program.

### SchedulerCallbacks (`ui/scheduler.h`, `scheduler.cpp`)
`callbacks`, `count`, `timestamp` are the shared list, `_num_callbacks` and
`_callback_timestamp`; `batch` is the list swapped out, local to the main thread;
`stamp` and `token` are what a token knows of its callback; `events` counts wake-up events of the system.
`Post`, `WakeUp`: `execute_callback()`. `CancelCheck`, `CancelLocked`: the
comparison of timestamps without the lock, and the rest under it. `NeedsUpdate`
... `EndHandler`: the main loop, one action for each access to shared state.
Callbacks and handlers may post and cancel, which is why the main thread is also
one of `Threads`.

### TreeSitterHighlight (`plugins/tree_sitter`, `buffer.h`, `code/interpretation`)
One interpretation and the tasks it ever gets; tasks of different
interpretations share nothing but the pool. `at[t]` is where the task is in `execute()`: taking the
reader lock, reading, checking its cancellation token, posting, and (the object of)
the task being dropped. `alive`, `tag`, `opened` and the tasks' and callbacks'
references make up the life of the interpretation (`Held`). `mpc` is
what the main thread is in the middle of: `begin_edit` waiting for the task, acquiring
the lock, editing, changing the language, settings, disabling, a callback. The
text, the language and the configuration are numbers that grow, `input` and `shown` say from which a
task and the highlight were computed.

### SearchPanel (`editors/code/search_panel.*`)
Built like TreeSitterHighlight, with the differences that matter: tasks and
callbacks refer to the panel by pointer, every change of the pattern or the text waits for the
cancelled task (`InputWaited`, `BeginEditWaited`, `CloseWaited`, `DisposeWaited`), then takes back
the callback it may have posted (`CancelResult`), and a task stores the token of that callback
(`StoreToken`) only after the callback was posted.

### LspClient (`plugins/lsp`)
The main thread (`main`), the receiver thread, two bounded pipes and a server that is external
(it reads in order, opens, changes and closes documents, answers requests in
any interleaving with its diagnostics, and writes to a bounded pipe too). Diagnostics name the version of their text or do not: it is
optional in the protocol, and the client does not ask for it (`versionSupport`, `main.cpp:117-162`). `OnPublishDiagnostics` drops those
that name another version and applies those that name none. `Disable` destroys the tags; `SendShutdownRequest` then stores the id
of the shutdown request, for which the receiver looks, and sends the request, in two steps. A text is the number of modifications it
is made of and a change is the number of its modification, so that a lost,
doubled or swapped change shows. `handlers` are `_reply_handlers` with what the lambda captured;
running a handler whose tag is gone is `OnSemanticTokensDangling`, a callback run
when the client is gone `CallbackDangling`: both end in `main = "crashed"`. An
assertion that fails ends in `"asserted"`.

### SyncTasks, IntrusivePriorityQueue, HeapOperations
The heap is given as pure operators (`Push`, `EraseAt`, `AdjustUp`, `AdjustDown`) on a sequence, written with
recursive functions; each returns the new sequence and who was told a new index. HeapOperations applies
them to every small heap. SyncTasks has `Register`,
`Cancel`, `StartUpdate`, `RunTop`, `Repeat`, `Done`, `EndUpdate`, `Dispose`,
`DisposeTask`; between `RunTop` and `Repeat`/`Done` the task that runs may do any of the others.

### ChunkedBytes, Buffer, UndoHistory
ChunkedBytes has the buffer's tree as a sequence of chunks and `_erase`, `_insert`,
`_try_merge_small_nodes` on them; `text` is what a plain sequence would hold.
Buffer has the modifier: `BeginNormal`/`Modify`/`Overwrite`/`End`, `BeginUndo`/`UndoStep`,
`BeginRedo`/`RedoStep`/`EndCustom`, with `diff` a `std::size_t` of `WordSize` values.
`position_patcher` is the function `Behind`, a state machine of its own, applied to
every position of the old text. `origin` remembers for each byte which old one it
is and exists for the property only.

### CaretSet, OverlappingRanges, SumSynthesizer (`editors/caret_set.h`, `overlapping_range_registry.h`, `core/binary_tree.h`)
A tree is the sequence of its nodes in order. SumSynthesizer finds the node at which
the sum of a property reaches or exceeds a value; that does not depend on the shape of the tree. Where
it does, in the walk of the range registry that skips subtrees by the maximum end in
them, `Find` and `FindNext` are applied to `Shapes`, every binary tree over the sequence.
Elements are stored relative to their predecessor as in the code. `AddCaret`, `MergeDown`, `Expand`, `Truncate`,
`OnModify` are the functions of the caret set, `OnModification` that of the ranges. The properties compare with sets
of absolute ranges, each of which follows an edit alone (`Follow`), merged afterwards (`Added`).

### Interpretation, LinebreakRegistry (`editors/code/interpretation.*`, `linebreak_registry.h`)
`Modify` is what happens on `begin_edit`/`modify` for one replacement: `Cache` decides how much of the old decoding to keep,
`Decoded` decodes until a boundary meets one of the old text, `ReplaceChunks`, `EraseCodepoints` and `InsertCodepoints`
replace chunks and lines, `ChangedCharacters` computes the range reported to others. `NextCodepoint` is a decoder
over an alphabet with one lead byte (UTF-8) or of two bytes (UTF-16), CR, LF and another character. `EndEdit` closes an edit of several replacements.

### RegexCompiler, RegexMatcher, RegexLanguage, RegexExpressions (`core/regex`)
RegexCompiler has the analysis of lengths and the compiler: a machine is, for every state, the sequence of its transitions.
RegexMatcher is the loop of `find_next()`: an iteration is one action (`Take`, `TryNext`, `Backtrack`, `FinishSubroutine`, `Accept`, `FailHere`), its state is that of the
code with its stacks of partial and finished captures, subroutines, atomic groups, checkpoints and loop positions, and of the records from which
a saved state restores them. RegexLanguage knows no machine: a node maps a state to the sequence
of states in which it may leave, preferred first. RegexExpressions generates the expressions.
Where regular expressions differ from one implementation to another, the language follows what the code intends: an unbounded
repetition stops after an iteration that took nothing, a line does not start at the end of the input, a
look behind without alternatives of its own may begin anywhere as long as it ends here.

### TabHost, ElementCollection (`ui/elements/tabs`, `ui/panel.*`)
`OpenTab`, `OpenWindow`, `RequestActivate`, `CloseTab`, `CloseWindow`, `MoveTab`, `SplitTab`, `MoveTabToNewWindow` are commands and clicks,
`DisposeMarked` and `UpdateChangedHosts` the work of `update()`, `StartDrag`, `DragInHost`, `DragOut`, `DragFree`, `DragOver`, `StopInHost`, `DropCombine`, `DropSplit`,
`DropInNewWindow` the drag. A window holds a tree of split panels whose leaves are hosts.
Each operation is a function from a record of the state to the next (`Now`, `Become`), because handlers call one another:
`RemoveTab` inside `MoveTab` activates another tab, which changes z-indices.
ElementCollection has the order of drawing.

### ElementTree (`ui/scheduler.cpp`, `ui/window.*`, `ui/panel.*`)
`Add`, `RemoveElement`, `MarkForDisposal`, `DisposeBatch`, `Focus`, `SystemFocus`, `SetMouseCapture`, `ReleaseMouseCapture`. `OnRemoving` is what
the windows and scopes above a removed element do: they give up its focus (`ScopeLeft`, `FocusLeft`) and its capture (`CaptureLeft`).
`DisposeBatch` is one round of the loop over the marked elements, in any order (that of addresses); the children it marks are the next round.

### BufferManager (`editors/buffer_manager.h`)
`OpenFile`, `NewFile`, `OpenInterpretation` find what is open or make it; `ReleaseBuffer` and `ReleaseInterpretation` drop an owner and run the destructors that
leave the registry; `AllocateTag`, `DeallocateTag`, `SetTag` are the slots of interpretations. Owners are
on the main thread here; the release on a worker is in TreeSitterHighlight.

### PluginManager (`core/plugins.*`)
`Attach` initializes a plugin, which declares dependencies among those attached; `Enable`, `Disable`, `Detach`; `Shutdown` starts the
end of the program, `ShutdownNext` finalizes one on which nothing depends, `ShutdownLeft` and `FinalizeLeft` deal with what a discarded plugin has left.

### EventBase (`core/event.h`)
`Register`, `Unregister`, `Invoke`, and `HandlerReturns`, which is the rest of an iteration and the beginning of the next one;
between them a handler may do any of the others, up to nested invocations. `executing` is what `_state` points to.
`ran` and `due` of an invocation are histories: what it has run, and that followed by what is still registered.
Callers have obligations that the class does not check, and the model takes them as guards: a handler running in an
outer invocation, or after a nested one has ended (`_state` is then null), does not unregister; one that
has unregistered itself does not invoke the event.

### HotkeyListener (`ui/hotkey_registry.cpp`, `ui/commands.cpp`)
`Parsed` reads the groups with `Registered`. `ResetGroups` is a change of the focus; `OnKeyDown` a key, which completes a hotkey
(`OnHotkey`, whose command may move the focus) or does not (`OnOtherKey`). `typed` is a history: the keys of the chain, without modifiers.

### Settings (`core/settings.*`)
`Set` is a load, `GetValue` a getter for one path of profiles, which separates profiles and keeps the value. The storage is, for each path, the
entry of one setting; a load may bring any.

## 3. Runs

Two threads, workers or carets suffice where a hazard needs two parties in a
race; three callbacks where one is cancelled between two others.
Deadlock is not checked: in every model the system may rightly stop (workers sleep, the
program exits or has crashed, a bound is reached). That it
does not stop too early is what the liveness properties say.

| run | instance | states | what it shows |
|---|---|---|---|
| `pool` | 2 workers, 2 calling threads, 2 tasks | 22 k | `SemaphoreInv` (`TypeOK`, `SemaphoreCountsTasks`, `NoWorkerStranded`), `TaskHasOnePlace`; implements TaskPool (`PoolSpec`); `QuietAfterJoin`; `AcceptedTaskEnds`, `CallsReturn` |
| `callbacks` | 2 threads, 3 callbacks | 49 k | `CallbackInv` (the inductive invariant, with `IteratorValid` and `NoSleepOnWork`); implements CallbackQueue; `PostedCallbackRuns` |
| `highlight` | 2 workers, 2 tasks, each of text, language, settings changes once | 38 k | `TagLifetimeInv` (`OneTaskAtATime`, `TagOutlivesTask`, `HeldIsAlive`), `VersionsInOrder` (`StableWhileRead`, `ShownNeverOlder`); `MainReturns`, `HighlightCatchesUp` |
| `highlight_worker` | the same | | **violated**: `DestroyedOnMainThread` (finding 1) |
| `sync_cancel_self` | 4 tasks of 2 elements, 2 times, a task may cancel itself | | **violated**: `ReturnAppliesToRunning` (finding 2) |
| `buffer_safety` | word size 16, 2 edits in the history, 2 carets, 4 bytes | 365 k | `BufferInv` (`HistoryIsExact`: `UndoReverts` and `ReplacesWhatWasRecorded`; `PositionsInv`); implements UndoHistory (`HistorySpec`) |
| `buffer_overwrite` | the binary editor types two bytes | | **violated**: `UndoReverts` (finding 3) |
| `search` | 2 workers, 3 tasks, 2 changes each of pattern and text | 123 k | `PanelLifetimeInv` (`PanelOutlivesTask`, `TokenNotShared`), `ResultsAreCurrent`, `SearchCatchesUp` |
| `lsp` | 1 document opened twice, 2 modifications, 2 versions, 3 requests, pipes of 3 | 672 k | `RequestsInv`, `ServerInSync`, `RepliesAreCurrent`, `DiagnosticsInOrder`; `ShutdownReturns`, `TokensCatchUp` |
| `data_structures` | see below | 303 k | `HeapKept`; `HoldsText`; `CaretsFollow`; `RangesFollow`; `MatchesFullDecode`, `ReportIsExact`; `MatchIsExact` |
| `main_thread` | see below | 308 k | `QueueMatchesLists`, `RunsAsScheduled` (`ReturnAppliesToRunning`, `EarliestFirst`) for tasks that do not cancel themselves; `TabsInv`; `FocusInv`; `BuffersInv`; `PluginsInv`; `EventsInv`; `HotkeysFollowed`; `SettingsInv` |
| `tab_order` | 3 tabs, 3 hosts, one window | | **violated**: `ZOrderDescending` (finding 4) |

Why these bounds are enough to meet the hazards:
- *pool*: each of the two tasks can be with a worker, queued, or between the
  halves of `start_task()` while the other thread shuts down; one worker can block while the
  other is past its check of the flag.
- *callbacks*: a batch of two with a third callback posted during it;
  two threads cancelling and posting at the same time; `timestamp` goes up to four swaps with content.
- *highlight*: two tasks make "the old one and its successor"; with one change each of text,
  language and settings, changes of different kinds meet in either order as far as two tasks reach. `MaxVersion` is a bound in the guards
  of the user's actions only.
- *data_structures*
  - the heap: all heaps up to 7 elements with 3 keys, and one operation on each. Three levels, with the last level partly filled or full; three keys give smaller, equal and larger.
  - the bytes of a buffer: 6 bytes in chunks of 3, which may be empty, partly filled, full and overfull, and are at least two.
  - carets, ranges: up to three of them in a document of up to four characters, with modifications of up to two. A modification can end before, within or behind each of three.
  - the interpretation: every document of up to 4 bytes, codepoints of 1 or 3 bytes in UTF-8 and 2 in UTF-16, two codepoints per chunk, any sequence of modifications. A lead byte of three reaches over an edit of two.
  - regular expressions: some 1200 expressions with up to four inputs each over {a, b} up to three long, and boundaries and assertions with all texts up to three long over {a, CR, LF}. Expressions pair a part
    that leaves something to go back to (alternatives, loops of every kind, optional captures) with one that depends on what was done (back references, calls, looks, `\K`, conditions,
    atomic groups), inside groups and loops; two groups capture. `MaxIterations` of 1000 is reached by none of them.
- *main_thread*
  - synchronous tasks: 4 tasks of 2 elements, 2 times, symmetry.
  - tabs: 3 tabs, 3 hosts, 2 windows, 2 split panels, at most `MaxObjects` 6 of them together; symmetry over tabs and windows. With three hosts one
    is dragged from, one is merged away and one is dropped into.
  - elements: trees of up to 4 of two windows, a focus scope that is not a window, a panel and a leaf; at most 2 marked by hand before a disposal, the disposal itself marks as many as it likes.
  - buffers: 2 files, 2 buffers, 3 interpretations, 2 encodings, 2 tag slots: a number, an interpretation and a slot are each used again.
  - plugins: 4, of which two have the same name, with dependencies in every order.
  - events: 3 handlers, invocations nested twice, 4 handlers run by each: one handler more than there are can only be one that was registered again.
  - hotkeys: five hotkeys of one to three keys, two groups of up to two entries, at most two groups in effect, chains of up to three
    keys with one modifier: a hotkey that begins another, in its own group (refused) and in another one.
  - settings: three profiles, each within the one before, two loads.
- *buffer*: two edits let an undone one be overwritten by a new one; positions up to four with
  `WordSize` 16 make `diff` wrap below zero but never reach half the range, as with real sizes.
- *search*: three tasks make "current, cancelled and still running, to come".
- *lsp*: two openings distinguish replies and diagnostics of an earlier opening from those of the present one;
  three pending messages fill a pipe, so that writing blocks. `MaxVersion` bounds edits and changes of language together: two in the first opening, so that
  changes are incremental and one meets what is under way about another, and one in the second.

### Fairness
Weak fairness only, of steps that a thread takes by itself: the operating
system runs each thread that is able to. It is given
- *pool*: to each worker and each thread inside a call. Not to single actions: the semaphore
  need not serve workers in turn, and no thread ever has to call.
- *callbacks*: to each thread inside a call, and to the main thread, whose blocking
  wait ends only when there is an event.
- *highlight, search*: to the pool taking a task, to each task (it ends: parsing and matching
  are finite), and to the main thread in the middle of an operation or a callback. The *user* has no fairness; the properties
  say `<>[]`: once the user's bounded changes are over.
- *data_structures, main_thread*: none; they are about safety.
- *lsp*: to the main thread's callbacks, the two steps of its shutdown request and its join, the receiver, and the server, which
  is assumed to read its input and to answer. `TokensCatchUp` rests on one more assumption about it: the last request for
  highlights is answered with tokens. A result of `null` and a server without `semanticTokensProvider` (`interpretation_tag.cpp:269-277`) are not explored.

`MainReturns` and `CallsReturn` are stated up to states from which
returning is impossible in the code: after a crash, and for a `wait_finish()` on a task
that the shutdown has thrown away (its status is never changed again).

## 4. Proofs

For any numbers of workers, threads, tasks and callbacks, by TLAPS:

| theorem | says | by |
|---|---|---|
| `TypeCorrect` | types; the semaphore never goes below zero | `TypeOK` is inductive |
| `NoLostWakeup` | `SemaphoreInv`: `TypeOK`, `SemaphoreCountsTasks`, `NoWorkerStranded` | `CountingInv` |
| `PlacesCorrect` | `TaskHasOnePlace`, the queue stays empty after a shutdown | `PlacesInv` |
| `ImplementsTaskPool` | AsyncTaskScheduler implements TaskPool | step by step under `PlacesInv` |
| `CallbacksCorrect` | `CallbackInv`: the count is the length of the list, iterators are valid, no sleep on work, a cancelled callback is not left to run | `CallbackInv` |
| `ImplementsCallbackQueue` | SchedulerCallbacks implements CallbackQueue | step by step under `CallbackInv` |
| `QuietAtReturn` | `QuietAfterJoin`: nothing runs when `shutdown_and_wait()` returns | the joining step under `PlacesInv` |
| `OneTaskFindsItsTag` | `TagLifetimeInv`: `OneTaskAtATime`, `TagOutlivesTask`, `HeldIsAlive` | `HighlightInv` |
| `HighlightsInOrder` | `VersionsInOrder`: `StableWhileRead`, `ShownNeverOlder` | every step under `HighlightInv` |
| `PanelOutlives` | `PanelLifetimeInv`: `PanelOutlivesTask`, `TokenNotShared` | `SearchInv` |
| `MatchesAreCurrent` | `ResultsAreCurrent` | `SearchInv` |
| `TextAndPositions` | `BufferInv`: `HistoryIsExact`, `PositionsInv`; if overwriting replaces one byte at each caret | `EditInv` |
| `UndoAndRedo` | Buffer implements UndoHistory (`HistorySpec`); under the same hypothesis | step by step under `EditInv` |
| `RequestsAccounted` | `RequestsInv`: every queued highlight and the tooltip have their handlers | `ClientInv` |
| `ServerHasTheText` | `ServerInSync`: server and client have the same text | `ClientInv` |
| `RepliesApplyToTheText` | `RepliesAreCurrent`: a highlight, or diagnostics that name their version, were computed from the text that is there when they are applied | `LastInv` |
| `NewerDiagnosticsReplaceOlder` | `DiagnosticsInOrder`: diagnostics are replaced by those of the same or a later text, whether they name a version or not | `LateInv` |
| `BuffersCorrect`, `OpenBuffersCorrect` | `BuffersInv`: `BuffersFound`, `InterpretationsShared`, `TagsClean` | `Inv` of MainThreadParts_proofs |
| `PluginsCorrect`, `PluginsTakenApart` | `PluginsInv`: `CountsMatch`, `DependenciesOutlive`, `EachTakenApart`, `EnabledAreLoaded` | `PluginsIInv` |
| `EventsCorrect`, `EventsRunInOrder` | `EventsInv`: `RunsWhatIsDue`, `IteratorsValid`, `ListIsRegistered` | `EventsIInv` |
| `TasksInOrder` | `QueueMatchesLists`: heap and lists have the same tasks, found by their indices; if no task cancels itself | `TasksInv` |
| `TasksRunAsScheduled` | `RunsAsScheduled`: `ReturnAppliesToRunning`, `EarliestFirst`; if no task cancels itself | every step under `TasksInv` |
| `HotkeysCorrect`, `KeysTriggerHotkeys` | `HotkeysFollowed`: `NoneHidesAnother`, `GroupsFollowKeys`, and `KeysAnswered` of every step | `HotkeysIInv` |
| `FocusCorrect`, `FocusInTree` | `FocusInv`: `FocusAttached`, `HotkeysFollowFocus`, `ScopeFocusWithin`, `CaptureWithin`, `DeletedAreGone` | `TreeIInv` |
| `SettingsCorrect`, `GettersFollow` | `SettingsInv`: a getter's value is the last load's, from the innermost profile that has it | `SettingsIInv` |

*The pool.* `SemaphoreCountsTasks` compares the semaphore with the length of the queue,
corrected by the threads between two halves: those that have queued a task and not released, and the
workers that have acquired and not popped. The proof is one lemma about moving
one process from one program counter to another (`CountAfterMove`: the
cardinality of the set left goes down by one and of the set entered up by one) and one case
for each action. It is not inductive alone: `OnlyMainWaits` is needed to know that only the
main thread can be between `Shutdown` and `WakeWorkers`. `PlacesInv` adds
`PlacesAgree`, which ties the program counter of a worker to the status of its task. The refinement
maps `TaskPhase(t)` (from where the task is) to `phase[t]`; `FinishTask`
is `Complete`, `PopTask` is `Take`, and every other worker step stutters.

*The callbacks.* `IteratorValid`, that a token whose timestamp is the current one refers to an
element still in the list, needs `ListsInv`: queued callbacks have exactly the
current timestamp, those in the batch a smaller one, and nobody is in a list twice. `NoSleepOnWork` needs
`CallsInv`: a thread that has pushed onto an empty list is still on its way to `wake_up()`. The
refinement maps `Waiting`, the unstarted rest of the batch followed by the list,
to `waiting`; swapping the lists is then a stutter, and cancelling removes the
same callback from the concatenation (`RemoveFromConcat` in QueueLemmas, which has the facts about
`RemoveAt`, `Append` and `Tail` of sequences without duplicates).

*Highlighting and the search panel.* They are composed with TaskPool and CallbackQueue, so their proofs
use only what those two promise. In both, `TasksInv` says that only the task the owner refers to
(`current`) is ever queued or running and how far its program can be in each phase of the pool; `ResultsInv` says
where its callback is. They make the lifetimes follow: whoever takes the tag, the panel or the buffer away has
waited for `current`, and there is no other. `ModesInv` carries what the main thread has made
sure of (that it has waited, that nothing is shown) over the steps between `begin_edit` and `end_edit`.
For highlighting, `VersionsInv` orders everything by age: what is shown, the results that
wait in the queue (in the order of the queue), what a task has read, the current
version. `ShownNeverOlder` compares only two of these and is not inductive without the others; `LifeInv` says
who may destroy an interpretation, at most one thread. In the search panel `MatchesInv` has, for the task in progress, that
it has read the current text and the current pattern, except between a key and the cancellation that follows it.

*The buffer.* An edit is a list of modifications, each at a position in the text as the ones before it have left it. `IsLayout(L, n)` is what such a list
comes to as a whole: n pieces of the old text, in order and disjoint, from `L[j].o` to `L[j].r`, and what has replaced them in the new text, from `L[j].p` to `L[j].a`; `Edited`
says that the two texts are the same between the pieces. `Made(e, old, new)`: the edit e has such a layout from old to new. An undo is the same layout with
both sides exchanged (`TakenBack`), which is a layout too; an undo that is halfway has reached `Midway`, the beginning of one text and the end of the other, and each of its steps
erases exactly what was recorded there (`ReplaysAreExact`). `EditInv` is then: the texts before and after all edits of the history are a chain of versions, each made from the one before
(`HistoryInv`); with no edit under way the text is the present one of them (`NoEditInv`); an edit under way has its layout so far, as `diff_splice` (`Tracked`) and as modifications (`TypingInv`);
an undo or redo under way is on its way between two versions (`ReplayInv`). `BufferInv` compares only the texts and the next modification and is not inductive without the layouts.

Positions are shifted by `size_t` arithmetic that wraps; with texts shorter than half a word a shift that wraps and wraps back is the shift (`ShiftedPosition`).
The patcher walks through the modifications once, for positions in order. For every position there is one modification at which it stops, the first whose
piece does not end before it (`StopOf`), which is where the next position continues; from it the patched position is `PutAt`, for either strategy. That the patched
positions are in the text and in order (`PutInOrder`, `PutLast`), and that a position that was not erased still precedes its byte (`BytesFollow`), follows from the layout.
`Reverted`, `Behind` and the patcher's states are recursive functions, so each comes with an induction over the numbers that are their arguments.

*The LSP client.* `queued[d]` is a number and the handlers are a set, so `AccountsInv` equates the number with the
cardinality of the handlers for the present opening of the document (`HighlightsOf`); those of an earlier opening carry another tag,
because `tag[d] <= opens[d]` and every opening takes a new number. `ServerInSync` speaks of a server that has read everything. Inductively
that becomes: along the messages under way there is a path of what the server will know (`Leads(s, q, t, d)`: from
`s`, reading `q`, to `t`), and it ends with the text and the version of the client (`SyncInv`). Sending extends the path at its end
(`LeadsAppend`), receiving shortens it at its beginning (`LeadsTail`), and what concerns another document leaves it as it is. `ConversationInv`
has the types of the messages, that nothing is sent before the client is ready, and that there is an id left for the shutdown request.

`RepliesAreCurrent` adds `OrderInv` and `CurrentInv` to that (`LastInv`). The client counts replies and applies the one that makes the count
zero; that this is the reply to the *last* request holds because requests, replies and callbacks keep the order of their numbers from
end to end (`Ordered`): everything in the callback queue is older than everything in the pipe to the client, and that than everything
in the pipe to the server. `CurrentInv` then says of every stage of the path of `SyncInv`, and of every answer that was given on it, that it is of
this opening of the document only with a version that the document has had, and has the present text if it has the present version (`Fresh`:
diagnostics that name a version are filtered by it); and that the stage at which the last request is answered has the present text (`Awaited`).
An edit makes the version larger than any on the path, so `Fresh` holds of all of them for lack of the version, and the new end of the path is right by
`SyncInv`. Before a document was sent the path ends with a closed document (`Ends`).

Diagnostics without a version are applied to whatever text is there, so only their order protects the display: `DiagnosticsInOrder`. `LateInv`, under
`LastInv`, says that the texts do not decrease from end to end: what is displayed, the diagnostics posted, those in the pipe (`TextsInOrder` of `Coming`, the two in a row),
what the server knows, each later stage of its path (`Ahead`), and the text of the client (`Behind`). Every message says the text that it makes (`Says`), so sending
extends the path by a stage that is not older (`GrowsAppend`), reading shortens it (`AheadTail`), the server appends diagnostics of a text that
is at least that of all before them (`TextsInOrderAppend`), receiving moves them within `Coming`, and applying takes the first of it (`TextsInOrderTail`).

*The buffer manager.* `NamesInv` (files and numbers of unnamed buffers, with `BuffersFound`), `RegistryInv` (interpretations are
registered exactly where they say, what is owned exists) and `SlotsInv` (the stack of free slots, with `TagsClean`) are
preserved by every operation. `Release` is the long case: it removes what nobody holds any more, an interpretation and then
perhaps its buffer, and both registries have to agree after it.

*The plugin manager.* `PluginsIInv` gives every attached plugin a rank, its place in the order of attaching. Dependencies have a lower
rank (`DependenciesOrdered`), so they have no cycles, and among the plugins that are left at shutdown there is always one that nobody depends on. The
counts are the cardinalities of the sets of dependents, and `UnreferencedAreFree` says of the shutdown that whatever has reached
a count of zero has been finalized: what `FinalizeLeft` finds is then only what a discarded plugin was counted for.

*Events.* `EventsIInv` says that the handlers which are registered are a sequence without repetitions, `live`, and of every
invocation how many of them it is past: what is due to it is what it ran, followed by the rest of `live`. The list of the code differs from `live` only
while the last invocation is between two handlers and is about to erase the one it has just run; then it is `live` with that one inserted. Registering,
unregistering and erasing are thus `Append`, `Without` and `Inserted`, about which QueueLemmas has the facts.

*Settings.* `Written` is recursive over the profiles above a path. By induction over the length of the path it is the entry of the innermost
profile that has one (`WrittenIsInnermost`), which no longer mentions the recursion. `FindDeepest` separates every profile above the path and
finds the same (`GetterFinds`); `SettingsIInv` adds that no kept value is newer than the timestamp, so that after a load none passes for current.

*Hotkeys.* `GroupsFollowKeys` says where each group is in its hotkeys, given the keys of the chain. It is not inductive alone: a group that has
dropped out stands at its root, like one that has not begun, and only `ChainGoesOn` tells them apart for the listener: the chain is not itself a hotkey of any group
of the focus, and if it is not empty then some group follows it. With it, `PressedStates` has what a key does to each group and `TriggersAre` which of them have what was typed.
`NoneHidesAnother` follows from what `Registered` refuses, by induction over the entries that are read. `Parsed` and `WithoutModifiers` are recursive functions over lists;
`RepeatedSteps` of QueueLemmas says that such a function exists and stays in its range.

*The heap and the synchronous tasks.* `AdjustUp` and `AdjustDown` follow a chain of positions that is a recursive function. That a function satisfies
its equation (`ChainsExist`), and that what satisfies it is a chain of different positions from the first to one where it may stop (`ChainFacts`), follow by induction
over a rank: the position going up, its distance from the end going down. Moving the elements along a chain permutes them (`ShiftProperties`). The
adjustments are then about heaps that are right but for one position (`HeapBut`): `_adjust_up()` repairs one whose element is settled with what is
below it (`OrderedBelow`), and `_adjust_down()` either repairs it or leaves it as it was, settled, for `_adjust_up()`; that is why the code may try both one after the other. From these come
`PushProperties`, `EraseProperties` and that the root is the least (`RootIsLeast`); the elements that moved are those that were told, so the indices stay the positions
(`Placed`). `TasksInv` is `QueueOk` (a heap of different tasks that know their positions), `ListsOk` (the lists have the same tasks, each
in one list) and `LoopOk`: while a task runs it is on top. It stays there because nothing is registered for a time before its own and
because it does not cancel itself; `~ MayCancelSelf` is a hypothesis of both theorems, finding 2 is what happens without.

*The tree of elements.* That a parent is nearer to the root is a rank, which says that there are no cycles; by it the path to the root exists and is the only one, and
`Nearest` is characterised by `Under` alone. The invariant, `TreeOk`, has the shape of the tree, the path of the focus, and the focus of every scope and the capture of
every window; `FocusInv` is what it says of the elements in use. Removing an element cuts its path (`CutFacts`), and adding one is the inverse. It is done in three steps, and their order matters: the
scopes forget their focus first (`ScopeLeft`), so that none leads into what is being removed (`NotInto`) when the focus moves (`FocusLeft`) and follows
the scopes down to the innermost one; then the capture is dropped. `RemoveChildren` and `DisposeElements` are recursive functions over sequences; that they keep `TreeOk` follows by `RepeatedSteps` and
induction over the rest of the sequence, whatever the order in which a batch is disposed of.

*The main thread.* MCMainThread has buffers, plugins, an event, hotkeys, a setting and the tree of elements as instances. Each is proved by itself in MainThreadParts_proofs, for any constants; MainThread_proofs shows
that a step of MCMainThread is a step or a stutter of the part (`SameBuffers`, `SamePlugins`, `SameEvents`, `SameHotkeys`, `SameSettings`, `SameElements`).

QueueLemmas has, besides the heap, the facts about suffixes, about inserting into a sequence, about stacks, and about `Append`, `Tail`, `RemoveAt` and concatenation, the elements of a queue and queues without repetitions, and
induction over numbers (`InductionOnNumbers`, from the well-foundedness of the naturals) in a form that takes a set
instead of an operator, which the provers can use; the same over a measure of states, and that a function may be defined along it (`MeasureInduction`, `DefinedByMeasure`).

Assumptions: those the modules declare, which TLC evaluates in the runs, and no others. `SchedulerAssumption`, `CallbackAssumption`,
`HighlightAssumption`, `SearchAssumption` (of SearchPanel, assumed as `PanelAssumption` by MCSearchPanel, which has the panel as an instance and is extended by Editors_proofs): the main thread is one of the threads, the "no task" value is not a task, the workers are a finite set.
There may be no workers: safety holds then too. `SyncTaskAssumption`: an element is not one of the other values of the program counter, which names the element whose disposal is in progress. `BoundsAssumption` of LspClient: the bounds are natural numbers, the absent document is
no document. `BufferAssumption`: texts and what is
inserted are finite sequences, a file is no longer than the bound `MaxLength`, and a word counts more than twice that. `OneByte`, that overwriting replaces no more than
one byte at a caret, is a hypothesis of the buffer's theorems: with more, modifications at neighbouring carets overlap, and finding 3 is what happens
then. `BuffersCorrect` has `ObjectsApart` as a hypothesis, that names, numbers and objects are distinct things, because
the module is instantiated by MCMainThread; that one assumes it for its constants (`BuffersAssumption`). In the same way `SettingsCorrect` has `ProfilesApart`, that the set of paths has with each path those above it, and MCMainThread `ProfilesAssumption`; and `HotkeysCorrect` has `HotkeysAreKeys`, that a hotkey is a sequence of gestures, and MCMainThread `HotkeysAssumption`; and `FocusCorrect` has `ElementsNested`, that there are finitely many elements, windows are scopes and scopes are panels, and the absent element is none, and MCMainThread `ElementsAssumption`.

Only model-checked: everything temporal beyond invariants, action properties and refinement (liveness and ENABLED are out of the
prover's reach); and `TabsInv` and the properties of MCDataStructures. `TabsInv` is not out of reach, only not done: TabHost
handles lists of tabs with `SelectSeq` and folds, which the provers cannot unfold and which would first have to be restated as
recursive functions, and its invariant needs, besides the orders of the tabs, that the splits and hosts of a window form a tree.
A recursive function can be reasoned about as those of the heap, the settings and the buffer are, by an induction over numbers made for it. What RECURSIVE operators and folds compute for
every input (the chunks, the trees, the decoders, the regular expressions) would take the definitions as parameters of
the theorem, which the installed provers cannot instantiate.

## 5. Findings

1. **An interpretation may be destroyed on a worker** (`highlight_worker`). `wait_finish()` returns
   when the status is stored, before the worker drops its pointer to the task (`async_task.h`), and the task holds
   a reference to the interpretation. Closed in between, the interpretation, its tag and perhaps its
   buffer leave events and the buffer manager's registry on the worker.
2. **A task that cancels itself** (`sync_cancel_self`). `update_synchronous_tasks()` applies the return value of
   a task to whatever is on top of the heap afterwards. `_initiate_smooth_scrolling()` cancels the running task when a
   handler of `actual_value_changed` scrolls again.
3. **Overwriting at neighbouring carets** (`buffer_overwrite`). With two bytes
   typed at carets one byte apart, the modifications of one edit overlap and undo leaves other bytes than before.
4. **The order of drawing of tabs** (`tab_order`). `panel::..::set_zindex()` looks for a preceding child
   with the *old* z-index instead of the new one (`panel.cpp:68`) and puts the element before it in `z_ordered()`, whose comment
   (`panel.h:71`) promises descending z-indices: an active tab may be drawn below its neighbours and is hit after them.

Behaviours of the models that depart from a comment or look unintended, without a run of their own:

- On a one-core machine `hardware_concurrency() - 1` is zero workers: accepted tasks never run.
  If it is not computable (0) the subtraction wraps. `wait_finish()` on a task that the
  shutdown dropped never returns (`async_task.h:110, 135`).
- `callback_token::cancel()` returns false also for a callback that is in the batch being run and has not started; it will run
  (`scheduler.h:146` says otherwise). Callbacks still queued when the program exits never run.
- The reference to the top entry of `_sync_task_queue` that `update_synchronous_tasks()` holds while the task runs (`scheduler.cpp:96-99`)
  follows whatever entry is on top (finding 2), and dangles when the task cancels itself and the queue becomes empty. Registering
  leaves it valid: the container is a deque that grows at its end.
- Disabling and enabling the tree-sitter plugin leaves open interpretations without a tag; the next
  change of settings dereferences it (`manager.h:62, 83`; state `"crashed"`). A
  change of settings cancels the task in progress without starting another one (exempted in `HighlightCatchesUp`).
- Input to a search panel after its `on_close()` and before its disposal modifies the decorations it has removed (state `"crashed"` of SearchPanel).
- Closing a document or the program while the language server initializes fails "client is not ready" (`client.h:145, 179`;
  state `"asserted"`). A document opened then is never announced, its changes are sent nevertheless.
- Reply handlers capture the tag, and posted callbacks the client, by reference; both may be gone (state `"crashed"`).
- Diagnostics that name no version are applied to whatever text is there (`interpretation_tag.cpp:354-359` compares versions only if there is one), so late ones
  are displayed at positions of a text that has changed; only the order in which they come protects them (`DiagnosticsInOrder`).
  Late diagnostics of version *n* of an earlier opening are applied to version *n* of a new one. A change of the
  language drops highlight requests in flight without a new one.
- A handler for a refused request (`client.cpp:18`) dereferences the `error` field, which is absent in a
  reply without result and error; malformed replies are not in the model.
- A plugin that is attached under a name that is taken is discarded, but is still counted as a dependent of what it found while it was initialized
  (`plugins.cpp`), so those are left for the loop for cycles, which takes them in the order of names
  (excepted in `DependenciesOutlive`). `main.cpp:167` enables what it has attached, which may be such a plugin; the
  model enables registered plugins.
- Hotkeys: on GTK `get_mapped_key` (`os/linux/gtk/misc.cpp:93-118`) never returns `key::shift`, `control` or `alt` but the left and right ones, which
  `update_state` (`hotkey_registry.cpp:91-98`) does not take for modifiers: pressing one inside a chain ends it, contrary to `hotkey_registry.h`.
  `chain_interrupted` is not invoked when a chain of one key ends (`commands.cpp:50`), and is invoked when the command of a complete
  chain moves the focus (`commands.cpp:61-67`); nobody listens. `get_chain()` contains modifiers too.
- An event invoked from one of its handlers forgets the outer invocation (`event.h:89, 100`), see EventBase in section 2.
- Regular expressions: `\K` twice after one saved state restores the wrong beginning of the match; captures reverted at the end of a subroutine
  are not put back when backtracking into it (`matcher.inl`); the maximum length of an unbounded group wraps to 0 in `ast::analyze`, so that a nested
  look behind may be taken for one of fixed length; alternatives of a look behind without
  fixed length are dropped silently; a call of an unknown group clears the machine while other calls are still to be patched
  (`compiler.cpp:215-228`). Lazy loops over bodies that may be empty run until `max_iters`. Expressions of these kinds are not
  among the cases of `MatchIsExact`. The program itself has no use of the matcher yet besides its tests.

## 6. Not modelled

Failing reads of a file (`buffer.cpp:80`), allocation failures, exceptions. The death of a server or malformed
messages (LspClient assumes neither), a server without semantic tokens or with `null` for a result of them. What the parsers, the search's pattern matching and the renderer compute. Weak memory: atomics of
the code are sequentially consistent by default, and the unsynchronized token of the search panel is the subject of `TokenNotShared`.

- *Tabs*: closing a tab or a window during a drag from it, opening tabs in a window that is being closed, and the geometry that decides where a tab is dropped.
- *Focus, disposal*: the queues of layout and of rendering; windows inside windows.
- *Buffer manager*: saving an unnamed buffer under a name; nothing calls `_on_saved_new_buffer`.
- *Interpretation*: encoding, iterators, decorations of invalid bytes; surrogates in UTF-16.
- *Carets*: how the mouse and the keyboard make them. *Ranges*: how decorations are painted.
- *Events*: an event that is destroyed by one of its handlers. *Hotkeys*: `unregister_hotkey()`, which nothing calls; names of keys and commands.
- *Settings*: parsing of values, one `setting<T>` used with several settings objects, files that cannot be parsed.
- *Binary trees*: balancing, and refreshing the sums on the way to the root.
- *Regular expressions*: the parser, names of groups, marks, case folding, `(*ACCEPT)`, giving up at `max_iters`, repetitions of more than 1000000.
- *Vendored code* (`src/thirdparty`): PCRE2 makes up most of the repository's lines. Only its test data is used, by the tests of the regular expressions; no part of the editor calls it.

The components marked `not_modelled` in `PROJECT.json`, with the reason there.

## 7. Plan

Done, in this order: pool, callbacks, their proofs, highlighting, synchronous tasks, buffer, search panel, LSP client,
carets, ranges, line breaks and interpretation, elements and focus, buffer manager, plugin manager, tabs, regular expressions, events, hotkeys, settings.

Proved after that: highlighting, search panel, LSP client, buffer manager, plugin manager, events, settings, `QuietAfterJoin`, heap and synchronous tasks, buffer, hotkeys, tree of elements.

Next, proofs: of MainThread's components, `TabsInv`, after restating the folds of TabHost; of MCDataStructures, `HoldsText`.

Next, models: layout (`ui/scheduler.cpp`), whose handlers invalidate what is being laid out; the layers of highlight queries; folding.
