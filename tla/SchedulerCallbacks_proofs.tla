---------------------- MODULE SchedulerCallbacks_proofs ----------------------
(***************************************************************************)
(* Proofs about the scheduler's callbacks for any number of threads and    *)
(* callbacks: the counter, the iterators and the wake-ups are right, and   *)
(* the scheduler implements CallbackQueue.                                 *)
(***************************************************************************)
EXTENDS SchedulerCallbacks, QueueLemmas

(* The initial state satisfies the invariant. *)
LEMMA InitInv == Init => CallbackInv
<1> SUFFICES ASSUME Init PROVE CallbackInv
  OBVIOUS
<1>1. callbacks \in Seq(Callbacks) /\ batch \in Seq(Callbacks)
  BY EmptySeq, Zenon DEF Init
<1>2. Len(callbacks) = 0 /\ Len(batch) = 0
  BY EmptySeq DEF Init
<1>3. TypeOK
  BY <1>1 DEF Init, TypeOK, MainLabels, TokenStates
<1>4. Queued = {} /\ Batched = {}
  BY <1>2 DEF Queued, Batched
<1>5. CountMatchesList /\ IteratorValid /\ NoSleepOnWork
  BY <1>2, <1>4 DEF Init, CountMatchesList, IteratorValid, NoSleepOnWork
<1>6. ListsInv
  BY <1>2, <1>4 DEF Init, ListsInv
<1>7. CallsInv
  BY CallbackAssumption DEF Init, CallsInv
<1> QED   BY <1>3, <1>5, <1>6, <1>7 DEF CallbackInv

(* Posting appends a new callback with the current timestamp. *)
LEMMA PostKeepsInv ==
  ASSUME CallbackInv, NEW t \in Threads, NEW c \in Callbacks, Post(t, c)
  PROVE  CallbackInv'
<1>0. TypeOK /\ CountMatchesList /\ IteratorValid /\ NoSleepOnWork /\ ListsInv /\ CallsInv
  BY DEF CallbackInv
<1> USE DEF Post
<1>1. /\ callbacks' = Append(callbacks, c) /\ callbacks \in Seq(Callbacks)
      /\ Append(callbacks, c) \in Seq(Callbacks)
      /\ Len(callbacks) \in Nat /\ Len(Append(callbacks, c)) = Len(callbacks) + 1
  BY <1>0, AppendProperties, LenProperties DEF TypeOK
<1>2. TypeOK'
  <2>1. callbacks' \in Seq(Callbacks) /\ batch' \in Seq(Callbacks)
    BY <1>0, <1>1 DEF TypeOK
  <2>2. num_callbacks' \in Nat /\ timestamp' \in Nat \ {0} /\ mpc' \in MainLabels /\ events' \in Nat
    BY <1>0 DEF TypeOK
  <2>3. stamp' \in [Callbacks -> Nat] /\ token' \in [Callbacks -> TokenStates]
    BY <1>0 DEF TypeOK
  <2>4. tpc' \in [Threads -> {"idle", "wake", "cancel"}]
        /\ target' \in [Threads -> Callbacks \cup {NoCallback}]
    BY <1>0 DEF TypeOK
  <2> QED   BY <2>1, <2>2, <2>3, <2>4 DEF TypeOK
<1>3. NoRepetition(callbacks) /\ Queued = ElementsOf(callbacks) /\ c \notin Queued /\ c \notin Batched
  <2>1. stamp[c] = 0 /\ timestamp # 0
    BY <1>0 DEF TypeOK
  <2>2. (\A d \in Queued : stamp[d] = timestamp) /\ (\A d \in Batched : 0 < stamp[d])
    BY <1>0 DEF ListsInv
  <2>3. ~(0 < 0)
    OBVIOUS
  <2>4. c \notin Queued /\ c \notin Batched
    BY <2>1, <2>2, <2>3, Zenon
  <2>5. NoRepetition(callbacks)
    BY <1>0, Zenon DEF ListsInv, NoRepetition
  <2> QED   BY <2>4, <2>5, Zenon DEF Queued, ElementsOf
<1>4. NoRepetition(callbacks') /\ Queued' = Queued \cup {c} /\ Batched' = Batched
  <2>1. NoRepetition(Append(callbacks, c)) /\ ElementsOf(Append(callbacks, c)) = ElementsOf(callbacks) \cup {c}
    BY <1>1, <1>3, AppendElements
  <2> QED   BY <1>1, <1>3, <2>1 DEF Queued, ElementsOf, Batched
<1>5. CountMatchesList'
  BY <1>0, <1>1 DEF CountMatchesList
<1>6. /\ stamp'[c] = timestamp /\ stamp[c] = 0 /\ timestamp' = timestamp /\ token' = token
      /\ \A d \in Callbacks \ {c} : stamp'[d] = stamp[d]
      /\ timestamp \in Nat \ {0}
      /\ tpc[t] = "idle" /\ tpc'[t] = "wake" /\ target'[t] = c
      /\ \A u \in Threads \ {t} : tpc'[u] = tpc[u] /\ target'[u] = target[u]
  BY <1>0 DEF TypeOK, Free
<1>7. IteratorValid'
  BY <1>0, <1>4, <1>6 DEF IteratorValid
<1>8. NoSleepOnWork'
  BY <1>6 DEF NoSleepOnWork
<1>9. ListsInv'
  <2>1. \A i, j \in 1..Len(callbacks') : callbacks'[i] = callbacks'[j] => i = j
    BY <1>4 DEF NoRepetition
  <2>2. Queued \subseteq Callbacks /\ Batched \subseteq Callbacks
    BY <1>0, ElementOfSeq DEF Queued, Batched, TypeOK
  <2>3. \A d \in Queued' : stamp'[d] = timestamp' /\ token'[d] # "true"
    BY <1>0, <1>4, <1>6, <2>2 DEF ListsInv
  <2>4. \A d \in Batched' : 0 < stamp'[d] /\ stamp'[d] < timestamp' /\ token'[d] # "true"
    BY <1>0, <1>3, <1>4, <1>6, <2>2 DEF ListsInv
  <2>5. \A d \in Callbacks : stamp'[d] <= timestamp' /\ (stamp'[d] = 0 => token'[d] = "none")
    BY <1>0, <1>6 DEF ListsInv
  <2>6. \A i, j \in 1..Len(batch') : batch'[i] = batch'[j] => i = j
    BY <1>0 DEF ListsInv
  <2> QED   BY <2>1, <2>3, <2>4, <2>5, <2>6 DEF ListsInv
<1>10. CallsInv'
  <2>1. token[c] = "none"
    BY <1>0, <1>6 DEF ListsInv
  <2>2. \A u \in Threads : tpc[u] # "idle" => target[u] # c
    BY <1>0, <1>6 DEF CallsInv
  <2>3. \A u \in Threads : tpc'[u] # "idle" =>
          target'[u] \in Callbacks /\ stamp'[target'[u]] # 0 /\ token'[target'[u]] = "none"
    BY <1>0, <1>6, <2>1, <2>2 DEF CallsInv
  <2>4. \A u, v \in Threads : tpc'[u] # "idle" /\ tpc'[v] # "idle" /\ target'[u] = target'[v] => u = v
    BY <1>0, <1>6, <2>2 DEF CallsInv
  <2>5. /\ mpc' = mpc /\ batch' = batch
        /\ tpc'[Main] # "idle" => mpc \in {"callback", "update", "handler"}
    BY <1>0, <1>6, CallbackAssumption DEF CallsInv, Free
  <2> QED   BY <1>0, <2>3, <2>4, <2>5 DEF CallsInv
<1> QED   BY <1>2, <1>5, <1>7, <1>8, <1>9, <1>10 DEF CallbackInv

(* The rest of execute_callback(), and a cancel() up to its critical       *)
(* section, change no list.                                                *)
LEMMA UnlockedKeepsInv ==
  ASSUME CallbackInv, NEW t \in Threads, NEW c \in Callbacks, WakeUp(t) \/ CancelCheck(t, c)
  PROVE  CallbackInv'
<1>0. TypeOK /\ CountMatchesList /\ IteratorValid /\ NoSleepOnWork /\ ListsInv /\ CallsInv
  BY DEF CallbackInv
<1>1. UNCHANGED <<callbacks, num_callbacks, timestamp, batch, mpc, stamp>>
  BY DEF WakeUp, CancelCheck, listVars
<1>2. Queued' = Queued /\ Batched' = Batched
  BY <1>1 DEF Queued, Batched
<1>3. Queued \subseteq Callbacks /\ Batched \subseteq Callbacks
  BY <1>0, ElementOfSeq DEF Queued, Batched, TypeOK
<1>4. CountMatchesList'
  BY <1>0, <1>1 DEF CountMatchesList
<1>5. CASE WakeUp(t)
  <2> DEFINE d == target[t]
  <2>1. d \in Callbacks /\ stamp[d] # 0 /\ token[d] = "none"
    BY <1>0, <1>5 DEF WakeUp, CallsInv
  <2>2. /\ events' = events + 1 /\ tpc[t] = "wake" /\ tpc'[t] = "idle" /\ token'[d] = "held"
        /\ \A u \in Threads \ {t} : tpc'[u] = tpc[u] /\ target'[u] = target[u]
        /\ \A e \in Callbacks \ {d} : token'[e] = token[e]
    BY <1>0, <1>5, <2>1 DEF WakeUp, TypeOK
  <2>3. TypeOK'
    <3>1. token' \in [Callbacks -> TokenStates]
      BY <1>0, <1>5, <2>1 DEF TypeOK, WakeUp, TokenStates
    <3>2. tpc' \in [Threads -> {"idle", "wake", "cancel"}]
          /\ target' \in [Threads -> Callbacks \cup {NoCallback}]
      BY <1>0, <1>5 DEF TypeOK, WakeUp
    <3>3. events' \in Nat
      BY <1>0, <2>2 DEF TypeOK
    <3> QED   BY <1>0, <1>1, <3>1, <3>2, <3>3 DEF TypeOK
  <2>4. IteratorValid'
    BY <1>0, <1>1, <1>2, <2>1, <2>2 DEF IteratorValid
  <2>5. NoSleepOnWork'
    BY <1>0, <2>2 DEF NoSleepOnWork, TypeOK
  <2>6. ListsInv'
    BY <1>0, <1>1, <1>2, <1>3, <2>1, <2>2 DEF ListsInv
  <2>7. CallsInv'
    <3>1. \A u \in Threads : tpc'[u] # "idle" => u # t /\ tpc[u] # "idle" /\ target'[u] = target[u]
                                                /\ target[u] # d
      BY <1>0, <2>2 DEF CallsInv
    <3>2. \A u \in Threads : tpc'[u] # "idle" =>
            target'[u] \in Callbacks /\ stamp[target'[u]] # 0 /\ token'[target'[u]] = "none"
      BY <1>0, <2>2, <3>1 DEF CallsInv
    <3>3. \A u, v \in Threads : tpc'[u] # "idle" /\ tpc'[v] # "idle" /\ target'[u] = target'[v] => u = v
      BY <1>0, <3>1 DEF CallsInv
    <3>4. tpc'[Main] # "idle" => mpc \in {"callback", "update", "handler"}
      BY <1>0, <3>1, CallbackAssumption DEF CallsInv
    <3> QED   BY <1>0, <1>1, <3>2, <3>3, <3>4 DEF CallsInv
  <2> QED   BY <1>4, <2>3, <2>4, <2>5, <2>6, <2>7 DEF CallbackInv
<1>6. CASE CancelCheck(t, c)
  <2>1. /\ tpc[t] = "idle" /\ token[c] = "held" /\ stamp[c] # 0 /\ events' = events
        /\ t = Main => mpc \in {"callback", "update", "handler"}
        /\ token'[c] \in {"none", "false"}
        /\ \A e \in Callbacks \ {c} : token'[e] = token[e]
        /\ \A u \in Threads \ {t} : tpc'[u] = tpc[u] /\ target'[u] = target[u]
        /\ tpc'[t] # "idle" => target'[t] = c /\ token'[c] = "none"
        /\ tpc'[t] # "wake"
    BY <1>0, <1>6 DEF CancelCheck, Free, TypeOK, ListsInv
  <2>2. TypeOK'
    <3>1. token' \in [Callbacks -> TokenStates]
      BY <1>0, <1>6 DEF TypeOK, CancelCheck, TokenStates
    <3>2. tpc' \in [Threads -> {"idle", "wake", "cancel"}]
          /\ target' \in [Threads -> Callbacks \cup {NoCallback}]
      BY <1>0, <1>6 DEF TypeOK, CancelCheck
    <3> QED   BY <1>0, <1>1, <2>1, <3>1, <3>2 DEF TypeOK
  <2>3. IteratorValid'
    BY <1>0, <1>1, <1>2, <2>1 DEF IteratorValid
  <2>4. NoSleepOnWork'
    BY <1>0, <1>1, <2>1 DEF NoSleepOnWork
  <2>5. ListsInv'
    BY <1>0, <1>1, <1>2, <1>3, <2>1 DEF ListsInv
  <2>6. CallsInv'
    <3>1. \A u \in Threads : tpc[u] # "idle" => target[u] # c
      BY <1>0, <2>1 DEF CallsInv
    <3>2. \A u \in Threads : tpc'[u] # "idle" =>
            target'[u] \in Callbacks /\ stamp[target'[u]] # 0 /\ token'[target'[u]] = "none"
      BY <1>0, <2>1, <3>1 DEF CallsInv
    <3>3. \A u, v \in Threads : tpc'[u] # "idle" /\ tpc'[v] # "idle" /\ target'[u] = target'[v] => u = v
      BY <1>0, <2>1, <3>1 DEF CallsInv
    <3>4. tpc'[Main] # "idle" => mpc \in {"callback", "update", "handler"}
      BY <1>0, <2>1, CallbackAssumption DEF CallsInv
    <3> QED   BY <1>0, <1>1, <3>2, <3>3, <3>4 DEF CallsInv
  <2> QED   BY <1>4, <2>2, <2>3, <2>4, <2>5, <2>6 DEF CallbackInv
<1> QED   BY <1>5, <1>6

(* The critical section of cancel() takes out exactly its target. *)
LEMMA CancelKeepsInv ==
  ASSUME CallbackInv, NEW t \in Threads, CancelLocked(t)
  PROVE  CallbackInv'
<1>0. TypeOK /\ CountMatchesList /\ IteratorValid /\ NoSleepOnWork /\ ListsInv /\ CallsInv
  BY DEF CallbackInv
<1> DEFINE d == target[t]
<1>1. d \in Callbacks /\ stamp[d] # 0 /\ token[d] = "none" /\ tpc[t] = "cancel"
  BY <1>0 DEF CancelLocked, CallsInv
<1>2. /\ UNCHANGED <<timestamp, batch, mpc, events, stamp>>
      /\ tpc'[t] = "idle"
      /\ \A u \in Threads \ {t} : tpc'[u] = tpc[u] /\ target'[u] = target[u]
      /\ \A e \in Callbacks \ {d} : token'[e] = token[e]
  BY <1>0, <1>1 DEF CancelLocked, TypeOK
<1>3. Queued \subseteq Callbacks /\ Batched \subseteq Callbacks /\ Batched' = Batched
  BY <1>0, <1>2, ElementOfSeq DEF Queued, Batched, TypeOK
<1>4. \/ /\ timestamp = stamp[d] /\ token'[d] = "true" /\ num_callbacks' = num_callbacks - 1
         /\ \E i \in 1..Len(callbacks) : callbacks[i] = d /\ callbacks' = RemoveAt(callbacks, i)
      \/ /\ timestamp # stamp[d] /\ token'[d] = "false"
         /\ UNCHANGED <<callbacks, num_callbacks>>
  <2>1. CASE timestamp = stamp[d]
    BY <1>0, <1>1, <2>1 DEF CancelLocked, EraseTarget, TypeOK
  <2>2. CASE timestamp # stamp[d]
    BY <1>0, <1>1, <2>2 DEF CancelLocked, TypeOK
  <2> QED   BY <2>1, <2>2
<1>5. /\ callbacks' \in Seq(Callbacks) /\ num_callbacks' \in Nat
      /\ num_callbacks' = Len(callbacks')
      /\ NoRepetition(callbacks')
      /\ Queued' \subseteq Queued
      /\ token'[d] = "true" => Queued' = Queued \ {d}
      /\ token'[d] # "true" => Queued' = Queued
  <2>0. callbacks \in Seq(Callbacks) /\ NoRepetition(callbacks) /\ num_callbacks = Len(callbacks)
        /\ Len(callbacks) \in Nat
    <3>1. NoRepetition(callbacks)
      BY <1>0, Zenon DEF ListsInv, NoRepetition
    <3> QED   BY <1>0, <3>1, LenProperties DEF TypeOK, CountMatchesList
  <2>1. CASE token'[d] = "true"
    <3>1. PICK i \in 1..Len(callbacks) : callbacks[i] = d /\ callbacks' = RemoveAt(callbacks, i)
      BY <1>4, <2>1
    <3>2. num_callbacks' = num_callbacks - 1
      BY <1>4, <2>1
    <3>3. /\ RemoveAt(callbacks, i) \in Seq(Callbacks)
          /\ Len(RemoveAt(callbacks, i)) = Len(callbacks) - 1
      BY <2>0, RemoveAtProperties
    <3>4. /\ NoRepetition(RemoveAt(callbacks, i))
          /\ ElementsOf(RemoveAt(callbacks, i)) = ElementsOf(callbacks) \ {callbacks[i]}
      BY <2>0, RemoveAtElements
    <3>5. Queued' = Queued \ {d}
      BY <3>1, <3>4 DEF Queued, ElementsOf
    <3>6. num_callbacks' \in Nat /\ num_callbacks' = Len(callbacks')
      BY <2>0, <3>1, <3>2, <3>3
    <3> QED   BY <2>1, <3>1, <3>3, <3>4, <3>5, <3>6
  <2>2. CASE token'[d] # "true"
    <3>1. UNCHANGED <<callbacks, num_callbacks>>
      BY <1>4, <2>2
    <3>2. Queued' = Queued
      BY <3>1 DEF Queued
    <3> QED   BY <1>0, <2>0, <2>2, <3>1, <3>2 DEF TypeOK
  <2> QED   BY <2>1, <2>2
<1>6. TypeOK'
  <2>1. token' \in [Callbacks -> TokenStates]
    BY <1>0, <1>1 DEF TypeOK, CancelLocked, TokenStates
  <2>2. tpc' \in [Threads -> {"idle", "wake", "cancel"}]
        /\ target' \in [Threads -> Callbacks \cup {NoCallback}]
    BY <1>0 DEF TypeOK, CancelLocked
  <2> QED   BY <1>0, <1>2, <1>5, <2>1, <2>2 DEF TypeOK
<1>7. CountMatchesList'
  BY <1>5 DEF CountMatchesList
<1>8. IteratorValid'
  BY <1>0, <1>1, <1>2, <1>4, <1>5 DEF IteratorValid
<1>9. NoSleepOnWork'
  <2>1. callbacks' # <<>> => callbacks # <<>>
    <3>1. callbacks = <<>> => Len(callbacks) = 0
      BY EmptySeq
    <3> QED   BY <1>4, <3>1
  <2>2. \A u \in Threads : tpc[u] = "wake" => tpc'[u] = "wake"
    BY <1>1, <1>2
  <2> QED   BY <1>0, <1>2, <2>1, <2>2 DEF NoSleepOnWork
<1>10. ListsInv'
  <2>1. \A i, j \in 1..Len(callbacks') : callbacks'[i] = callbacks'[j] => i = j
    BY <1>5, Zenon DEF NoRepetition
  <2>2. \A e \in Queued' : stamp'[e] = timestamp' /\ token'[e] # "true"
    BY <1>0, <1>2, <1>3, <1>5 DEF ListsInv
  <2>3. \A e \in Batched' : 0 < stamp'[e] /\ stamp'[e] < timestamp' /\ token'[e] # "true"
    <3>1. \A e \in Batched : 0 < stamp[e] /\ stamp[e] < timestamp /\ token[e] # "true"
      BY <1>0 DEF ListsInv
    <3>2. timestamp = stamp[d] => d \notin Batched
      BY <1>0, <3>1 DEF TypeOK
    <3> QED   BY <1>2, <1>3, <1>4, <3>1, <3>2
  <2>4. \A e \in Callbacks : stamp'[e] <= timestamp' /\ (stamp'[e] = 0 => token'[e] = "none")
    BY <1>0, <1>1, <1>2 DEF ListsInv
  <2>5. \A i, j \in 1..Len(batch') : batch'[i] = batch'[j] => i = j
    BY <1>0, <1>2 DEF ListsInv
  <2> QED   BY <2>1, <2>2, <2>3, <2>4, <2>5 DEF ListsInv
<1>11. CallsInv'
  <2>1. \A u \in Threads : tpc'[u] # "idle" => u # t /\ tpc[u] # "idle" /\ target'[u] = target[u]
                                              /\ target[u] # d
    BY <1>0, <1>1, <1>2 DEF CallsInv
  <2>2. \A u \in Threads : tpc'[u] # "idle" =>
          target'[u] \in Callbacks /\ stamp'[target'[u]] # 0 /\ token'[target'[u]] = "none"
    BY <1>0, <1>2, <2>1 DEF CallsInv
  <2>3. \A u, v \in Threads : tpc'[u] # "idle" /\ tpc'[v] # "idle" /\ target'[u] = target'[v] => u = v
    BY <1>0, <2>1 DEF CallsInv
  <2>4. tpc'[Main] # "idle" => mpc \in {"callback", "update", "handler"}
    BY <1>0, <2>1, CallbackAssumption DEF CallsInv
  <2> QED   BY <1>0, <1>2, <2>2, <2>3, <2>4 DEF CallsInv
<1> QED   BY <1>6, <1>7, <1>8, <1>9, <1>10, <1>11 DEF CallbackInv

(* The steps of the main loop that touch neither list nor counter. *)
LEMMA LoopKeepsInv ==
  ASSUME CallbackInv,
         \/ NeedsUpdate \/ ReadCount \/ CallFront \/ Update
         \/ TakeWakeUp \/ TakeOtherEvent \/ EndHandler
  PROVE  CallbackInv'
<1>0. TypeOK /\ CountMatchesList /\ IteratorValid /\ NoSleepOnWork /\ ListsInv /\ CallsInv
  BY DEF CallbackInv
<1>1. /\ UNCHANGED <<callbacks, num_callbacks, timestamp, batch, tpc, target, stamp, token>>
      /\ mpc' \in MainLabels /\ events' \in Nat
      /\ tpc[Main] = "idle"
      /\ mpc' = "wait" => num_callbacks = 0
      /\ mpc' = "callback" => batch # <<>>
      /\ mpc' \notin {"next", "callback"} => batch = <<>>
  <2>1. CASE NeedsUpdate \/ ReadCount
    BY <1>0, <2>1 DEF NeedsUpdate, ReadCount, listVars, threadVars, MainLabels, TypeOK, CallsInv
  <2>2. CASE CallFront
    BY <1>0, <2>2 DEF CallFront, listVars, threadVars, MainLabels, TypeOK, CallsInv
  <2>3. CASE Update \/ EndHandler
    BY <1>0, <2>3 DEF Update, EndHandler, listVars, threadVars, MainLabels, TypeOK, CallsInv
  <2>4. CASE TakeWakeUp \/ TakeOtherEvent
    BY <1>0, <2>4 DEF TakeWakeUp, TakeOtherEvent, listVars, threadVars, MainLabels, TypeOK, CallsInv
  <2> QED   BY <2>1, <2>2, <2>3, <2>4
<1>2. Queued' = Queued /\ Batched' = Batched
  BY <1>1 DEF Queued, Batched
<1>3. TypeOK'
  BY <1>0, <1>1 DEF TypeOK
<1>4. CountMatchesList' /\ IteratorValid'
  BY <1>0, <1>1, <1>2 DEF CountMatchesList, IteratorValid
<1>5. NoSleepOnWork'
  <2>1. mpc' = "wait" => callbacks = <<>>
    <3>1. callbacks \in Seq(Callbacks) /\ num_callbacks = Len(callbacks)
      BY <1>0 DEF TypeOK, CountMatchesList
    <3> QED   BY <1>1, <3>1, EmptySeq
  <2> QED   BY <1>1, <2>1 DEF NoSleepOnWork
<1>6. ListsInv'
  BY <1>0, <1>1, <1>2 DEF ListsInv
<1>7. CallsInv'
  BY <1>0, <1>1 DEF CallsInv
<1> QED   BY <1>3, <1>4, <1>5, <1>6, <1>7 DEF CallbackInv

(* Swapping the list out makes every token of it too old to cancel. *)
LEMMA SwapKeepsInv ==
  ASSUME CallbackInv, SwapCallbacks
  PROVE  CallbackInv'
<1>0. TypeOK /\ CountMatchesList /\ IteratorValid /\ NoSleepOnWork /\ ListsInv /\ CallsInv
  BY DEF CallbackInv
<1>1. UNCHANGED <<events, tpc, target, stamp, token>> /\ mpc = "swap" /\ batch = <<>>
  BY <1>0 DEF SwapCallbacks, threadVars, CallsInv
<1>2. tpc[Main] = "idle"
  BY <1>0, <1>1, CallbackAssumption DEF CallsInv, TypeOK
<1>3. CASE callbacks = <<>>
  <2>1. UNCHANGED <<callbacks, num_callbacks, timestamp, batch>> /\ mpc' = "update"
    BY <1>3 DEF SwapCallbacks, listVars
  <2>2. Queued' = Queued /\ Batched' = Batched
    BY <2>1 DEF Queued, Batched
  <2>3. TypeOK'
    BY <1>0, <1>1, <2>1 DEF TypeOK, MainLabels
  <2>4. CountMatchesList' /\ IteratorValid' /\ NoSleepOnWork'
    BY <1>0, <1>1, <2>1, <2>2 DEF CountMatchesList, IteratorValid, NoSleepOnWork
  <2>5. ListsInv'
    BY <1>0, <1>1, <2>1, <2>2 DEF ListsInv
  <2>6. CallsInv'
    BY <1>0, <1>1, <1>2, <2>1 DEF CallsInv
  <2> QED   BY <2>3, <2>4, <2>5, <2>6 DEF CallbackInv
<1>4. CASE callbacks # <<>>
  <2>1. /\ batch' = callbacks /\ callbacks' = <<>> /\ timestamp' = timestamp + 1
        /\ num_callbacks' = 0 /\ mpc' = "next"
    BY <1>4 DEF SwapCallbacks
  <2>2. callbacks' \in Seq(Callbacks) /\ Len(callbacks') = 0
    BY <2>1, EmptySeq
  <2>3. Queued' = {} /\ Batched' = Queued
    BY <2>1, <2>2 DEF Queued, Batched
  <2>4. Queued \subseteq Callbacks
    BY <1>0, ElementOfSeq DEF Queued, TypeOK
  <2>5. TypeOK'
    BY <1>0, <1>1, <2>1, <2>2 DEF TypeOK, MainLabels
  <2>6. CountMatchesList' /\ NoSleepOnWork'
    BY <2>1, <2>2 DEF CountMatchesList, NoSleepOnWork
  <2>7. timestamp \in Nat /\ timestamp > 0 /\ \A c \in Callbacks : stamp[c] \in Nat /\ stamp[c] <= timestamp
    BY <1>0 DEF TypeOK, ListsInv
  <2>8. IteratorValid'
    BY <1>1, <2>1, <2>7 DEF IteratorValid
  <2>9. ListsInv'
    <3>1. \A i, j \in 1..Len(callbacks') : callbacks'[i] = callbacks'[j] => i = j
      BY <2>2
    <3>2. \A i, j \in 1..Len(batch') : batch'[i] = batch'[j] => i = j
      BY <1>0, <2>1 DEF ListsInv
    <3>3. \A c \in Batched' : 0 < stamp'[c] /\ stamp'[c] < timestamp' /\ token'[c] # "true"
      BY <1>0, <1>1, <2>1, <2>3, <2>4, <2>7 DEF ListsInv
    <3>4. \A c \in Callbacks : stamp'[c] <= timestamp' /\ (stamp'[c] = 0 => token'[c] = "none")
      BY <1>0, <1>1, <2>1, <2>7 DEF ListsInv
    <3> QED   BY <2>3, <3>1, <3>2, <3>3, <3>4 DEF ListsInv
  <2>10. CallsInv'
    BY <1>0, <1>1, <1>2, <1>4, <2>1 DEF CallsInv
  <2> QED   BY <2>5, <2>6, <2>8, <2>9, <2>10 DEF CallbackInv
<1> QED   BY <1>3, <1>4

(* A callback that has returned leaves the batch. *)
LEMMA PopKeepsInv ==
  ASSUME CallbackInv, PopFront
  PROVE  CallbackInv'
<1>0. TypeOK /\ CountMatchesList /\ IteratorValid /\ NoSleepOnWork /\ ListsInv /\ CallsInv
  BY DEF CallbackInv
<1>1. /\ UNCHANGED <<callbacks, num_callbacks, timestamp, events, tpc, target, stamp, token>>
      /\ batch' = Tail(batch) /\ mpc' = "next" /\ tpc[Main] = "idle" /\ batch # <<>>
  BY <1>0 DEF PopFront, listVars, threadVars, CallsInv
<1>2. batch \in Seq(Callbacks) /\ NoRepetition(batch)
  <2>1. NoRepetition(batch)
    BY <1>0, Zenon DEF ListsInv, NoRepetition
  <2> QED   BY <1>0, <2>1 DEF TypeOK
<1>3. NoRepetition(batch') /\ Batched' \subseteq Batched /\ Queued' = Queued
  <2>1. NoRepetition(Tail(batch)) /\ ElementsOf(Tail(batch)) = ElementsOf(batch) \ {Head(batch)}
    BY <1>1, <1>2, PopElements
  <2> QED   BY <1>1, <2>1 DEF Batched, Queued, ElementsOf
<1>4. batch' \in Seq(Callbacks)
  BY <1>1, <1>2, HeadTailProperties
<1>5. TypeOK'
  BY <1>0, <1>1, <1>4 DEF TypeOK, MainLabels
<1>6. CountMatchesList' /\ IteratorValid' /\ NoSleepOnWork'
  BY <1>0, <1>1, <1>3 DEF CountMatchesList, IteratorValid, NoSleepOnWork
<1>7. ListsInv'
  <2>1. \A i, j \in 1..Len(batch') : batch'[i] = batch'[j] => i = j
    BY <1>3, Zenon DEF NoRepetition
  <2> QED   BY <1>0, <1>1, <1>3, <2>1 DEF ListsInv
<1>8. CallsInv'
  BY <1>0, <1>1 DEF CallsInv
<1> QED   BY <1>5, <1>6, <1>7, <1>8 DEF CallbackInv

(* The scheduler's counter is the length of its list, a token whose        *)
(* timestamp is current refers to an entry of the list, no callback is     *)
(* lost to a sleeping main thread and no cancelled one is run: for any     *)
(* number of threads and callbacks.                                        *)
THEOREM CallbacksCorrect ==
  Spec => []CallbackInv
          /\ [](CountMatchesList /\ IteratorValid /\ NoSleepOnWork /\ CancelledNeverRuns)
<1>1. Init => CallbackInv
  BY InitInv
<1>2. CallbackInv /\ [Next]_vars => CallbackInv'
  <2> SUFFICES ASSUME CallbackInv, [Next]_vars PROVE CallbackInv'
    OBVIOUS
  <2>1. CASE \E t \in Threads : CallStep(t)
    <3>1. PICK t \in Threads : WakeUp(t) \/ CancelLocked(t)
      BY <2>1 DEF CallStep
    <3>2. CASE WakeUp(t)
      <4>1. target[t] \in Callbacks
        BY <3>2 DEF WakeUp, CallbackInv, CallsInv
      <4> QED   BY <3>2, <4>1, UnlockedKeepsInv
    <3> QED   BY <3>1, <3>2, CancelKeepsInv
  <2>2. CASE \E t \in Threads, c \in Callbacks : Post(t, c) \/ CancelCheck(t, c)
    BY <2>2, PostKeepsInv, UnlockedKeepsInv
  <2>3. CASE MainStep \/ TakeOtherEvent
    BY <2>3, LoopKeepsInv, SwapKeepsInv, PopKeepsInv DEF MainStep
  <2>4. CASE UNCHANGED vars
    BY <2>4 DEF vars, CallbackInv, TypeOK, CountMatchesList, IteratorValid, NoSleepOnWork,
                ListsInv, CallsInv, Queued, Batched
  <2> QED   BY <2>1, <2>2, <2>3, <2>4 DEF Next
<1>3. CallbackInv => CountMatchesList /\ IteratorValid /\ NoSleepOnWork /\ CancelledNeverRuns
  BY DEF CallbackInv, ListsInv, CancelledNeverRuns
<1> QED   BY <1>1, <1>2, <1>3, PTL DEF Spec

-----------------------------------------------------------------------------
(* A step that keeps the queue, the running callback and what Fate looks   *)
(* at is invisible to the users of the queue.                              *)
LEMMA QueueStutters ==
  ASSUME Waiting' = Waiting, Running' = Running,
         (Queued \cup Batched)' = Queued \cup Batched, stamp' = stamp,
         \A c \in Callbacks : token'[c] = "true" <=> token[c] = "true"
  PROVE  UNCHANGED Queue!queueVars
<1>1. \A c \in Callbacks : Fate(c)' = Fate(c)
  BY DEF Fate
<1>2. [c \in Callbacks |-> Fate(c)]' = [c \in Callbacks |-> Fate(c)]
  BY <1>1
<1> QED   BY <1>2 DEF Queue!queueVars

(* Both parts of the waiting queue are queues of callbacks. *)
LEMMA WaitingType ==
  ASSUME CallbackInv
  PROVE  /\ Unstarted \in Seq(Callbacks) /\ callbacks \in Seq(Callbacks)
         /\ Waiting \in Seq(Callbacks)
<1>1. batch \in Seq(Callbacks) /\ callbacks \in Seq(Callbacks) /\ (mpc = "callback" => batch # <<>>)
  BY DEF CallbackInv, TypeOK, CallsInv
<1>2. Unstarted \in Seq(Callbacks)
  BY <1>1, HeadTailProperties DEF Unstarted
<1> QED   BY <1>1, <1>2, ConcatProperties DEF Waiting

(* The callback that is running is the front of the batch. *)
LEMMA FrontIsBatched ==
  ASSUME CallbackInv
  PROVE  mpc = "callback" => Head(batch) \in Batched
<1>1. batch \in Seq(Callbacks) /\ (mpc = "callback" => batch # <<>>)
  BY DEF CallbackInv, TypeOK, CallsInv
<1>2. batch # <<>> => Len(batch) >= 1 /\ Head(batch) = batch[1]
  BY <1>1, EmptySeq
<1>3. mpc = "callback" => 1 \in 1..Len(batch)
  BY <1>1, <1>2, LenProperties
<1> QED   BY <1>1, <1>2, <1>3 DEF Batched

(* execute_callback() queues the callback last. *)
LEMMA PostImplements ==
  ASSUME CallbackInv, CallbackInv', NEW t \in Threads, NEW c \in Callbacks, Post(t, c)
  PROVE  Queue!Post(c)
<1>1. /\ UNCHANGED <<batch, mpc, token>> /\ callbacks' = Append(callbacks, c)
      /\ stamp[c] = 0 /\ stamp'[c] = timestamp /\ timestamp # 0
      /\ \A d \in Callbacks \ {c} : stamp'[d] = stamp[d]
      /\ token[c] = "none"
  BY DEF Post, CallbackInv, TypeOK, ListsInv
<1>2. Unstarted' = Unstarted /\ Running' = Running /\ Batched' = Batched
  BY <1>1 DEF Unstarted, Running, Batched
<1>3. Waiting' = Append(Waiting, c)
  <2>1. Append(callbacks, c) = callbacks \o <<c>> /\ <<c>> \in Seq(Callbacks)
    BY WaitingType, AppendIsConcat
  <2>2. (Unstarted \o callbacks) \o <<c>> = Unstarted \o (callbacks \o <<c>>)
    BY <2>1, WaitingType, ConcatAssociative
  <2>3. Append(Waiting, c) = Waiting \o <<c>>
    BY WaitingType, AppendIsConcat
  <2> QED   BY <1>1, <1>2, <2>1, <2>2, <2>3 DEF Waiting
<1>4. Queued' = Queued \cup {c}
  <2>1. NoRepetition(callbacks) /\ callbacks \in Seq(Callbacks) /\ c \notin ElementsOf(callbacks)
    <3>1. \A d \in Queued : stamp[d] = timestamp
      BY DEF CallbackInv, ListsInv
    <3>2. c \notin Queued
      BY <1>1, <3>1
    <3>3. NoRepetition(callbacks)
      BY Zenon DEF CallbackInv, ListsInv, NoRepetition
    <3> QED   BY <3>2, <3>3, WaitingType DEF Queued, ElementsOf
  <2>2. ElementsOf(Append(callbacks, c)) = ElementsOf(callbacks) \cup {c}
    BY <2>1, AppendElements
  <2> QED   BY <1>1, <2>2 DEF Queued, ElementsOf
<1>5. Running # c
  <2>1. \A d \in Batched : stamp[d] # 0
    BY DEF CallbackInv, ListsInv
  <2> QED   BY <1>1, <2>1, FrontIsBatched, CallbackAssumption DEF Running
<1>6. Fate(c) = "new" /\ Fate(c)' = "waiting"
  BY <1>1, <1>2, <1>4, <1>5 DEF Fate
<1>7. \A d \in Callbacks \ {c} : Fate(d)' = Fate(d)
  BY <1>1, <1>2, <1>4 DEF Fate
<1>8. [d \in Callbacks |-> Fate(d)]' = [[d \in Callbacks |-> Fate(d)] EXCEPT ![c] = "waiting"]
  BY <1>6, <1>7
<1> QED   BY <1>2, <1>3, <1>6, <1>8 DEF Queue!Post

(* The critical section of cancel() takes its callback out of the queue, or *)
(* changes nothing that the users see.                                      *)
LEMMA CancelImplements ==
  ASSUME CallbackInv, NEW t \in Threads, CancelLocked(t)
  PROVE  Queue!Cancel(target[t]) \/ UNCHANGED Queue!queueVars
<1>0. PICK d \in Callbacks : d = target[t]
  BY DEF CancelLocked, CallbackInv, CallsInv
<1>1. /\ d \in Callbacks /\ stamp[d] # 0 /\ token[d] = "none"
      /\ UNCHANGED <<timestamp, batch, mpc, stamp>>
      /\ \A e \in Callbacks \ {d} : token'[e] = token[e]
  BY <1>0 DEF CancelLocked, CallbackInv, CallsInv, TypeOK
<1>2. Unstarted' = Unstarted /\ Running' = Running /\ Batched' = Batched
  BY <1>1 DEF Unstarted, Running, Batched
<1>3. CASE timestamp # stamp[d]
  <2>1. callbacks' = callbacks /\ token'[d] = "false"
    BY <1>0, <1>1, <1>3 DEF CancelLocked, CallbackInv, TypeOK
  <2>2. Waiting' = Waiting /\ Queued' = Queued
    BY <1>2, <2>1 DEF Waiting, Queued
  <2>3. \A c \in Callbacks : token'[c] = "true" <=> token[c] = "true"
    BY <1>1, <2>1
  <2>4. UNCHANGED Queue!queueVars
    BY <1>1, <1>2, <2>2, <2>3, QueueStutters
  <2> QED   BY <2>4
<1>4. CASE timestamp = stamp[d]
  <2>1. PICK i \in 1..Len(callbacks) : callbacks[i] = d /\ callbacks' = RemoveAt(callbacks, i)
    BY <1>0, <1>4 DEF CancelLocked, EraseTarget
  <2>2. token'[d] = "true"
    BY <1>0, <1>1, <1>4 DEF CancelLocked, CallbackInv, TypeOK
  <2>3. /\ Len(Unstarted) + i \in 1..Len(Waiting)
        /\ Waiting[Len(Unstarted) + i] = d
        /\ Waiting' = RemoveAt(Waiting, Len(Unstarted) + i)
    <3>1. /\ Len(Unstarted) + i \in 1..Len(Unstarted \o callbacks)
          /\ (Unstarted \o callbacks)[Len(Unstarted) + i] = callbacks[i]
          /\ RemoveAt(Unstarted \o callbacks, Len(Unstarted) + i) = Unstarted \o RemoveAt(callbacks, i)
      BY WaitingType, RemoveFromConcat
    <3> QED   BY <1>2, <2>1, <3>1 DEF Waiting
  <2>4. Queued' = Queued \ {d} /\ d \in Queued
    <3>1. NoRepetition(callbacks)
      BY Zenon DEF CallbackInv, ListsInv, NoRepetition
    <3>2. ElementsOf(RemoveAt(callbacks, i)) = ElementsOf(callbacks) \ {callbacks[i]}
      BY <3>1, WaitingType, RemoveAtElements
    <3> QED   BY <2>1, <3>2 DEF Queued, ElementsOf
  <2>5. d \notin Batched
    <3>1. \A e \in Batched : stamp[e] < timestamp
      BY DEF CallbackInv, ListsInv
    <3>2. timestamp \in Nat
      BY DEF CallbackInv, TypeOK
    <3> QED   BY <1>4, <3>1, <3>2
  <2>6. Running # d
    BY <1>1, <2>5, FrontIsBatched, CallbackAssumption DEF Running
  <2>7. Fate(d) = "waiting" /\ Fate(d)' = "cancelled"
    BY <1>1, <2>2, <2>4, <2>6 DEF Fate
  <2>8. \A e \in Callbacks \ {d} : Fate(e)' = Fate(e)
    BY <1>1, <1>2, <2>4 DEF Fate
  <2>9. [e \in Callbacks |-> Fate(e)]' = [[e \in Callbacks |-> Fate(e)] EXCEPT ![d] = "cancelled"]
    BY <2>7, <2>8
  <2>10. Queue!Cancel(d)
    BY <1>1, <1>2, <2>3, <2>7, <2>9 DEF Queue!Cancel, Queue!RemoveAt, RemoveAt
  <2> QED   BY <1>0, <2>10
<1> QED   BY <1>3, <1>4

(* A step of the main loop begins or ends a callback, or is invisible. *)
LEMMA MainImplements ==
  ASSUME CallbackInv, CallbackInv', MainStep \/ TakeOtherEvent
  PROVE  Queue!Start \/ Queue!Finish \/ UNCHANGED Queue!queueVars
<1>0. /\ batch \in Seq(Callbacks) /\ callbacks \in Seq(Callbacks)
      /\ (mpc = "callback" => batch # <<>>)
      /\ (mpc \notin {"next", "callback"} => batch = <<>>)
  BY DEF CallbackInv, TypeOK, CallsInv
<1>a. batch # <<>> => Head(batch) \in Batched /\ Head(batch) \in Callbacks
  <2>1. batch # <<>> => Len(batch) >= 1 /\ Head(batch) = batch[1] /\ Head(batch) \in Callbacks
    BY <1>0, EmptySeq, HeadTailProperties
  <2>2. batch # <<>> => 1 \in 1..Len(batch)
    BY <1>0, <2>1, LenProperties
  <2> QED   BY <2>1, <2>2 DEF Batched
<1>b. \A c \in Batched : stamp[c] # 0 /\ token[c] # "true" /\ c \notin Queued
  <2>1. \A c \in Batched : 0 < stamp[c] /\ stamp[c] < timestamp /\ token[c] # "true"
    BY DEF CallbackInv, ListsInv
  <2>2. \A c \in Queued : stamp[c] = timestamp
    BY DEF CallbackInv, ListsInv
  <2>3. timestamp \in Nat
    BY DEF CallbackInv, TypeOK
  <2> QED   BY <2>1, <2>2, <2>3
<1>1. CASE NeedsUpdate \/ ReadCount \/ Update \/ TakeWakeUp \/ TakeOtherEvent \/ EndHandler
  <2>1. UNCHANGED <<callbacks, batch, stamp, token>> /\ mpc # "callback" /\ mpc' # "callback"
    BY <1>1 DEF NeedsUpdate, ReadCount, Update, TakeWakeUp, TakeOtherEvent, EndHandler,
                listVars, threadVars
  <2>2. Waiting' = Waiting /\ Running' = Running /\ Queued' = Queued /\ Batched' = Batched
    BY <2>1 DEF Waiting, Unstarted, Running, Queued, Batched
  <2>3. UNCHANGED Queue!queueVars
    BY <2>1, <2>2, QueueStutters
  <2> QED   BY <2>3
<1>2. CASE SwapCallbacks
  <2>1. UNCHANGED <<stamp, token>> /\ mpc # "callback" /\ mpc' # "callback" /\ batch = <<>>
        /\ \/ UNCHANGED <<callbacks, batch>>
           \/ batch' = callbacks /\ callbacks' = <<>>
    BY <1>0, <1>2 DEF SwapCallbacks, listVars, threadVars
  <2>2. Running' = Running
    BY <2>1 DEF Running
  <2>3. Waiting' = Waiting
    <3>1. callbacks \o <<>> = callbacks /\ <<>> \o callbacks = callbacks
      BY <1>0, ConcatEmptySeq
    <3> QED   BY <2>1, <3>1 DEF Waiting, Unstarted
  <2>4. (Queued \cup Batched)' = Queued \cup Batched
    <3>1. Len(<<>>) = 0
      BY EmptySeq
    <3>2. 1..0 = {}
      OBVIOUS
    <3> QED   BY <2>1, <3>1, <3>2 DEF Queued, Batched
  <2>5. UNCHANGED Queue!queueVars
    BY <2>1, <2>2, <2>3, <2>4, QueueStutters
  <2> QED   BY <2>5
<1>3. CASE CallFront
  <2>1. UNCHANGED <<callbacks, batch, stamp, token>> /\ mpc = "next"
        /\ Queued' = Queued /\ Batched' = Batched
    BY <1>3 DEF CallFront, listVars, threadVars, Queued, Batched
  <2>2. CASE batch = <<>>
    <3>1. mpc' = "update"
      BY <1>3, <2>2 DEF CallFront
    <3>2. Waiting' = Waiting /\ Running' = Running
      BY <2>1, <3>1 DEF Waiting, Unstarted, Running
    <3>3. UNCHANGED Queue!queueVars
      BY <2>1, <3>2, QueueStutters
    <3> QED   BY <3>3
  <2>3. CASE batch # <<>>
    <3>1. mpc' = "callback"
      BY <1>3, <2>3 DEF CallFront
    <3>2. PICK h \in Callbacks : h = Head(batch)
      BY <1>a, <2>3
    <3>3. Waiting # <<>> /\ Head(Waiting) = h /\ Tail(Waiting) = Tail(batch) \o callbacks
      <4>1. /\ batch \o callbacks # <<>> /\ Head(batch \o callbacks) = Head(batch)
            /\ Tail(batch \o callbacks) = Tail(batch) \o callbacks
        BY <1>0, <2>3, TailOfConcat
      <4> QED   BY <2>1, <3>2, <4>1 DEF Waiting, Unstarted
    <3>4. Waiting' = Tail(Waiting) /\ Running = NoCallback /\ Running' = h
      BY <2>1, <3>1, <3>2, <3>3 DEF Waiting, Unstarted, Running
    <3>5. Fate(h)' = "running"
      BY <1>a, <1>b, <2>1, <2>3, <3>2, <3>4 DEF Fate
    <3>6. \A c \in Callbacks \ {h} : Fate(c)' = Fate(c)
      BY <2>1, <3>4, CallbackAssumption DEF Fate
    <3>7. [c \in Callbacks |-> Fate(c)]'
             = [[c \in Callbacks |-> Fate(c)] EXCEPT ![Head(Waiting)] = "running"]
      BY <3>3, <3>5, <3>6
    <3>8. Queue!Start
      BY <3>3, <3>4, <3>7 DEF Queue!Start
    <3> QED   BY <3>8
  <2> QED   BY <2>2, <2>3
<1>4. CASE PopFront
  <2>1. UNCHANGED <<callbacks, stamp, token>> /\ mpc = "callback" /\ mpc' = "next"
        /\ batch' = Tail(batch) /\ batch # <<>>
    BY <1>0, <1>4 DEF PopFront, listVars, threadVars
  <2>2. PICK h \in Callbacks : h = Head(batch)
    BY <1>a, <2>1
  <2>3. Queued' = Queued /\ Batched' = Batched \ {h}
    <3>1. NoRepetition(batch)
      BY Zenon DEF CallbackInv, ListsInv, NoRepetition
    <3>2. ElementsOf(Tail(batch)) = ElementsOf(batch) \ {Head(batch)}
      BY <1>0, <2>1, <3>1, PopElements
    <3> QED   BY <2>1, <2>2, <3>2 DEF Queued, Batched, ElementsOf
  <2>4. Waiting' = Waiting /\ Running = h /\ Running' = NoCallback
    BY <2>1, <2>2 DEF Waiting, Unstarted, Running
  <2>5. Fate(h)' = "done"
    <3>1. stamp[h] # 0 /\ token[h] # "true" /\ h \notin Queued
      BY <1>a, <1>b, <2>1, <2>2
    <3> QED   BY <2>1, <2>3, <2>4, <3>1, CallbackAssumption DEF Fate
  <2>6. \A c \in Callbacks \ {h} : Fate(c)' = Fate(c)
    BY <2>1, <2>3, <2>4, CallbackAssumption DEF Fate
  <2>7. [c \in Callbacks |-> Fate(c)]'
           = [[c \in Callbacks |-> Fate(c)] EXCEPT ![Running] = "done"]
    BY <2>4, <2>5, <2>6
  <2>8. Queue!Finish
    BY <2>4, <2>7, CallbackAssumption DEF Queue!Finish
  <2> QED   BY <2>8
<1> QED   BY <1>1, <1>2, <1>3, <1>4 DEF MainStep

(* For any number of threads the scheduler implements the abstract queue:  *)
(* callbacks start in the order in which they were posted, each at most    *)
(* once, one at a time, and never after they have been cancelled.          *)
THEOREM ImplementsCallbackQueue == Spec => QueueSpec
<1>1. Init => Queue!Init
  <2> SUFFICES ASSUME Init PROVE Queue!Init
    OBVIOUS
  <2>1. Waiting = <<>>
    <3>1. <<>> \o <<>> = <<>>
      BY EmptySeq, ConcatEmptySeq
    <3> QED   BY <3>1 DEF Init, Waiting, Unstarted
  <2>2. Running = NoCallback /\ \A c \in Callbacks : Fate(c) = "new"
    BY DEF Init, Running, Fate
  <2> QED   BY <2>1, <2>2 DEF Queue!Init
<1>2. CallbackInv /\ CallbackInv' /\ [Next]_vars => [Queue!Next]_(Queue!queueVars)
  <2> SUFFICES ASSUME CallbackInv, CallbackInv', [Next]_vars
               PROVE  Queue!Next \/ UNCHANGED Queue!queueVars
    OBVIOUS
  <2>1. ASSUME NEW t \in Threads, NEW c \in Callbacks, Post(t, c)
        PROVE  Queue!Next
    BY <2>1, PostImplements DEF Queue!Next
  <2>2. ASSUME NEW t \in Threads, CancelLocked(t)
        PROVE  Queue!Next \/ UNCHANGED Queue!queueVars
    <3>1. target[t] \in Callbacks
      BY <2>2 DEF CancelLocked, CallbackInv, CallsInv
    <3> QED   BY <2>2, <3>1, CancelImplements DEF Queue!Next
  <2>3. ASSUME NEW t \in Threads, WakeUp(t) \/ \E c \in Callbacks : CancelCheck(t, c)
        PROVE  UNCHANGED Queue!queueVars
    <3>1. UNCHANGED <<callbacks, batch, mpc, stamp>>
      BY <2>3 DEF WakeUp, CancelCheck, listVars
    <3>2. \A c \in Callbacks : token'[c] = "true" <=> token[c] = "true"
      BY <2>3 DEF WakeUp, CancelCheck, CallbackInv, TypeOK, CallsInv
    <3>3. Waiting' = Waiting /\ Running' = Running /\ Queued' = Queued /\ Batched' = Batched
      BY <3>1 DEF Waiting, Unstarted, Running, Queued, Batched
    <3> QED   BY <3>1, <3>2, <3>3, QueueStutters
  <2>4. CASE MainStep \/ TakeOtherEvent
    BY <2>4, MainImplements DEF Queue!Next
  <2>5. CASE UNCHANGED vars
    <3>1. UNCHANGED <<callbacks, batch, mpc, stamp, token>>
      BY <2>5 DEF vars
    <3>2. Waiting' = Waiting /\ Running' = Running /\ Queued' = Queued /\ Batched' = Batched
      BY <3>1 DEF Waiting, Unstarted, Running, Queued, Batched
    <3> QED   BY <3>1, <3>2, QueueStutters
  <2> QED   BY <2>1, <2>2, <2>3, <2>4, <2>5 DEF Next, CallStep
<1>3. Spec => []CallbackInv
  BY CallbacksCorrect, PTL
<1> QED   BY <1>1, <1>2, <1>3, PTL DEF Spec, QueueSpec, Queue!Spec

=============================================================================
