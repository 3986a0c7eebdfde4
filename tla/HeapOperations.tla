--------------------------- MODULE HeapOperations ---------------------------
(***************************************************************************)
(* Every heap of at most MaxSize elements with keys up to MaxKey, and one  *)
(* operation on it.  Elements are numbered by their positions in the heap  *)
(* that is started from; every such array is the result of pushing its     *)
(* elements in order.                                                      *)
(***************************************************************************)
EXTENDS IntrusivePriorityQueue, SequencesExt

CONSTANTS MaxSize, MaxKey

VARIABLES queue, index, key, done

vars == <<queue, index, key, done>>

Init ==
  /\ \E n \in 0..MaxSize :
       /\ queue = [i \in 1..n |-> i]
       /\ index = [i \in 1..n + 1 |-> i]
       /\ key \in [1..n + 1 -> 0..MaxKey]
  /\ HeapOrdered(queue, key)
  /\ done = FALSE

Apply(result) ==
  /\ queue' = result.array
  /\ index' = Notified(index, result)
  /\ done' = TRUE

PushNew == ~done /\ Apply(Push(queue, key, Len(queue) + 1)) /\ UNCHANGED key
EraseAny == ~done /\ (\E i \in 1..Len(queue) : Apply(EraseAt(queue, key, i))) /\ UNCHANGED key
DelayAny ==
  /\ ~done
  /\ \E i \in 1..Len(queue), k \in 0..MaxKey :
       /\ k >= key[i]
       /\ key' = [key EXCEPT ![i] = k]
       /\ Apply(AdjustDown(queue, key', i))

Next == PushNew \/ EraseAny \/ DelayAny

Spec == Init /\ [][Next]_vars

(* "Heap integrity compromised" is never reported: push, erase at any      *)
(* place and a later key leave every element at or after its parent; every *)
(* element that changed its place was told so, and nothing is lost or      *)
(* duplicated: the elements are those before, with the one that was pushed *)
(* or without the one that was erased.                                     *)
HeapKept ==
  /\ [](/\ HeapOrdered(queue, key)
        /\ \A i \in 1..Len(queue) : index[queue[i]] = i)
  /\ [][/\ IsInjective(queue')
        /\ \/ ToSet(queue') = ToSet(queue)
           \/ Len(queue') = Len(queue) + 1 /\ ToSet(queue) \subseteq ToSet(queue')
           \/ Len(queue') = Len(queue) - 1 /\ ToSet(queue') \subseteq ToSet(queue)]_vars
=============================================================================
