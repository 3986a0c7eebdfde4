----------------------- MODULE IntrusivePriorityQueue -----------------------
(***************************************************************************)
(* The heap of include/codepad/core/intrusive_priority_queue.h as          *)
(* operators on sequences: element q[1] has the least key.  A key function *)
(* stands for the comparison.  Every operator returns the new array and    *)
(* the positions whose elements were sent _on_position_changed().          *)
(***************************************************************************)
EXTENDS Naturals, Sequences

Parent(i) == i \div 2
LeftChild(i) == 2 * i

(* What a chain of swaps amounts to: e lands at dest, and each position k   *)
(* that it has passed takes the element that was at moved[k].               *)
Shift(q, e, chain) ==
  [array |-> [k \in 1..Len(q) |->
                IF k = chain.dest THEN e
                ELSE IF k \in DOMAIN chain.moved THEN q[chain.moved[k]] ELSE q[k]],
   notified |-> DOMAIN chain.moved \cup {chain.dest}]

EndsAt(j) == [dest |-> j, moved |-> <<>>]
MovesOn(j, source, rest) ==
  [dest |-> rest.dest,
   moved |-> [k \in {j} \cup DOMAIN rest.moved |-> IF k = j THEN source ELSE rest.moved[k]]]

(* _adjust_element_up() *)
AdjustUp(q, key, i) ==
  LET up[j \in 1..Len(q)] ==
        IF j = 1 \/ key[q[Parent(j)]] <= key[q[i]]
          THEN EndsAt(j)
          ELSE MovesOn(j, Parent(j), up[Parent(j)])
  IN  Shift(q, q[i], up[i])

(* The child that _adjust_element_down() compares with: the right one only  *)
(* if it is not after the left one.                                         *)
NextChild(q, key, j) ==
  LET l == LeftChild(j)
  IN  IF l + 1 <= Len(q) /\ key[q[l + 1]] <= key[q[l]] THEN l + 1 ELSE l

(* _adjust_element_down() *)
AdjustDown(q, key, i) ==
  LET down[j \in 1..Len(q)] ==
        IF LeftChild(j) > Len(q) \/ key[q[i]] <= key[q[NextChild(q, key, j)]]
          THEN EndsAt(j)
          ELSE MovesOn(j, NextChild(q, key, j), down[NextChild(q, key, j)])
  IN  Shift(q, q[i], down[i])

(* push() and emplace() *)
Push(q, key, e) == AdjustUp(Append(q, e), key, Len(q) + 1)

(* Mutant of EraseAt: the element moved into the gap is only moved down.   *)
EraseOnlyDown(q, key, i) ==
  LET last == Len(q)
      cut == SubSeq([q EXCEPT ![i] = q[last]], 1, last - 1)
  IN  IF i = last THEN [array |-> cut, notified |-> {}] ELSE AdjustDown(cut, key, i)

(* erase(), and pop() at 1: the last element takes the place, and is moved  *)
(* down, or up when it could not be moved down.                             *)
EraseAt(q, key, i) ==
  LET last == Len(q)
      cut == SubSeq([q EXCEPT ![i] = q[last]], 1, last - 1)
      down == AdjustDown(cut, key, i)
  IN  IF i = last THEN [array |-> cut, notified |-> {}]
      ELSE IF down.array = cut THEN AdjustUp(cut, key, i)
      ELSE down

(* _verify_integrity() *)
HeapOrdered(q, key) == \A i \in 2..Len(q) : key[q[Parent(i)]] <= key[q[i]]

(* What _on_position_changed() leaves in the indices of the elements. *)
Notified(index, result) ==
  [e \in DOMAIN index |->
     IF \E k \in result.notified : result.array[k] = e
       THEN CHOOSE k \in result.notified : result.array[k] = e
       ELSE index[e]]
=============================================================================
