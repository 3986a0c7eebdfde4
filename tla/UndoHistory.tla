---------------------------- MODULE UndoHistory ----------------------------
(***************************************************************************)
(* What the undo and redo commands promise: the buffer has passed through  *)
(* versions; undo and redo move between them and change none, and an edit  *)
(* forgets those that were undone.                                         *)
(***************************************************************************)
EXTENDS Naturals, Sequences

CONSTANT Text

VARIABLES
  versions,  \* the versions of the text, oldest first
  current    \* which one is in the buffer

vars == <<versions, current>>

Init ==
  /\ current = 1
  /\ versions \in [1..1 -> Text]

Edit ==
  /\ current' = current + 1
  /\ Len(versions') = current + 1
  /\ SubSeq(versions', 1, current) = SubSeq(versions, 1, current)
  /\ versions'[current + 1] \in Text

Undo == current > 1 /\ current' = current - 1 /\ UNCHANGED versions
Redo == current < Len(versions) /\ current' = current + 1 /\ UNCHANGED versions

Next == Edit \/ Undo \/ Redo

Spec == Init /\ [][Next]_vars
=============================================================================
