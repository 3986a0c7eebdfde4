------------------------------- MODULE Buffer -------------------------------
(***************************************************************************)
(* Editing a codepad::editors::buffer through its modifier: an edit is a   *)
(* sequence of modifications at increasing positions, which are recorded,  *)
(* undone and redone as one.  Positions are shifted by the sum of what the *)
(* modifications before have added and removed, a std::size_t that wraps.  *)
(* The bytes are a plain sequence here; ChunkedBytes shows that the chunks *)
(* behave like one.                                                        *)
(***************************************************************************)
EXTENDS Integers, Sequences, SequencesExt

CONSTANTS
  InitialTexts,  \* contents of the file that is opened
  Inserts,       \* what may be typed or pasted
  InputBytes,    \* how many bytes the binary editor may overwrite at a caret; 0 if it is not used
  WordSize,      \* 2^64
  MaxEdits, MaxCarets, MaxLength

ASSUME BufferAssumption ==
  /\ WordSize \in Nat /\ MaxLength \in Nat /\ WordSize > 2 * MaxLength
  /\ MaxEdits \in Nat /\ MaxCarets \in Nat
  /\ InputBytes \subseteq Nat
  /\ \A t \in InitialTexts : t \in Seq(ToSet(t)) /\ Len(t) <= MaxLength
  /\ \A t \in Inserts : t \in Seq(ToSet(t))

VARIABLES
  text,       \* the bytes
  history,    \* _history
  curedit,    \* _curedit
  type,       \* modifier::_type, "none" between edits
  mods,       \* modifier::_edt
  positions,  \* modifier::_pos
  diff,       \* modifier::_diff
  next,       \* where in the old text the next caret may be, or which modification is next
  width,      \* bytes that the binary editor overwrites at each caret, 0 in the text editor
  typed,      \* what is inserted, or written over, at each caret
  base,       \* the text before the edit (auxiliary)
  origin      \* for every byte its place in base, 0 if it was inserted (auxiliary)

vars == <<text, history, curedit, type, mods, positions, diff, next, width, typed, base, origin>>

UpTo(s, i) == SubSeq(s, 1, i)
Splice(s, pos, len, bytes) == UpTo(s, pos) \o bytes \o SubSeq(s, pos + len + 1, Len(s))
Wrapped(n) == n % WordSize
Bytes == UNION {ToSet(t) : t \in InitialTexts \cup Inserts}

Init ==
  /\ text \in InitialTexts
  /\ history = <<>> /\ curedit = 0
  /\ type = "none" /\ mods = <<>> /\ positions = <<>> /\ diff = 0
  /\ next = 0 /\ width = 0 /\ typed = <<>>
  /\ base = text /\ origin = [i \in DOMAIN text |-> i]

-----------------------------------------------------------------------------
(* modifier::begin() *)
Begin(t) ==
  /\ type = "none"
  /\ type' = t
  /\ UNCHANGED <<text, history, mods, positions, diff, base, origin>>

(* The edit is over and its modifier gone. *)
Over ==
  /\ type' = "none"
  /\ mods' = <<>> /\ positions' = <<>> /\ diff' = 0
  /\ next' = 0 /\ width' = 0 /\ typed' = <<>>
  /\ base' = text
  /\ origin' = [i \in DOMAIN text |-> i]
  /\ UNCHANGED text

(* What modify_nofixup(), _undo_modification() and _redo_modification() do *)
(* to the bytes, to _diff and to _pos.                                     *)
Change(pos, removed, added) ==
  /\ text' = Splice(text, pos, Len(removed), added)
  /\ origin' = Splice(origin, pos, Len(removed), [i \in DOMAIN added |-> 0])
  /\ diff' = Wrapped(diff + Len(added) - Len(removed))
  /\ positions' = Append(positions, [position |-> pos, removed |-> Len(removed), added |-> Len(added)])
  /\ UNCHANGED <<type, width, typed, base, history, curedit>>

(* modify_nofixup(): what is removed is kept for undoing. *)
ModifyNoFixup(pos, len, added) ==
  LET removed == SubSeq(text, pos + 1, pos + len)
  IN  /\ Len(text) - len + Len(added) <= MaxLength
      /\ Change(pos, removed, added)
      /\ mods' = Append(mods, [position |-> pos, removed |-> removed, added |-> added])

BeginNormal(n, bytes) ==
  /\ Len(UpTo(history, curedit)) < MaxEdits
  /\ Begin("normal")
  /\ next' = 0 /\ width' = n /\ typed' = bytes
  /\ UNCHANGED curedit

Typing == type = "normal" /\ Len(mods) < MaxCarets

(* modify(): the text editor removes what is selected and inserts the same *)
(* bytes at all carets, which neither overlap nor coincide.                *)
Modify(pos, len) ==
  /\ Typing /\ width = 0
  /\ pos >= next /\ pos + len <= Len(base)
  /\ next' = pos + (IF len = 0 THEN 1 ELSE len)
  /\ ModifyNoFixup(Wrapped(pos + diff), len, typed)

(* binary::contents_region::on_text_input() in overwrite mode: every caret *)
(* writes `width' bytes over those that follow it.                         *)
Overwrite(caret) ==
  /\ Typing /\ width > 0
  /\ caret >= next /\ caret <= Len(base)
  /\ next' = caret + 1
  /\ LET pos == Wrapped(caret + diff)
         len == IF pos + width <= Len(text) THEN width ELSE Len(text) - pos
     IN  ModifyNoFixup(pos, len, [i \in 1..width |-> typed[1]])

(* Mutant of End: the edits that were undone stay. *)
EndKeepsUndone ==
  /\ type = "normal" /\ mods # <<>>
  /\ history' = UpTo(history, curedit) \o <<mods>> \o SubSeq(history, curedit + 1, Len(history))
  /\ curedit' = curedit + 1
  /\ Over

(* modifier::end() with _append_edit() *)
End ==
  /\ type = "normal" /\ mods # <<>>
  /\ history' = Append(UpTo(history, curedit), mods)
  /\ curedit' = curedit + 1
  /\ Over

-----------------------------------------------------------------------------
(* modifier::undo(), called if can_undo(). *)
BeginUndo ==
  /\ curedit > 0
  /\ Begin("undo")
  /\ curedit' = curedit - 1
  /\ next' = 1 /\ width' = 0 /\ typed' = <<>>

Steps == history[curedit + 1]

(* Mutant of UndoStep: the recorded position is used as it is. *)
UndoStepNotShifted ==
  /\ type = "undo" /\ next <= Len(Steps)
  /\ Change(Steps[next].position, Steps[next].added, Steps[next].removed)
  /\ next' = next + 1
  /\ UNCHANGED mods

(* _undo_modification(), in the order of the edit. *)
UndoStep ==
  /\ type = "undo" /\ next <= Len(Steps)
  /\ Change(Wrapped(Steps[next].position + diff), Steps[next].added, Steps[next].removed)
  /\ next' = next + 1
  /\ UNCHANGED mods

(* modifier::redo(), called if can_redo(). *)
BeginRedo ==
  /\ curedit < Len(history)
  /\ Begin("redo")
  /\ next' = 1 /\ width' = 0 /\ typed' = <<>>
  /\ UNCHANGED curedit

(* _redo_modification(): the positions are already those of the edit.      *)
RedoStep ==
  /\ type = "redo" /\ next <= Len(Steps)
  /\ Change(Steps[next].position, Steps[next].removed, Steps[next].added)
  /\ next' = next + 1
  /\ UNCHANGED mods

(* end_custom() *)
EndCustom ==
  /\ type \in {"undo", "redo"} /\ next > Len(Steps)
  /\ curedit' = IF type = "redo" THEN curedit + 1 ELSE curedit
  /\ Over
  /\ UNCHANGED history

Next ==
  \/ \E bytes \in Inserts :
       \/ BeginNormal(0, bytes)
       \/ \E n \in InputBytes : bytes # <<>> /\ BeginNormal(n, bytes)
  \/ \E pos \in 0..MaxLength :
       \/ Overwrite(pos)
       \/ \E len \in 0..MaxLength : Modify(pos, len)
  \/ End
  \/ BeginUndo \/ UndoStep
  \/ BeginRedo \/ RedoStep
  \/ EndCustom

Spec == Init /\ [][Next]_vars

-----------------------------------------------------------------------------
(* buffer::position_patcher: a state is the next modification and the      *)
(* difference so far; patch_next() is asked for positions in their order.  *)
AtLeastOne(n) == IF n = 0 THEN 1 ELSE n

(* Mutant of Behind: the difference is not kept for the positions after.   *)
BehindForgets(ps, state, pos) ==
  LET behind[k \in 1..Len(ps) + 1] ==
        [p \in 0..WordSize - 1 |->
           IF k <= Len(ps) /\ p >= ps[k].position + AtLeastOne(ps[k].removed)
             THEN behind[k + 1][Wrapped(p + ps[k].added - ps[k].removed)]
             ELSE [next |-> k, diff |-> state.diff, pos |-> p]]
  IN  behind[state.next][Wrapped(pos + state.diff)]

(* The loop passes the modifications that end before the position.         *)
Behind(ps, state, pos) ==
  LET behind[k \in 1..Len(ps) + 1] ==
        [p \in 0..WordSize - 1 |->
           IF k <= Len(ps) /\ p >= ps[k].position + AtLeastOne(ps[k].removed)
             THEN behind[k + 1][Wrapped(p + ps[k].added - ps[k].removed)]
             ELSE [next |-> k, diff |-> Wrapped(p - pos), pos |-> p]]
  IN  behind[state.next][Wrapped(pos + state.diff)]

Strategies == {"front", "back", "try_keep"}

(* A position within a removed range, or at an insertion, goes where the   *)
(* strategy says.                                                          *)
Settled(ps, state, strategy) ==
  LET p == state.pos
  IN  IF /\ state.next <= Len(ps)
         /\ p >= ps[state.next].position + (IF ps[state.next].removed = 0 THEN 0 ELSE 1)
        THEN LET front == ps[state.next].position
                 back == front + ps[state.next].added
             IN  IF strategy = "front" THEN front
                 ELSE IF strategy = "back" THEN back
                 ELSE IF p <= back THEN p ELSE back
        ELSE p

(* All positions of the old text patched one after the other.              *)
Patched(ps, strategy) ==
  LET state[p \in 0..Len(base)] ==
        Behind(ps, IF p = 0 THEN [next |-> 1, diff |-> 0, pos |-> 0] ELSE state[p - 1], p)
  IN  [p \in 0..Len(base) |-> Settled(ps, state[p], strategy)]

-----------------------------------------------------------------------------
(* An edit taken back from its end, and made again from its beginning.     *)
Reverted(edit, t) ==
  LET r[k \in 0..Len(edit)] ==
        IF k = Len(edit) THEN t
        ELSE LET m == edit[k + 1] IN Splice(r[k + 1], m.position, Len(m.added), m.removed)
  IN  r[0]
Applied(edit, t) ==
  LET r[k \in 0..Len(edit)] ==
        IF k = 0 THEN t
        ELSE LET m == edit[k] IN Splice(r[k - 1], m.position, Len(m.removed), m.added)
  IN  r[Len(edit)]

(* The versions of the text, as the history describes them from the one    *)
(* in the buffer.                                                          *)
Current == IF type = "undo" THEN curedit + 1 ELSE curedit
Versions ==
  LET older[k \in 0..Current] == IF k = Current THEN base ELSE Reverted(history[k + 1], older[k + 1])
      newer[k \in Current..Len(history)] == IF k = Current THEN base ELSE Applied(history[k], newer[k - 1])
  IN  [k \in 1..Len(history) + 1 |-> IF k - 1 <= Current THEN older[k - 1] ELSE newer[k - 1]]

History == INSTANCE UndoHistory WITH Text <- Seq(Bytes),
                                     versions <- Versions, current <- Current + 1

-----------------------------------------------------------------------------
TypeOK ==
  /\ Len(text) < WordSize /\ Len(origin) = Len(text)
  /\ Len(history) <= MaxEdits /\ curedit \in 0..Len(history)
  /\ type \in {"none", "normal", "undo", "redo"}
  /\ diff \in 0..WordSize - 1
  /\ Wrapped(Len(base) + diff) = Len(text)
  /\ width \in InputBytes \cup {0}

(* Undo and redo move between the versions that the edits have made; undo  *)
(* goes through the modifications from the first to the last with shifted  *)
(* positions, which comes to the same as taking them back from the last.   *)
HistorySpec == History!Spec

(* A modification that is taken back or made again replaces just the bytes *)
(* it has recorded: what end_modify reports as erased was there.           *)
ReplacesWhatWasRecorded ==
  type \in {"undo", "redo"} /\ next <= Len(Steps) =>
    LET m == Steps[next]
        pos == IF type = "undo" THEN Wrapped(m.position + diff) ELSE m.position
        erased == IF type = "undo" THEN m.added ELSE m.removed
    IN  SubSeq(text, pos + 1, pos + Len(erased)) = erased

(* "Reverts a previously made edit": the text is that before the edit.     *)
UndoReverts ==
  type = "undo" /\ next > Len(Steps) => text = Reverted(Steps, base)

(* Both: at every modification of an undo or a redo, and at its end, the   *)
(* text is the one that the history was recorded from.                     *)
HistoryIsExact == ReplacesWhatWasRecorded /\ UndoReverts

(* The positions that an edit reports, given to a position_patcher, keep   *)
(* positions in order and in the text, and keep them with their bytes: a   *)
(* byte that is still there is preceded by its old position, with nothing  *)
(* but inserted bytes between.                                             *)
PositionsFollowBytes ==
  type # "none" =>
    \A strategy \in Strategies :
      LET patched == Patched(positions, strategy)
      IN  /\ \A p \in 1..Len(base) : patched[p - 1] <= patched[p]
          /\ patched[Len(base)] <= Len(text)
          /\ \A q \in DOMAIN origin :
               origin[q] # 0 =>
                 /\ patched[origin[q] - 1] < q
                 /\ \A i \in patched[origin[q] - 1] + 1..q - 1 : origin[i] = 0

PositionsInv == TypeOK /\ PositionsFollowBytes

(* Text and positions: long sequences of edits, undos and redos neither    *)
(* lose the text nor what refers to it.                                    *)
BufferInv == HistoryIsExact /\ PositionsInv
=============================================================================
