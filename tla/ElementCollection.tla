------------------------- MODULE ElementCollection -------------------------
(***************************************************************************)
(* What element_collection does to the order of drawing of its elements,   *)
(* zorder, which z_ordered() returns and mouse events are handed out by.   *)
(* children is the order of the children and z the z-index of each.        *)
(***************************************************************************)
LOCAL INSTANCE Naturals
LOCAL INSTANCE Sequences
LOCAL INSTANCE SequencesExt

Without(seq, e) == SelectSeq(seq, LAMBDA f : f # e)

(* The position of the first of some elements, or the one after the last.  *)
FirstOf(seq, elements) ==
  CHOOSE i \in 1..Len(seq) + 1 :
    /\ i <= Len(seq) => seq[i] \in elements
    /\ \A j \in 1..i - 1 : seq[j] \notin elements

Before(children, e, before) ==
  IF before \in ToSet(children) THEN InsertAt(children, FirstOf(children, {before}), e)
  ELSE Append(children, e)

(* The last of the children in front of a position that has z-index zindex,*)
(* if there is any.                                                        *)
Preceding(children, end, z, zindex) ==
  LET same == SelectSeq(SubSeq(children, 1, end), LAMBDA f : z[f] = zindex)
  IN  IF same = <<>> THEN {} ELSE {Last(same)}

(* insert_before() with no element to insert before *)
ZInserted(zorder, z, e) ==
  LET greater == {i \in 1..Len(zorder) : z[zorder[i]] > z[e]}
  IN  InsertAt(zorder, 1 + (IF greater = {} THEN 0 ELSE CHOOSE i \in greater : \A j \in greater : j <= i), e)

(* set_zindex(): the element is put before one of its old z-index that     *)
(* precedes it among the children, or else by its new z-index.             *)
ZChanged(children, zorder, z, e, newz) ==
  LET others == Without(zorder, e)
      here == FirstOf(children, {e})
      same == Preceding(children, here - 1, z, z[e])
      lower == {f \in ToSet(others) : z[f] < newz}
      at == FirstOf(others, IF same = {} THEN lower ELSE same)
  IN  IF z[e] = newz THEN zorder ELSE InsertAt(others, at, e)

(* move_before(): children are those without the element.                  *)
ZMoved(children, zorder, z, e, before) ==
  LET others == Without(zorder, e)
      same == IF before \in ToSet(children)
              THEN Preceding(children, FirstOf(children, {before}) - 1, z, z[e])
              ELSE {}
      notAbove == FirstOf(others, {f \in ToSet(others) : z[f] <= z[e]})
      rest == SubSeq(others, notAbove + 1, Len(others))
      at == IF same = {} THEN notAbove
            ELSE notAbove + FirstOf(rest, same)
  IN  InsertAt(others, at, e)
=============================================================================
