------------------------- MODULE OverlappingRanges -------------------------
(***************************************************************************)
(* The ranges of themes and decorations (overlapping_range_registry.h).    *)
(* Ranges may overlap; each is stored relative to the start of the one     *)
(* before it, and the tree remembers how far the ranges below a node       *)
(* reach, so that a search may skip a subtree.                             *)
(***************************************************************************)
EXTENDS SumSynthesizer, SequencesExt, FiniteSetsExt, TLC

CONSTANTS Value,        \* what the ranges carry
          MaxLength,    \* bound on the length of the document
          MaxInserted,  \* bound on the text of one modification
          MaxRanges     \* bound on the number of ranges

VARIABLES
  ranges,    \* _ranges
  expected,  \* the ranges that the comments promise
  size       \* the length of the document

vars == <<ranges, expected, size>>

\* range_data; Len(s) + 1 stands for the end.
Offsets(s) == [i \in DOMAIN s |-> s[i].offset]
StartOf(s, i) == SumThrough(Offsets(s), i)
EndOf(s, i) == StartOf(s, i) + s[i].length

StartingAtOrAfter(s, p) == FirstReaching(Offsets(s), p)
StartingAfter(s, p) == FirstExceeding(Offsets(s), p)
-----------------------------------------------------------------------------
(* Searches, over the shapes that a tree of the ranges lo..hi may have: for *)
(* each range the first and the last one of the subtree below it.          *)

RECURSIVE Shapes(_, _)
Shapes(lo, hi) ==
  IF lo > hi THEN {<<>>}
  ELSE UNION {{(root :> <<lo, hi>>) @@ l @@ r : l \in Shapes(lo, root - 1), r \in Shapes(root + 1, hi)} :
                root \in lo..hi}

\* node_data::maximum_end_position.
MaximumEnd(s, lo, hi) == Max({EndOf(s, k) : k \in lo..hi})

Root(shape, lo, hi) == CHOOSE k \in lo..hi : shape[k] = <<lo, hi>>

\* _extent_finder: the first range of a subtree that ends at or after p.
RECURSIVE Find(_, _, _, _, _)
Find(s, shape, lo, hi, p) ==
  IF lo > hi THEN hi + 1
  ELSE LET root == Root(shape, lo, hi) IN
       IF lo < root /\ p <= MaximumEnd(s, lo, root - 1) THEN Find(s, shape, lo, root - 1, p)
       ELSE IF p <= EndOf(s, root) THEN root
       ELSE Find(s, shape, root + 1, hi, p)

\* _find_next_range_with_ending_impl: from range i into the right subtree, if a
\* range there reaches p, or else up to the node that comes after the subtree.
RECURSIVE FindNext(_, _, _, _)
FindNext(s, shape, i, p) ==
  LET hi == shape[i][2] IN
  IF i < hi /\ p <= MaximumEnd(s, i + 1, hi)
    THEN IF p <= StartOf(s, i) THEN i + 1 ELSE Find(s, shape, i + 1, hi, p)
  ELSE IF hi = Len(s) \/ p <= EndOf(s, hi + 1) THEN hi + 1
  ELSE FindNext(s, shape, hi + 1, p)

\* What the searches are for.
EndingFrom(s, i, p) == Min({k \in i..Len(s) : p <= EndOf(s, k)} \cup {Len(s) + 1})
-----------------------------------------------------------------------------
(* insert_range_before and insert_range_after: before or after the ranges   *)
(* that start at the same place.                                           *)
InsertRange(s, i, begin, length, value) ==
  LET offset == begin - StartOf(s, i - 1)
      rest == IF i <= Len(s) THEN [s EXCEPT ![i].offset = @ - offset] ELSE s
  IN InsertAt(rest, i, [offset |-> offset, length |-> length, value |-> value])

InsertBefore(s, begin, length, value) ==
  InsertRange(s, StartingAtOrAfter(s, begin), begin, length, value)
InsertAfter(s, begin, length, value) ==
  InsertRange(s, StartingAfter(s, begin), begin, length, value)

(* Mutant of EraseRange: the ranges behind are not told. *)
EraseRange_Forgets(s, i) == RemoveAt(s, i)

EraseRange(s, i) ==
  LET rest == RemoveAt(s, i) IN
  IF i \in DOMAIN rest THEN [rest EXCEPT ![i].offset = @ + s[i].offset] ELSE rest

\* on_modification: ranges that begin before the erased text grow, shrink or lose
\* their end; of those that begin in it, what is left begins after the inserted
\* text; the first range behind it is put at its distance from that.
OnModification(s, at, erased, inserted) ==
  LET end == at + erased
      first == StartingAtOrAfter(s, at)
      past == StartingAfter(s, end)
      before == [i \in 1..first - 1 |->
                   IF EndOf(s, i) < at THEN s[i]
                   ELSE IF EndOf(s, i) > end THEN [s[i] EXCEPT !.length = @ + inserted - erased]
                   ELSE [s[i] EXCEPT !.length = @ - (EndOf(s, i) - at)]]
      gap == at - StartOf(s, first - 1) + inserted
      kept == SelectSeq([i \in 1..past - first |-> first + i - 1], LAMBDA i : EndOf(s, i) > end)
      cut == [k \in DOMAIN kept |->
                [s[kept[k]] EXCEPT !.length = @ - (end - StartOf(s, kept[k])),
                                   !.offset = IF k = 1 THEN gap ELSE 0]]
      after == IF past > Len(s) THEN <<>>
               ELSE <<[s[past] EXCEPT !.offset = StartOf(s, past) - end + (IF kept = <<>> THEN gap ELSE 0)]>>
                    \o SubSeq(s, past + 1, Len(s))
  IN before \o cut \o after
-----------------------------------------------------------------------------
(* What overlapping_range_registry.h:215-216 promises, for absolute ranges. *)
Spread(s) == [i \in DOMAIN s |-> [begin |-> StartOf(s, i), end |-> EndOf(s, i), value |-> s[i].value]]

Placed(rs, begin, length, value, Comes(_, _)) ==
  InsertAt(rs, Min({i \in DOMAIN rs : Comes(begin, rs[i].begin)} \cup {Len(rs) + 1}),
           [begin |-> begin, end |-> begin + length, value |-> value])

\* The text of a range that an edit leaves; text is inserted into a range only
\* between two of its characters.
Followed(rs, at, erased, inserted) ==
  LET end == at + erased
      moved(p) == p + inserted - erased
      new(r) == IF r.end <= at /\ r.begin < at THEN r
                ELSE [r EXCEPT !.begin = IF @ < at THEN @ ELSE IF @ < end THEN moved(end) ELSE moved(@),
                               !.end = IF @ <= end THEN at ELSE moved(@)]
      left == SelectSeq(rs, LAMBDA r : r.begin < at \/ r.end > end)
  IN [i \in DOMAIN left |-> new(left[i])]
-----------------------------------------------------------------------------
Init ==
  /\ size = MaxLength
  /\ ranges = <<>>
  /\ expected = <<>>

Add ==
  /\ Len(ranges) < MaxRanges
  /\ \E begin \in 0..size : \E length \in 0..size - begin, value \in Value :
       \/ /\ ranges' = InsertBefore(ranges, begin, length, value)
          /\ expected' = Placed(expected, begin, length, value, <=)
       \/ /\ ranges' = InsertAfter(ranges, begin, length, value)
          /\ expected' = Placed(expected, begin, length, value, <)
  /\ UNCHANGED size

RemoveOne ==
  /\ \E i \in DOMAIN ranges :
       /\ ranges' = EraseRange(ranges, i)
       /\ expected' = RemoveAt(expected, i)
  /\ UNCHANGED size

Modify ==
  \E at \in 0..size : \E erased \in 0..size - at, inserted \in 0..MaxInserted :
    /\ size' = size + inserted - erased
    /\ size' <= MaxLength
    /\ ranges' = OnModification(ranges, at, erased, inserted)
    /\ expected' = Followed(expected, at, erased, inserted)

Next == Add \/ RemoveOne \/ Modify
-----------------------------------------------------------------------------
\* overlapping_range_registry.h:215-216 and 182-212: after any adding, removing
\* and editing the ranges cover the text they were put on, none is before its
\* predecessor, and the searches find the same in whatever shape the tree has.
RangesFollow ==
  /\ Spread(ranges) = expected
  /\ \A i \in DOMAIN ranges : ranges[i].offset >= 0 /\ ranges[i].length >= 0
  /\ \A shape \in Shapes(1, Len(ranges)), p \in 0..size + 1 :
       /\ Find(ranges, shape, 1, Len(ranges), p) = EndingFrom(ranges, 1, p)
       /\ \A i \in DOMAIN ranges : FindNext(ranges, shape, i, p) = EndingFrom(ranges, i + 1, p)
=============================================================================
