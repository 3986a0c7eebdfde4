------------------------------ MODULE CaretSet ------------------------------
(***************************************************************************)
(* The carets of an editor (caret_set.h).  Every caret carries a selected  *)
(* region and is stored relative to the end of the region before it, so    *)
(* that an edit of the document only touches the carets around it.  The    *)
(* tree and its synthesized sums appear as a sequence and `Before`.        *)
(***************************************************************************)
EXTENDS SumSynthesizer, SequencesExt, FiniteSetsExt

CONSTANTS MaxLength,    \* bound on the length of the document
          MaxInserted,  \* bound on the text of one modification
          MaxCarets     \* bound on the number of carets

VARIABLES
  carets,      \* caret_set_base::carets
  selections,  \* the carets that the comments of caret_set.h promise
  size         \* the length of the document

vars == <<carets, selections, size>>

LOCAL Larger(a, b) == IF a > b THEN a ELSE b
LOCAL Smaller(a, b) == IF a < b THEN a ELSE b

\* caret_data: a region begins `begin` after the end of the one before it.
TotalOffset(c) == c.begin + c.length
TotalOffsets(s) == [i \in DOMAIN s |-> TotalOffset(s[i])]
Before(s, i) == SumThrough(TotalOffsets(s), i - 1)
BeginOf(s, i) == Before(s, i) + s[i].begin
EndOf(s, i) == Before(s, i) + TotalOffset(s[i])
CaretOf(s, i) == BeginOf(s, i) + s[i].offset

EndingAtOrAfter(s, pos) == FirstReaching(TotalOffsets(s), pos)
EndingAfter(s, pos) == FirstExceeding(TotalOffsets(s), pos)

\* Adds to the distance of a caret to the one before it, if there is a caret.
Move(s, i, by) == IF i \in DOMAIN s THEN [s EXCEPT ![i].begin = @ + by] ELSE s

Erase(s, first, last) == SubSeq(s, 1, first - 1) \o SubSeq(s, last, Len(s))

(* Mutant of RemoveCaret: the carets behind are not told. *)
RemoveCaret_Forgets(s, i) == RemoveAt(s, i)

RemoveCaret(s, i) == Move(RemoveAt(s, i), i, TotalOffset(s[i]))
-----------------------------------------------------------------------------
\* add_caret_to: the caret absorbs those its region intersects, and those it
\* touches unless both have a selection; its own position stays.
AddCaret(s, begin, end, caret) ==
  LET n == Len(s)
      near == EndingAtOrAfter(s, begin)
      first == IF begin < end /\ near <= n /\ s[near].length > 0 /\ EndOf(s, near) = begin
                 THEN near + 1 ELSE near
      far == EndingAfter(s, end)
      reaches == /\ far <= n
                 /\ \/ BeginOf(s, far) < end
                    \/ BeginOf(s, far) = end /\ ~(begin < end /\ s[far].length > 0)
      last == IF reaches THEN far + 1 ELSE far
      from == IF first < last THEN Smaller(begin, BeginOf(s, first)) ELSE begin
      to == IF reaches THEN Larger(end, EndOf(s, far)) ELSE end
      rest == Move(s, last, Before(s, last) - to)
  IN InsertAt(Erase(rest, first, last), first,
              [begin |-> from - Before(s, first), length |-> to - from, offset |-> caret - from])
-----------------------------------------------------------------------------
\* The last part of on_modify: from caret i to the first, a caret without
\* selection that touches the one before or after it is removed.
RECURSIVE MergeDown(_, _)
MergeDown(s, i) ==
  IF i <= 1 THEN s
  ELSE IF s[i].begin = 0 /\ s[i].length = 0 THEN MergeDown(RemoveCaret(s, i), i - 1)
  ELSE IF s[i].begin = 0 /\ s[i - 1].length = 0 THEN MergeDown(RemoveCaret(s, i - 1), i - 1)
  ELSE MergeDown(s, i - 1)

\* The branch of on_modify for a caret that contains the whole edit.
Expand(s, i, at, erased, inserted) ==
  LET pos == CaretOf(s, i) IN
  [s EXCEPT ![i].length = @ + inserted - erased,
            ![i].offset = IF pos <= at THEN @
                          ELSE IF pos >= at + erased THEN @ + inserted - erased
                          ELSE @ - (pos - at)]

\* The other branch: the carets from first to before last lie in the erased
\* text; the one before them may lose its end, and last its beginning.
Truncate(s, first0, last0, at, erased, inserted) ==
  LET n == Len(s)
      end == at + erased
      skip == IF first0 # last0 THEN EndOf(s, first0) = at ELSE BeginOf(s, first0) < at
      start == IF skip THEN first0 + 1 ELSE first0
      last == IF skip /\ first0 = last0 THEN last0 + 1 ELSE last0
      cutEnd == first0 # last0 /\ start <= n /\ BeginOf(s, start) <= at
      first == IF cutEnd THEN start + 1 ELSE start
      cutBegin == last <= n /\ BeginOf(s, last) < end
      by == end - BeginOf(s, last)
      s1 == IF cutBegin
              THEN [s EXCEPT ![last] = [begin |-> @.begin + by, length |-> @.length - by,
                                        offset |-> Larger(CaretOf(s, last), end) - end]]
              ELSE s
      keepOne == first # last /\ ~cutEnd
      gone == IF keepOne THEN first + 1 ELSE first
      s2 == IF keepOne
              THEN [s1 EXCEPT ![first] = [begin |-> at - Before(s, first), length |-> 0, offset |-> 0]]
              ELSE s1
      collapsed == (IF keepOne THEN EndOf(s, first) - at ELSE 0)
                   + (IF first # last THEN Before(s, last) - Before(s, gone) ELSE 0)
      cut == IF cutEnd THEN EndOf(s, start) - at ELSE 0
      s3 == IF cutEnd
              THEN [s2 EXCEPT ![start].length = @ - cut,
                              ![start].offset = Smaller(@, s[start].length - cut)]
              ELSE s2
      s4 == Move(s3, last, collapsed + cut + inserted - erased)
  IN IF start > n /\ first0 # last0
       THEN [carets |-> s, last |-> 1]
       ELSE [carets |-> Erase(s4, gone, last),
             last |-> IF first # last THEN gone ELSE last]

\* caret_set_base::on_modify.
OnModify(s, at, erased, inserted) ==
  LET n == Len(s)
      end == at + erased
      first == IF erased > 0 THEN EndingAfter(s, at) ELSE EndingAtOrAfter(s, at)
      last == EndingAtOrAfter(s, end)
      contained == IF erased = 0
                     THEN \/ BeginOf(s, first) < at /\ EndOf(s, first) > end
                          \/ BeginOf(s, first) = at /\ s[first].length = 0
                     ELSE BeginOf(s, first) <= at /\ EndOf(s, first) >= end
      changed == IF contained
                   THEN [carets |-> Expand(s, first, at, erased, inserted), last |-> last]
                   ELSE Truncate(s, first, last, at, erased, inserted)
  IN IF first > n THEN s
     ELSE MergeDown(changed.carets, Smaller(changed.last + 1, Len(changed.carets)))

\* _reset_impl: one caret at the beginning of the document.
OneCaret == <<[begin |-> 0, length |-> 0, offset |-> 0]>>
-----------------------------------------------------------------------------
(* What caret_set.h promises, for regions with absolute positions. *)
Absolute(s) ==
  [i \in DOMAIN s |-> [begin |-> BeginOf(s, i), end |-> EndOf(s, i), caret |-> CaretOf(s, i)]]

InOrder(S) == SetToSortSeq(S, LAMBDA a, b : a.begin < b.begin \/ (a.begin = b.begin /\ a.end < b.end))

\* caret_set.h:343-346, the comment of add_caret_to.
Joins(a, b) == /\ a.begin <= b.end /\ b.begin <= a.end
               /\ (a.end = b.begin \/ b.end = a.begin) =>
                     (a.begin = a.end \/ b.begin = b.end)

Added(sel, c) ==
  LET all == Range(sel)
      met == {r \in all : Joins(r, c)}
  IN InOrder((all \ met) \cup
             {[begin |-> Min({r.begin : r \in met \cup {c}}),
               end |-> Max({r.end : r \in met \cup {c}}), caret |-> c.caret]})

\* caret_set.h:175-188, the rules of the comment of on_modify, for one caret.
Follow(r, at, erased, inserted) ==
  LET end == at + erased
      moved(p) == p + inserted - erased
      contains == IF erased = 0 THEN (r.begin < at /\ at < r.end) \/ (r.begin = at /\ r.end = at)
                                ELSE r.begin <= at /\ end <= r.end
  IN IF contains
       THEN [begin |-> r.begin, end |-> moved(r.end),
             caret |-> IF r.caret <= at THEN r.caret ELSE IF r.caret >= end THEN moved(r.caret) ELSE at]
     ELSE IF r.end <= at THEN r
     ELSE IF r.begin >= end
       THEN [begin |-> moved(r.begin), end |-> moved(r.end), caret |-> moved(r.caret)]
     ELSE IF r.begin <= at THEN [begin |-> r.begin, end |-> at, caret |-> Smaller(r.caret, at)]
     ELSE IF r.end >= end
       THEN [begin |-> moved(end), end |-> moved(r.end), caret |-> moved(Larger(r.caret, end))]
     ELSE [begin |-> at, end |-> at, caret |-> at]

Followed(sel, at, erased, inserted) ==
  LET all == {Follow(r, at, erased, inserted) : r \in Range(sel)}
      absorbed(r) == r.begin = r.end /\ \E o \in all \ {r} : r.begin \in {o.begin, o.end}
  IN InOrder({r \in all : ~absorbed(r)})
-----------------------------------------------------------------------------
Init ==
  /\ size = 0
  /\ carets = OneCaret
  /\ selections = Absolute(OneCaret)

Add ==
  /\ Len(carets) < MaxCarets
  /\ \E begin \in 0..size : \E end \in begin..size : \E caret \in {begin, end} :
       /\ carets' = AddCaret(carets, begin, end, caret)
       /\ selections' = Added(selections, [begin |-> begin, end |-> end, caret |-> caret])
  /\ UNCHANGED size

RemoveOne ==
  /\ Len(carets) > 1
  /\ \E i \in DOMAIN carets :
       /\ carets' = RemoveCaret(carets, i)
       /\ selections' = RemoveAt(selections, i)
  /\ UNCHANGED size

Reset ==
  /\ carets' = OneCaret
  /\ selections' = Absolute(OneCaret)
  /\ UNCHANGED size

Modify ==
  \E at \in 0..size : \E erased \in 0..size - at, inserted \in 0..MaxInserted :
    /\ size' = size + inserted - erased
    /\ size' <= MaxLength
    /\ carets' = OnModify(carets, at, erased, inserted)
    /\ selections' = Followed(selections, at, erased, inserted)

Next == Add \/ RemoveOne \/ Reset \/ Modify
-----------------------------------------------------------------------------
\* caret_set.h:175-188, 343-346: after any adding, removing and editing the
\* carets are where the rules put them, in order, and there is one.
CaretsFollow ==
  /\ Absolute(carets) = selections
  /\ carets # <<>>
  /\ \A i \in DOMAIN carets : carets[i].begin >= 0 /\ carets[i].length >= 0
=============================================================================
