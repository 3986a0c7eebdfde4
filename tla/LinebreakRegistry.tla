------------------------- MODULE LinebreakRegistry -------------------------
(***************************************************************************)
(* The lines of a document (linebreak_registry.h).  A line is the number   *)
(* of its codepoints before the line break and the kind of that break; CR  *)
(* and LF, next to each other, are one break and one character.  An edit   *)
(* may cut such a pair in two or bring one together.                       *)
(***************************************************************************)
EXTENDS SumSynthesizer, SequencesExt, FiniteSetsExt

\* get_line_ending_length, get_node_codepoint_num, get_node_char_num.
BreakLength == [none |-> 0, r |-> 1, n |-> 1, rn |-> 2]
Codepoints(ls) == [i \in DOMAIN ls |-> ls[i].nonbreak + BreakLength[ls[i].ending]]
Characters(ls) == [i \in DOMAIN ls |-> ls[i].nonbreak + (IF ls[i].ending = "none" THEN 0 ELSE 1)]

CodepointsBefore(ls, i) == SumThrough(Codepoints(ls), i - 1)
CharactersBefore(ls, i) == SumThrough(Characters(ls), i - 1)

\* get_line_and_column_and_char_of_codepoint: the end belongs to the last line,
\* and the LF of a pair to the same character as its CR.
Locate(ls, cp) ==
  LET i == Min({FirstExceeding(Codepoints(ls), cp), Len(ls)})
      column == cp - CodepointsBefore(ls, i)
  IN [line |-> i, column |-> column,
      char |-> CharactersBefore(ls, i) + Min({column, ls[i].nonbreak})]
-----------------------------------------------------------------------------
\* linebreak_analyzer: the lines of a text of "c", "r" and "n".
RECURSIVE Analyze(_, _)
Analyze(text, count) ==
  IF text = <<>> THEN <<[nonbreak |-> count, ending |-> "none"]>>
  ELSE IF Len(text) > 1 /\ text[1] = "r" /\ text[2] = "n"
    THEN <<[nonbreak |-> count, ending |-> "rn"]>> \o Analyze(SubSeq(text, 3, Len(text)), 0)
  ELSE IF Head(text) \in {"r", "n"}
    THEN <<[nonbreak |-> count, ending |-> Head(text)]>> \o Analyze(Tail(text), 0)
  ELSE Analyze(Tail(text), count + 1)

LinesOf(text) == Analyze(text, 0)

\* _try_merge_rn_linebreak.
Merges(ls, i) ==
  /\ i > 1
  /\ ls[i] = [nonbreak |-> 0, ending |-> "n"]
  /\ ls[i - 1].ending = "r"

TryMerge(ls, i) ==
  IF Merges(ls, i) THEN [RemoveAt(ls, i) EXCEPT ![i - 1].ending = "rn"] ELSE ls
-----------------------------------------------------------------------------
\* insert_codepoints: the line of the position is cut in two, the second half
\* of a pair becoming a line of its own; the clip may merge at both ends.
InsertCodepoints(ls, cp, clip) ==
  LET here == Locate(ls, cp)
      k == Len(clip)
      split == here.column > ls[here.line].nonbreak
      whole == IF split
                 THEN [InsertAt(ls, here.line, [ls[here.line] EXCEPT !.ending = "r"])
                         EXCEPT ![here.line + 1] = [nonbreak |-> 0, ending |-> "n"]]
                 ELSE ls
      at == IF split THEN here.line + 1 ELSE here.line
      column == IF split THEN 0 ELSE here.column
      last == [whole[at] EXCEPT !.nonbreak = @ + clip[k].nonbreak - (IF k > 1 THEN column ELSE 0)]
      front == IF k > 1 THEN <<[clip[1] EXCEPT !.nonbreak = @ + column]>> \o SubSeq(clip, 2, k - 1)
                        ELSE <<>>
      joined == SubSeq(whole, 1, at - 1) \o front \o <<last>> \o SubSeq(whole, at + 1, Len(whole))
      merged == TryMerge(joined, at)
      end == at + k - 1 - (Len(joined) - Len(merged))
  IN IF clip = <<[nonbreak |-> 0, ending |-> "none"]>>
       THEN [lines |-> ls, split |-> FALSE, mergeFront |-> FALSE, mergeBack |-> FALSE]
       ELSE [lines |-> TryMerge(merged, end), split |-> split,
             mergeFront |-> Merges(joined, at), mergeBack |-> Merges(merged, end)]

\* erase_codepoints: what is left of a pair at either end stays a line break,
\* and the text around the gap may form a pair.
EraseCodepoints(ls, from, to) ==
  LET first == Locate(ls, from)
      end == Locate(ls, to)
      splitFront == first.column > ls[first.line].nonbreak
      splitBack == end.column > ls[end.line].nonbreak
      beg == IF splitFront THEN first.line + 1 ELSE first.line
      begColumn == IF splitFront THEN 0 ELSE first.column
      cut == [k \in DOMAIN ls |->
                IF k = end.line /\ splitBack
                  THEN [nonbreak |-> IF beg = k THEN begColumn ELSE 0, ending |-> "n"]
                ELSE IF k = first.line /\ splitFront THEN [ls[k] EXCEPT !.ending = "r"]
                ELSE ls[k]]
      endColumn == IF splitBack THEN cut[end.line].nonbreak ELSE end.column
      joined == SubSeq(cut, 1, beg - 1)
                \o <<[cut[end.line] EXCEPT !.nonbreak = @ + begColumn - endColumn]>>
                \o SubSeq(cut, end.line + 1, Len(cut))
  IN IF from = to
       THEN [lines |-> ls, splitFront |-> FALSE, splitBack |-> FALSE, merge |-> FALSE]
       ELSE [lines |-> TryMerge(joined, beg), splitFront |-> splitFront, splitBack |-> splitBack,
             merge |-> Merges(joined, beg)]
=============================================================================
