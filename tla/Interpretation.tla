--------------------------- MODULE Interpretation ---------------------------
(***************************************************************************)
(* A buffer read as text (interpretation.cpp).  The bytes are decoded into *)
(* codepoints once; afterwards an edit is only decoded from a little       *)
(* before its beginning until a codepoint boundary meets one of the old    *)
(* text, and the chunks of codepoints, the lines and the range of          *)
(* characters that changed are worked out from that.                       *)
(*                                                                         *)
(* The encodings are those of encodings.h: UTF-8 with one kind of lead     *)
(* byte, where a decoder gets back in step after one codepoint, and UTF-16 *)
(* without surrogates, where it may stay out of step to the end.           *)
(***************************************************************************)
EXTENDS LinebreakRegistry

CONSTANTS LeadLength,                \* bytes of a codepoint of UTF-8 with a lead byte
          MaximumCodepointsPerChunk, \* 1000 in interpretation.h
          MaxBytes,                  \* bound on the length of the document
          MaxInserted                \* bound on the bytes of one modification

ASSUME BoundsAssumption ==
  {LeadLength, MaximumCodepointsPerChunk, MaxBytes, MaxInserted} \subseteq Nat \ {0}

VARIABLES
  encoding,      \* _encoding
  document,      \* the bytes of the buffer
  chunks,        \* _chunks: the bytes and codepoints of each
  linebreaks,    \* _linebreaks
  modifications  \* _mod_cache.modification_chars, with the end of the erased text

vars == <<encoding, document, chunks, linebreaks, modifications>>

\* get_maximum_codepoint_length.
MaximumCodepointLength == IF encoding = "utf8" THEN LeadLength ELSE 2

Byte == [utf8 |-> {"r", "n", "lead", "cont"}, utf16 |-> {"r", "n", "zero"}]
-----------------------------------------------------------------------------
(* Decoding.  Positions are counted from 0. *)

\* next_codepoint: where the codepoint at p ends.  A lead byte without all of its
\* continuation bytes, or half of a word, is a codepoint by itself.
NextCodepoint(doc, p) ==
  LET end == p + MaximumCodepointLength
      complete == /\ end <= Len(doc)
                  /\ encoding = "utf8" => /\ doc[p + 1] = "lead"
                                          /\ \A q \in p + 2..end : doc[q] = "cont"
  IN IF complete THEN end ELSE p + 1

\* The codepoint boundaries from p to the end of the document.
RECURSIVE Boundaries(_, _)
Boundaries(doc, p) ==
  IF p >= Len(doc) THEN <<p>> ELSE <<p>> \o Boundaries(doc, NextCodepoint(doc, p))

\* The codepoints between boundaries; an invalid one is no line break.
Text(doc, bs) ==
  LET isBreak(p, end) == /\ doc[p + 1] \in {"r", "n"}
                         /\ encoding = "utf16" => end = p + 2 /\ doc[end] = "zero"
  IN [k \in 1..Len(bs) - 1 |-> IF isBreak(bs[k], bs[k + 1]) THEN doc[bs[k] + 1] ELSE "c"]

BytesOf(cs) == [i \in DOMAIN cs |-> cs[i].bytes]
BytesThrough(cs, i) == SumThrough(BytesOf(cs), i)
CodepointsThrough(cs, i) == SumThrough([k \in DOMAIN cs |-> cs[k].codepoints], i)

\* A chunk that begins at `from` and has `kept` codepoints so far, and the
\* codepoints between boundaries after it, cut into chunks of the maximum size.
Cut(from, kept, bs) ==
  LET n == kept + Len(bs) - 1
      size == MaximumCodepointsPerChunk
      end(k) == Min({k * size, n})
      byte(k) == IF k = 0 THEN from ELSE bs[end(k) - kept + 1]
  IN [k \in 1..(n + size - 1) \div size |->
        [bytes |-> byte(k) - byte(k - 1), codepoints |-> end(k) - end(k - 1)]]

\* _byte_pos_converter: the chunk of a byte; at a border the one after it (less)
\* or before it (less_equal).
ChunkAfter(cs, p) == FirstExceeding(BytesOf(cs), p)

ChunkBefore(cs, p) == FirstReaching(BytesOf(cs), p)

\* codepoint_position_converter::byte_to_codepoint: the codepoint that contains
\* a byte and the boundaries from there on, decoded from the start of its chunk.
ByteToCodepoint(doc, cs, p) ==
  LET i == ChunkAfter(cs, p)
      bs == Boundaries(doc, BytesThrough(cs, i - 1))
      k == Max({j \in 1..Len(bs) : bs[j] <= p})
  IN [codepoint |-> CodepointsThrough(cs, i - 1) + k - 1, boundaries |-> SubSeq(bs, k, Len(bs))]
-----------------------------------------------------------------------------
(* _on_begin_modify and _on_end_modify. *)

\* What is cached of the document before a modification.
Cache(doc, cs, position, erased) ==
  LET first == Max({position, MaximumCodepointLength}) - MaximumCodepointLength
      start == ByteToCodepoint(doc, cs, first)
      end == position + erased
      past == ByteToCodepoint(doc, cs, end)
      inside == past.boundaries[1] # end
  IN [startCodepoint |-> start.codepoint,
      startBoundaries |-> SelectSeq(start.boundaries, LAMBDA b : b <= position),
      postCodepoint |-> IF inside THEN past.codepoint + 1 ELSE past.codepoint,
      postBoundaries |-> SelectSeq(past.boundaries,
                                   LAMBDA b : end <= b /\ b <= end + MaximumCodepointLength)]

(* Mutant of Unchanged: a codepoint that ended before the modification stays. *)
Unchanged_Trusts(doc, bs, k) == Len(bs)

\* How many of the boundaries before the modification are still there.
RECURSIVE Unchanged(_, _, _)
Unchanged(doc, bs, k) ==
  IF k < Len(bs) /\ bs[k] < Len(doc) /\ NextCodepoint(doc, bs[k]) = bs[k + 1]
    THEN Unchanged(doc, bs, k + 1) ELSE k

\* The part of the new document that has been decoded again, and the chunks and
\* codepoints of the old one it takes the place of.
Decoded(doc, cs, cache, difference) ==
  LET same == Unchanged(doc, cache.startBoundaries, 1)
      begin == cache.startBoundaries[same]
      fast == cache.postBoundaries
      decoded == Boundaries(doc, begin)
      \* decoding stops at an old boundary, those cached or else the end of a chunk
      targets == Range(fast) \cup
                 {e \in {BytesThrough(cs, i) : i \in DOMAIN cs} : e > Last(fast)}
      stop == Min({k \in DOMAIN decoded : decoded[k] - difference \in targets})
      old == decoded[stop] - difference
      quick == old \in Range(fast)
      startChunk == ChunkAfter(cs, begin)
      endChunk == ChunkBefore(cs, old)
      oldCodepoint == IF quick THEN cache.postCodepoint + (CHOOSE k \in DOMAIN fast : fast[k] = old) - 1
                               ELSE CodepointsThrough(cs, endChunk)
  IN [first |-> cache.startCodepoint + same - 1,
      boundaries |-> SubSeq(decoded, 1, stop),
      oldCodepoint |-> oldCodepoint,
      startChunk |-> startChunk, endChunk |-> endChunk,
      rest |-> IF quick /\ endChunk <= Len(cs)
                 THEN [bytes |-> BytesThrough(cs, endChunk) - old,
                       codepoints |-> CodepointsThrough(cs, endChunk) - oldCodepoint]
                 ELSE [bytes |-> 0, codepoints |-> 0]]

\* The chunks that replace those from the start chunk to the end chunk: what the
\* start chunk keeps and the new codepoints are cut anew, and the last piece
\* joins the rest of the end chunk unless that makes it too large.
ReplaceChunks(cs, d) ==
  LET pieces == Cut(BytesThrough(cs, d.startChunk - 1),
                    d.first - CodepointsThrough(cs, d.startChunk - 1), d.boundaries)
      partial == pieces # <<>> /\ Last(pieces).codepoints < MaximumCodepointsPerChunk
      full == IF partial THEN Front(pieces) ELSE pieces
      tail == IF partial THEN Last(pieces) ELSE [bytes |-> 0, codepoints |-> 0]
      ending == IF tail.codepoints + d.rest.codepoints > MaximumCodepointsPerChunk
                  THEN <<tail, d.rest>>
                ELSE IF tail.codepoints + d.rest.codepoints > 0
                  THEN <<[bytes |-> tail.bytes + d.rest.bytes,
                          codepoints |-> tail.codepoints + d.rest.codepoints]>>
                ELSE <<>>
  IN SubSeq(cs, 1, d.startChunk - 1) \o full \o ending \o SubSeq(cs, d.endChunk + 1, Len(cs))

(* Mutant of ChangedCharacters: a pair that comes together is not looked for. *)
ChangedCharacters_NoMerge(ls, first, oldCodepoint, clip, er, ins) ==
  [start |-> Locate(ls, first).char,
   removed |-> Locate(ls, oldCodepoint).char - Locate(ls, first).char,
   inserted |-> CharactersBefore(clip, Len(clip) + 1),
   line |-> Locate(ls, oldCodepoint).line, column |-> Locate(ls, oldCodepoint).column]

\* The characters that changed: pairs of CR and LF cut or brought together at
\* either end of the modification count as changed.
ChangedCharacters(ls, first, oldCodepoint, clip, er0, ins0) ==
  LET start == Locate(ls, first)
      end == Locate(ls, oldCodepoint)
      new == CharactersBefore(clip, Len(clip) + 1)
      ins == IF new = 0
               THEN [split |-> er0.merge, mergeFront |-> er0.merge, mergeBack |-> er0.merge]
               ELSE [split |-> ins0.split, mergeFront |-> ins0.mergeFront, mergeBack |-> ins0.mergeBack]
      er == IF first = oldCodepoint THEN [splitFront |-> ins.split, splitBack |-> ins.split]
            ELSE [splitFront |-> er0.splitFront, splitBack |-> er0.splitBack]
      startChar == IF ins.mergeFront /\ ~er.splitFront THEN start.char - 1 ELSE start.char
      endChar == IF ins.mergeBack \/ er.splitBack THEN end.char + 1 ELSE end.char
      more == {k \in {"merge", "front", "back"} :
                 \/ k = "merge" /\ new = 0 /\ er0.merge
                 \/ k = "front" /\ er.splitFront /\ ~ins.mergeFront
                 \/ k = "back" /\ er.splitBack /\ ~ins.mergeBack}
      nextLine == er.splitBack \/ ins.mergeBack
  IN [start |-> startChar, removed |-> endChar - startChar, inserted |-> new + Cardinality(more),
      line |-> IF nextLine THEN end.line + 1 ELSE end.line,
      column |-> IF nextLine THEN 0 ELSE Min({end.column, ls[end.line].nonbreak})]
-----------------------------------------------------------------------------
(* The constructor decodes the whole document. *)
Init ==
  /\ encoding \in {"utf8", "utf16"}
  /\ document \in UNION {[1..n -> Byte[encoding]] : n \in 0..MaxBytes}
  /\ chunks = Cut(0, 0, Boundaries(document, 0))
  /\ linebreaks = LinesOf(Text(document, Boundaries(document, 0)))
  /\ modifications = <<>>

\* A modification of the buffer; the handlers of begin_modify and end_modify run
\* before and after the bytes are replaced.
Modify(position, erased, inserted) ==
  LET difference == Len(inserted) - erased
      new == SubSeq(document, 1, position) \o inserted
             \o SubSeq(document, position + erased + 1, Len(document))
  IN /\ Len(document) + difference <= MaxBytes
     /\ UNCHANGED encoding
     /\ document' = new
     /\ \E d \in {Decoded(new, chunks, Cache(document, chunks, position, erased), difference)} :
        \E clip \in {LinesOf(Text(new, d.boundaries))} :
        \E er \in {EraseCodepoints(linebreaks, d.first, d.oldCodepoint)} :
        \E ins \in {InsertCodepoints(er.lines, d.first, clip)} :
         /\ chunks' = ReplaceChunks(chunks, d)
         /\ linebreaks' = ins.lines
         /\ modifications' = <<ChangedCharacters(linebreaks, d.first, d.oldCodepoint, clip, er, ins)>>

\* _on_end_edit hands the changed characters over.
EndEdit ==
  /\ modifications # <<>>
  /\ modifications' = <<>>
  /\ UNCHANGED <<encoding, document, chunks, linebreaks>>

Edit ==
  /\ modifications = <<>>
  /\ \E position \in 0..Len(document) :
       \E erased \in 0..Len(document) - position,
          inserted \in UNION {[1..n -> Byte[encoding]] : n \in 0..MaxInserted} :
         Modify(position, erased, inserted)

Next == Edit \/ EndEdit

Spec == Init /\ [][Next]_vars
-----------------------------------------------------------------------------
(* Properties. *)

\* interpretation.cpp:116-204, check_integrity: after any sequence of edits the
\* chunks end at codepoint boundaries, none is empty or too large, they cover the
\* document, and the lines are those of the text decoded from its beginning.
MatchesFullDecode ==
  LET bs == Boundaries(document, 0) IN
  /\ linebreaks = LinesOf(Text(document, bs))
  /\ \A i \in DOMAIN chunks :
       /\ chunks[i].codepoints \in 1..MaximumCodepointsPerChunk
       /\ CodepointsThrough(chunks, i) < Len(bs)
       /\ bs[CodepointsThrough(chunks, i) + 1] = BytesThrough(chunks, i)
  /\ BytesThrough(chunks, Len(chunks)) = Len(document)

\* The characters of a document, a CR and the LF after it being one.
RECURSIVE AsCharacters(_)
AsCharacters(text) ==
  IF text = <<>> THEN <<>>
  ELSE IF Len(text) > 1 /\ text[1] = "r" /\ text[2] = "n"
    THEN <<"rn">> \o AsCharacters(SubSeq(text, 3, Len(text)))
  ELSE <<Head(text)>> \o AsCharacters(Tail(text))

CharactersOf(doc) == AsCharacters(Text(doc, Boundaries(doc, 0)))

\* interpretation.h:431-449: whoever keeps positions of characters (themes,
\* decorations, carets, folded regions) may move them by the reported range: the
\* characters before it and after it are the same in the old and new document,
\* and the line and column are those of the first character after it.
ReportIsExact ==
  [][modifications' # <<>> =>
       LET m == modifications'[1]
           old == CharactersOf(document)
           new == CharactersOf(document')
           past == m.start + m.removed
       IN /\ m.start >= 0 /\ m.removed >= 0 /\ m.inserted >= 0
          /\ Len(new) = Len(old) - m.removed + m.inserted
          /\ past <= Len(old)
          /\ SubSeq(old, 1, m.start) = SubSeq(new, 1, m.start)
          /\ SubSeq(old, past + 1, Len(old)) = SubSeq(new, m.start + m.inserted + 1, Len(new))
          /\ m.line \in DOMAIN linebreaks
          /\ CharactersBefore(linebreaks, m.line) + m.column = past
    ]_vars
=============================================================================
