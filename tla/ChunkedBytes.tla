---------------------------- MODULE ChunkedBytes ----------------------------
(***************************************************************************)
(* How a codepad::editors::buffer stores its bytes: in chunks, of which    *)
(* the tree keeps a sequence.  Erasing and inserting split chunks and      *)
(* merge small ones.  Balancing and the sums in the nodes of the tree are  *)
(* left out: a chunk is found by adding up lengths.                        *)
(***************************************************************************)
EXTENDS Naturals, Sequences, FiniteSets, SequencesExt

CONSTANTS
  Byte,
  MaximumBytesPerChunk,
  MaxLength               \* bound on the length of a buffer

VARIABLES
  chunks,   \* _t
  text      \* the bytes that the callers expect in the buffer

vars == <<chunks, text>>

MaxChunk == MaximumBytesPerChunk
Flat(cs) == FlattenSeq(cs)
NonEmpty(bytes) == IF bytes = <<>> THEN <<>> ELSE <<bytes>>
From(s, i) == SubSeq(s, i, Len(s))
UpTo(s, i) == SubSeq(s, 1, i)

(* The bytes that callers ask for: `len' of them at `pos' are replaced.    *)
Splice(s, pos, len, bytes) == UpTo(s, pos) \o bytes \o From(s, pos + len + 1)

(* An iterator: the number of a chunk and how many of its bytes precede.   *)
(* at(): the end lies in the chunk after the last.                         *)
StartOf(cs, c) == Len(Flat(UpTo(cs, c - 1)))
At(cs, pos) ==
  IF pos >= Len(Flat(cs)) THEN [chunk |-> Len(cs) + 1, offset |-> 0]
  ELSE LET c == CHOOSE c \in DOMAIN cs :
                  StartOf(cs, c) <= pos /\ pos < StartOf(cs, c) + Len(cs[c])
       IN  [chunk |-> c, offset |-> pos - StartOf(cs, c)]

AtEnd(cs, it) == it.chunk > Len(cs)

(* get_clip() *)
GetClip(cs, beg, end) ==
  IF AtEnd(cs, beg) THEN <<>>
  ELSE IF beg.chunk = end.chunk
    THEN SubSeq(cs[beg.chunk], beg.offset + 1, end.offset)
  ELSE From(cs[beg.chunk], beg.offset + 1)
         \o Flat(SubSeq(cs, beg.chunk + 1, end.chunk - 1))
         \o IF AtEnd(cs, end) THEN <<>> ELSE UpTo(cs[end.chunk], end.offset)

(* _try_merge_small_nodes() *)
MergeWithNext(cs, c) == UpTo(cs, c - 1) \o <<cs[c] \o cs[c + 1]>> \o From(cs, c + 2)
FitTogether(cs, c) ==
  /\ {c, c + 1} \subseteq DOMAIN cs
  /\ Len(cs[c]) + Len(cs[c + 1]) < MaxChunk
TryMerge(cs, c) ==
  IF c \notin DOMAIN cs \/ 2 * Len(cs[c]) > MaxChunk THEN cs
  ELSE IF FitTogether(cs, c - 1) THEN MergeWithNext(cs, c - 1)
  ELSE IF FitTogether(cs, c) THEN MergeWithNext(cs, c)
  ELSE cs

(* _erase(): the chunks between go, and the first one too if nothing of it *)
(* is left; merging is tried at the last one, or at the end.               *)
Erase(cs, beg, end) ==
  IF AtEnd(cs, beg) THEN cs
  ELSE IF beg.chunk = end.chunk
    THEN TryMerge([cs EXCEPT ![beg.chunk] = Splice(@, beg.offset, end.offset - beg.offset, <<>>)],
                  beg.chunk)
  ELSE LET before == UpTo(cs, beg.chunk - 1) \o NonEmpty(UpTo(cs[beg.chunk], beg.offset))
       IN  IF AtEnd(cs, end) THEN TryMerge(before, Len(before))
           ELSE TryMerge(before \o <<From(cs[end.chunk], end.offset + 1)>> \o From(cs, end.chunk + 1),
                         Len(before) + 1)

(* Bytes put into chunks one after the other, each filled before the next. *)
Pieces(bytes) ==
  [k \in 1..(Len(bytes) + MaxChunk - 1) \div MaxChunk |->
     SubSeq(bytes, (k - 1) * MaxChunk + 1,
            IF k * MaxChunk < Len(bytes) THEN k * MaxChunk ELSE Len(bytes))]

(* Mutant of WithTail: a rest that does not fit is forgotten. *)
WithTailLost(pieces, tail) ==
  IF Len(Last(pieces)) + Len(tail) <= MaxChunk
    THEN UpTo(pieces, Len(pieces) - 1) \o <<Last(pieces) \o tail>>
    ELSE pieces

(* The rest of a split chunk joins the last of the new ones if it fits.    *)
WithTail(pieces, tail) ==
  IF Len(Last(pieces)) + Len(tail) <= MaxChunk
    THEN UpTo(pieces, Len(pieces) - 1) \o <<Last(pieces) \o tail>>
    ELSE Append(pieces, tail)

(* _insert(): at the very beginning into a chunk of its own, at the start  *)
(* of another chunk behind the previous one, else in the middle of one.    *)
Insert(cs, pos, bytes) ==
  LET c == pos.chunk
      filled ==
        IF c = 1 /\ pos.offset = 0 THEN Pieces(bytes)
        ELSE IF pos.offset = 0 THEN UpTo(cs, c - 2) \o Pieces(cs[c - 1] \o bytes)
        ELSE UpTo(cs, c - 1)
               \o WithTail(Pieces(UpTo(cs[c], pos.offset) \o bytes), From(cs[c], pos.offset + 1))
      behind == From(cs, IF pos.offset = 0 THEN c ELSE c + 1)
  IN  IF bytes = <<>> THEN cs ELSE TryMerge(filled \o behind, Len(filled) + 1)

-----------------------------------------------------------------------------
(* buffer::buffer(): the file is read chunk by chunk. *)
Load(bytes) ==
  /\ chunks' = Pieces(bytes)
  /\ text' = bytes

(* What modify_nofixup() and its companions do to the bytes. *)
Modify(pos, len, bytes) ==
  /\ pos + len <= Len(text)
  /\ Len(text) - len + Len(bytes) <= MaxLength
  /\ LET erased == IF len = 0 THEN chunks ELSE Erase(chunks, At(chunks, pos), At(chunks, pos + len))
     IN  chunks' = Insert(erased, At(erased, pos), bytes)
  /\ text' = Splice(text, pos, len, bytes)

Runs == {<<>>} \cup UNION {[1..n -> {b}] : n \in 1..MaxLength, b \in Byte}

Init == chunks = <<>> /\ text = <<>>

Next ==
  \E bytes \in Runs :
    \/ text = <<>> /\ Load(bytes)
    \/ \E pos, len \in 0..Len(text) : Modify(pos, len, bytes)

Spec == Init /\ [][Next]_vars

-----------------------------------------------------------------------------
(* The chunks hold the bytes that erasing and inserting should leave; none *)
(* is empty, on which the iterators rely, and none is longer than          *)
(* maximum_bytes_per_chunk.  A clip is what lies between its positions: it *)
(* becomes the content that undoing restores.                              *)
HoldsText ==
  /\ Flat(chunks) = text
  /\ \A c \in DOMAIN chunks : Len(chunks[c]) \in 1..MaxChunk
  /\ \A pos \in 0..Len(text) : \A end \in pos..Len(text) :
       GetClip(chunks, At(chunks, pos), At(chunks, end)) = SubSeq(text, pos + 1, end)
=============================================================================
