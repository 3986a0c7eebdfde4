-------------------------- MODULE MCDataStructures --------------------------
(***************************************************************************)
(* The data structures, each by itself: a behaviour is about one of them,  *)
(* its subject, while the others stay empty.  The subject "interpretation" *)
(* is the specification of Interpretation.                                 *)
(***************************************************************************)
EXTENDS Interpretation

CONSTANTS MaxSize, MaxKey,                                \* the heap
          ByteValue, MaximumBytesPerChunk, MaxText,       \* the bytes of a buffer
          Value, MaxLength, MaxCarets, MaxRanges,
          MaxIterations                                   \* of an attempt to match an expression

ASSUME DataAssumption ==
  /\ {MaxKey, MaxText, MaxLength, MaxCarets, MaxRanges, MaxIterations} \subseteq Nat
  /\ {MaxSize, MaximumBytesPerChunk} \subseteq Nat \ {0}

VARIABLES subject, queue, index, key, done, byteChunks, text, carets, selections, ranges, expected, size,
          expression, input, machine, search, current, matcher, matches, iterations

Heap == INSTANCE HeapOperations
Bytes == INSTANCE ChunkedBytes WITH Byte <- ByteValue, chunks <- byteChunks, MaxLength <- MaxText
Carets == INSTANCE CaretSet
Ranges == INSTANCE OverlappingRanges
Expressions == INSTANCE RegexExpressions
Regex == INSTANCE RegexMatcher WITH Cases <- Expressions!RegexCases, Groups <- 1..2

heap == <<queue, index, key, done>>
bytes == <<byteChunks, text>>
onText == <<carets, selections, ranges, expected, size>>
regex == <<expression, input, machine, search, current, matcher, matches, iterations>>

NoHeap == queue = <<>> /\ index = <<>> /\ key = <<>> /\ done = TRUE
NoBytes == byteChunks = <<>> /\ text = <<>>
NoCarets == carets = <<>> /\ selections = <<>>
NoRanges == ranges = <<>> /\ expected = <<>>
NoDocument == encoding = "utf8" /\ document = <<>> /\ Init
NoExpression == expression = <<>> /\ input = <<>> /\ machine = <<>> /\ search = <<>> /\ current = <<>>
                  /\ matcher = <<>> /\ matches = <<>> /\ iterations = 0

DataInit ==
  \/ /\ subject = "heap" /\ Heap!Init
     /\ NoBytes /\ NoCarets /\ NoRanges /\ size = 0 /\ NoDocument /\ NoExpression
  \/ /\ subject = "bytes" /\ Bytes!Init
     /\ NoHeap /\ NoCarets /\ NoRanges /\ size = 0 /\ NoDocument /\ NoExpression
  \/ subject = "carets" /\ Carets!Init /\ NoHeap /\ NoBytes /\ NoRanges /\ NoDocument /\ NoExpression
  \/ subject = "ranges" /\ Ranges!Init /\ NoHeap /\ NoBytes /\ NoCarets /\ NoDocument /\ NoExpression
  \/ /\ subject = "interpretation" /\ Init
     /\ NoHeap /\ NoBytes /\ NoCarets /\ NoRanges /\ size = 0 /\ NoExpression
  \/ /\ subject = "expression" /\ Regex!Init
     /\ NoHeap /\ NoBytes /\ NoCarets /\ NoRanges /\ size = 0 /\ NoDocument

DataNext ==
  /\ UNCHANGED subject
  /\ \/ subject = "heap" /\ Heap!Next /\ UNCHANGED <<bytes, onText, regex, vars>>
     \/ subject = "bytes" /\ Bytes!Next /\ UNCHANGED <<heap, onText, regex, vars>>
     \/ subject = "carets" /\ Carets!Next /\ UNCHANGED <<heap, bytes, ranges, expected, regex, vars>>
     \/ subject = "ranges" /\ Ranges!Next /\ UNCHANGED <<heap, bytes, carets, selections, regex, vars>>
     \/ subject = "interpretation" /\ Next /\ UNCHANGED <<heap, bytes, onText, regex>>
     \/ subject = "expression" /\ Regex!Next /\ UNCHANGED <<heap, bytes, onText, vars>>

DataSpec == DataInit /\ [][DataNext]_<<subject, heap, bytes, onText, regex, vars>>

(* The properties of the other modules.                                    *)

(* HeapOperations: the heap stays ordered and complete.                    *)
HeapKept == Heap!HeapKept
(* ChunkedBytes: the chunks hold the text.                                 *)
HoldsText == Bytes!HoldsText
(* CaretSet: the carets are where the rules of caret_set.h put them.       *)
CaretsFollow == subject = "carets" => Carets!CaretsFollow
(* OverlappingRanges: the ranges stay on their text and are found.         *)
RangesFollow == Ranges!RangesFollow
(* RegexMatcher: backtracking finds the matches of the expression.         *)
MatchIsExact == subject = "expression" => Regex!MatchIsExact
=============================================================================
