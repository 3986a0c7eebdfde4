--------------------------- MODULE SumSynthesizer ---------------------------
(***************************************************************************)
(* Looking things up in a tree by the sums of a property of its nodes      *)
(* (sum_synthesizer in binary_tree.h).  The tree is the sequence of its    *)
(* nodes in order, of which only the value that is added up matters here.  *)
(***************************************************************************)
EXTENDS Integers, Sequences

\* sum_before, for the node after the n-th.
SumThrough(values, n) ==
  LET sum[i \in 0..n] == IF i = 0 THEN 0 ELSE sum[i - 1] + values[i] IN sum[n]

\* index_finder with less_equal and with less: the first node up to which the
\* sum reaches, or exceeds, a value; the end is the node after the last.
FirstReaching(values, value) ==
  LET first[i \in 1..Len(values) + 1] ==
        IF i > Len(values) \/ SumThrough(values, i) >= value THEN i ELSE first[i + 1]
  IN first[1]

FirstExceeding(values, value) == FirstReaching(values, value + 1)
=============================================================================
