---------------------------- MODULE RegexLanguage ----------------------------
(***************************************************************************)
(* What an expression matches, without a machine: a node takes a state     *)
(* (where it is in the input, the captures, an overridden beginning, and   *)
(* the group that is being called) to the sequence of states in which it   *)
(* may leave, the preferred one first.                                     *)
(***************************************************************************)
LOCAL INSTANCE RegexCompiler

LOCAL Without(node) == IF node.kind = "group" THEN [node EXCEPT !.type = "non_capturing"] ELSE node

\* All groups of an expression, in order.
RECURSIVE GroupsOf(_)
GroupsOf(node) ==
  LET Each(nodes) == FlattenSeq([i \in DOMAIN nodes |-> GroupsOf(nodes[i])])
  IN CASE node.kind = "group" -> <<node>> \o Each(node.nodes)
       [] node.kind = "alternative" -> Each(node.of)
       [] node.kind \in {"repetition", "look"} -> GroupsOf(node.of)
       [] node.kind = "condition" ->
            (IF node.on.kind = "look" THEN GroupsOf(node.on) ELSE <<>>) \o GroupsOf(node.yes) \o Each(node.no)
       [] OTHER -> <<>>

\* The first group of a number; no group of the number is like a failure.
Group(expression, n) ==
  IF n = 0 THEN expression
  ELSE Append(SelectSeq(GroupsOf(expression), LAMBDA g : g.type = "normal" /\ g.capture = n), Of("fail"))[1]

RECURSIVE Ways(_, _, _, _), WaysOfAll(_, _, _, _), WaysOfLoop(_, _, _, _, _, _)

\* Each way of one after each way of the other.
WaysOfAll(whole, input, nodes, s) ==
  IF nodes = <<>> THEN <<s>>
  ELSE LET first == Ways(whole, input, nodes[1], s)
       IN FlattenSeq([i \in DOMAIN first |-> WaysOfAll(whole, input, Tail(nodes), first[i])])

\* A loop without bound does not go on after an iteration that took nothing.
WaysOfLoop(whole, input, node, s, min, max) ==
  LET once == Ways(whole, input, node.of, s)
      less == IF max = NoLimit THEN NoLimit ELSE max - 1
      more == FlattenSeq([i \in DOMAIN once |->
                IF min = 0 /\ max = NoLimit /\ once[i].at = s.at THEN <<once[i]>>
                ELSE WaysOfLoop(whole, input, node, once[i], IF min = 0 THEN 0 ELSE min - 1, less)])
  IN IF min > 0 THEN more
     ELSE IF max = 0 THEN <<s>>
     ELSE IF node.type = "lazy" THEN <<s>> \o more ELSE more \o <<s>>

LOCAL FirstOnly(ways) == IF ways = <<>> THEN <<>> ELSE <<ways[1]>>

Ways(whole, input, node, s) ==
  LET At(p) == input[p + 1]
      Left == Len(input) - s.at
      Within(chars, negate, p) == p >= 0 /\ p < Len(input) /\ (At(p) \in chars) # negate
      Advanced(contents) ==
        IF Len(contents) <= Left /\ SubSeq(input, s.at + 1, s.at + Len(contents)) = contents
          THEN <<[s EXCEPT !.at = @ + Len(contents)]>> ELSE <<>>
      If(condition) == IF condition THEN <<s>> ELSE <<>>
      Breaks(p) == p >= 0 /\ p < Len(input) /\ At(p) \in {"CR", "LF"}
      Inside == 0 < s.at /\ Left > 0 /\ At(s.at - 1) = "CR" /\ At(s.at) = "LF"
      Has(n) == n \in DOMAIN s.captures /\ s.captures[n].length >= 0
      \* A look at what is before begins anywhere and ends here.
      Behind(n) == FlattenSeq([i \in 1..s.at + 1 |->
                     SelectSeq(Ways(whole, input, n, [s EXCEPT !.at = i - 1]), LAMBDA way : way.at = s.at)])
      Looks == IF ~node.backward THEN Ways(whole, input, node.of, s)
               ELSE IF Len(node.of.nodes) = 1 /\ node.of.nodes[1].kind = "alternative"
                 THEN FlattenSeq([i \in DOMAIN node.of.nodes[1].of |-> Behind(node.of.nodes[1].of[i])])
               ELSE Behind(node.of)
      Here(ways) == [i \in DOMAIN ways |-> [ways[i] EXCEPT !.at = s.at]]
  IN CASE node.kind = "literal" -> Advanced(node.contents)
       [] node.kind = "class" -> IF Within(node.chars, node.negate, s.at) THEN <<[s EXCEPT !.at = @ + 1]>> ELSE <<>>
       [] node.kind = "boundary" ->
            If(node.boundary = (Within(node.chars, node.negate, s.at - 1) # Within(node.chars, node.negate, s.at)))
       [] node.kind = "assertion" ->
            If(CASE node.type = "lineStart" -> s.at = 0 \/ (Left > 0 /\ Breaks(s.at - 1) /\ ~Inside)
                 [] node.type = "lineEnd" -> Left = 0 \/ (Breaks(s.at) /\ ~Inside)
                 [] node.type = "subjectStart" -> s.at = 0
                 [] node.type = "subjectEnd" -> Left = 0
                 [] node.type = "subjectEndOrNewline" ->
                      \/ Left = 0
                      \/ SubSeq(input, s.at + 1, Len(input)) \in {<<"CR">>, <<"LF">>, <<"CR", "LF">>} /\ ~Inside)
       [] node.kind = "backreference" ->
            IF ~Has(node.capture) THEN <<>>
            ELSE LET c == s.captures[node.capture]
                 IN Advanced(SubSeq(input, c.begin + 1, c.begin + c.length))
       [] node.kind = "keep" -> <<[s EXCEPT !.begin = s.at]>>
       [] node.kind = "fail" -> <<>>
       [] node.kind = "group" ->
            LET ways == WaysOfAll(whole, input, node.nodes, s)
            IN CASE node.type = "normal" ->
                      [i \in DOMAIN ways |->
                         [ways[i] EXCEPT !.captures[node.capture] = [begin |-> s.at, length |-> ways[i].at - s.at]]]
                 [] node.type = "atomic" -> FirstOnly(ways)
                 [] OTHER -> ways
       [] node.kind = "alternative" ->
            FlattenSeq([i \in DOMAIN node.of |-> Ways(whole, input, node.of[i], s)])
       [] node.kind = "repetition" ->
            LET ways == WaysOfLoop(whole, input, node, s, node.min, node.max)
            IN IF node.type = "possessive" THEN FirstOnly(ways) ELSE ways
       [] node.kind = "look" ->
            IF node.negative THEN If(Looks = <<>>)
            ELSE IF node.nonAtomic THEN Here(Looks) ELSE Here(FirstOnly(Looks))
       [] node.kind = "subroutine" ->
            LET ways == Ways(whole, input, Without(Group(whole, node.capture)), [s EXCEPT !.inside = node.capture])
            IN [i \in DOMAIN ways |-> [ways[i] EXCEPT !.captures = s.captures, !.inside = s.inside]]
       [] node.kind = "condition" ->
            LET asked == CASE node.on.kind = "look" -> FirstOnly(Ways(whole, input, node.on, s))
                           [] node.on.kind = "captured" -> If(Has(node.on.capture))
                           [] node.on.kind = "anyRecursion" -> If(s.inside >= 0)
                           [] node.on.kind = "recursion" -> If(s.inside = node.on.capture)
                           [] node.on.kind = "define" -> <<>>
            IN IF asked # <<>> THEN Ways(whole, input, node.yes, asked[1])
               ELSE WaysOfAll(whole, input, node.no, s)

\* The leftmost matches that do not overlap, where an empty match is not
\* followed by another one at the same place.
RECURSIVE MatchesFrom(_, _, _, _, _)
MatchesFrom(expression, input, groups, from, rejectEmpty) ==
  LET start == [at |-> from, captures |-> [n \in groups |-> [begin |-> 0, length |-> -1]],
                begin |-> from, inside |-> -1]
      ways == SelectSeq(Ways(expression, input, expression, start), LAMBDA s : ~(rejectEmpty /\ s.at = from))
  IN IF ways # <<>>
       THEN <<[begin |-> ways[1].begin, end |-> ways[1].at, captures |-> ways[1].captures]>>
              \o MatchesFrom(expression, input, groups, ways[1].at, ways[1].at = from)
     ELSE IF from < Len(input) THEN MatchesFrom(expression, input, groups, from + 1, FALSE)
     ELSE <<>>

AllMatches(expression, input, groups) == MatchesFrom(expression, input, groups, 0, FALSE)
=============================================================================
