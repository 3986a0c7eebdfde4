---------------------------- MODULE RegexCompiler ----------------------------
(***************************************************************************)
(* From an expression to the state machine that the matcher runs           *)
(* (compiler.cpp).  An expression is a tree of records:                    *)
(*   literal(contents), class(chars, negate), assertion(type),             *)
(*   boundary(chars, boundary), backreference(capture), keep (the \K),     *)
(*   subroutine(capture), fail, group(type, capture, nodes),               *)
(*   alternative(of), repetition(of, min, max, type),                      *)
(*   look(of, backward, negative, nonAtomic), condition(on, yes, no).      *)
(* A machine has for every state the sequence of its transitions, the      *)
(* first of which that leads to a match is the one that counts.            *)
(***************************************************************************)
EXTENDS SequencesExt, FiniteSetsExt

Width == 256             \* the number of values of a std::size_t
NoLimit == Width - 1     \* repetition::no_limit, and a length without bound
Epsilon == [kind |-> "literal", contents |-> <<>>]
Of(kind) == [kind |-> kind]

(***************************************************************************)
(* ast::analyze: the least and the greatest length of what a node matches. *)
(***************************************************************************)
RECURSIVE Lengths(_)
Lengths(node) ==
  LET Exactly(n) == [min |-> n, max |-> n]
      Added(a, b) == [min |-> (a.min + b.min) % Width, max |-> (a.max + b.max) % Width]
      Joined(a, b) == [min |-> Min({a.min, b.min}), max |-> Max({a.max, b.max})]
  IN CASE node.kind = "literal" -> Exactly(Len(node.contents))
       [] node.kind = "class" -> Exactly(1)
       [] node.kind \in {"backreference", "subroutine"} -> [min |-> 0, max |-> NoLimit]
       [] node.kind = "group" ->
            IF node.nodes = <<>> THEN Exactly(0)
            ELSE Added(Lengths(node.nodes[1]), Lengths([node EXCEPT !.nodes = Tail(@)]))
       [] node.kind = "alternative" ->
            IF Len(node.of) = 1 THEN Lengths(node.of[1])
            ELSE Joined(Lengths(node.of[1]), Lengths([node EXCEPT !.of = Tail(@)]))
       [] node.kind = "repetition" ->
            LET body == Lengths(node.of)
            IN [min |-> (body.min * node.min) % Width,
                max |-> IF node.max # NoLimit THEN (body.max * node.max) % Width
                        ELSE IF body.max > 0 THEN NoLimit ELSE 0]
       [] node.kind = "condition" ->
            Joined(Lengths(node.yes), IF node.no = <<>> THEN Exactly(0) ELSE Lengths(node.no[1]))
       [] OTHER -> Exactly(0)

(***************************************************************************)
(* Building the machine.                                                   *)
(***************************************************************************)
Created(m) == [m EXCEPT !.states = Append(@, <<>>)]
Newest(m) == Len(m.states)
Edge(m, from, to, condition) ==
  [m EXCEPT !.states[from] = Append(@, [condition |-> condition, to |-> to])]

\* _get_fail_state: a state without transitions, made when it is first needed.
WithFailState(m) == IF m.fail = 0 THEN [Created(m) EXCEPT !.fail = Newest(m) + 1] ELSE m

\* Two new states with what is to be done before and after what is between them.
Enclosed(m, from, to, before, after) ==
  LET n == Newest(m)
  IN Edge(Edge(Created(Created(m)), from, n + 1, before), n + 2, to, after)

RECURSIVE Compile(_, _, _, _), CompileNodes(_, _, _, _), CompileOptional(_, _, _, _, _)

\* One node after the other.
CompileNodes(m, from, to, nodes) ==
  IF nodes = <<>> THEN Edge(m, from, to, Epsilon)
  ELSE IF Len(nodes) = 1 THEN Compile(m, from, to, nodes[1])
  ELSE LET next == Newest(m) + 1
       IN CompileNodes(Compile(Created(m), from, next, nodes[1]), next, to, Tail(nodes))

CompileGroup(m, from, to, node) ==
  LET n == Newest(m)
      captured == Enclosed(m, from, to, [kind |-> "captureBegin", capture |-> node.capture], Of("captureEnd"))
  IN CASE node.type = "atomic" ->
            CompileNodes(Enclosed(m, from, to, Of("pushAtomic"), Of("popAtomic")), n + 1, n + 2, node.nodes)
       [] node.type = "normal" ->
            CompileNodes([captured EXCEPT !.groups = IF node.capture \in DOMAIN @ THEN @
                                                     ELSE (node.capture :> [start |-> n + 1, end |-> n + 2]) @@ @],
                         n + 1, n + 2, node.nodes)
       [] OTHER -> CompileNodes(m, from, to, node.nodes)

\* Up to n repetitions that may be left out.
CompileOptional(m, from, to, node, n) ==
  LET made == IF n = 1 THEN m ELSE Created(m)
      next == IF n = 1 THEN to ELSE Newest(made)
      once == IF node.type = "lazy" THEN Compile(Edge(made, from, to, Epsilon), from, next, node.of)
              ELSE Edge(Compile(made, from, next, node.of), from, to, Epsilon)
  IN IF n = 1 THEN once ELSE CompileOptional(once, next, to, node, n - 1)

\* Any number of repetitions: a greedy loop remembers where its body began,
\* and is left if the body matched nothing.
CompileLoop(m, from, to, node) ==
  LET n == Newest(m)
      lazy == Edge(Created(m), from, to, Epsilon)
      greedy == Edge(Edge(Created(Created(m)), from, n + 2, Of("pushPosition")), from, to, Epsilon)
  IN IF node.type = "lazy" THEN Edge(Compile(lazy, from, n + 1, node.of), n + 1, from, Epsilon)
     ELSE Edge(Edge(Compile(greedy, n + 2, n + 1, node.of), n + 1, from, Of("checkInfiniteLoop")),
               n + 1, to, Epsilon)

CompileRepetition(m, from, to, node) ==
  LET n == Newest(m)
      required == [i \in 1..node.min |-> node.of]
      kept == CompileNodes(Created(m), from, n + 1, required)
  IN IF node.max = 0 THEN Compile(Created(Created(Edge(m, from, to, Epsilon))), n + 1, n + 2, node.of)
     ELSE IF node.type = "possessive"
       THEN Compile(Enclosed(m, from, to, Of("pushAtomic"), Of("popAtomic")), n + 1, n + 2,
                    [node EXCEPT !.type = "greedy"])
     ELSE IF node.min = node.max THEN CompileNodes(m, from, to, required)
     ELSE IF node.max = NoLimit THEN CompileLoop(kept, n + 1, to, node)
     ELSE IF node.min = 0 THEN CompileOptional(m, from, to, node, node.max)
     ELSE CompileOptional(kept, n + 1, to, node, node.max - node.min)

\* Looking back begins as many characters earlier as the alternative has.
CompileBackward(m, from, to, node) ==
  LET alone == Len(node.nodes) = 1 /\ node.nodes[1].kind = "alternative"
      Rewound(r, n) ==
        IF Lengths(n).min # Lengths(n).max THEN r
        ELSE LET made == Edge(Created(r), from, Newest(r) + 1, [kind |-> "rewind", by |-> Lengths(n).min])
             IN Compile(made, Newest(made), to, n)
  IN FoldLeft(Rewound, m, IF alone THEN node.nodes[1].of ELSE <<node>>)

CompileLook(m, from, to, node) ==
  LET checkpoint == Enclosed(m, from, to, Of("pushCheckpoint"), Of("restoreCheckpoint"))
      n == Newest(checkpoint)
      atomic == node.negative \/ ~node.nonAtomic
      within == IF atomic THEN Enclosed(checkpoint, n - 1, n, Of("pushAtomic"), Of("popAtomic")) ELSE checkpoint
      begin == Newest(within) - 1
      end == Newest(within)
      failing == WithFailState(Created(within))
      before == end + 1
      negative == Edge(failing, before, failing.fail, Of("popAtomic"))
      Body(made, target) == IF node.backward THEN CompileBackward(made, begin, target, node.of)
                            ELSE Compile(made, begin, target, node.of)
  IN IF node.negative THEN Edge(Body(negative, before), begin, end, Epsilon) ELSE Body(within, end)

\* The condition is tried in an atomic group of its own.
CompileCondition(m, from, to, node) ==
  LET n == Newest(m)
      branch == n + 1   beforeYes == n + 2   yes == n + 3   beforeNo == n + 4   no == n + 5
      made == [m EXCEPT !.states = @ \o [i \in 1..5 |-> <<>>]]
      entered == Edge(made, from, branch, Of("pushAtomic"))
      asked == IF node.on.kind = "look" THEN Compile(entered, branch, beforeYes, node.on)
               ELSE Edge(entered, branch, beforeYes, node.on)
      popped == Edge(Edge(Edge(asked, branch, beforeNo, Epsilon),
                          beforeYes, yes, Of("popAtomic")), beforeNo, no, Of("popAtomic"))
      taken == Compile(popped, yes, to, node.yes)
  IN IF node.on.kind = "define" THEN Compile(Created(Created(Edge(m, from, to, Epsilon))), n + 1, n + 2, node.yes)
     ELSE CompileNodes(taken, no, to, node.no)

Compile(m, from, to, node) ==
  CASE node.kind = "group" -> CompileGroup(m, from, to, node)
    [] node.kind = "alternative" ->
         FoldLeft(LAMBDA r, n : Compile(r, from, to, n), m, node.of)
    [] node.kind = "repetition" -> CompileRepetition(m, from, to, node)
    [] node.kind = "look" -> CompileLook(m, from, to, node)
    [] node.kind = "condition" -> CompileCondition(m, from, to, node)
    [] node.kind = "subroutine" ->
         Edge(m, from, 0, [kind |-> "jump", capture |-> node.capture, return |-> to])
    [] node.kind = "fail" -> LET failing == WithFailState(m) IN Edge(failing, from, failing.fail, Epsilon)
    [] OTHER -> Edge(m, from, to, node)

StartState == 1
EndState == 2
Nothing == [states |-> <<<<>>, <<>>>>, groups |-> <<>>, fail |-> 0]

\* compiler::compile: jumps go to the group they name once all groups are known;
\* an expression that calls a group it does not have matches nothing.
Compiled(expression) ==
  LET m == Compile(Nothing, StartState, EndState, expression)
      groups == (0 :> [start |-> StartState, end |-> EndState]) @@ m.groups
      Jumps(t) == t.condition.kind = "jump"
      Patched(t) == IF ~Jumps(t) THEN t
                    ELSE [condition |-> [kind |-> "jump", capture |-> t.condition.capture,
                                         target |-> groups[t.condition.capture].end,
                                         return |-> t.condition.return],
                          to |-> groups[t.condition.capture].start]
  IN IF \E s \in DOMAIN m.states : \E t \in ToSet(m.states[s]) :
          Jumps(t) /\ t.condition.capture \notin DOMAIN groups
       THEN Nothing.states
     ELSE [s \in DOMAIN m.states |-> [i \in DOMAIN m.states[s] |-> Patched(m.states[s][i])]]
=============================================================================
