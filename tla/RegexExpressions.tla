-------------------------- MODULE RegexExpressions --------------------------
(***************************************************************************)
(* The expressions and inputs that the matcher is checked with: every      *)
(* pairing of a part that leaves something to go back to with one that     *)
(* depends on what was done, and around them groups and loops.             *)
(***************************************************************************)
EXTENDS RegexCompiler

Literal(s) == [kind |-> "literal", contents |-> s]
Sequence(nodes) == [kind |-> "group", type |-> "non_capturing", capture |-> 0, nodes |-> nodes]
Group(n, nodes) == [kind |-> "group", type |-> "normal", capture |-> n, nodes |-> nodes]
Atomic(nodes) == [kind |-> "group", type |-> "atomic", capture |-> 0, nodes |-> nodes]
Either(nodes) == [kind |-> "alternative", of |-> [i \in DOMAIN nodes |-> Sequence(<<nodes[i]>>)]]
Repeat(node, min, max, type) == [kind |-> "repetition", of |-> node, min |-> min, max |-> max, type |-> type]
Look(nodes, backward, negative, nonAtomic) ==
  [kind |-> "look", of |-> Sequence(nodes), backward |-> backward, negative |-> negative, nonAtomic |-> nonAtomic]
Back(n) == [kind |-> "backreference", capture |-> n]
Call(n) == [kind |-> "subroutine", capture |-> n]
When(on, yes, no) == [kind |-> "condition", on |-> on, yes |-> yes, no |-> no]
HasMatched(n) == [kind |-> "captured", capture |-> n]
Keep == [kind |-> "keep"]
Assertion(type) == [kind |-> "assertion", type |-> type]
Class(chars, negate) == [kind |-> "class", chars |-> chars, negate |-> negate]

a == Literal(<<"a">>)
b == Literal(<<"b">>)
ab == Literal(<<"a", "b">>)
none == Literal(<<>>)

opt == Repeat(a, 0, 1, "greedy")
Star(node) == Repeat(node, 0, NoLimit, "greedy")
AnyChar == Class({}, TRUE)
AorB == Either(<<a, b>>)

Types == {"greedy", "lazy", "possessive"}
LoopsOf(node, bounds) == {Repeat(node, m[1], m[2], t) : m \in bounds, t \in Types}
Forks == {Either(<<a, ab>>), Either(<<ab, a>>), Either(<<none, a>>), Class({"a"}, TRUE)}

\* Captures that end, go on or are reset when the run goes back, with atomic
\* groups and loops around them.  (A lazy loop of a body that may be empty does
\* not end: see the README.)
Firsts == {Group(1, <<c>>) : c \in Forks}
            \union LoopsOf(Group(1, <<Either(<<a, ab>>)>>), {<<0, 1>>, <<1, 2>>, <<0, NoLimit>>, <<1, NoLimit>>})
            \union LoopsOf(Group(1, <<AorB>>), {<<0, 2>>, <<2, 2>>})
Lasts == {b, Back(1), Call(1), Look(<<Back(1)>>, FALSE, TRUE, FALSE), When(HasMatched(1), b, <<a>>)}
Captures == {Sequence(<<x, y>>) : x \in Firsts, y \in Lasts}
              \union {Sequence(<<opt, Atomic(<<x>>), y>>) : x \in Firsts, y \in Lasts}

Inner == {Group(2, <<AorB>>), Group(2, <<opt>>), Atomic(<<Group(2, <<Either(<<a, ab>>)>>)>>), Star(Group(2, <<AorB>>))}
Middles == UNION {{Group(1, <<x, y>>), Group(1, <<opt, Atomic(<<x, y>>)>>), Atomic(<<opt, Group(1, <<x, y>>)>>)} :
                    x \in Inner, y \in {none, b, opt}}
Nested == UNION {{Sequence(<<x, y>>), Sequence(<<opt, Repeat(x, 0, 2, "greedy"), y>>),
                  Sequence(<<opt, Atomic(<<Repeat(x, 0, 2, "greedy"), opt>>), y>>)} :
                    x \in Middles, y \in {b, Back(1), Back(2)}}

\* Looking forward and back, in loops and in each other.
Looks == {Look(<<x>>, backward, negative, nonAtomic) :
            x \in {a, Either(<<a, ab>>), Group(1, <<AorB>>)},
            backward \in BOOLEAN, negative \in BOOLEAN, nonAtomic \in BOOLEAN}
Looking == {Sequence(<<x, l, y>>) : x \in {opt, Star(a), Group(2, <<opt>>)}, l \in Looks, y \in {none, b, Back(1)}}
             \union {Sequence(<<Star(Sequence(<<l, AnyChar>>)), y>>) : l \in Looks, y \in {b, Back(1)}}
             \union {Sequence(<<opt, Look(<<opt, l>>, FALSE, negative, FALSE), AnyChar>>) : l \in Looks, negative \in BOOLEAN}

\* Groups called before, after and within themselves.
Bodies == {Either(<<a, ab>>), Star(a), Group(2, <<AorB>>), Atomic(<<Either(<<a, ab>>)>>), Sequence(<<Group(2, <<opt>>), b>>)}
Calling == UNION {{Sequence(<<Group(1, <<x>>), Call(1), y>>),
                   Sequence(<<Repeat(Group(1, <<x>>), 0, 0, "greedy"), opt, Call(1), y>>),
                   Sequence(<<When([kind |-> "define"], Group(1, <<x>>), <<>>), Star(Sequence(<<b, Call(1)>>)), y>>),
                   Sequence(<<opt, Group(1, <<x>>), Atomic(<<opt, Call(1), opt>>), y>>)} :
                     x \in Bodies, y \in {b, Back(1), Back(2)}}
             \union {Sequence(<<Group(1, <<a, Repeat(Call(n), 0, 1, t), y>>), z>>) :
                       n \in 0..1, t \in Types, y \in {b, opt}, z \in {none, Back(1)}}
             \union {Sequence(<<AorB, When([kind |-> k, capture |-> 0], b, <<Repeat(Call(0), 0, 1, "greedy")>>), y>>) :
                       k \in {"anyRecursion", "recursion"}, y \in {none, a}}
             \union {Sequence(<<a, Call(3)>>)}

\* Where a match begins, and conditions.
Keeping == {Sequence(<<x, Keep, y>>) : x \in {opt, Star(a), Either(<<a, ab>>)}, y \in {b, none, opt}}
             \union {Sequence(<<opt, Atomic(<<x, Keep, opt>>), y>>) : x \in {none, opt}, y \in {a, b}}
             \union {Either(<<Sequence(<<a, Keep, b>>), a, [kind |-> "fail"]>>)}
Asking == {Sequence(<<x, When(Look(<<y>>, backward, negative, FALSE), u, v)>>) :
             x \in {opt, Star(a)}, y \in {b, Group(1, <<AorB>>)}, backward \in BOOLEAN, negative \in BOOLEAN,
             u \in {b, Back(1)}, v \in {<<>>, <<Back(1)>>}}

\* Loops of what may be empty.
Looping == {Sequence(<<Star(x), y>>) : x \in {opt, Either(<<none, a>>), Star(Group(1, <<opt>>)), Atomic(<<Star(opt)>>)}, y \in {b, Back(1)}}

\* Boundaries of lines, words and the whole.
Bounding == {Sequence(<<x, y, z>>) : x \in {none, AnyChar}, z \in {none, AnyChar},
               y \in {Assertion(t) : t \in {"lineStart", "lineEnd", "subjectStart", "subjectEnd", "subjectEndOrNewline"}}
                        \union {[kind |-> "boundary", chars |-> {"a"}, negate |-> FALSE, boundary |-> on] : on \in BOOLEAN}}

RegexCases ==
  ((Captures \union Nested \union Looking \union Calling \union Keeping \union Asking \union Looping)
     \X {<<>>, <<"a", "b">>, <<"a", "a", "b">>, <<"a", "b", "a">>})
  \union (Bounding \X UNION {[1..n -> {"a", "CR", "LF"}] : n \in 0..3})
=============================================================================
