---------------------------- MODULE RegexMatcher ----------------------------
(***************************************************************************)
(* Finding all matches of an expression (matcher.h, matcher.inl): a        *)
(* backtracking run of the compiled machine.  A state saved for            *)
(* backtracking does not hold copies of the captures, subroutines,         *)
(* checkpoints and loop positions of its moment: it holds marks in stacks  *)
(* of what has been undone since, from which they are rebuilt.             *)
(***************************************************************************)
EXTENDS RegexCompiler

CONSTANTS Cases,          \* the pairs <<expression, input>>
          Groups,         \* the numbers of the groups that capture
          MaxIterations   \* the iterations an attempt to match may take

VARIABLES
  expression, input,  \* what is searched for, and where
  machine,            \* _expr: the expression compiled
  search,             \* find_next(): where it is, whether it rejects an empty match, whether it goes on
  current,            \* _state current_state
  matcher,            \* the members of the matcher
  matches,            \* the results given to the callback of find_all()
  iterations

vars == <<expression, input, machine, search, current, matcher, matches, iterations>>

Unset == [begin |-> 0, length |-> -1]   \* capture::invalid_capture_length
NoPosition == -1

\* The matcher at the beginning of try_match().  Of the stacks, "stack" holds
\* the states to go back to, "ongoing" to "positions" hold what the run is in
\* the middle of, and the others what has been finished since each saved state.
Fresh == [captures |-> [n \in Groups |-> Unset], begin |-> NoPosition,
          stack |-> <<>>, ongoing |-> <<>>, atomics |-> <<>>, frames |-> <<>>,
          checkpoints |-> <<>>, positions |-> <<>>,
          partial |-> <<>>, finished |-> <<>>, ended |-> <<>>, restored |-> <<>>, passed |-> <<>>]

StartAt(p) == [stream |-> p, state |-> StartState, transition |-> 1]

\* A spliced_stack above a bookmark, and below it.
Above(s, mark) == SubSeq(s, mark + 1, Len(s))
Below(s, mark) == SubSeq(s, 1, mark)

\* What is left of a stack after everything that began above a depth of the
\* stack of states has been popped.
Popped(s, depth) == Below(s, Max({0} \union {i \in DOMAIN s : s[i].depth <= depth}))

\* Captures set back, from the last that was recorded to the first.
Reverted(captures, records) ==
  [n \in DOMAIN captures |->
     LET own == SelectSeq(records, LAMBDA r : r.capture = n)
     IN IF own = <<>> THEN captures[n] ELSE own[1].data]
-----------------------------------------------------------------------------
Transitions == machine[current.state]
Condition == Transitions[current.transition].condition

IsEmpty(p) == p = Len(input)
CharAt(p) == input[p + 1]
Matches(class, c) == (c \in class.chars) # class.negate

LineBreakAt(p) == IF IsEmpty(p) \/ CharAt(p) \notin {"CR", "LF"} THEN 0
                  ELSE IF p + 1 < Len(input) /\ CharAt(p) = "CR" /\ CharAt(p + 1) = "LF" THEN 2 ELSE 1
WithinCrLf(p) == 0 < p /\ p < Len(input) /\ CharAt(p - 1) = "CR" /\ CharAt(p) = "LF"

Holds(type, p) ==
  CASE type = "lineStart" -> \/ p = 0
                             \/ p > 0 /\ ~IsEmpty(p) /\ CharAt(p - 1) \in {"CR", "LF"} /\ ~WithinCrLf(p)
    [] type = "lineEnd" -> IsEmpty(p) \/ (LineBreakAt(p) > 0 /\ ~WithinCrLf(p))
    [] type = "subjectStart" -> p = 0
    [] type = "subjectEnd" -> IsEmpty(p)
    [] type = "subjectEndOrNewline" -> IsEmpty(p) \/ (IsEmpty(p + LineBreakAt(p)) /\ ~WithinCrLf(p))
    [] OTHER -> FALSE

HasPrefix(p, contents) ==
  p + Len(contents) <= Len(input) /\ \A i \in DOMAIN contents : CharAt(p + i - 1) = contents[i]

Captured(m, n) == n \in DOMAIN m.captures /\ m.captures[n] # Unset
TextOf(capture) == SubSeq(input, capture.begin + 1, capture.begin + capture.length)

\* _check_transition: whether a transition may be taken ...
Passes(m, p, c) ==
  CASE c.kind = "literal" -> HasPrefix(p, c.contents)
    [] c.kind = "class" -> ~IsEmpty(p) /\ Matches(c, CharAt(p))
    [] c.kind = "assertion" -> Holds(c.type, p)
    [] c.kind = "boundary" ->
         LET before == p > 0 /\ Matches(c, CharAt(p - 1))
             after == ~IsEmpty(p) /\ Matches(c, CharAt(p))
         IN c.boundary = (before # after)
    [] c.kind = "backreference" -> Captured(m, c.capture) /\ HasPrefix(p, TextOf(m.captures[c.capture]))
    [] c.kind = "checkInfiniteLoop" -> p # Last(m.positions).position
    [] c.kind = "rewind" -> p >= c.by
    [] c.kind = "anyRecursion" -> m.frames # <<>>
    [] c.kind = "recursion" -> m.frames # <<>> /\ Last(m.frames).capture = c.capture
    [] c.kind = "captured" -> Captured(m, c.capture)
    [] OTHER -> TRUE

\* ... how much of the input it takes ...
Taken(m, c) == CASE c.kind = "literal" -> Len(c.contents)
                 [] c.kind = "class" -> 1
                 [] c.kind = "backreference" -> m.captures[c.capture].length
                 [] OTHER -> 0

\* ... and what asking does: a loop forgets where its body began.
Asked(m, c) ==
  IF c.kind # "checkInfiniteLoop" THEN m
  ELSE [m EXCEPT !.positions = Front(@),
                 !.passed = IF Last(m.positions).depth < Len(m.stack) THEN Append(@, Last(m.positions)) ELSE @]

\* _state_stack.emplace_back(): the transition to try next, and the marks.
Saved(m, p, transition) ==
  [m EXCEPT !.stack = Append(@,
     [stream |-> p, state |-> current.state, transition |-> transition,
      ongoing |-> Len(m.ongoing), partial |-> Len(m.partial), finished |-> Len(m.finished),
      ended |-> Len(m.ended), restored |-> Len(m.restored), passed |-> Len(m.passed), begin |-> m.begin])]
-----------------------------------------------------------------------------
\* A capture that was going on when the last state was saved goes on again
\* when it is returned to; another one gets the value that it had before.
CaptureEnded(m, p) ==
  LET capture == Last(m.ongoing)
      n == capture.capture
      record == [capture |-> n, data |-> m.captures[n]]
      top == Last(m.stack)
      restarts == Len(m.ongoing) - 1 + Len(m.partial) - top.partial < top.ongoing
  IN [m EXCEPT
       !.ongoing = Front(@),
       !.partial = IF m.stack # <<>> /\ restarts
                     THEN Append(@, [capture |-> n, data |-> m.captures[n], begin |-> capture.begin]) ELSE @,
       !.finished = IF m.stack # <<>> /\ ~restarts THEN Append(@, record) ELSE @,
       !.frames = IF @ = <<>> THEN @ ELSE [@ EXCEPT ![Len(@)].captures = Append(@, record)],
       !.captures[n] = [begin |-> capture.begin, length |-> p - capture.begin]]

\* The records of the states from i on, when those are forgotten.
EndOfPartial(m, i) == IF i < Len(m.stack) THEN m.stack[i + 1].partial ELSE Len(m.partial)
EndOfFinished(m, i) == IF i < Len(m.stack) THEN m.stack[i + 1].finished ELSE Len(m.finished)

\* For each forgotten state, how many captures began after the last state that
\* stays and ended before the next one was saved: for the state that stays
\* they are not to go on again, but to be reset.
Converted(m, depth) ==
  LET Window(i) == EndOfPartial(m, i) - m.stack[i].partial
      Begun(i) == m.stack[i].ongoing - (m.stack[i - 1].ongoing - (m.stack[i].partial - m.stack[i - 1].partial))
      open[i \in depth..Len(m.stack)] ==
        IF i = depth THEN [open |-> 0, ended |-> 0]
        ELSE LET all == open[i - 1].open + Begun(i)
                 ended == Min({all, Window(i)})
             IN [open |-> all - ended, ended |-> ended]
  IN [i \in depth + 1..Len(m.stack) |-> open[i].ended]

(* Mutant of AtomicEnded: the captures are left to go on again.            *)
AtomicEnded_Restarts(m) ==
  LET depth == Last(m.atomics).depth
      Shared(s, mark) == Below(s, mark) \o SelectSeq(Above(s, mark), LAMBDA x : x.depth < depth)
      first == m.stack[depth + 1]
      kept == [m EXCEPT !.atomics = Front(@), !.stack = Below(@, depth)]
  IN IF depth = 0 \/ depth = Len(m.stack) THEN kept
     ELSE [kept EXCEPT !.ended = Shared(@, first.ended), !.restored = Shared(@, first.restored),
                       !.passed = Shared(@, first.passed)]

AtomicEnded(m) ==
  LET depth == Last(m.atomics).depth
      first == m.stack[depth + 1]
      converted == Converted(m, depth)
      Shared(s, mark) == Below(s, mark) \o SelectSeq(Above(s, mark), LAMBDA x : x.depth < depth)
      Partial(i) == SubSeq(m.partial, m.stack[i].partial + 1, EndOfPartial(m, i))
      Finished(i) == SubSeq(m.finished, m.stack[i].finished + 1, EndOfFinished(m, i))
      Records(s) == [k \in DOMAIN s |-> [capture |-> s[k].capture, data |-> s[k].data]]
      Joined(Part(_)) == FlattenSeq([k \in 1..Len(m.stack) - depth |-> Part(depth + k)])
      kept == [m EXCEPT !.atomics = Front(@), !.stack = Below(@, depth)]
  IN IF depth = 0 \/ depth = Len(m.stack) THEN kept
     ELSE [kept EXCEPT
       !.ended = Shared(@, first.ended), !.restored = Shared(@, first.restored), !.passed = Shared(@, first.passed),
       !.finished = Below(@, first.finished)
                      \o Joined(LAMBDA i : Records(Below(Partial(i), converted[i])) \o Finished(i)),
       !.partial = Below(@, first.partial) \o Joined(LAMBDA i : Above(Partial(i), converted[i]))]

\* _execute_transition, at position p.
Executed(m, p, c) ==
  LET depth == Len(m.stack)
  IN CASE c.kind = "captureBegin" -> [m EXCEPT !.ongoing = Append(@, [begin |-> p, capture |-> c.capture])]
       [] c.kind = "captureEnd" -> CaptureEnded(m, p)
       [] c.kind = "keep" ->
            [m EXCEPT !.begin = p,
                      !.stack = IF @ = <<>> THEN @ ELSE [@ EXCEPT ![depth].begin = m.begin]]
       [] c.kind = "pushAtomic" -> [m EXCEPT !.atomics = Append(@, [depth |-> depth])]
       [] c.kind = "popAtomic" -> AtomicEnded(m)
       [] c.kind = "pushCheckpoint" -> [m EXCEPT !.checkpoints = Append(@, [position |-> p, depth |-> depth])]
       [] c.kind = "restoreCheckpoint" ->
            [m EXCEPT !.checkpoints = Front(@),
                      !.restored = IF Last(m.checkpoints).depth < depth THEN Append(@, Last(m.checkpoints)) ELSE @]
       [] c.kind = "pushPosition" -> [m EXCEPT !.positions = Append(@, [position |-> p, depth |-> depth])]
       [] c.kind = "jump" ->
            [m EXCEPT !.frames = Append(@, [capture |-> c.capture, target |-> c.target, return |-> c.return,
                                            depth |-> depth, captures |-> <<>>])]
       [] OTHER -> m

Moved(m, p, c) == CASE c.kind = "restoreCheckpoint" -> Last(m.checkpoints).position
                    [] c.kind = "rewind" -> p - c.by
                    [] OTHER -> p

\* Back to the last saved state.
Backtracked(m) ==
  LET s == Last(m.stack)
      depth == Len(m.stack) - 1
      restarted == Reverse(Above(m.partial, s.partial))
      goingOn == Min({Len(m.ongoing), s.ongoing - Len(restarted)})
  IN [stack |-> Front(m.stack),
      atomics |-> Popped(m.atomics, depth),
      captures |-> Reverted(Reverted(m.captures, Above(m.finished, s.finished)), Above(m.partial, s.partial)),
      finished |-> Below(m.finished, s.finished),
      ongoing |-> Below(m.ongoing, goingOn)
                    \o [i \in DOMAIN restarted |-> [begin |-> restarted[i].begin, capture |-> restarted[i].capture]],
      partial |-> Below(m.partial, s.partial),
      begin |-> s.begin,
      frames |-> Popped(m.frames, depth) \o Reverse(Above(m.ended, s.ended)),
      ended |-> Below(m.ended, s.ended),
      checkpoints |-> Popped(m.checkpoints, depth) \o Reverse(Above(m.restored, s.restored)),
      restored |-> Below(m.restored, s.restored),
      positions |-> Popped(m.positions, depth) \o Reverse(Above(m.passed, s.passed)),
      passed |-> Below(m.passed, s.passed)]
-----------------------------------------------------------------------------
Init ==
  /\ \E case \in Cases : expression = case[1] /\ input = case[2]
  /\ machine = Compiled(expression)
  /\ search = [from |-> 0, rejectEmpty |-> FALSE, on |-> TRUE]
  /\ current = StartAt(0)
  /\ matcher = Fresh
  /\ matches = <<>>
  /\ iterations = 0

\* Subroutines end before the whole does, which may be a subroutine itself.
AtSubroutineEnd == matcher.frames # <<>> /\ current.state = Last(matcher.frames).target
AtEnd == ~AtSubroutineEnd /\ current.state = EndState
Rejected == search.rejectEmpty /\ current.stream = search.from

Iterate == search.on /\ iterations' = iterations + 1 /\ UNCHANGED <<expression, input, machine>>
Step == Iterate /\ ~AtSubroutineEnd /\ ~(AtEnd /\ ~Rejected) /\ UNCHANGED <<search, matches>>

CanPass == Transitions # <<>> /\ Passes(matcher, current.stream, Condition)
HasMore == current.transition < Len(Transitions)
AfterAsking == IF Transitions = <<>> THEN matcher ELSE Asked(matcher, Condition)

FinishSubroutine ==
  LET frame == Last(matcher.frames)
  IN /\ Iterate
     /\ AtSubroutineEnd
     /\ current' = [current EXCEPT !.state = frame.return, !.transition = 1]
     /\ matcher' = [matcher EXCEPT
          !.captures = Reverted(@, frame.captures),
          !.ended = IF frame.depth < Len(matcher.stack) THEN Append(@, frame) ELSE @,
          !.frames = Front(@)]
     /\ UNCHANGED <<search, matches>>

Take ==
  /\ Step
  /\ CanPass
  /\ LET p == current.stream + Taken(matcher, Condition)
         ready == IF HasMore THEN Saved(AfterAsking, current.stream, current.transition + 1) ELSE AfterAsking
     IN /\ matcher' = Executed(ready, p, Condition)
        /\ current' = [stream |-> Moved(ready, p, Condition),
                       state |-> Transitions[current.transition].to, transition |-> 1]

TryNext ==
  /\ Step
  /\ ~CanPass /\ HasMore
  /\ current' = [current EXCEPT !.transition = @ + 1]
  /\ matcher' = AfterAsking

Backtrack ==
  /\ Step
  /\ ~CanPass /\ ~HasMore /\ matcher.stack # <<>>
  /\ LET s == Last(matcher.stack)
     IN current' = [stream |-> s.stream, state |-> s.state, transition |-> s.transition]
  /\ matcher' = Backtracked(AfterAsking)

\* try_match() begins again, for find_next().
Restart(from, rejectEmpty) ==
  /\ search' = [search EXCEPT !.from = from, !.rejectEmpty = rejectEmpty]
  /\ current' = StartAt(from)
  /\ matcher' = Fresh
  /\ iterations' = 0
  /\ UNCHANGED <<expression, input, machine>>

Accept ==
  /\ search.on /\ AtEnd /\ ~Rejected
  /\ matches' = Append(matches,
       [begin |-> IF matcher.begin = NoPosition THEN search.from ELSE matcher.begin,
        end |-> current.stream, captures |-> matcher.captures])
  /\ Restart(current.stream, current.stream = search.from)

FailHere ==
  /\ search.on /\ ~AtSubroutineEnd /\ ~(AtEnd /\ ~Rejected)
  /\ ~CanPass /\ ~HasMore /\ matcher.stack = <<>>
  /\ IF search.from < Len(input) THEN Restart(search.from + 1, FALSE)
     ELSE search' = [search EXCEPT !.on = FALSE] /\ UNCHANGED <<expression, input, machine, current, matcher, iterations>>
  /\ UNCHANGED matches

Next == FinishSubroutine \/ Take \/ TryNext \/ Backtrack \/ Accept \/ FailHere

Spec == Init /\ [][Next]_vars
-----------------------------------------------------------------------------
Language == INSTANCE RegexLanguage

(* Backtracking restores what it has to: the matches are those of the      *)
(* expression, in priority order, with the captures and the beginning they *)
(* ought to have; whenever the end of the expression is reached nothing is *)
(* left open, as the assertions at the end of try_match() say; and no      *)
(* attempt goes on for ever.                                               *)
MatchIsExact ==
  /\ search.on /\ AtEnd =>
       <<>> = matcher.ongoing \o matcher.atomics \o matcher.frames \o matcher.checkpoints \o matcher.positions
  /\ iterations <= MaxIterations
  /\ ~search.on => matches = Language!AllMatches(expression, input, Groups)
=============================================================================
