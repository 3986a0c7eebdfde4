------------------------------ MODULE EventBase ------------------------------
(***************************************************************************)
(* Events (event.h): a list of handlers that are invoked in the order in   *)
(* which they were registered.  Handlers may register and unregister,      *)
(* themselves too, and invoke the event again; `_state` is how the event   *)
(* knows which of them must not be erased yet.                             *)
(***************************************************************************)
EXTENDS Naturals, Sequences, SequencesExt

CONSTANTS Handler, MaxDepth, MaxRuns  \* bounds on nesting, and on handlers run by one invocation

VARIABLES
  list,         \* _list
  subscribed,   \* the handlers whose tokens are valid
  invocations,  \* the calls of invoke() in progress: st, and two histories:
                \* ran, and due, the handlers in the order in which to run them
  executing,    \* what _state points to: the number of an invocation, 0 is nullptr
  finished      \* the histories of the invocation that ended last

vars == <<list, subscribed, invocations, executing, finished>>

Init ==
  /\ list = <<>>
  /\ subscribed = {}
  /\ invocations = <<>>
  /\ executing = 0
  /\ finished = [ran |-> <<>>, due |-> <<>>]

Depth == Len(invocations)
Top == invocations[Depth]

-----------------------------------------------------------------------------
(* operator+=() *)
Register(h) ==
  /\ h \notin ToSet(list)
  /\ \A i \in 1..Depth : Len(invocations[i].due) < MaxRuns
  /\ list' = Append(list, h)
  /\ subscribed' = subscribed \cup {h}
  /\ invocations' = [i \in 1..Depth |-> [invocations[i] EXCEPT !.due = Append(@, h)]]
  /\ UNCHANGED <<executing, finished>>

IsExecuting(h) == executing # 0 /\ invocations[executing].handler = h

(* An invocation that is not the current one does not expect its handler   *)
(* to go; callers must not do that.                                        *)
MayUnregister(h) == \A i \in 1..Depth : i # executing => invocations[i].handler # h

(* Handlers are in a sequence once. *)
PositionOf(h, seq) == CHOOSE i \in DOMAIN seq : seq[i] = h
Without(seq, h) == IF h \in ToSet(seq) THEN RemoveAt(seq, PositionOf(h, seq)) ELSE seq

(* Neither run nor due any more. *)
NoLongerDue(inv, h) ==
  LET still == SubSeq(inv.due, Len(inv.ran) + 1, Len(inv.due))
  IN  [inv EXCEPT !.due = inv.ran \o Without(still, h)]

(* operator-=() *)
Unregister(h) ==
  /\ h \in subscribed
  /\ MayUnregister(h)
  /\ subscribed' = subscribed \ {h}
  /\ LET due == [i \in 1..Depth |-> NoLongerDue(invocations[i], h)]
     IN  IF IsExecuting(h)
         THEN /\ invocations' = [due EXCEPT ![executing].eraseWhenDone = TRUE]
              /\ UNCHANGED list
         ELSE /\ invocations' = due
              /\ list' = Without(list, h)
  /\ UNCHANGED <<executing, finished>>

-----------------------------------------------------------------------------
(* invoke(), as far as the first handler *)
Invoke ==
  /\ Depth < MaxDepth
  /\ Depth > 0 => ~Top.eraseWhenDone
  /\ IF list = <<>>
     THEN executing' = 0 /\ UNCHANGED invocations
     ELSE /\ invocations' = Append(invocations, [handler |-> Head(list), eraseWhenDone |-> FALSE,
                                                 ran |-> <<Head(list)>>, due |-> list])
          /\ executing' = Depth + 1
  /\ UNCHANGED <<list, subscribed, finished>>

(* Mutant of Continue: erase_when_done stays set for the next handler.     *)
Continue_NotReset(inv, h) == [inv EXCEPT !.handler = h, !.ran = Append(@, h)]

Continue(inv, h) == [inv EXCEPT !.handler = h, !.eraseWhenDone = FALSE, !.ran = Append(@, h)]

(* A handler returns, and the loop goes on to the next one or ends. *)
HandlerReturns ==
  /\ Depth > 0
  /\ LET at == PositionOf(Top.handler, list)
     IN  /\ list' = IF Top.eraseWhenDone THEN RemoveAt(list, at) ELSE list
         /\ IF at < Len(list)
            THEN /\ invocations' = [invocations EXCEPT ![Depth] = Continue(@, list[at + 1])]
                 /\ UNCHANGED <<executing, finished>>
            ELSE /\ invocations' = Front(invocations)
                 /\ executing' = 0
                 /\ finished' = [ran |-> Top.ran, due |-> Top.due]
  /\ UNCHANGED subscribed

Next ==
  \/ \E h \in Handler : Register(h) \/ Unregister(h)
  \/ Invoke
  \/ HandlerReturns

Spec == Init /\ [][Next]_vars

-----------------------------------------------------------------------------
(* Each invocation runs the handlers that are registered when their turn   *)
(* comes, in order, each once, whatever the handlers do to the list.       *)
RunsWhatIsDue ==
  /\ \A i \in 1..Depth : IsPrefix(invocations[i].ran, invocations[i].due)
  /\ finished.ran = finished.due

(* The iterator of a loop is that of a handler in the list.                *)
IteratorsValid == \A i \in 1..Depth : invocations[i].handler \in ToSet(list)

(* Outside of the handlers that are about to be erased, the list is what   *)
(* is registered.                                                          *)
ListIsRegistered ==
  ToSet(list) = subscribed \cup {invocations[i].handler : i \in {j \in 1..Depth : invocations[j].eraseWhenDone}}

EventsInv == RunsWhatIsDue /\ IteratorsValid /\ ListIsRegistered
=============================================================================
