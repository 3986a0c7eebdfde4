----------------------------- MODULE ElementTree -----------------------------
(***************************************************************************)
(* The tree of elements and what the scheduler and the windows keep that   *)
(* refers to it: the focus, the focus of each focus scope, the hotkey      *)
(* groups in effect, the capture of the mouse, and the elements marked for *)
(* disposal.  All runs on the main thread.                                 *)
(***************************************************************************)
EXTENDS Naturals, Sequences, FiniteSets, SequencesExt

CONSTANTS
  Element,
  Window,    \* elements that are windows,
  Scope,     \* focus scopes, all windows among them,
  Panel,     \* elements that have children, all scopes among them,
  Focusable, \* elements whose visibility includes visibility::focus
  None,
  MaxElements, \* bound on the elements that exist
  MaxMarked    \* bound on the elements that are marked one by one

(* Elements are finitely many; windows are scopes, and scopes panels.      *)
ElementsNested ==
  /\ IsFiniteSet(Element) /\ None \notin Element
  /\ Window \subseteq Scope /\ Scope \subseteq Panel /\ Panel \subseteq Element

VARIABLES
  parent,        \* element::_parent
  existing,      \* elements that have not been deleted
  marked,        \* scheduler::_to_delete
  focus,         \* scheduler::_focus
  focusedWindow, \* scheduler::_focused_window
  scopeFocus,    \* panel::_scope_focus
  groups,        \* hotkey_listener::_groups: the elements they are of
  capture        \* window::_capture

vars == <<parent, existing, marked, focus, focusedWindow, scopeFocus, groups, capture>>

Init ==
  /\ parent = [e \in Element |-> None]
  /\ existing \in kSubset(MaxElements, Element)
  /\ marked = {}
  /\ focus = None
  /\ focusedWindow = None
  /\ scopeFocus = [s \in Scope |-> None]
  /\ groups = <<>>
  /\ capture = [w \in Window |-> None]

-----------------------------------------------------------------------------
(* The operations act on a state st of all that they may change.           *)
Now == [parent |-> parent, existing |-> existing, marked |-> marked, focus |-> focus,
        focused |-> focusedWindow, scope |-> scopeFocus, groups |-> groups, capture |-> capture]
Become(st) ==
  /\ parent' = st.parent /\ existing' = st.existing /\ marked' = st.marked
  /\ focus' = st.focus /\ focusedWindow' = st.focused /\ scopeFocus' = st.scope
  /\ groups' = st.groups /\ capture' = st.capture

(* An element, its parent, and so on to the root *)
Path(st, e) ==
  LET path[f \in Element] == <<f>> \o (IF st.parent[f] = None THEN <<>> ELSE path[st.parent[f]])
  IN  IF e = None THEN <<>> ELSE path[e]

Under(st, e, f) == f \in ToSet(Path(st, e))
WindowOf(st, e) == IF Last(Path(st, e)) \in Window THEN Last(Path(st, e)) ELSE None
Children(st, e) == {f \in Element : st.parent[f] = e}

(* What receives the focus: the focus of a focus scope, if it has one.     *)
Innermost(st, e) ==
  LET in[f \in Element] == IF f \in Scope /\ st.scope[f] \notin {None, f} THEN in[st.scope[f]] ELSE f
  IN  IF e = None THEN None ELSE in[e]

(* set_focused_element(): not in a window that does not have the focus of  *)
(* the system.  Each scope on the path to the root refers to the next scope*)
(* on the path to the focus.                                               *)
SetFocusedElement(st, e) ==
  LET new == Innermost(st, e)
      path == Path(st, new)
      InScope(s) ==
        LET at == CHOOSE i \in 1..Len(path) : path[i] = s
            below == {i \in 1..at - 1 : i = 1 \/ path[i] \in Scope}
        IN  path[CHOOSE i \in below : \A j \in below : j <= i]
      Refused == e # None /\ WindowOf(st, e) \notin {st.focused} \ {None}
  IN  IF Refused \/ new = st.focus THEN st
      ELSE [st EXCEPT !.focus = new, !.groups = path,
              !.scope = [s \in Scope |-> IF s \in ToSet(path) \ {new} THEN InScope(s) ELSE @[s]]]

(* The nearest of some elements that an element is in.                     *)
Nearest(st, e, among) ==
  LET path == Path(st, e)
      above == {i \in 2..Len(path) : path[i] \in among}
  IN  IF above = {} THEN None ELSE path[CHOOSE i \in above : \A j \in above : i <= j]

(* _find_focus_scope() *)
ScopeOf(st, e) == Nearest(st, e, Scope)

(* The parent of an element that is removed, or one above it, takes over   *)
(* the focus.                                                              *)
TakesOver(st, e) == Nearest(st, e, Focusable \cup Scope)

(* _on_removing_element() *)
ScopeLeft(st, e) ==
  LET s == ScopeOf(st, e)
  IN  IF s = None THEN st
      ELSE IF st.scope[s] # None /\ Under(st, st.scope[s], e) THEN [st EXCEPT !.scope[s] = None] ELSE st
FocusLeft(st, e) == IF Under(st, st.focus, e) THEN SetFocusedElement(st, TakesOver(st, e)) ELSE st
CaptureLeft(st, e) ==
  LET w == WindowOf(st, e)
  IN  IF w = None THEN st
      ELSE IF st.capture[w] # None /\ Under(st, st.capture[w], e) THEN [st EXCEPT !.capture[w] = None] ELSE st

(* Mutant of OnRemoving: the focus moves before the scope forgets it.      *)
OnRemoving_FocusFirst(st, e) == CaptureLeft(ScopeLeft(FocusLeft(st, e), e), e)

OnRemoving(st, e) == CaptureLeft(FocusLeft(ScopeLeft(st, e), e), e)

(* element_collection::remove() *)
RemoveChild(st, e) == [OnRemoving(st, e) EXCEPT !.parent[e] = None]

(* Removes them one after the other.                                       *)
RemoveChildren(st, elements) ==
  LET after[n \in 0..Len(elements)] == IF n = 0 THEN st ELSE RemoveChild(after[n - 1], elements[n])
  IN  after[Len(elements)]

(* element::_dispose() and the rest of the loop in                         *)
(* dispose_marked_elements(): a window first gives up the focus, a panel   *)
(* marks its children and removes them, and then leaves its parent.        *)
DisposeElement(st, e) ==
  LET children == Children(st, e)
      begun == IF e \in Window THEN OnRemoving(st, e) ELSE st
      alone == RemoveChildren([begun EXCEPT !.marked = @ \cup children], SetToSeq(children))
      gone == IF st.parent[e] = None THEN alone ELSE RemoveChild(alone, e)
  IN  [gone EXCEPT !.existing = @ \ {e}, !.marked = @ \ {e}]

(* Disposes of them one after the other.                                   *)
DisposeElements(st, elements) ==
  LET after[n \in 0..Len(elements)] == IF n = 0 THEN st ELSE DisposeElement(after[n - 1], elements[n])
  IN  after[Len(elements)]

-----------------------------------------------------------------------------
(* element_collection::insert_before(), of an element that is in no panel  *)
Add(e, p) ==
  /\ e \in existing \ Window /\ parent[e] = None
  /\ p \in existing /\ ~Under(Now, p, e)
  /\ parent' = [parent EXCEPT ![e] = p]
  /\ UNCHANGED <<existing, marked, focus, focusedWindow, scopeFocus, groups, capture>>

RemoveElement(e) == parent[e] # None /\ Become(RemoveChild(Now, e))

MarkForDisposal(e) ==
  /\ e \in existing \ marked
  /\ Cardinality(marked) < MaxMarked
  /\ marked' = marked \cup {e}
  /\ UNCHANGED <<parent, existing, focus, focusedWindow, scopeFocus, groups, capture>>

(* One batch of dispose_marked_elements(), in the order of addresses; what *)
(* it marks is the next batch.                                             *)
DisposeBatch ==
  /\ marked # {}
  /\ \E batch \in SetToSeqs(marked) : Become(DisposeElements([Now EXCEPT !.marked = {}], batch))

(* A mouse button or a command asks for the focus.                         *)
Focus(e) == e \in existing /\ Become(SetFocusedElement(Now, e))

(* _on_system_focus_changed() *)
SystemFocus(w) == Become(SetFocusedElement([Now EXCEPT !.focused = w], w))

SetMouseCapture(e) ==
  LET w == WindowOf(Now, e)
  IN  /\ e \in existing /\ w # None
      /\ capture[w] = None
      /\ capture' = [capture EXCEPT ![w] = e]
      /\ UNCHANGED <<parent, existing, marked, focus, focusedWindow, scopeFocus, groups>>

(* The element releases the capture, or the system breaks it.              *)
ReleaseMouseCapture(w) ==
  /\ capture[w] # None
  /\ capture' = [capture EXCEPT ![w] = None]
  /\ UNCHANGED <<parent, existing, marked, focus, focusedWindow, scopeFocus, groups>>

Next ==
  \/ \E e \in Element, p \in Panel : Add(e, p)
  \/ \E e \in Element : RemoveElement(e) \/ MarkForDisposal(e) \/ Focus(e) \/ SetMouseCapture(e)
  \/ DisposeBatch
  \/ \E w \in (Window \cap existing) \cup {None} : SystemFocus(w)
  \/ \E w \in Window : ReleaseMouseCapture(w)

Spec == Init /\ [][Next]_vars

-----------------------------------------------------------------------------
(* The focus is an element of the tree of the focused window.              *)
FocusAttached == focus # None => focus \in existing /\ WindowOf(Now, focus) = focusedWindow

(* Hotkeys are those of the focus and of what it is in, as they are now.   *)
HotkeysFollowFocus == groups = Path(Now, focus)

(* The focus of a scope, which is read when the scope receives the focus,  *)
(* is within it, with no other scope between them.                         *)
ScopeFocusWithin ==
  \A s \in Scope \cap existing :
    scopeFocus[s] # None => scopeFocus[s] \in existing /\ ScopeOf(Now, scopeFocus[s]) = s

(* A window has the mouse captured for an element that is in it.           *)
CaptureWithin ==
  \A w \in Window : capture[w] # None => capture[w] \in existing /\ WindowOf(Now, capture[w]) = w

(* Elements that have been deleted are out of the tree and are not marked, *)
(* so that none is deleted twice.                                          *)
DeletedAreGone ==
  /\ marked \subseteq existing
  /\ \A e \in Element : parent[e] # None => {e, parent[e]} \subseteq existing

FocusInv == FocusAttached /\ HotkeysFollowFocus /\ ScopeFocusWithin /\ CaptureWithin /\ DeletedAreGone
=============================================================================
