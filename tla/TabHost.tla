------------------------------- MODULE TabHost -------------------------------
(***************************************************************************)
(* Tabs: the hosts that hold them, the windows that hold the hosts in a    *)
(* tree of split panels, selecting, closing and dragging them, and the     *)
(* tab_manager, which deletes hosts that are left empty.                   *)
(*                                                                         *)
(* All runs on the main thread; an action is one event, command or task.   *)
(* The contents and the buttons of a host are two panels with the same     *)
(* order; only buttons have z-indices.                                     *)
(***************************************************************************)
EXTENDS Naturals, Sequences, FiniteSets, SequencesExt

Collection == INSTANCE ElementCollection

CONSTANTS
  Tab, Host, Window, Split, None,
  MaxObjects \* bound on the tabs, hosts and windows that exist together

(* FoldLeft of SequencesExt, in time linear in the length of seq. *)
FoldSeqL(Op(_, _), base, seq) ==
  LET f[i \in 0..Len(seq)] == IF i = 0 THEN base ELSE Op(f[i - 1], seq[i])
  IN  f[Len(seq)]

VARIABLES
  hosts,    \* the tabs of each host, the z-order of their buttons, _active_tab
  tabs,     \* _host, _selected, visibility and z-index of the button of each tab
  changed,  \* tab_manager::_changed
  children, \* the children of each split panel in use
  root,     \* the host or split panel in each window
  marked,   \* tabs and windows marked for disposal
  drag      \* _dragging_tabs, the active one, _drag_destination, _dragging_in_host

vars == <<hosts, tabs, changed, children, root, marked, drag>>

NoTabs == [tabs |-> <<>>, zorder |-> <<>>, active |-> None]
NewTab == [host |-> None, selected |-> FALSE, visible |-> FALSE, z |-> 0]
NoDrag == [tabs |-> <<>>, active |-> None, dest |-> None, inHost |-> FALSE]
Dragged == ToSet(drag.tabs)

Init ==
  /\ hosts = [h \in Host |-> NoTabs]
  /\ tabs = [t \in Tab |-> NewTab]
  /\ changed = {}
  /\ children = [s \in Split |-> <<>>]
  /\ root = [w \in Window |-> None]
  /\ marked = {}
  /\ drag = NoDrag

-----------------------------------------------------------------------------
(* Where hosts are *)
Nodes == (UNION {ToSet(children[s]) : s \in Split} \cup {root[w] : w \in Window}) \ {None}
InUse == Nodes \cap Host

Windows == {w \in Window : root[w] # None}

(* Objects are created under any name that is free; which one it is makes  *)
(* no difference.                                                          *)
FreeOf(names) == names \ (Nodes \cup Windows)
NewHost == CHOOSE h \in FreeOf(Host) : TRUE
NewSplit == CHOOSE s \in FreeOf(Split) : TRUE
NewWindow == CHOOSE w \in FreeOf(Window) : TRUE

Open == {t \in Tab : tabs[t].host # None} \cup Dragged
Room(n) == Cardinality(Open) + Cardinality(InUse) + Cardinality(Windows) + n <= MaxObjects

(* The nodes of a window: what is reached from its root. *)
NodesOf(w) ==
  LET Deeper(set) == set \cup UNION {ToSet(children[s]) : s \in set \cap Split}
  IN  FoldSeqL(LAMBDA set, s : Deeper(set), {root[w]} \ {None}, SetToSeq(Split))
HostsOf(w) == NodesOf(w) \cap Host

(* Hosts to which commands and the mouse lead. *)
Reachable == UNION {HostsOf(w) : w \in Window \ marked}

-----------------------------------------------------------------------------
(* The operations of a host on the state of hosts and tabs, st.            *)
Now == [hosts |-> hosts, tabs |-> tabs, changed |-> changed]
Become(st) == \E new \in {st} : hosts' = new.hosts /\ tabs' = new.tabs /\ changed' = new.changed

ZIndices(st) == [t \in Tab |-> st.tabs[t].z]

SetZIndex(st, t, z) ==
  LET h == st.tabs[t].host
  IN  IF h = None THEN [st EXCEPT !.tabs[t].z = z]
      ELSE [st EXCEPT !.tabs[t].z = z,
              !.hosts[h].zorder = Collection!ZChanged(st.hosts[h].tabs, @, ZIndices(st), t, z)]

Select(st, t) ==
  IF st.tabs[t].selected THEN st ELSE SetZIndex([st EXCEPT !.tabs[t].selected = TRUE], t, 1)

Deselect(st, t) ==
  IF ~st.tabs[t].selected THEN st ELSE SetZIndex([st EXCEPT !.tabs[t].selected = FALSE], t, 0)

Deactivate(st, h) ==
  LET t == st.hosts[h].active
  IN  IF t = None THEN st
      ELSE [SetZIndex([st EXCEPT !.tabs[t].visible = FALSE], t, 1) EXCEPT !.hosts[h].active = None]

MakeActive(st, h, t) ==
  IF t = None THEN st
  ELSE SetZIndex([st EXCEPT !.hosts[h].active = t, !.tabs[t].visible = TRUE], t, 2)

(* activate_tab() *)
Activate(st, h, t) ==
  LET Mark(s, u) == IF u = t THEN Select(s, u) ELSE Deselect(s, u)
  IN  MakeActive(FoldSeqL(Mark, Deactivate(st, h), st.hosts[h].tabs), h, t)

(* activate_tab_keep_selection() *)
ActivateKeepSelection(st, h, t) ==
  LET idle == Deactivate(st, h)
  IN  MakeActive(IF t = None THEN idle ELSE Select(idle, t), h, t)

AddTab(st, h, t) ==
  LET added == [st EXCEPT !.tabs[t].host = h, !.tabs[t].visible = FALSE,
                  !.hosts[h].tabs = Append(@, t),
                  !.hosts[h].zorder = Collection!ZInserted(@, ZIndices(st), t)]
  IN  IF Len(added.hosts[h].tabs) = 1 THEN Activate(added, h, t) ELSE added

(* Mutant of Removing: the last tab has no successor.                      *)
Removing_NextOnly(st, t) ==
  LET h == st.tabs[t].host
      in == st.hosts[h].tabs
      at == CHOOSE i \in 1..Len(in) : in[i] = t
  IN  IF st.hosts[h].active # t THEN st
      ELSE ActivateKeepSelection(st, h, IF at < Len(in) THEN in[at + 1] ELSE None)

(* _on_tab_removing(): the next tab becomes active, or the previous one.   *)
Removing(st, t) ==
  LET h == st.tabs[t].host
      in == st.hosts[h].tabs
      at == CHOOSE i \in 1..Len(in) : in[i] = t
      next == IF Len(in) = 1 THEN None ELSE IF at < Len(in) THEN in[at + 1] ELSE in[at - 1]
  IN  IF st.hosts[h].active = t THEN ActivateKeepSelection(st, h, next) ELSE st

(* remove_tab(), _on_tab_removed() and _on_tab_detached() *)
RemoveTab(st, t) ==
  LET h == st.tabs[t].host
      Out(seq) == Collection!Without(seq, t)
  IN  [Removing(st, t) EXCEPT !.hosts[h].tabs = Out(@), !.hosts[h].zorder = Out(@),
          !.tabs[t].host = None, !.changed = @ \cup {h}]

(* move_tab_before() *)
MoveTabBefore(st, t, before) ==
  LET h == st.tabs[t].host
      others == Collection!Without(st.hosts[h].tabs, t)
  IN  [st EXCEPT !.hosts[h].tabs = Collection!Before(others, t, before),
          !.hosts[h].zorder = Collection!ZMoved(others, @, ZIndices(st), t, before)]

AddTabs(st, h, ts) == FoldSeqL(LAMBDA s, t : AddTab(s, h, t), st, ts)
RemoveTabs(st, ts) == FoldSeqL(RemoveTab, st, SelectSeq(ts, LAMBDA t : st.tabs[t].host # None))

-----------------------------------------------------------------------------
(* Commands and clicks *)
OpenTab(t, h, activate) ==
  LET added == AddTab([Now EXCEPT !.tabs[t] = NewTab], h, t)
  IN  /\ Room(1)
      /\ Become(IF activate THEN Activate(added, h, t) ELSE added)
      /\ UNCHANGED <<children, root, marked, drag>>

(* new_tab_in() with no host *)
OpenWindow(t) ==
  /\ Room(3) /\ FreeOf(Window) # {} /\ FreeOf(Host) # {}
  /\ root' = [root EXCEPT ![NewWindow] = NewHost]
  /\ Become(AddTab([Now EXCEPT !.tabs[t] = NewTab], NewHost, t))
  /\ UNCHANGED <<children, marked, drag>>

(* The tabs from the active one to t, or from t on to the active one,      *)
(* without t and the active one.                                           *)
Between(h, t) ==
  LET in == hosts[h].tabs
      At(u) == CHOOSE i \in 1..Len(in) : in[i] = u
      active == At(hosts[h].active)
  IN  {in[i] : i \in {j \in 1..Len(in) : (active < j /\ j < At(t)) \/ (At(t) < j /\ j < active)}}

(* tab::_on_request_activate() with shift: t, too, is selected at once if  *)
(* it is on the left.                                                      *)
SelectRange(h, t, keep) ==
  LET in == hosts[h].tabs
      At(u) == CHOOSE i \in 1..Len(in) : in[i] = u
      Left == At(t) < At(hosts[h].active)
      Mark(st, u) ==
        IF u \in Between(h, t) \/ (u = t /\ Left) THEN Select(st, u)
        ELSE IF u \in {t, hosts[h].active} \/ keep THEN st ELSE Deselect(st, u)
  IN  ActivateKeepSelection(FoldSeqL(Mark, Now, in), h, t)

(* ... with control: a selected tab is deselected; if it is active another *)
(* selected tab, the first one, becomes active before.                     *)
Toggle(h, t) ==
  LET others == SelectSeq(hosts[h].tabs, LAMBDA u : u # t /\ tabs[u].selected)
  IN  IF ~tabs[t].selected THEN ActivateKeepSelection(Now, h, t)
      ELSE IF hosts[h].active # t THEN Deselect(Now, t)
      ELSE IF others = <<>> THEN Now
      ELSE Deselect(ActivateKeepSelection(Now, h, Head(others)), t)

RequestActivate(t, shift, control) ==
  LET h == tabs[t].host
  IN  /\ drag = NoDrag
      /\ Become(IF shift THEN SelectRange(h, t, control)
                ELSE IF control THEN Toggle(h, t) ELSE Activate(Now, h, t))
      /\ UNCHANGED <<children, root, marked, drag>>

(* tab::request_close() *)
CloseTab(t) ==
  /\ tabs[t].host # None /\ t \notin Dragged
  /\ marked' = marked \cup {t}
  /\ UNCHANGED <<hosts, tabs, changed, children, root, drag>>

TabsOf(w) == UNION {ToSet(hosts[h].tabs) : h \in HostsOf(w)}

CloseWindow(w) ==
  /\ drag = NoDrag
  /\ root[w] # None
  /\ marked' = marked \cup {w} \cup TabsOf(w)
  /\ UNCHANGED <<hosts, tabs, changed, children, root, drag>>

-----------------------------------------------------------------------------
(* The update of the scheduler *)

(* dispose_marked_elements(): a tab leaves its host when it is disposed of;*)
(* the hosts of a window are in a later batch than the window and its tabs.*)
DisposeMarked ==
  /\ marked # {}
  /\ \E batch \in SetToSeqs(marked \cap Tab) :
       LET gone == UNION {NodesOf(w) : w \in marked \cap Window}
           left == RemoveTabs(Now, batch)
       IN  Become([left EXCEPT !.changed = @ \ gone,
                     !.tabs = [t \in Tab |-> IF t \in marked THEN NewTab ELSE @[t]]])
           /\ children' = [s \in Split |-> IF s \in gone THEN <<>> ELSE children[s]]
           /\ root' = [w \in Window |-> IF w \in marked THEN None ELSE root[w]]
  /\ marked' = {}
  /\ UNCHANGED drag

(* Put a node in the place of another *)
Replaced(tree, old, new) ==
  LET Put(n) == IF n = old THEN new ELSE n
  IN  [children |-> [s \in Split |-> [i \in DOMAIN tree.children[s] |-> Put(tree.children[s][i])]],
       root |-> [w \in Window |-> Put(tree.root[w])]]

Empty(n) == n \in Host /\ hosts[n].tabs = <<>>

(* One host in update_changed_hosts(): when it and its neighbour are empty *)
(* the neighbour takes the place of the split panel.                       *)
MergeHost(tree, h) ==
  LET fathers == {s \in Split : h \in ToSet(tree.children[s])}
      father == CHOOSE s \in fathers : TRUE
      other == CHOOSE n \in ToSet(tree.children[father]) : n # h
      merged == Replaced([tree EXCEPT !.children[father] = <<>>], father, other)
  IN  IF ~Empty(h) \/ fathers = {} THEN tree
      ELSE IF ~Empty(other) THEN tree
      ELSE [children |-> merged.children, root |-> merged.root, changed |-> (tree.changed \ {h}) \cup {other}]

(* order is that of the addresses of the hosts, by which the set is sorted.*)
MergeRound(tree, order) ==
  LET Visit(t, h) == IF h \in tree.changed THEN MergeHost(t, h) ELSE t
  IN  FoldSeqL(Visit, [tree EXCEPT !.changed = {}], order)

UpdateChangedHosts ==
  /\ changed # {}
  /\ \E order \in SetToSeqs(InUse) :
       LET tree == FoldSeqL(LAMBDA t, s : MergeRound(t, order),
                     [children |-> children, root |-> root, changed |-> changed],
                     order \o <<None>>)
       IN  children' = tree.children /\ root' = tree.root /\ changed' = tree.changed
  /\ drag' = IF drag.dest \in InUse \ InUse' THEN [drag EXCEPT !.dest = None, !.inHost = FALSE] ELSE drag
  /\ UNCHANGED <<hosts, tabs, marked>>

-----------------------------------------------------------------------------
(* Tabs that go to a host of their own, in a split panel or in a window.   *)
SplitHost(h, newFirst) ==
  LET tree == Replaced([children |-> children, root |-> root], h, NewSplit)
  IN  /\ Room(1) /\ FreeOf(Split) # {} /\ FreeOf(Host) # {}
      /\ children' = [tree.children EXCEPT ![NewSplit] = IF newFirst THEN <<NewHost, h>> ELSE <<h, NewHost>>]
      /\ root' = tree.root

InNewWindow ==
  /\ Room(2) /\ FreeOf(Window) # {} /\ FreeOf(Host) # {}
  /\ root' = [root EXCEPT ![NewWindow] = NewHost]
  /\ UNCHANGED children

(* split_tabs() and move_tabs_to_new_window(), as the commands call them   *)
MoveTab(t) ==
  /\ t \notin Dragged
  /\ Become(AddTab(RemoveTab(Now, t), NewHost, t))
  /\ UNCHANGED <<marked, drag>>

SplitTab(t, newFirst) == SplitHost(tabs[t].host, newFirst) /\ MoveTab(t)
MoveTabToNewWindow(t) == InNewWindow /\ MoveTab(t)

-----------------------------------------------------------------------------
(* Dragging *)

(* The button under which the mouse was pressed moves: the tab becomes     *)
(* active if it is not, and start_dragging_selected_tabs() takes all that  *)
(* are selected.                                                           *)
StartDrag(t) ==
  LET h == tabs[t].host
      st == IF hosts[h].active = t THEN Now ELSE ActivateKeepSelection(Now, h, t)
      taken == SelectSeq(hosts[h].tabs, LAMBDA u : st.tabs[u].selected)
  IN  /\ drag = NoDrag
      /\ ToSet(taken) \cap marked = {}
      /\ Become(st)
      /\ drag' = [tabs |-> taken, active |-> t, dest |-> h, inHost |-> TRUE]
      /\ UNCHANGED <<children, root, marked>>

(* _on_drag_update(): the tabs that are dragged, from left to right, are   *)
(* put between the others.                                                 *)
Placed(st, h) ==
  LET others == SelectSeq(st.hosts[h].tabs, LAMBDA t : t \notin Dragged) \o <<None>>
      Places == {p \in [1..Len(drag.tabs) -> 1..Len(others)] : \A i \in 2..Len(drag.tabs) : p[i - 1] <= p[i]}
      Put(p) == FoldSeqL(LAMBDA s, i : MoveTabBefore(s, drag.tabs[i], others[p[i]]),
                         st, [i \in 1..Len(drag.tabs) |-> i])
  IN  {Put(p) : p \in Places}

(* _update_dragging_in_host() *)
DragInHost ==
  /\ drag.inHost
  /\ \E st \in Placed(Now, drag.dest) : Become(st)
  /\ UNCHANGED <<children, root, marked, drag>>

DragOut ==
  /\ drag.inHost
  /\ Become(RemoveTabs(Now, drag.tabs))
  /\ drag' = [drag EXCEPT !.dest = None, !.inHost = FALSE]
  /\ UNCHANGED <<children, root, marked>>

(* _update_dragging_free() *)
DragFree == drag # NoDrag /\ ~drag.inHost

DragOver(h) ==
  /\ DragFree /\ h # drag.dest
  /\ drag' = [drag EXCEPT !.dest = h]
  /\ UNCHANGED <<hosts, tabs, changed, children, root, marked>>

DragInto(h) ==
  LET added == ActivateKeepSelection(AddTabs(Now, h, drag.tabs), h, drag.active)
  IN  /\ DragFree
      /\ \E st \in Placed(added, h) : Become(st)
      /\ drag' = [drag EXCEPT !.dest = h, !.inHost = TRUE]
      /\ UNCHANGED <<children, root, marked>>

(* _stop_dragging() *)
StopInHost ==
  /\ drag.inHost
  /\ drag' = NoDrag
  /\ UNCHANGED <<hosts, tabs, changed, children, root, marked>>

Drop(h) ==
  /\ Become(ActivateKeepSelection(AddTabs(Now, h, drag.tabs), h, drag.active))
  /\ drag' = NoDrag
  /\ UNCHANGED marked

DropCombine == DragFree /\ drag.dest # None /\ Drop(drag.dest) /\ UNCHANGED <<children, root>>
DropSplit(newFirst) == DragFree /\ drag.dest # None /\ SplitHost(drag.dest, newFirst) /\ Drop(NewHost)
DropInNewWindow == DragFree /\ InNewWindow /\ Drop(NewHost)

-----------------------------------------------------------------------------
(* What commands and the mouse do to a host that they lead to *)
OnHost(h) ==
  \/ \E t \in Tab \ Open, activate \in BOOLEAN : OpenTab(t, h, activate)
  \/ \E t \in ToSet(hosts[h].tabs) :
       \/ \E shift, control \in BOOLEAN : RequestActivate(t, shift, control)
       \/ \E newFirst \in BOOLEAN : SplitTab(t, newFirst)
       \/ MoveTabToNewWindow(t)
       \/ StartDrag(t)
  \/ DragOver(h)
  \/ DragInto(h)

Next ==
  \/ \E h \in Reachable : OnHost(h)
  \/ \E t \in Tab \ Open : OpenWindow(t)
  \/ \E t \in Tab : CloseTab(t)
  \/ \E w \in Window : CloseWindow(w)
  \/ DisposeMarked
  \/ UpdateChangedHosts
  \/ DragInHost
  \/ DragOut
  \/ DragOver(None)
  \/ StopInHost
  \/ DropCombine
  \/ \E newFirst \in BOOLEAN : DropSplit(newFirst)
  \/ DropInNewWindow

Spec == Init /\ [][Next]_vars

-----------------------------------------------------------------------------
(* A host shows one tab, its active one, exactly when it has tabs; the     *)
(* active tab is selected.                                                 *)
ShowsActive ==
  \A h \in Host :
    /\ hosts[h].active = None <=> hosts[h].tabs = <<>>
    /\ hosts[h].active # None => hosts[h].active \in ToSet(hosts[h].tabs) /\ tabs[hosts[h].active].selected
    /\ \A t \in ToSet(hosts[h].tabs) : tabs[t].visible <=> t = hosts[h].active

(* A tab is in the one host that it names and has a button there.          *)
TabsPlaced ==
  /\ \A h \in Host :
       /\ IsInjective(hosts[h].tabs)
       /\ ToSet(hosts[h].tabs) = {t \in Tab : tabs[t].host = h}
       /\ Len(hosts[h].zorder) = Len(hosts[h].tabs)
       /\ ToSet(hosts[h].zorder) = ToSet(hosts[h].tabs)
  /\ \A t \in Dragged : tabs[t].host = IF drag.inHost THEN drag.dest ELSE None

(* The z-index of a button tells an active, a selected and another tab     *)
(* apart, in a host and while it is dragged.                               *)
ZIndexShowsState ==
  \A t \in Tab :
    tabs[t].z = IF tabs[t].host # None /\ hosts[tabs[t].host].active = t THEN 2
                ELSE IF tabs[t].selected THEN 1 ELSE 0

(* A host goes away only when it has no tab, and neither the set of        *)
(* changed hosts nor the drag refers to one that is gone.                  *)
HostsKept ==
  /\ \A h \in Host \ InUse : hosts[h] = NoTabs
  /\ changed \subseteq InUse
  /\ drag.dest # None => drag.dest \in Reachable

(* Two empty hosts are side by side only until the next update.            *)
EmptyHostsMerge ==
  \A s \in Split :
    children[s] # <<>> /\ (\A n \in ToSet(children[s]) : Empty(n)) => ToSet(children[s]) \cap changed # {}

TabsInv == ShowsActive /\ TabsPlaced /\ ZIndexShowsState /\ HostsKept /\ EmptyHostsMerge

(* The order in which buttons are drawn and clicked is that of their       *)
(* z-indices.                                                              *)
ZOrderDescending ==
  \A h \in Host : \A i, j \in 1..Len(hosts[h].zorder) :
    i < j => tabs[hosts[h].zorder[i]].z >= tabs[hosts[h].zorder[j]].z
=============================================================================
