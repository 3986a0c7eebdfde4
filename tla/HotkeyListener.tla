--------------------------- MODULE HotkeyListener ---------------------------
(***************************************************************************)
(* Hotkeys of several gestures (hotkey_registry.cpp, commands.cpp).  The   *)
(* groups of the focused element and of those it is in follow the keys at  *)
(* the same time; the first of them that gets to the end of a hotkey wins. *)
(*                                                                         *)
(* A group is the set of its hotkeys: the nodes of its tree are their      *)
(* beginnings.  A state is the path to the node it points to, <<>> for     *)
(* nullptr.                                                                *)
(***************************************************************************)
EXTENDS Naturals, Sequences, SequencesExt

CONSTANTS
  Group,
  Gesture, Modifier,  \* keys, and those of them that are modifiers
  Hotkey,             \* what the configuration may contain
  MaxEntries,         \* bounds on the entries of a group in the configuration,
  MaxGroups,          \* on the groups in effect,
  MaxGestures         \* and on the keys of a chain, with modifiers

(* Where the module is used, hotkeys are sequences of keys.                *)
HotkeysAreKeys == Hotkey \subseteq Seq(Gesture)

VARIABLES
  hotkeys,  \* hotkey_group::_reg
  active,   \* hotkey_listener::_groups
  gests,    \* _gests
  answer,   \* what on_key_down() returned and which events it invoked
  typed     \* history: the gestures of the chain that is in progress

vars == <<hotkeys, active, gests, answer, typed>>

-----------------------------------------------------------------------------
(* register_hotkey(), which refuses what is a beginning of another hotkey  *)
(* or the other way round.                                                 *)
Registered(group, keys) ==
  IF keys = <<>> \/ \E other \in group : IsPrefix(other, keys) \/ IsPrefix(keys, other)
    THEN group
    ELSE group \cup {keys}

(* parse_class_hotkey() *)
Parsed(entries) ==
  LET group[n \in 0..Len(entries)] == IF n = 0 THEN {} ELSE Registered(group[n - 1], entries[n])
  IN  group[Len(entries)]

IsNode(group, path) == \E keys \in group : IsPrefix(path, keys)

(* update_state() *)
UpdateState(group, path, key) ==
  IF key \in Modifier THEN path
  ELSE IF path \notin group /\ IsNode(group, Append(path, key)) THEN Append(path, key)
  ELSE <<>>

Fresh(groups) == [i \in DOMAIN groups |-> [group |-> groups[i], state |-> <<>>]]
NoAnswer == [trigger |-> 0, intercepted |-> FALSE, interrupted |-> FALSE]

Init ==
  /\ hotkeys \in [Group -> {Parsed(entries) : entries \in UNION {[1..n -> Hotkey] : n \in 0..MaxEntries}}]
  /\ active = <<>>
  /\ gests = <<>>
  /\ answer = NoAnswer
  /\ typed = <<>>

-----------------------------------------------------------------------------
(* The focus has moved: reset_groups() *)
ResetGroups(groups) ==
  /\ active' = Fresh(groups)
  /\ gests' = <<>>
  /\ answer' = [NoAnswer EXCEPT !.interrupted = gests # <<>>]
  /\ typed' = <<>>
  /\ UNCHANGED hotkeys

(* Mutant of OnKeypress: a group comes in when others are in a chain.      *)
OnKeypress_Late(g, key) == [g EXCEPT !.state = UpdateState(hotkeys[g.group], @, key)]

(* _hotkey_group_state::on_keypress() *)
OnKeypress(g, key) ==
  IF gests # <<>> /\ g.state = <<>> THEN g ELSE [g EXCEPT !.state = UpdateState(hotkeys[g.group], @, key)]

Pressed(key) == [i \in DOMAIN active |-> OnKeypress(active[i], key)]
Triggers(key) == {i \in DOMAIN active : Pressed(key)[i].state \in hotkeys[active[i].group]}

(* on_key_down(), when a hotkey is complete.  Its command may move the     *)
(* focus.                                                                  *)
OnHotkey(key, focusMoves, groups) ==
  /\ Triggers(key) # {}
  /\ active' = IF focusMoves THEN Fresh(groups) ELSE [i \in DOMAIN active |-> [active[i] EXCEPT !.state = <<>>]]
  /\ answer' = [trigger |-> CHOOSE i \in Triggers(key) : \A j \in Triggers(key) : i <= j,
                intercepted |-> TRUE, interrupted |-> focusMoves /\ gests # <<>>]
  /\ gests' = <<>>

(* on_key_down(), when none is. *)
OnOtherKey(key) ==
  LET ended == \A i \in DOMAIN active : Pressed(key)[i].state = <<>>
  IN  /\ Triggers(key) = {}
      /\ active' = Pressed(key)
      /\ gests' = IF ended THEN <<>> ELSE Append(gests, key)
      /\ answer' = [trigger |-> 0, intercepted |-> Pressed(key) # active, interrupted |-> ended /\ Len(gests) > 1]

(* What a key adds to the chain: nothing, when it is a modifier, when no   *)
(* hotkey goes on like that or when one is complete.                       *)
Follow(key) ==
  LET chain == Append(typed, key)
      groups == {hotkeys[active[i].group] : i \in DOMAIN active}
  IN  typed' = IF key \in Modifier THEN typed
               ELSE IF (\E g \in groups : chain \in g) \/ (\A g \in groups : ~IsNode(g, chain)) THEN <<>>
               ELSE chain

GroupLists == UNION {[1..n -> Group] : n \in 0..MaxGroups}

OnKeyDown(key) ==
  /\ Len(gests) < MaxGestures
  /\ \/ OnOtherKey(key)
     \/ OnHotkey(key, FALSE, <<>>)
     \/ \E groups \in GroupLists : OnHotkey(key, TRUE, groups)
  /\ Follow(key)
  /\ UNCHANGED hotkeys

Next ==
  \/ \E groups \in GroupLists : ResetGroups(groups)
  \/ \E key \in Gesture : OnKeyDown(key)

Spec == Init /\ [][Next]_vars

-----------------------------------------------------------------------------
WithoutModifiers(keys) ==
  LET rest[n \in 0..Len(keys)] ==
        IF n = 0 THEN <<>> ELSE IF keys[n] \in Modifier THEN rest[n - 1] ELSE Append(rest[n - 1], keys[n])
  IN  rest[Len(keys)]

(* In a group no hotkey is the beginning of another.                       *)
NoneHidesAnother == \A g \in Group : \A s, t \in hotkeys[g] : IsPrefix(s, t) => s = t

(* Every group is where the keys of the chain lead in it, or has dropped   *)
(* out, and get_chain() returns the chain with the modifiers in it.        *)
GroupsFollowKeys ==
  /\ \A i \in DOMAIN active :
       active[i].state = IF IsNode(hotkeys[active[i].group], typed) THEN typed ELSE <<>>
  /\ WithoutModifiers(gests) = typed
  /\ typed = <<>> => gests = <<>>

(* A key completes the hotkey of the first group that has what was typed,  *)
(* whatever longer hotkeys there are, and reaches the text only if it      *)
(* belongs to no hotkey and to no chain in progress.                       *)
KeyAnswered(key) ==
  LET chain == Append(typed, key)
      Has(i) == chain \in hotkeys[active[i].group]
      plain == key \notin Modifier
  IN  /\ answer'.trigger # 0 => plain /\ Has(answer'.trigger) /\ \A i \in 1..answer'.trigger - 1 : ~Has(i)
      /\ answer'.trigger = 0 /\ plain => \A i \in DOMAIN active : ~Has(i)
      /\ answer'.intercepted =
           (plain /\ (typed # <<>> \/ \E i \in DOMAIN active : IsNode(hotkeys[active[i].group], chain)))
      /\ answer'.interrupted => typed # <<>>

KeysAnswered == \A key \in Gesture : OnKeyDown(key) => KeyAnswered(key)

(* All of it: what the user types is what the listener answers to.         *)
ChainInv == NoneHidesAnother /\ GroupsFollowKeys
HotkeysFollowed == []ChainInv /\ [][KeysAnswered]_vars
=============================================================================
