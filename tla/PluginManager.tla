---------------------------- MODULE PluginManager ----------------------------
(***************************************************************************)
(* plugin_manager: plugins are attached, enabled, disabled and detached    *)
(* while the program runs; at its end shutdown() takes them apart, those   *)
(* on which no other depends first.  A plugin finds those it depends on    *)
(* while it is initialized; each of them counts it as a dependent.         *)
(***************************************************************************)
EXTENDS Naturals, Sequences, FiniteSets, SequencesExt

CONSTANTS
  Plugin,  \* every plugin object that may ever be attached
  Name     \* get_name(); two of them may have the same name

VARIABLES
  registered,   \* _plugins
  state,        \* of each plugin: "new", "loaded", "finalized", or "discarded" by attach()
  enabled,      \* plugin::_enabled
  dependencies, \* plugin::_dependencies
  dependents,   \* plugin::_num_dependents
  unreferenced, \* the local variable of shutdown()
  phase         \* "running", "shutdown" in the loop, "left" in the one for cycles

vars == <<registered, state, enabled, dependencies, dependents, unreferenced, phase>>

Init ==
  /\ registered = {}
  /\ state = [p \in Plugin |-> "new"]
  /\ enabled = {}
  /\ dependencies = [p \in Plugin |-> <<>>]
  /\ dependents = [p \in Plugin |-> 0]
  /\ unreferenced = <<>>
  /\ phase = "running"

(* _plugins is sorted by name.                                             *)
InNameOrder(set) ==
  {order \in SetToSeqs(set) : \A i, j \in DOMAIN order : i < j => Name[order[i]] <= Name[order[j]]}

(* add_dependency() for each of the plugins *)
Counted(deps) == [q \in Plugin |-> dependents[q] + (IF q \in ToSet(deps) THEN 1 ELSE 0)]

(* attach(): the plugin is initialized, and depends on plugins it finds;   *)
(* after that it is discarded if the name is taken.                        *)
Attach(p, deps) ==
  /\ phase = "running" /\ state[p] = "new"
  /\ dependents' = Counted(deps)
  /\ dependencies' = [dependencies EXCEPT ![p] = deps]
  /\ IF \E q \in registered : Name[q] = Name[p]
     THEN state' = [state EXCEPT ![p] = "discarded"] /\ UNCHANGED registered
     ELSE state' = [state EXCEPT ![p] = "loaded"] /\ registered' = registered \cup {p}
  /\ UNCHANGED <<enabled, unreferenced, phase>>

Enable(p) ==
  /\ phase = "running" /\ p \in registered \ enabled
  /\ enabled' = enabled \cup {p}
  /\ UNCHANGED <<registered, state, dependencies, dependents, unreferenced, phase>>

Disable(p) ==
  /\ phase = "running" /\ p \in registered \cap enabled
  /\ enabled' = enabled \ {p}
  /\ UNCHANGED <<registered, state, dependencies, dependents, unreferenced, phase>>

(* _finalize_plugin() *)
Finalize(p) ==
  /\ enabled' = enabled \ {p}
  /\ state' = [state EXCEPT ![p] = "finalized"]

(* _on_plugin_detached() *)
Released(p) == [q \in Plugin |-> dependents[q] - (IF q \in ToSet(dependencies[p]) THEN 1 ELSE 0)]
OnPluginDetached(p) ==
  /\ dependents' = Released(p)
  /\ dependencies' = [dependencies EXCEPT ![p] = <<>>]

Detach(p) ==
  /\ phase = "running" /\ p \in registered
  /\ dependents[p] = 0
  /\ Finalize(p)
  /\ OnPluginDetached(p)
  /\ registered' = registered \ {p}
  /\ UNCHANGED <<unreferenced, phase>>

-----------------------------------------------------------------------------
(* shutdown() *)
Shutdown ==
  LET free == {p \in registered : dependents[p] = 0}
  IN  /\ phase = "running"
      /\ phase' = "shutdown"
      /\ unreferenced' \in InNameOrder(free)
      /\ registered' = registered \ free
      /\ UNCHANGED <<state, enabled, dependencies, dependents>>

(* Mutant of OnlyDependentOf: the counts are looked at after they have been*)
(* lowered.                                                                *)
OnlyDependentOf_Late(p) == {q \in ToSet(dependencies[p]) : Released(p)[q] = 1}

(* Those for which the plugin is the only dependent, before it is detached.*)
OnlyDependentOf(p) == {q \in ToSet(dependencies[p]) : dependents[q] = 1}

(* They are found in the order of the dependencies of the plugin.          *)
InOrderOf(deps, set) ==
  {order \in SetToSeqs(set) :
     \A i, j \in DOMAIN order : i < j =>
       \E k, l \in DOMAIN deps : k < l /\ deps[k] = order[i] /\ deps[l] = order[j]}

ShutdownNext ==
  /\ phase = "shutdown" /\ unreferenced # <<>>
  /\ LET p == Last(unreferenced)
     IN  /\ Finalize(p)
         /\ \E freed \in InOrderOf(dependencies[p], OnlyDependentOf(p)) :
              unreferenced' = Front(unreferenced) \o freed
         /\ registered' = registered \ OnlyDependentOf(p)
         /\ OnPluginDetached(p)
  /\ UNCHANGED phase

ShutdownLeft ==
  /\ phase = "shutdown" /\ unreferenced = <<>>
  /\ phase' = "left"
  /\ UNCHANGED <<registered, state, enabled, dependencies, dependents, unreferenced>>

(* What is left is taken apart by name. *)
FinalizeLeft ==
  /\ phase = "left"
  /\ \E p \in registered :
       /\ \A q \in registered : Name[p] <= Name[q]
       /\ Finalize(p)
       /\ registered' = registered \ {p}
       /\ dependencies' = [dependencies EXCEPT ![p] = <<>>]
  /\ UNCHANGED <<dependents, unreferenced, phase>>

Next ==
  \/ \E p \in Plugin : \E deps \in SetToSeqs(registered) : \E n \in 0..Len(deps) : Attach(p, SubSeq(deps, 1, n))
  \/ \E p \in Plugin : Enable(p) \/ Disable(p) \/ Detach(p)
  \/ Shutdown
  \/ ShutdownNext
  \/ ShutdownLeft
  \/ FinalizeLeft

Spec == Init /\ [][Next]_vars

-----------------------------------------------------------------------------
Loaded == {p \in Plugin : state[p] = "loaded"}
Discarded == {p \in Plugin : state[p] = "discarded"}

(* Each plugin is counted by those that it depends on; one that has been   *)
(* discarded is counted for ever.                                          *)
CountsMatch ==
  phase # "left" =>
    \A q \in Plugin : dependents[q] = Cardinality({p \in Loaded \cup Discarded : q \in ToSet(dependencies[p])})

(* A plugin is finalized before any that it depends on, except when a      *)
(* discarded plugin has left something for the loop for cycles.            *)
DependenciesOutlive ==
  (phase = "left" => Discarded = {}) => \A p \in Loaded : ToSet(dependencies[p]) \subseteq Loaded

(* Each loaded plugin is either registered or about to be finalized, once; *)
(* without discarded plugins nothing is left for the loop for cycles.      *)
EachTakenApart ==
  /\ Loaded = registered \cup ToSet(unreferenced)
  /\ registered \cap ToSet(unreferenced) = {}
  /\ IsInjective(unreferenced)
  /\ phase = "left" /\ Discarded = {} => Loaded = {}

(* Only plugins that are loaded are enabled, and no two by the same name.  *)
EnabledAreLoaded ==
  /\ enabled \subseteq Loaded
  /\ \A p, q \in registered : Name[p] = Name[q] => p = q

PluginsInv == CountsMatch /\ DependenciesOutlive /\ EachTakenApart /\ EnabledAreLoaded
=============================================================================
