---------------------------- MODULE MCMainThread ----------------------------
(***************************************************************************)
(* What the main thread keeps for the interface and the plugins: the       *)
(* synchronous tasks of SyncTasks, the tabs, the tree of elements, the     *)
(* open buffers, the plugins, the hotkeys, the settings and an event.  A   *)
(* behaviour is about one of them, its subject, while the others stay as   *)
(* they begin.                                                             *)
(***************************************************************************)
EXTENDS MCSyncTasks

CONSTANTS
  None,
  Tab, Host, TabWindow, Split, MaxObjects,
  Element, Window, Scope, Panel, Focusable, MaxElements, MaxMarked,
  File, Buffer, Interpretation, Encoding, MaxTags,
  Plugin, PluginName,
  ProfilePaths,
  MaxEntries, MaxGroups, MaxGestures,
  MaxTimestamp,
  MaxDepth, MaxRuns

(* The last two plugins have the same name. *)
TwoOfOneName == [p \in Plugin |-> IF p = Cardinality(Plugin) THEN p - 1 ELSE p]

(* Hotkeys some of which begin like others; profiles within each other.    *)
HotkeyEntries == {<<"x">>, <<"y">>, <<"x", "y">>, <<"x", "x">>, <<"x", "y", "x">>}
ThreeProfiles == {<<>>, <<"c">>, <<"c", "linux">>}

VARIABLES
  subject,
  hosts, tabs, changed, children, root, closing, drag,
  parent, existing, marked, focus, focusedWindow, scopeFocus, groups, capture,
  fileMap, nonameMap, nonameAlloc, fileid, registry, interp, owned, tags, tagAlloc, tagMax, tokens,
  registered, state, enabled, dependencies, dependents, unreferenced, phase,
  hotkeys, active, gests, answer, typed,
  storage, separated, timestamp, values,
  list, subscribed, invocations, executing, finished

Tabs == INSTANCE TabHost WITH Window <- TabWindow, marked <- closing
Tree == INSTANCE ElementTree
Buffers == INSTANCE BufferManager
Plugins == INSTANCE PluginManager WITH Name <- PluginName
Hotkeys == INSTANCE HotkeyListener WITH
  Group <- 1..2, Gesture <- {"x", "y", "shift"}, Modifier <- {"shift"}, Hotkey <- HotkeyEntries
Profiles == INSTANCE Settings WITH
  Path <- ProfilePaths, Entry <- {"4"}, NoEntry <- None, Missing <- "missing"
Events == INSTANCE EventBase WITH Handler <- Tab

ASSUME BuffersAssumption == Buffers!ObjectsApart
ASSUME ElementsAssumption == Tree!ElementsNested
ASSUME ProfilesAssumption == Profiles!ProfilesApart
ASSUME HotkeysAssumption == Hotkeys!HotkeysAreKeys

tabVars == <<hosts, tabs, changed, children, root, closing, drag>>
treeVars == <<parent, existing, marked, focus, focusedWindow, scopeFocus, groups, capture>>
bufferVars ==
  <<fileMap, nonameMap, nonameAlloc, fileid, registry, interp, owned, tags, tagAlloc, tagMax, tokens>>
pluginVars == <<registered, state, enabled, dependencies, dependents, unreferenced, phase>>

hotkeyVars == <<hotkeys, active, gests, answer, typed>>
settingVars == <<storage, separated, timestamp, values>>
eventVars == <<list, subscribed, invocations, executing, finished>>
mainVars ==
  <<subject, vars, tabVars, treeVars, bufferVars, pluginVars, hotkeyVars, settingVars, eventVars>>

MainInit ==
  /\ subject \in {"tasks", "tabs", "tree", "buffers", "plugins", "hotkeys", "settings", "events"}
  /\ Init /\ Tabs!Init /\ Tree!Init /\ Buffers!Init /\ Plugins!Init
  /\ Hotkeys!Init /\ Profiles!Init /\ Events!Init
  /\ subject # "tree" => existing = Panel
  /\ subject # "hotkeys" => \A g \in DOMAIN hotkeys : hotkeys[g] = {}

MainNext ==
  /\ UNCHANGED subject
  /\ subject \in {"hotkeys", "settings", "events"} => UNCHANGED <<vars, tabVars, treeVars, bufferVars, pluginVars>>
  /\ subject \notin {"hotkeys", "settings", "events"} => UNCHANGED <<hotkeyVars, settingVars, eventVars>>
  /\ \/ subject = "tasks" /\ Next /\ UNCHANGED <<tabVars, treeVars, bufferVars, pluginVars>>
     \/ subject = "tabs" /\ Tabs!Next /\ UNCHANGED <<vars, treeVars, bufferVars, pluginVars>>
     \/ subject = "tree" /\ Tree!Next /\ UNCHANGED <<vars, tabVars, bufferVars, pluginVars>>
     \/ subject = "buffers" /\ Buffers!Next /\ UNCHANGED <<vars, tabVars, treeVars, pluginVars>>
     \/ subject = "plugins" /\ Plugins!Next /\ UNCHANGED <<vars, tabVars, treeVars, bufferVars>>
     \/ subject = "hotkeys" /\ Hotkeys!Next /\ UNCHANGED <<settingVars, eventVars>>
     \/ subject = "settings" /\ Profiles!Next /\ UNCHANGED <<hotkeyVars, eventVars>>
     \/ subject = "events" /\ Events!Next /\ UNCHANGED <<hotkeyVars, settingVars>>

MainSpec == MainInit /\ [][MainNext]_mainVars

(* TabHost: hosts show their active tab, and go away only without tabs.    *)
TabsInv == subject = "tabs" => Tabs!TabsInv
(* ElementTree: nothing refers to an element that has left the tree.       *)
FocusInv == subject = "tree" => Tree!FocusInv
(* BufferManager: what is open is found once, and has clean tag slots.     *)
BuffersInv == subject = "buffers" => Buffers!BuffersInv
(* PluginManager: plugins are taken apart before what they depend on.      *)
PluginsInv == subject = "plugins" => Plugins!PluginsInv
(* Settings: a getter returns what is written now.                         *)
SettingsInv == subject = "settings" => Profiles!SettingsInv
(* EventBase: each invocation runs what is registered, in order, once.     *)
EventsInv == subject = "events" => Events!EventsInv
(* HotkeyListener: what is typed is what the listener answers to.          *)
HotkeysFollowed ==
  /\ [](subject = "hotkeys" => Hotkeys!ChainInv)
  /\ [][subject = "hotkeys" => Hotkeys!KeysAnswered]_mainVars

(* The same names serve as tasks, tabs, interpretations and handlers, and  *)
(* as elements with tasks, windows and buffers.                            *)
MainSymmetry == Permutations(Tab) \cup Permutations(Window)
=============================================================================
