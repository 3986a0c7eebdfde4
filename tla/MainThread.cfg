CONSTANTS
  t1 = t1
  t2 = t2
  t3 = t3
  t4 = t4
  e1 = e1
  e2 = e2
  NoTask = NoTask
  Tasks <- FourTasks
  Elements <- TwoElements
  MaxTime = 1
  MayCancelSelf = FALSE
  None = None
  Tab = {t1, t2, t3}
  Host = {f, g, h}
  TabWindow = {e1, e2}
  Split = {q, r}
  MaxObjects = 6
  Element = {e1, e2, s, p, x}
  Window = {e1, e2}
  Scope = {e1, e2, s}
  Panel = {e1, e2, s, p}
  Focusable = {e1, e2, s, x}
  MaxElements = 4
  MaxMarked = 2
  File = {m, n}
  Buffer = {e1, e2}
  Interpretation = {t1, t2, t3}
  Encoding = {utf8, utf16}
  MaxTags = 2
  Plugin = {1, 2, 3, 4}
  PluginName <- TwoOfOneName
  ProfilePaths <- ThreeProfiles
  MaxEntries = 2
  MaxGroups = 2
  MaxGestures = 3
  MaxTimestamp = 3
  MaxDepth = 2
  MaxRuns = 4
SPECIFICATION MainSpec
SYMMETRY MainSymmetry
INVARIANTS QueueMatchesLists TabsInv FocusInv BuffersInv PluginsInv SettingsInv EventsInv
PROPERTIES RunsAsScheduled HotkeysFollowed
CHECK_DEADLOCK FALSE
