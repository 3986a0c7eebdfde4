------------------------------ MODULE Settings ------------------------------
(***************************************************************************)
(* One setting in a tree of profiles (settings.h, settings.cpp).  Profiles *)
(* are separated from the stored settings when they are first asked for,   *)
(* and refer to them; the values that were parsed are kept with a          *)
(* timestamp.  Whoever holds a getter may ask for its value at any time,   *)
(* in handlers of `changed` too.                                           *)
(***************************************************************************)
EXTENDS Naturals, Sequences, FiniteSets, SequencesExt

CONSTANTS
  Path,         \* names of profiles: the sequences of keys that are asked for
  Entry,        \* what a profile may have under the key of the setting,
  NoEntry,      \* nothing in particular, or something that does not lead there;
  Missing,      \* no such profile
  MaxTimestamp  \* bound on how often settings are set

VARIABLES
  storage,    \* _storage: for each path the entry of the profile, or Missing
  separated,  \* the profiles that hang on _main_profile, as what they refer to
  timestamp,  \* _timestamp
  values      \* the profile_value of each path: its _timestamp and _value

vars == <<storage, separated, timestamp, values>>

Entries == Entry \cup {NoEntry}

(* Who asks for the value of a profile asks for those above it; entries    *)
(* are distinct things.                                                    *)
ProfilesApart ==
  /\ <<>> \in Path /\ Path \subseteq Seq(STRING)
  /\ \A p \in Path \ {<<>>} : Front(p) \in Path
  /\ NoEntry \notin Entry /\ Missing \notin Entries

Above(path) == {p \in Path : IsPrefix(p, path)}

(* A profile is stored within the one above it. *)
Storages ==
  {s \in [Path -> Entries \cup {Missing}] :
     s[<<>>] # Missing /\ \A p \in Path : s[p] # Missing => \A q \in Above(p) : s[q] # Missing}

NoProfiles == [p \in Path |-> Missing]

(* The storage is empty before the first load; a new profile_value has the *)
(* timestamp 0 and is as good as none.                                     *)
Init ==
  /\ storage = [NoProfiles EXCEPT ![<<>>] = NoEntry]
  /\ separated = NoProfiles
  /\ timestamp = 1
  /\ values = [p \in Path |-> [timestamp |-> 0, value |-> NoEntry]]

-----------------------------------------------------------------------------
(* Mutant of Set: the profiles of the earlier settings stay.               *)
Set_KeepProfiles(s) ==
  /\ timestamp < MaxTimestamp
  /\ timestamp' = timestamp + 1
  /\ storage' = s
  /\ UNCHANGED <<separated, values>>

(* set(), as far as the handlers of `changed` *)
Set(s) ==
  /\ timestamp < MaxTimestamp
  /\ timestamp' = timestamp + 1
  /\ separated' = NoProfiles
  /\ storage' = s
  /\ UNCHANGED values

(* find_deepest_profile(): the profiles on the way there, from the main    *)
(* one, find_child() separating those that are not yet.                    *)
FoundProfile(profiles, path) == IF profiles[path] # Missing THEN profiles[path] ELSE storage[path]
FindDeepest(profiles, path) ==
  LET found == {p \in Above(path) : \A q \in Above(p) : FoundProfile(profiles, q) # Missing}
  IN  [p \in Path |-> IF p \in found THEN FoundProfile(profiles, p) ELSE profiles[p]]

(* profile::retrieve(), from the deepest profile towards the main one.     *)
Retrieve(profiles, path) ==
  LET with == {p \in Above(path) : profiles[p] \in Entry}
  IN  IF with = {} THEN NoEntry ELSE profiles[CHOOSE p \in with : \A q \in with : Len(q) <= Len(p)]

(* profile_value::get_value() *)
GetValue(path) ==
  IF values[path].timestamp = timestamp
  THEN UNCHANGED vars
  ELSE /\ separated' = FindDeepest(separated, path)
       /\ values' = [values EXCEPT ![path] = [timestamp |-> timestamp, value |-> Retrieve(separated', path)]]
       /\ UNCHANGED <<storage, timestamp>>

Next ==
  \/ \E s \in Storages : Set(s)
  \/ \E path \in Path : GetValue(path)

Spec == Init /\ [][Next]_vars

-----------------------------------------------------------------------------
(* What the user wrote: the setting of the innermost profile that has it,  *)
(* or the default.                                                         *)
Written[path \in Path] ==
  IF storage[path] \in Entry THEN storage[path]
  ELSE IF path = <<>> THEN NoEntry
  ELSE Written[Front(path)]

(* Asked at any time, a getter returns what is written now, whatever was   *)
(* asked before and since; what is kept of profiles is from now.           *)
SettingsInv ==
  /\ \A p \in Path : values[p].timestamp = timestamp => values[p].value = Written[p]
  /\ \A p \in Path : separated[p] \in {Missing, storage[p]}
=============================================================================
