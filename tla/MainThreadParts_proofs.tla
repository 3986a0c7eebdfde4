----------------------- MODULE MainThreadParts_proofs -----------------------
(***************************************************************************)
(* Proofs about parts that the main thread keeps, each by itself: the      *)
(* registry of buffers and interpretations, for any number of files,       *)
(* encodings and tag slots; the plugins, for any plugins of any names; an  *)
(* event, for any handlers; the hotkeys, for any groups and gestures; a    *)
(* setting, for any profiles; and the tree of elements, for any elements,  *)
(* windows and focus scopes.                                               *)
(***************************************************************************)
EXTENDS BufferManager, QueueLemmas, FiniteSetTheorems

(* Buffers by path and by number. *)
NamesInv ==
  /\ fileMap \in [File -> Buffer \cup {None}]
  /\ nonameMap \in Seq(Buffer \cup {None})
  /\ nonameAlloc \in Seq(Nat)
  /\ fileid \in [Buffer -> File \cup Nat \cup {None}]
  /\ BuffersFound

(* The registry has the interpretations that exist, and nothing else; what *)
(* is owned exists.                                                        *)
RegistryInv ==
  /\ registry \in [Buffer -> [Encoding -> Interpretation \cup {None}]]
  /\ interp \in [Interpretation -> [buffer : Buffer, encoding : Encoding] \cup {None}]
  /\ \A i \in Existing : interp[i].buffer \in Open /\ registry[interp[i].buffer][interp[i].encoding] = i
  /\ \A b \in Buffer, e \in Encoding :
       registry[b][e] # None =>
         registry[b][e] \in Existing /\ interp[registry[b][e]] = [buffer |-> b, encoding |-> e]
  /\ owned \subseteq Open \cup Existing

SlotsInv ==
  /\ tags \in [Interpretation -> Seq({"empty", "set"})]
  /\ tagMax \in Nat
  /\ tagAlloc \in Seq(Nat)
  /\ tokens \subseteq 1..tagMax
  /\ TagsClean

Inv == NamesInv /\ RegistryInv /\ SlotsInv

-----------------------------------------------------------------------------
(* for_each_interpretation() finds all interpretations that exist.         *)
LEMMA RegisteredExist ==
  ASSUME ObjectsApart, NamesInv, RegistryInv
  PROVE  Registered = Existing
<1> DEFINE buffers == ({fileMap[f] : f \in File} \cup ToSet(nonameMap)) \ {None}
<1>1. DOMAIN nonameMap \subseteq Nat
  BY LenProperties DEF NamesInv
<1>2. buffers = Open
  <2>1. ASSUME NEW b \in Open PROVE b \in buffers
    <3>1. fileid[b] \in File \cup DOMAIN nonameMap /\ b \in Buffer /\ b # None
      BY DEF Open, NamesInv, BuffersFound, ObjectsApart
    <3>2. CASE fileid[b] \in File
      BY <3>1, <3>2 DEF NamesInv, BuffersFound
    <3>3. CASE fileid[b] \in DOMAIN nonameMap
      BY <3>1, <3>3 DEF NamesInv, BuffersFound, ToSet
    <3> QED   BY <3>1, <3>2, <3>3
  <2>2. ASSUME NEW b \in buffers PROVE b \in Open
    <3>1. CASE \E f \in File : fileMap[f] = b
      BY <3>1 DEF Open, NamesInv, BuffersFound, ObjectsApart
    <3>2. CASE \E k \in DOMAIN nonameMap : nonameMap[k] = b
      <4>1. PICK k \in DOMAIN nonameMap : nonameMap[k] = b
        BY <3>2
      <4>2. b \in Buffer
        BY <4>1, <2>2, LenProperties DEF NamesInv
      <4> QED   BY <1>1, <4>1, <4>2 DEF Open, NamesInv, BuffersFound, ObjectsApart
    <3> QED   BY <2>2, <3>1, <3>2 DEF ToSet
  <2> QED   BY <2>1, <2>2
<1>3. Registered = {registry[b][e] : b \in buffers, e \in Encoding} \ {None}
  BY DEF Registered
<1> HIDE DEF buffers
<1>4. Existing \subseteq Registered
  <2> SUFFICES ASSUME NEW i \in Existing PROVE i \in Registered
    OBVIOUS
  <2>1. /\ interp[i].buffer \in Open /\ registry[interp[i].buffer][interp[i].encoding] = i
        /\ interp[i].encoding \in Encoding /\ i # None
    BY DEF RegistryInv, Existing, ObjectsApart
  <2> QED   BY <1>2, <1>3, <2>1
<1>5. Registered \subseteq Existing
  <2> SUFFICES ASSUME NEW b \in Buffer, NEW e \in Encoding, registry[b][e] # None
               PROVE  registry[b][e] \in Existing
    BY <1>2, <1>3 DEF Open
  <2> QED   BY DEF RegistryInv
<1> QED   BY <1>4, <1>5

-----------------------------------------------------------------------------
(* The steps keep the invariant.                                           *)
LEMMA InitKeepsInv == ObjectsApart /\ Init => Inv
<1> SUFFICES ASSUME ObjectsApart, Init PROVE Inv
  OBVIOUS
<1> USE DEF Init, ObjectsApart
<1>1. Open = {} /\ Existing = {}
  BY DEF Open, Existing
<1>2. NamesInv
  BY <1>1 DEF NamesInv, BuffersFound, IsInjective, ToSet
<1>3. RegistryInv
  BY <1>1 DEF RegistryInv, NoInterpretations
<1>4. SlotsInv
  BY <1>1 DEF SlotsInv, TagsClean, IsInjective, ToSet
<1> QED   BY <1>2, <1>3, <1>4 DEF Inv

LEMMA OpenFileKeepsInv ==
  ASSUME ObjectsApart, Inv, NEW f \in File, OpenFile(f)
  PROVE  Inv'
<1> USE DEF Inv
<1>1. UNCHANGED <<interp, tags, tagAlloc, tagMax, tokens>>
  BY DEF OpenFile, tagVars
<1>2. SlotsInv'
  BY <1>1 DEF SlotsInv, TagsClean, Existing
<1>3. CASE fileMap[f] # None
  <2>1. owned' = owned \cup {fileMap[f]} /\ UNCHANGED <<fileMap, nonameMap, nonameAlloc, fileid, registry>>
    BY <1>3 DEF OpenFile, bufferVars
  <2>2. NamesInv'
    BY <2>1 DEF NamesInv, BuffersFound, Open
  <2>3. fileMap[f] \in Open
    BY <1>3 DEF NamesInv, BuffersFound, Open, ObjectsApart
  <2>4. RegistryInv'
    BY <1>1, <2>1, <2>3 DEF RegistryInv, Open, Existing
  <2> QED   BY <1>2, <2>2, <2>4
<1>4. CASE fileMap[f] = None
  <2>1. PICK b \in Buffer \ Open :
          /\ fileMap' = [fileMap EXCEPT ![f] = b]
          /\ fileid' = [fileid EXCEPT ![b] = f]
          /\ owned' = owned \cup {b}
          /\ UNCHANGED <<nonameMap, nonameAlloc, registry>>
    BY <1>4 DEF OpenFile
  <2>2. f # None /\ b # None /\ fileid[b] = None
    BY <2>1 DEF ObjectsApart, Open
  <2>3. Open' = Open \cup {b} /\ Existing' = Existing
    BY <1>1, <2>1, <2>2 DEF Open, Existing, NamesInv
  <2>4. /\ fileMap' \in [File -> Buffer \cup {None}]
        /\ fileid' \in [Buffer -> File \cup Nat \cup {None}]
    BY <2>1 DEF NamesInv
  <2>5. DOMAIN nonameMap \subseteq Nat
    BY LenProperties DEF NamesInv
  <2>6. \A c \in Buffer, g \in File : fileMap'[g] = c <=> fileid'[c] = g
    BY <1>4, <2>1, <2>2 DEF NamesInv, BuffersFound, ObjectsApart
  <2>7. \A c \in Buffer, n \in DOMAIN nonameMap : nonameMap[n] = c <=> fileid'[c] = n
    BY <2>1, <2>2, <2>5 DEF NamesInv, BuffersFound, ObjectsApart
  <2>8. \A c \in Open' : fileid'[c] \in File \cup DOMAIN nonameMap
    BY <2>1, <2>3 DEF NamesInv, BuffersFound, Open
  <2>9. NamesInv'
    BY <2>1, <2>4, <2>6, <2>7, <2>8 DEF NamesInv, BuffersFound
  <2>10. RegistryInv'
    BY <1>1, <2>1, <2>3 DEF RegistryInv
  <2> QED   BY <1>2, <2>9, <2>10
<1> QED   BY <1>3, <1>4

LEMMA NewFileKeepsInv ==
  ASSUME ObjectsApart, Inv, NEW b \in Buffer, NewFile(b)
  PROVE  Inv'
<1> USE DEF Inv
<1>1. /\ b \notin Open /\ owned' = owned \cup {b}
      /\ UNCHANGED <<fileMap, registry, interp, tags, tagAlloc, tagMax, tokens>>
  BY DEF NewFile, tagVars
<1>2. fileid[b] = None /\ b # None
  BY <1>1 DEF Open, ObjectsApart
<1>3. SlotsInv'
  BY <1>1 DEF SlotsInv, TagsClean, Existing
<1>4. Len(nonameMap) \in Nat /\ DOMAIN nonameMap = 1..Len(nonameMap)
  BY LenProperties DEF NamesInv
<1>5. NamesInv' /\ Open' = Open \cup {b}
  <2>1. CASE nonameAlloc = <<>>
    <3> DEFINE n == Len(nonameMap)
    <3>1. /\ nonameMap' = Append(nonameMap, b)
          /\ fileid' = [fileid EXCEPT ![b] = n + 1]
          /\ UNCHANGED nonameAlloc
      BY <2>1 DEF NewFile
    <3>2. /\ nonameMap' \in Seq(Buffer \cup {None}) /\ DOMAIN nonameMap' = 1..n + 1
          /\ nonameMap'[n + 1] = b /\ \A k \in 1..n : nonameMap'[k] = nonameMap[k]
      BY <3>1, AppendProperties, LenProperties DEF NamesInv
    <3> HIDE DEF n
    <3>3. n \in Nat /\ DOMAIN nonameMap = 1..n
      BY <1>4 DEF n
    <3>4. n + 1 \in Nat /\ n + 1 # None /\ n + 1 \notin File /\ \A k \in 1..n + 1 : k = n + 1 \/ k \in 1..n
      BY <3>3 DEF ObjectsApart
    <3>5. fileid' \in [Buffer -> File \cup Nat \cup {None}] /\ Open' = Open \cup {b}
      BY <3>1, <3>4 DEF NamesInv, Open
    <3>6. \A c \in Buffer, g \in File : fileMap[g] = c <=> fileid'[c] = g
      BY <1>2, <3>1, <3>4 DEF NamesInv, BuffersFound, ObjectsApart
    <3>7. ASSUME NEW c \in Buffer, NEW k \in 1..n + 1 PROVE nonameMap'[k] = c <=> fileid'[c] = k
      <4>1. CASE k = n + 1
        <5>1. c # b => fileid[c] # n + 1
          <6>1. n + 1 \notin DOMAIN nonameMap
            BY <3>3
          <6> QED   BY <3>4, <6>1 DEF NamesInv, BuffersFound, Open
        <5> QED   BY <3>1, <3>2, <4>1, <5>1 DEF NamesInv
      <4>2. CASE k \in 1..n
        <5>1. nonameMap'[k] = nonameMap[k] /\ k # n + 1 /\ k # None
          BY <3>2, <3>3, <4>2 DEF ObjectsApart
        <5> QED   BY <1>2, <3>1, <3>3, <4>2, <5>1 DEF NamesInv, BuffersFound
      <4> QED   BY <3>4, <4>1, <4>2
    <3>8. \A c \in Open' : fileid'[c] \in File \cup DOMAIN nonameMap'
      <4>1. 1..n \subseteq 1..n + 1 /\ n + 1 \in 1..n + 1
        BY <3>3
      <4> QED   BY <3>1, <3>2, <3>3, <3>5, <4>1 DEF NamesInv, BuffersFound, Open
    <3>9. ToSet(nonameAlloc) = {k \in 1..n + 1 : nonameMap'[k] = None}
      <4>1. {k \in 1..n : nonameMap[k] = None} = {}
        <5>1. ToSet(nonameAlloc) = {}
          BY <2>1 DEF ToSet
        <5> QED   BY <3>3, <5>1 DEF NamesInv, BuffersFound
      <4>2. \A k \in 1..n + 1 : nonameMap'[k] # None
        BY <1>2, <3>2, <3>4, <4>1
      <4>3. ToSet(nonameAlloc) = {}
        BY <2>1 DEF ToSet
      <4> QED   BY <4>2, <4>3
    <3>10. BuffersFound'
      <4>1. /\ \A c \in Buffer, g \in File : fileMap'[g] = c <=> fileid'[c] = g
            /\ \A c \in Buffer, k \in DOMAIN nonameMap' : nonameMap'[k] = c <=> fileid'[c] = k
        BY <1>1, <3>2, <3>6, <3>7
      <4>2. IsInjective(nonameAlloc') /\ ToSet(nonameAlloc') = {k \in DOMAIN nonameMap' : nonameMap'[k] = None}
        BY <3>1, <3>2, <3>9 DEF NamesInv, BuffersFound
      <4> QED   BY <3>8, <4>1, <4>2 DEF BuffersFound
    <3> QED   BY <1>1, <3>1, <3>2, <3>5, <3>10 DEF NamesInv
  <2>2. CASE nonameAlloc # <<>>
    <3> DEFINE k == Last(nonameAlloc)
    <3>1. /\ nonameMap' = [nonameMap EXCEPT ![k] = b]
          /\ fileid' = [fileid EXCEPT ![b] = k]
          /\ nonameAlloc' = Front(nonameAlloc)
      BY <2>2 DEF NewFile
    <3>2. /\ nonameAlloc' \in Seq(Nat) /\ IsInjective(nonameAlloc')
          /\ ToSet(nonameAlloc') = ToSet(nonameAlloc) \ {k} /\ k \in ToSet(nonameAlloc)
      BY <2>2, <3>1, PopFromStack DEF NamesInv, BuffersFound
    <3> HIDE DEF k
    <3>3. k \in DOMAIN nonameMap /\ nonameMap[k] = None
      BY <3>2 DEF NamesInv, BuffersFound
    <3>4. k \in Nat /\ k # None /\ k \notin File
      BY <1>4, <3>3 DEF ObjectsApart
    <3>5. nonameMap' \in Seq(Buffer \cup {None}) /\ DOMAIN nonameMap' = DOMAIN nonameMap
      BY <1>4, <3>1, <3>3 DEF NamesInv
    <3>6. fileid' \in [Buffer -> File \cup Nat \cup {None}] /\ Open' = Open \cup {b}
      BY <3>1, <3>4 DEF NamesInv, Open
    <3>7. \A c \in Buffer, g \in File : fileMap[g] = c <=> fileid'[c] = g
      BY <1>2, <3>1, <3>4 DEF NamesInv, BuffersFound, ObjectsApart
    <3>8. ASSUME NEW c \in Buffer, NEW n \in DOMAIN nonameMap PROVE nonameMap'[n] = c <=> fileid'[c] = n
      <4>1. nonameMap[n] = c <=> fileid[c] = n
        BY DEF NamesInv, BuffersFound
      <4>2. nonameMap'[n] = IF n = k THEN b ELSE nonameMap[n]
        BY <3>1
      <4>3. fileid'[c] = IF c = b THEN k ELSE fileid[c]
        BY <3>1 DEF NamesInv
      <4>4. n # None /\ c # None
        BY <1>4 DEF ObjectsApart
      <4> QED   BY <1>2, <3>3, <4>1, <4>2, <4>3, <4>4
    <3>9. \A c \in Open' : fileid'[c] \in File \cup DOMAIN nonameMap
      BY <3>1, <3>3, <3>6 DEF NamesInv, BuffersFound, Open
    <3>10. ToSet(nonameAlloc') = {n \in DOMAIN nonameMap : nonameMap'[n] = None}
      BY <1>2, <3>1, <3>2 DEF NamesInv, BuffersFound
    <3> QED   BY <1>1, <3>2, <3>5, <3>6, <3>7, <3>8, <3>9, <3>10 DEF NamesInv, BuffersFound
  <2> QED   BY <2>1, <2>2
<1>6. RegistryInv'
  BY <1>1, <1>5 DEF RegistryInv, Existing
<1> QED   BY <1>3, <1>5, <1>6

LEMMA OpenInterpretationKeepsInv ==
  ASSUME ObjectsApart, Inv, NEW b \in Buffer, NEW e \in Encoding, OpenInterpretation(b, e)
  PROVE  Inv'
<1> USE DEF Inv
<1>1. /\ b \in Open /\ UNCHANGED <<fileMap, nonameMap, nonameAlloc, fileid, tagAlloc, tagMax, tokens>>
  BY DEF OpenInterpretation, tagVars
<1>2. NamesInv' /\ Open' = Open
  BY <1>1 DEF NamesInv, BuffersFound, Open
<1>3. CASE registry[b][e] # None
  <2>1. owned' = owned \cup {registry[b][e]} /\ UNCHANGED <<registry, interp, tags>>
    BY <1>3 DEF OpenInterpretation
  <2>2. Existing' = Existing /\ registry[b][e] \in Existing
    BY <1>3, <2>1 DEF RegistryInv, Existing
  <2>3. RegistryInv'
    BY <1>2, <2>1, <2>2 DEF RegistryInv
  <2>4. SlotsInv'
    BY <1>1, <2>1, <2>2 DEF SlotsInv, TagsClean
  <2> QED   BY <1>2, <2>3, <2>4
<1>4. CASE registry[b][e] = None
  <2>1. PICK i \in Interpretation \ Existing :
          /\ registry' = [registry EXCEPT ![b][e] = i]
          /\ interp' = [interp EXCEPT ![i] = [buffer |-> b, encoding |-> e]]
          /\ tags' = [tags EXCEPT ![i] = [k \in 1..tagMax |-> "empty"]]
          /\ owned' = owned \cup {i}
    BY <1>4 DEF OpenInterpretation
  <2> DEFINE new == [buffer |-> b, encoding |-> e]
  <2>2. /\ new \in [buffer : Buffer, encoding : Encoding] /\ new # None /\ i # None
        /\ new.buffer = b /\ new.encoding = e
    BY DEF ObjectsApart
  <2>3. interp' = [interp EXCEPT ![i] = new]
    BY <2>1
  <2> HIDE DEF new
  <2>4. Existing' = Existing \cup {i}
    BY <2>2, <2>3 DEF Existing, RegistryInv
  <2>5. RegistryInv'
    <3>1. registry' \in [Buffer -> [Encoding -> Interpretation \cup {None}]]
      BY <2>1 DEF RegistryInv
    <3>2. interp' \in [Interpretation -> [buffer : Buffer, encoding : Encoding] \cup {None}]
      BY <2>1, <2>2, <2>3 DEF RegistryInv
    <3>3. /\ registry'[b][e] = i
          /\ \A c \in Buffer, x \in Encoding : ~ (c = b /\ x = e) => registry'[c][x] = registry[c][x]
      BY <2>1 DEF RegistryInv
    <3>4. interp'[i] = new /\ \A j \in Interpretation \ {i} : interp'[j] = interp[j]
      BY <2>1, <2>3 DEF RegistryInv
    <3>5. ASSUME NEW j \in Existing'
          PROVE  interp'[j].buffer \in Open' /\ registry'[interp'[j].buffer][interp'[j].encoding] = j
      <4>1. CASE j = i
        BY <1>1, <1>2, <2>2, <3>3, <3>4, <4>1
      <4>2. CASE j # i
        <5>1. /\ j \in Existing /\ interp'[j] = interp[j] /\ j # None
              /\ interp[j].buffer \in Open /\ registry[interp[j].buffer][interp[j].encoding] = j
              /\ interp[j].buffer \in Buffer /\ interp[j].encoding \in Encoding
          BY <2>4, <3>4, <4>2 DEF RegistryInv, Existing, ObjectsApart
        <5> QED   BY <1>2, <1>4, <3>3, <5>1
      <4> QED   BY <4>1, <4>2
    <3>6. ASSUME NEW c \in Buffer, NEW x \in Encoding, registry'[c][x] # None
          PROVE  registry'[c][x] \in Existing' /\ interp'[registry'[c][x]] = [buffer |-> c, encoding |-> x]
      <4>1. CASE c = b /\ x = e
        BY <2>4, <3>3, <3>4, <4>1 DEF new
      <4>2. CASE ~ (c = b /\ x = e)
        <5>1. registry'[c][x] = registry[c][x] /\ registry[c][x] \in Existing
              /\ interp[registry[c][x]] = [buffer |-> c, encoding |-> x]
          BY <3>3, <3>6, <4>2 DEF RegistryInv
        <5>2. registry[c][x] \in Interpretation \ {i}
          BY <2>1, <5>1 DEF Existing
        <5> QED   BY <2>4, <3>4, <5>1, <5>2
      <4> QED   BY <4>1, <4>2
    <3>7. owned' \subseteq Open' \cup Existing'
      BY <1>2, <2>1, <2>4 DEF RegistryInv
    <3> QED   BY <3>1, <3>2, <3>5, <3>6, <3>7 DEF RegistryInv
  <2>6. SlotsInv'
    <3> DEFINE empty == [k \in 1..tagMax |-> "empty"]
    <3>1. /\ empty \in Seq({"empty", "set"}) /\ Len(empty) = tagMax
          /\ \A k \in 1..tagMax : empty[k] = "empty"
      BY DEF SlotsInv
    <3>2. tags' = [tags EXCEPT ![i] = empty]
      BY <2>1
    <3> HIDE DEF empty
    <3>3. tags' \in [Interpretation -> Seq({"empty", "set"})]
      BY <3>1, <3>2 DEF SlotsInv
    <3>4. ToSet(tagAlloc) \subseteq 1..tagMax
      BY DEF SlotsInv, TagsClean
    <3>5. ASSUME NEW j \in Existing' PROVE Len(tags'[j]) = tagMax /\ \A k \in ToSet(tagAlloc) : tags'[j][k] = "empty"
      <4>1. j \in Interpretation
        BY <2>1, <2>4 DEF Existing
      <4>2. CASE j = i
        BY <2>1, <3>1, <3>2, <3>4, <4>2 DEF SlotsInv
      <4>3. CASE j # i
        BY <2>4, <3>2, <4>1, <4>3 DEF SlotsInv, TagsClean
      <4> QED   BY <4>2, <4>3
    <3> QED   BY <1>1, <3>3, <3>5 DEF SlotsInv, TagsClean
  <2> QED   BY <1>2, <2>5, <2>6
<1> QED   BY <1>3, <1>4

(* The destructor of a buffer leaves its path or number to others.         *)
LEMMA DeletedIsForgotten ==
  ASSUME ObjectsApart, NamesInv, NEW b \in Open, DeleteBuffer(b)
  PROVE  NamesInv' /\ Open' = Open \ {b}
<1> USE DEF ObjectsApart
<1> DEFINE k == fileid[b]
<1>1. fileid' = [fileid EXCEPT ![b] = None] /\ b \in Buffer /\ b # None
  BY DEF DeleteBuffer, Open
<1>2. Open' = Open \ {b}
  BY <1>1 DEF Open, NamesInv
<1>3. fileid' \in [Buffer -> File \cup Nat \cup {None}]
  BY <1>1 DEF NamesInv
<1>4. Len(nonameMap) \in Nat /\ DOMAIN nonameMap = 1..Len(nonameMap)
  BY LenProperties DEF NamesInv
<1>5. \A c \in Buffer : fileid'[c] = IF c = b THEN None ELSE fileid[c]
  BY <1>1 DEF NamesInv
<1>6. CASE k \in File
  <2>1. fileMap' = [fileMap EXCEPT ![k] = None] /\ UNCHANGED <<nonameMap, nonameAlloc>>
    BY <1>6 DEF DeleteBuffer
  <2>2. fileMap' \in [File -> Buffer \cup {None}]
    BY <2>1 DEF NamesInv
  <2>3. \A c \in Buffer, g \in File : fileMap'[g] = c <=> fileid'[c] = g
    <3> SUFFICES ASSUME NEW c \in Buffer, NEW g \in File PROVE fileMap'[g] = c <=> fileid'[c] = g
      OBVIOUS
    <3>1. fileMap'[g] = IF g = k THEN None ELSE fileMap[g]
      BY <2>1 DEF NamesInv
    <3>2. (fileMap[g] = c <=> fileid[c] = g) /\ (fileMap[k] = b) /\ c # None /\ g # None
      BY <1>1, <1>6 DEF NamesInv, BuffersFound
    <3>3. fileMap[g] = b => g = k
      BY <1>1 DEF NamesInv, BuffersFound
    <3> QED   BY <1>5, <3>1, <3>2, <3>3
  <2>4. \A c \in Buffer, n \in DOMAIN nonameMap : nonameMap[n] = c <=> fileid'[c] = n
    <3> SUFFICES ASSUME NEW c \in Buffer, NEW n \in DOMAIN nonameMap PROVE nonameMap[n] = c <=> fileid'[c] = n
      OBVIOUS
    <3>1. (nonameMap[n] = c <=> fileid[c] = n) /\ n # None /\ n # k
      BY <1>4, <1>6 DEF NamesInv, BuffersFound
    <3> QED   BY <1>5, <3>1
  <2>5. \A c \in Open' : fileid'[c] \in File \cup DOMAIN nonameMap
    BY <1>2, <1>5 DEF NamesInv, BuffersFound, Open
  <2> QED   BY <1>2, <1>3, <2>1, <2>2, <2>3, <2>4, <2>5 DEF NamesInv, BuffersFound
<1>7. CASE k \notin File
  <2>1. /\ nonameMap' = [nonameMap EXCEPT ![k] = None]
        /\ nonameAlloc' = Append(nonameAlloc, k)
        /\ UNCHANGED fileMap
    BY <1>7 DEF DeleteBuffer
  <2>2. k \in DOMAIN nonameMap /\ k \in Nat
    BY <1>1, <1>4, <1>7 DEF NamesInv, BuffersFound
  <2>3. nonameMap[k] = b
    BY <1>1, <2>2 DEF NamesInv, BuffersFound
  <2> HIDE DEF k
  <2>4. k \notin ToSet(nonameAlloc)
    BY <1>1, <2>2, <2>3 DEF NamesInv, BuffersFound
  <2>5. /\ nonameAlloc' \in Seq(Nat) /\ IsInjective(nonameAlloc')
        /\ ToSet(nonameAlloc') = ToSet(nonameAlloc) \cup {k}
    BY <2>1, <2>2, <2>4, PushOnStack DEF NamesInv, BuffersFound
  <2>6. nonameMap' \in Seq(Buffer \cup {None}) /\ DOMAIN nonameMap' = DOMAIN nonameMap
    BY <1>4, <2>1, <2>2 DEF NamesInv
  <2>7. \A n \in DOMAIN nonameMap : nonameMap'[n] = IF n = k THEN None ELSE nonameMap[n]
    BY <2>1
  <2>8. ToSet(nonameAlloc') = {n \in DOMAIN nonameMap' : nonameMap'[n] = None}
    BY <2>2, <2>5, <2>6, <2>7 DEF NamesInv, BuffersFound
  <2>9. \A c \in Buffer, g \in File : fileMap[g] = c <=> fileid'[c] = g
    <3> SUFFICES ASSUME NEW c \in Buffer, NEW g \in File PROVE fileMap[g] = c <=> fileid'[c] = g
      OBVIOUS
    <3>1. (fileMap[g] = c <=> fileid[c] = g) /\ g # None /\ g # k
      BY <1>7 DEF NamesInv, BuffersFound
    <3> QED   BY <1>5, <3>1 DEF k
  <2>10. ASSUME NEW c \in Buffer, NEW n \in DOMAIN nonameMap PROVE nonameMap'[n] = c <=> fileid'[c] = n
    <3>1. (nonameMap[n] = c <=> fileid[c] = n) /\ n # None /\ c # None
      BY <1>4 DEF NamesInv, BuffersFound
    <3>2. nonameMap[n] = b => n = k
      BY <1>1 DEF NamesInv, BuffersFound, k
    <3> QED   BY <1>5, <2>3, <2>7, <3>1, <3>2 DEF k
  <2>11. \A c \in Open' : fileid'[c] \in File \cup DOMAIN nonameMap
    BY <1>2, <1>5 DEF NamesInv, BuffersFound, Open
  <2> QED   BY <1>2, <1>3, <2>1, <2>5, <2>6, <2>8, <2>9, <2>10, <2>11 DEF NamesInv, BuffersFound
<1> QED   BY <1>6, <1>7

LEMMA ReleaseBufferKeepsInv ==
  ASSUME ObjectsApart, Inv, NEW b \in Buffer, ReleaseBuffer(b)
  PROVE  Inv'
<1> USE DEF Inv
<1>1. /\ b \in owned /\ owned' = owned \ {b}
      /\ UNCHANGED <<interp, tags, tagAlloc, tagMax, tokens>>
  BY DEF ReleaseBuffer, tagVars
<1>2. b \in Open /\ Existing' = Existing
  BY <1>1 DEF RegistryInv, Existing, ObjectsApart
<1>3. SlotsInv'
  BY <1>1, <1>2 DEF SlotsInv, TagsClean
<1>4. CASE InterpretationsOf(b) # {}
  <2>1. UNCHANGED <<fileMap, nonameMap, nonameAlloc, fileid, registry>>
    BY <1>4 DEF ReleaseBuffer, bufferVars
  <2>2. NamesInv' /\ Open' = Open
    BY <2>1 DEF NamesInv, BuffersFound, Open
  <2>3. RegistryInv'
    BY <1>1, <1>2, <2>1, <2>2 DEF RegistryInv
  <2> QED   BY <1>3, <2>2, <2>3
<1>5. CASE InterpretationsOf(b) = {}
  <2>1. DeleteBuffer(b)
    BY <1>5 DEF ReleaseBuffer
  <2>2. NamesInv' /\ Open' = Open \ {b}
    BY <1>2, <2>1, DeletedIsForgotten
  <2>3. registry' = [registry EXCEPT ![b] = NoInterpretations]
    BY <2>1 DEF DeleteBuffer
  <2>4. \A i \in Existing : interp[i].buffer # b
    BY <1>5 DEF InterpretationsOf
  <2>5. registry' \in [Buffer -> [Encoding -> Interpretation \cup {None}]]
    BY <2>3 DEF RegistryInv, NoInterpretations
  <2>6. \A c \in Buffer, x \in Encoding : registry'[c][x] = IF c = b THEN None ELSE registry[c][x]
    BY <2>3 DEF RegistryInv, NoInterpretations
  <2>7. \A i \in Existing : interp[i].buffer \in Buffer /\ interp[i].encoding \in Encoding
    BY DEF RegistryInv, Existing
  <2>8. \A i \in Existing' : interp'[i].buffer \in Open' /\ registry'[interp'[i].buffer][interp'[i].encoding] = i
    BY <1>1, <1>2, <2>2, <2>4, <2>6, <2>7 DEF RegistryInv
  <2>9. \A c \in Buffer, x \in Encoding :
          registry'[c][x] # None =>
            registry'[c][x] \in Existing' /\ interp'[registry'[c][x]] = [buffer |-> c, encoding |-> x]
    BY <1>1, <1>2, <2>6 DEF RegistryInv
  <2>10. owned' \subseteq Open' \cup Existing'
    BY <1>1, <1>2, <2>2 DEF RegistryInv
  <2>11. RegistryInv'
    BY <1>1, <2>5, <2>8, <2>9, <2>10 DEF RegistryInv
  <2> QED   BY <1>3, <2>2, <2>11
<1> QED   BY <1>4, <1>5

LEMMA ReleaseInterpretationKeepsInv ==
  ASSUME ObjectsApart, Inv, NEW i \in Interpretation, ReleaseInterpretation(i)
  PROVE  Inv'
<1> USE DEF Inv
<1> DEFINE b == interp[i].buffer
           e == interp[i].encoding
<1>1. /\ i \in owned /\ owned' = owned \ {i}
      /\ interp' = [interp EXCEPT ![i] = None]
      /\ tags' = [tags EXCEPT ![i] = <<>>]
      /\ UNCHANGED <<tagAlloc, tagMax, tokens>>
  BY DEF ReleaseInterpretation, tagVars
<1>2. i \in Existing /\ Existing' = Existing \ {i}
  BY <1>1 DEF RegistryInv, Existing, Open, ObjectsApart
<1>3. b \in Open /\ b \in Buffer /\ e \in Encoding /\ registry[b][e] = i
  BY <1>2 DEF RegistryInv, Existing
<1>4. SlotsInv'
  <2>1. tags' \in [Interpretation -> Seq({"empty", "set"})]
    BY <1>1 DEF SlotsInv
  <2>2. \A j \in Existing' : j \in Existing /\ tags'[j] = tags[j]
    BY <1>1, <1>2 DEF SlotsInv, Existing
  <2> QED   BY <1>1, <2>1, <2>2 DEF SlotsInv, TagsClean
<1>5. interp' \in [Interpretation -> [buffer : Buffer, encoding : Encoding] \cup {None}]
  BY <1>1 DEF RegistryInv
<1>6. \A j \in Existing' : /\ j \in Existing /\ interp'[j] = interp[j] /\ j # i /\ j # None
                           /\ interp[j].buffer \in Buffer /\ interp[j].encoding \in Encoding
  BY <1>1, <1>2 DEF RegistryInv, Existing, ObjectsApart
<1>7. ASSUME NEW c \in Buffer, NEW x \in Encoding, registry[c][x] # None, registry[c][x] # i
      PROVE  registry[c][x] \in Existing' /\ interp'[registry[c][x]] = [buffer |-> c, encoding |-> x]
  <2>1. registry[c][x] \in Existing /\ interp[registry[c][x]] = [buffer |-> c, encoding |-> x]
    BY <1>7 DEF RegistryInv
  <2> QED   BY <1>2, <1>6, <1>7, <2>1
<1>8. \A c \in Buffer, x \in Encoding : registry[c][x] = i => c = b /\ x = e
  <2> SUFFICES ASSUME NEW c \in Buffer, NEW x \in Encoding, registry[c][x] = i PROVE c = b /\ x = e
    OBVIOUS
  <2>1. i # None
    BY DEF ObjectsApart
  <2>2. interp[i] = [buffer |-> c, encoding |-> x]
    BY <2>1 DEF RegistryInv
  <2> QED   BY <2>2
<1>9. CASE b \notin owned /\ InterpretationsOf(b) = {i}
  <2>1. DeleteBuffer(b)
    BY <1>9 DEF ReleaseInterpretation
  <2>2. \A j \in Existing' : interp[j].buffer # b
    BY <1>6, <1>9 DEF InterpretationsOf
  <2>3. registry' = [registry EXCEPT ![b] = NoInterpretations]
    BY <2>1 DEF DeleteBuffer
  <2> HIDE DEF b, e
  <2>4. NamesInv' /\ Open' = Open \ {b}
    BY <1>3, <2>1, DeletedIsForgotten
  <2>5. registry' \in [Buffer -> [Encoding -> Interpretation \cup {None}]]
    BY <2>3 DEF RegistryInv, NoInterpretations
  <2>6. \A c \in Buffer, x \in Encoding : registry'[c][x] = IF c = b THEN None ELSE registry[c][x]
    BY <2>3 DEF RegistryInv, NoInterpretations
  <2>7. \A j \in Existing' : interp'[j].buffer \in Open' /\ registry'[interp'[j].buffer][interp'[j].encoding] = j
    BY <1>6, <2>2, <2>4, <2>6 DEF RegistryInv
  <2>8. ASSUME NEW c \in Buffer, NEW x \in Encoding, registry'[c][x] # None
        PROVE  registry'[c][x] \in Existing' /\ interp'[registry'[c][x]] = [buffer |-> c, encoding |-> x]
    BY <1>7, <1>8, <2>6, <2>8
  <2>9. owned' \subseteq Open' \cup Existing'
    BY <1>1, <1>2, <1>9, <2>4 DEF RegistryInv, b
  <2>10. RegistryInv'
    BY <1>5, <2>5, <2>7, <2>8, <2>9 DEF RegistryInv
  <2> QED   BY <1>4, <2>4, <2>10
<1>10. CASE ~ (b \notin owned /\ InterpretationsOf(b) = {i})
  <2>1. registry' = [registry EXCEPT ![b][e] = None] /\ UNCHANGED <<fileMap, nonameMap, nonameAlloc, fileid>>
    BY <1>10 DEF ReleaseInterpretation
  <2> HIDE DEF b, e
  <2>2. NamesInv' /\ Open' = Open
    BY <2>1 DEF NamesInv, BuffersFound, Open
  <2>3. registry' \in [Buffer -> [Encoding -> Interpretation \cup {None}]]
    BY <2>1 DEF RegistryInv
  <2>4. \A c \in Buffer, x \in Encoding : registry'[c][x] = IF c = b /\ x = e THEN None ELSE registry[c][x]
    BY <1>3, <2>1 DEF RegistryInv
  <2>5. ASSUME NEW j \in Existing'
        PROVE  interp'[j].buffer \in Open' /\ registry'[interp'[j].buffer][interp'[j].encoding] = j
    <3>1. registry[interp[j].buffer][interp[j].encoding] = j /\ interp[j].buffer \in Open
      BY <1>6 DEF RegistryInv
    <3> QED   BY <1>3, <1>6, <2>2, <2>4, <3>1
  <2>6. ASSUME NEW c \in Buffer, NEW x \in Encoding, registry'[c][x] # None
        PROVE  registry'[c][x] \in Existing' /\ interp'[registry'[c][x]] = [buffer |-> c, encoding |-> x]
    <3>1. registry'[c][x] = registry[c][x] /\ registry[c][x] # i
      BY <1>8, <2>4, <2>6
    <3> QED   BY <1>7, <2>6, <3>1
  <2>7. owned' \subseteq Open' \cup Existing'
    BY <1>1, <1>2, <2>2 DEF RegistryInv
  <2>8. RegistryInv'
    BY <1>5, <2>3, <2>5, <2>6, <2>7 DEF RegistryInv
  <2> QED   BY <1>4, <2>2, <2>8
<1> QED   BY <1>9, <1>10

-----------------------------------------------------------------------------
(* Tags: what is about buffers and interpretations stays.                  *)
LEMMA OthersStay ==
  ASSUME Inv, UNCHANGED <<bufferVars, interp, owned>>
  PROVE  NamesInv' /\ RegistryInv' /\ Existing' = Existing
BY DEF Inv, NamesInv, BuffersFound, RegistryInv, Open, Existing, bufferVars

LEMMA AllocateTagKeepsInv == ObjectsApart /\ Inv /\ AllocateTag => Inv'
<1> SUFFICES ASSUME ObjectsApart, Inv, AllocateTag PROVE Inv'
  OBVIOUS
<1>1. NamesInv' /\ RegistryInv' /\ Existing' = Existing
  BY OthersStay DEF AllocateTag
<1>2. Registered = Existing
  BY RegisteredExist DEF Inv
<1>3. SlotsInv
  BY DEF Inv
<1>4. CASE tagAlloc = <<>>
  <2>1. /\ tagMax' = tagMax + 1 /\ tokens' = tokens \cup {tagMax + 1} /\ UNCHANGED tagAlloc
        /\ tags' = [i \in Interpretation |-> IF i \in Existing THEN Append(tags[i], "empty") ELSE tags[i]]
    BY <1>2, <1>4 DEF AllocateTag
  <2>2. ToSet(tagAlloc) = {} /\ tokens = 1..tagMax
    <3>1. ToSet(tagAlloc) = {}
      BY <1>4 DEF ToSet
    <3> QED   BY <1>3, <3>1 DEF SlotsInv, TagsClean
  <2>3. ASSUME NEW i \in Interpretation
        PROVE  /\ tags'[i] \in Seq({"empty", "set"})
               /\ i \in Existing => Len(tags'[i]) = tagMax + 1
    <3>1. tags[i] \in Seq({"empty", "set"}) /\ "empty" \in {"empty", "set"}
      BY <1>3 DEF SlotsInv
    <3>2. Append(tags[i], "empty") \in Seq({"empty", "set"}) /\ Len(Append(tags[i], "empty")) = Len(tags[i]) + 1
      BY <3>1, AppendProperties
    <3> QED   BY <1>3, <2>1, <3>1, <3>2 DEF SlotsInv, TagsClean
  <2>4. tags' \in [Interpretation -> Seq({"empty", "set"})]
    BY <2>1, <2>3
  <2>5. tagMax' \in Nat /\ tokens' = 1..tagMax'
    BY <1>3, <2>1, <2>2 DEF SlotsInv
  <2>6. Existing \subseteq Interpretation
    BY DEF Existing
  <2>7. SlotsInv'
    BY <1>1, <1>3, <2>1, <2>2, <2>3, <2>4, <2>5, <2>6 DEF SlotsInv, TagsClean
  <2> QED   BY <1>1, <2>7 DEF Inv
<1>5. CASE tagAlloc # <<>>
  <2>1. tokens' = tokens \cup {Last(tagAlloc)} /\ tagAlloc' = Front(tagAlloc) /\ UNCHANGED <<tags, tagMax>>
    BY <1>5 DEF AllocateTag
  <2>2. /\ tagAlloc' \in Seq(Nat) /\ IsInjective(tagAlloc')
        /\ ToSet(tagAlloc') = ToSet(tagAlloc) \ {Last(tagAlloc)} /\ Last(tagAlloc) \in ToSet(tagAlloc)
    BY <1>3, <1>5, <2>1, PopFromStack DEF SlotsInv, TagsClean
  <2>3. ToSet(tagAlloc) = (1..tagMax) \ tokens /\ tokens \subseteq 1..tagMax
    BY <1>3 DEF SlotsInv, TagsClean
  <2>4. ToSet(tagAlloc') = (1..tagMax) \ tokens' /\ tokens' \subseteq 1..tagMax
    BY <2>1, <2>2, <2>3
  <2>5. SlotsInv'
    BY <1>1, <1>3, <2>1, <2>2, <2>4 DEF SlotsInv, TagsClean
  <2> QED   BY <1>1, <2>5 DEF Inv
<1> QED   BY <1>4, <1>5

LEMMA DeallocateTagKeepsInv ==
  ASSUME ObjectsApart, Inv, NEW k \in 1..MaxTags, DeallocateTag(k)
  PROVE  Inv'
<1>1. NamesInv' /\ RegistryInv' /\ Existing' = Existing
  BY OthersStay DEF DeallocateTag
<1>2. Registered = Existing
  BY RegisteredExist DEF Inv
<1>3. SlotsInv
  BY DEF Inv
<1>4. /\ k \in tokens /\ tokens' = tokens \ {k} /\ tagAlloc' = Append(tagAlloc, k) /\ UNCHANGED tagMax
      /\ tags' = [i \in Interpretation |-> IF i \in Existing THEN [tags[i] EXCEPT ![k] = "empty"] ELSE tags[i]]
  BY <1>2 DEF DeallocateTag, Cleared
<1>5. k \in Nat /\ k \in 1..tagMax /\ ToSet(tagAlloc) = (1..tagMax) \ tokens /\ tokens \subseteq 1..tagMax
  BY <1>3, <1>4 DEF SlotsInv, TagsClean
<1>6. /\ tagAlloc' \in Seq(Nat) /\ IsInjective(tagAlloc')
      /\ ToSet(tagAlloc') = ToSet(tagAlloc) \cup {k}
  BY <1>3, <1>4, <1>5, PushOnStack DEF SlotsInv, TagsClean
<1>7. ASSUME NEW i \in Existing
      PROVE  /\ i \in Interpretation
             /\ tags'[i] \in Seq({"empty", "set"}) /\ Len(tags'[i]) = tagMax
             /\ \A n \in 1..tagMax : tags'[i][n] = IF n = k THEN "empty" ELSE tags[i][n]
  <2>1. i \in Interpretation
    BY DEF Existing
  <2>2. tags[i] \in Seq({"empty", "set"}) /\ Len(tags[i]) = tagMax /\ tagMax \in Nat
    BY <1>3, <2>1 DEF SlotsInv, TagsClean
  <2>3. tags'[i] = [tags[i] EXCEPT ![k] = "empty"]
    BY <1>4, <2>1
  <2> QED   BY <1>5, <2>1, <2>2, <2>3
<1>8. tags' \in [Interpretation -> Seq({"empty", "set"})]
  BY <1>3, <1>4, <1>7 DEF SlotsInv
<1>9. ToSet(tagAlloc') = (1..tagMax) \ tokens' /\ tokens' \subseteq 1..tagMax
  BY <1>4, <1>5, <1>6
<1>10. \A i \in Existing : Len(tags'[i]) = tagMax /\ \A n \in ToSet(tagAlloc') : tags'[i][n] = "empty"
  BY <1>3, <1>5, <1>6, <1>7 DEF SlotsInv, TagsClean
<1>11. SlotsInv'
  BY <1>1, <1>3, <1>4, <1>6, <1>8, <1>9, <1>10 DEF SlotsInv, TagsClean
<1> QED   BY <1>1, <1>11 DEF Inv

LEMMA SetTagKeepsInv ==
  ASSUME Inv, NEW i \in Interpretation, NEW k \in 1..MaxTags, SetTag(i, k)
  PROVE  Inv'
<1>1. NamesInv' /\ RegistryInv' /\ Existing' = Existing
  BY OthersStay DEF SetTag
<1>2. SlotsInv
  BY DEF Inv
<1>3. /\ i \in Existing /\ k \in tokens /\ tags' = [tags EXCEPT ![i][k] = "set"]
      /\ UNCHANGED <<tagAlloc, tagMax, tokens>>
  BY DEF SetTag, tagVars
<1>4. k \in 1..tagMax /\ k \notin ToSet(tagAlloc) /\ ToSet(tagAlloc) \subseteq 1..tagMax
  BY <1>2, <1>3 DEF SlotsInv, TagsClean
<1>5. /\ tags'[i] \in Seq({"empty", "set"}) /\ Len(tags'[i]) = tagMax
      /\ \A n \in 1..tagMax : n # k => tags'[i][n] = tags[i][n]
  <2>1. tags[i] \in Seq({"empty", "set"}) /\ Len(tags[i]) = tagMax /\ tagMax \in Nat
    BY <1>2, <1>3 DEF SlotsInv, TagsClean
  <2>2. tags'[i] = [tags[i] EXCEPT ![k] = "set"]
    BY <1>2, <1>3 DEF SlotsInv
  <2> QED   BY <1>4, <2>1, <2>2
<1>6. \A j \in Interpretation \ {i} : tags'[j] = tags[j]
  BY <1>2, <1>3 DEF SlotsInv
<1>7. tags' \in [Interpretation -> Seq({"empty", "set"})]
  BY <1>2, <1>3, <1>5, <1>6 DEF SlotsInv
<1>8. \A j \in Existing : Len(tags'[j]) = tagMax /\ \A n \in ToSet(tagAlloc) : tags'[j][n] = "empty"
  <2> SUFFICES ASSUME NEW j \in Existing
               PROVE  Len(tags'[j]) = tagMax /\ \A n \in ToSet(tagAlloc) : tags'[j][n] = "empty"
    OBVIOUS
  <2>1. Len(tags[j]) = tagMax /\ \A n \in ToSet(tagAlloc) : tags[j][n] = "empty"
    BY <1>2 DEF SlotsInv, TagsClean
  <2>2. CASE j = i
    BY <1>4, <1>5, <2>1, <2>2
  <2>3. CASE j # i
    BY <1>6, <2>1, <2>3 DEF Existing
  <2> QED   BY <2>2, <2>3
<1>9. SlotsInv'
  BY <1>1, <1>2, <1>3, <1>7, <1>8 DEF SlotsInv, TagsClean
<1> QED   BY <1>1, <1>9 DEF Inv

LEMMA NextKeepsInv == ObjectsApart /\ Inv /\ [Next]_vars => Inv'
<1> SUFFICES ASSUME ObjectsApart, Inv, [Next]_vars PROVE Inv'
  OBVIOUS
<1>1. CASE Next
  BY <1>1, OpenFileKeepsInv, NewFileKeepsInv, ReleaseBufferKeepsInv, OpenInterpretationKeepsInv,
     ReleaseInterpretationKeepsInv, AllocateTagKeepsInv, DeallocateTagKeepsInv, SetTagKeepsInv DEF Next
<1>2. CASE UNCHANGED vars
  <2>1. NamesInv' /\ RegistryInv' /\ Existing' = Existing
    BY <1>2, OthersStay DEF vars
  <2>2. SlotsInv'
    BY <1>2, <2>1 DEF vars, tagVars, Inv, SlotsInv, TagsClean
  <2> QED   BY <2>1, <2>2 DEF Inv
<1> QED   BY <1>1, <1>2

-----------------------------------------------------------------------------
(* Whatever is opened, closed and allocated, a buffer is found by its path *)
(* or its number alone and while it exists, an encoding of it has one      *)
(* interpretation, and a slot that is free is empty in all of them.        *)
THEOREM BuffersCorrect == ObjectsApart => (Spec => []BuffersInv)
<1> SUFFICES ASSUME ObjectsApart PROVE Spec => []BuffersInv
  OBVIOUS
<1>1. Init => Inv
  BY InitKeepsInv
<1>2. Inv /\ [Next]_vars => Inv'
  BY NextKeepsInv
<1>3. Inv => BuffersInv
  <2>1. Inv => InterpretationsShared
    BY RegisteredExist DEF Inv, RegistryInv, InterpretationsShared
  <2> QED   BY <2>1 DEF Inv, NamesInv, SlotsInv, BuffersInv
<1> QED   BY <1>1, <1>2, <1>3, PTL DEF Spec

-----------------------------------------------------------------------------
CONSTANTS Plugin, PluginName
VARIABLES registered, state, enabled, dependencies, dependents, unreferenced, phase

Plugins == INSTANCE PluginManager WITH Name <- PluginName

(* What the state of plugins is, outside of the counts.                    *)
Attached == Plugins!Loaded \cup Plugins!Discarded
DependentsOf(q) == {p \in Attached : q \in Plugins!ToSet(dependencies[p])}

PluginsTyped ==
  /\ registered \subseteq Plugin
  /\ state \in [Plugin -> {"new", "loaded", "finalized", "discarded"}]
  /\ dependencies \in [Plugin -> Seq(Plugin)]
  /\ dependents \in [Plugin -> Int]
  /\ unreferenced \in Seq(Plugin)
  /\ phase \in {"running", "shutdown", "left"}
  /\ phase # "shutdown" => unreferenced = <<>>
  /\ IsFiniteSet(Attached)

(* Only attached plugins depend on others, and those are attached or have  *)
(* been; a plugin is attached later than those that it depends on.         *)
DependenciesOrdered ==
  /\ \A p \in Plugin \ Attached : dependencies[p] = <<>>
  /\ \A p \in Plugin : \A q \in Plugins!ToSet(dependencies[p]) : state[q] # "new"
  /\ \E n \in Nat : \E rank \in [Plugin -> 0..n] :
       \A p \in Plugin : \A q \in Plugins!ToSet(dependencies[p]) : rank[q] < rank[p]

(* While shutdown() takes plugins apart, those that nothing depends on are *)
(* exactly the unreferenced ones.                                          *)
UnreferencedAreFree ==
  phase = "shutdown" =>
    /\ \A q \in registered : dependents[q] # 0
    /\ \A q \in Plugins!ToSet(unreferenced) : dependents[q] = 0

PluginsIInv == PluginsTyped /\ DependenciesOrdered /\ UnreferencedAreFree /\ Plugins!PluginsInv

-----------------------------------------------------------------------------

LEMMA SameCardinality == \A S : Plugins!Cardinality(S) = Cardinality(S)
BY DEF Plugins!Cardinality, Cardinality

(* The sequences of the elements of a set.                                 *)
LEMMA OrdersOfSet ==
  ASSUME NEW S, IsFiniteSet(S), NEW s \in Plugins!SetToSeqs(S)
  PROVE  s \in Seq(S) /\ Plugins!IsInjective(s) /\ Plugins!ToSet(s) = S
<1> DEFINE D == 1..Cardinality(S)
<1>1. Cardinality(S) \in Nat
  BY FS_CardinalityType
<1>2. s \in [D -> S] /\ \A i, j \in D : i # j => s[i] # s[j]
  BY SameCardinality DEF Plugins!SetToSeqs
<1>3. s \in Injection(D, S)
  BY <1>2 DEF Injection, IsInjective
<1>4. Cardinality(D) = Cardinality(S)
  BY <1>1, FS_Interval
<1>5. s \in Surjection(D, S)
  BY <1>3, <1>4, FS_Injection
<1>6. Plugins!ToSet(s) = S
  BY <1>2, <1>5 DEF Plugins!ToSet, Surjection
<1>7. s \in Seq(S) /\ Plugins!IsInjective(s)
  BY <1>1, <1>2 DEF Plugins!IsInjective
<1> QED   BY <1>6, <1>7

-----------------------------------------------------------------------------
LEMMA PluginsInit == Plugins!Init => PluginsIInv
<1> SUFFICES ASSUME Plugins!Init PROVE PluginsIInv
  OBVIOUS
<1> USE DEF Plugins!Init
<1>1. Attached = {} /\ Plugins!Loaded = {} /\ Plugins!Discarded = {}
  BY DEF Attached, Plugins!Loaded, Plugins!Discarded
<1>2. \A p \in Plugin : Plugins!ToSet(dependencies[p]) = {}
  BY DEF Plugins!ToSet
<1>3. PluginsTyped
  BY <1>1, FS_EmptySet DEF PluginsTyped
<1>4. DependenciesOrdered
  <2>1. [p \in Plugin |-> 0] \in [Plugin -> 0..0]
    OBVIOUS
  <2> QED   BY <1>2, <2>1 DEF DependenciesOrdered
<1>5. UnreferencedAreFree
  BY DEF UnreferencedAreFree
<1>6. Plugins!CountsMatch
  BY <1>1, SameCardinality, FS_EmptySet DEF Plugins!CountsMatch
<1>7. Plugins!EachTakenApart
  BY <1>1 DEF Plugins!EachTakenApart, Plugins!ToSet, Plugins!IsInjective
<1>8. Plugins!DependenciesOutlive /\ Plugins!EnabledAreLoaded
  BY <1>1 DEF Plugins!DependenciesOutlive, Plugins!EnabledAreLoaded
<1> QED   BY <1>3, <1>4, <1>5, <1>6, <1>7, <1>8 DEF PluginsIInv, Plugins!PluginsInv

(* What the invariant says of the plugins, and of the counts.              *)
LEMMA PluginFacts ==
  ASSUME PluginsIInv
  PROVE  /\ Attached = Plugins!Loaded \cup Plugins!Discarded
         /\ Plugins!Loaded \cap Plugins!Discarded = {} /\ Attached \subseteq Plugin
         /\ \A p \in Plugin : p \in Plugins!Loaded <=> state[p] = "loaded"
         /\ \A p \in Plugin : p \in Plugins!Discarded <=> state[p] = "discarded"
         /\ registered \subseteq Plugins!Loaded
         /\ Plugins!ToSet(unreferenced) \subseteq Plugins!Loaded
         /\ \A p \in Plugin : Plugins!ToSet(dependencies[p]) \subseteq Plugin
         /\ \A q : IsFiniteSet(DependentsOf(q)) /\ Cardinality(DependentsOf(q)) \in Nat
         /\ phase # "left" => \A q \in Plugin : dependents[q] = Cardinality(DependentsOf(q))
<1>1. \A p \in Plugin : Plugins!ToSet(dependencies[p]) \subseteq Plugin
  <2> SUFFICES ASSUME NEW p \in Plugin, NEW q \in Plugins!ToSet(dependencies[p]) PROVE q \in Plugin
    OBVIOUS
  <2>1. dependencies[p] \in Seq(Plugin)
    BY DEF PluginsIInv, PluginsTyped
  <2> QED   BY <2>1 DEF Plugins!ToSet
<1>2. \A q : IsFiniteSet(DependentsOf(q)) /\ Cardinality(DependentsOf(q)) \in Nat
  <2> SUFFICES ASSUME NEW q PROVE IsFiniteSet(DependentsOf(q)) /\ Cardinality(DependentsOf(q)) \in Nat
    OBVIOUS
  <2>1. DependentsOf(q) \in SUBSET Attached
    BY DEF DependentsOf
  <2>2. IsFiniteSet(Attached)
    BY DEF PluginsIInv, PluginsTyped
  <2>3. IsFiniteSet(DependentsOf(q))
    BY <2>1, <2>2, FS_Subset
  <2> QED   BY <2>3, FS_CardinalityType
<1>3. phase # "left" => \A q \in Plugin : dependents[q] = Cardinality(DependentsOf(q))
  BY SameCardinality DEF PluginsIInv, Plugins!PluginsInv, Plugins!CountsMatch, DependentsOf, Attached
<1>4. /\ registered \subseteq Plugins!Loaded
      /\ Plugins!ToSet(unreferenced) \subseteq Plugins!Loaded
  BY DEF PluginsIInv, Plugins!PluginsInv, Plugins!EachTakenApart
<1> QED   BY <1>1, <1>2, <1>3, <1>4 DEF Attached, Plugins!Loaded, Plugins!Discarded

(* A plugin that nothing counts has nothing that depends on it.            *)
LEMMA NoneDepend ==
  ASSUME PluginsIInv, phase # "left", NEW q \in Plugin, dependents[q] = 0
  PROVE  \A p \in Attached : q \notin Plugins!ToSet(dependencies[p])
<1>1. IsFiniteSet(DependentsOf(q)) /\ Cardinality(DependentsOf(q)) = 0
  BY PluginFacts
<1>2. DependentsOf(q) = {}
  BY <1>1, FS_EmptySet
<1> QED   BY <1>2 DEF DependentsOf

LEMMA AttachKeepsInv ==
  ASSUME PluginsIInv, NEW p \in Plugin, NEW order \in Plugins!SetToSeqs(registered), NEW n \in 0..Len(order),
         Plugins!Attach(p, SubSeq(order, 1, n))
  PROVE  PluginsIInv'
<1> DEFINE deps == SubSeq(order, 1, n)
           Q == Plugins!ToSet(deps)
           AT == Attached
<1>1. /\ phase = "running" /\ state[p] = "new"
      /\ dependents' = [q \in Plugin |-> dependents[q] + (IF q \in Q THEN 1 ELSE 0)]
      /\ dependencies' = [dependencies EXCEPT ![p] = deps]
      /\ UNCHANGED <<enabled, unreferenced, phase>>
  BY DEF Plugins!Attach, Plugins!Counted
<1>2. \/ /\ \E q \in registered : PluginName[q] = PluginName[p]
         /\ state' = [state EXCEPT ![p] = "discarded"] /\ UNCHANGED registered
      \/ /\ \A q \in registered : PluginName[q] # PluginName[p]
         /\ state' = [state EXCEPT ![p] = "loaded"] /\ registered' = registered \cup {p}
  BY DEF Plugins!Attach
<1>3. deps \in Seq(Plugin) /\ Q \subseteq registered
  <2>1. IsFiniteSet(registered)
    <3>1. IsFiniteSet(Attached) /\ registered \in SUBSET Attached
      BY PluginFacts DEF PluginsIInv, PluginsTyped
    <3> QED   BY <3>1, FS_Subset
  <2>2. order \in Seq(registered) /\ Plugins!ToSet(order) = registered
    BY <2>1, OrdersOfSet
  <2>3. deps \in Seq(registered)
    BY <2>2
  <2>4. registered \subseteq Plugin
    BY DEF PluginsIInv, PluginsTyped
  <2> QED   BY <2>3, <2>4 DEF Plugins!ToSet
<1> HIDE DEF deps, Q
<1>4. /\ Attached' = Attached \cup {p} /\ p \notin Attached
      /\ \A q \in Plugin : state'[q] = "new" <=> state[q] = "new" /\ q # p
      /\ state' \in [Plugin -> {"new", "loaded", "finalized", "discarded"}]
  BY <1>1, <1>2 DEF PluginsIInv, PluginsTyped, Attached, Plugins!Loaded, Plugins!Discarded
<1>5. \A q \in Plugin : Plugins!ToSet(dependencies'[q]) = IF q = p THEN Q ELSE Plugins!ToSet(dependencies[q])
  BY <1>1 DEF PluginsIInv, PluginsTyped, Q
<1>6. p \notin Q /\ Q \subseteq Plugins!Loaded /\ Plugins!Loaded \subseteq Attached
  BY <1>1, <1>3, PluginFacts
<1>7. PluginsTyped'
  <2>1. IsFiniteSet(Attached')
    BY <1>4, FS_AddElement DEF PluginsIInv, PluginsTyped
  <2>2. registered' \subseteq Plugin
    BY <1>2 DEF PluginsIInv, PluginsTyped
  <2>3. dependents' \in [Plugin -> Int] /\ dependencies' \in [Plugin -> Seq(Plugin)]
    BY <1>1, <1>3 DEF PluginsIInv, PluginsTyped
  <2> QED   BY <1>1, <1>4, <2>1, <2>2, <2>3 DEF PluginsIInv, PluginsTyped
<1>8. DependenciesOrdered'
  <2>1. \A q \in Plugin \ Attached' : dependencies'[q] = <<>>
    BY <1>1, <1>4 DEF PluginsIInv, DependenciesOrdered, PluginsTyped
  <2>2. \A q \in Plugin : \A r \in Plugins!ToSet(dependencies'[q]) : r \in Plugin /\ r # p /\ state[r] # "new"
    <3> SUFFICES ASSUME NEW q \in Plugin, NEW r \in Plugins!ToSet(dependencies'[q])
                 PROVE  r \in Plugin /\ r # p /\ state[r] # "new"
      OBVIOUS
    <3>1. CASE q = p
      BY <1>5, <1>6, <3>1, PluginFacts
    <3>2. CASE q # p
      BY <1>1, <1>5, <3>2, PluginFacts DEF PluginsIInv, DependenciesOrdered
    <3> QED   BY <3>1, <3>2
  <2>3. \A q \in Plugin : \A r \in Plugins!ToSet(dependencies'[q]) : state'[r] # "new"
    BY <1>4, <2>2
  <2>4. PICK m \in Nat : \E rank \in [Plugin -> 0..m] :
          \A q \in Plugin : \A r \in Plugins!ToSet(dependencies[q]) : rank[r] < rank[q]
    BY DEF PluginsIInv, DependenciesOrdered
  <2>5. PICK rank \in [Plugin -> 0..m] :
          \A q \in Plugin : \A r \in Plugins!ToSet(dependencies[q]) : rank[r] < rank[q]
    BY <2>4
  <2> DEFINE new == [rank EXCEPT ![p] = m + 1]
  <2>6. m + 1 \in Nat /\ new \in [Plugin -> 0..(m + 1)]
    OBVIOUS
  <2>7. ASSUME NEW q \in Plugin, NEW r \in Plugins!ToSet(dependencies'[q]) PROVE new[r] < new[q]
    <3>1. r \in Plugin /\ r # p /\ new[r] = rank[r] /\ rank[r] \in 0..m
      BY <2>2
    <3>2. CASE q = p
      BY <3>1, <3>2
    <3>3. CASE q # p
      BY <1>5, <2>5, <3>1, <3>3
    <3> QED   BY <3>2, <3>3
  <2> HIDE DEF new
  <2>8. \E k \in Nat : \E rnk \in [Plugin -> 0..k] :
          \A q \in Plugin : \A r \in Plugins!ToSet(dependencies'[q]) : rnk[r] < rnk[q]
    BY <2>6, <2>7
  <2> QED   BY <2>1, <2>3, <2>8 DEF DependenciesOrdered
<1>9. UnreferencedAreFree'
  BY <1>1 DEF UnreferencedAreFree
<1>10. Plugins!CountsMatch'
  <2> SUFFICES ASSUME NEW q \in Plugin PROVE dependents'[q] = Cardinality(DependentsOf(q)')
    BY SameCardinality DEF Plugins!CountsMatch, DependentsOf, Attached
  <2>1. DependentsOf(q)' = IF q \in Q THEN DependentsOf(q) \cup {p} ELSE DependentsOf(q)
    BY <1>4, <1>5, PluginFacts DEF DependentsOf
  <2>2. /\ p \notin DependentsOf(q) /\ IsFiniteSet(DependentsOf(q))
        /\ dependents[q] = Cardinality(DependentsOf(q)) /\ Cardinality(DependentsOf(q)) \in Nat
    BY <1>1, <1>4, PluginFacts DEF DependentsOf
  <2>3. Cardinality(DependentsOf(q) \cup {p}) = Cardinality(DependentsOf(q)) + 1
    BY <2>2, FS_AddElement
  <2>4. dependents'[q] = dependents[q] + (IF q \in Q THEN 1 ELSE 0)
    BY <1>1
  <2> HIDE DEF DependentsOf
  <2> QED   BY <2>1, <2>2, <2>3, <2>4
<1>11. Plugins!EachTakenApart'
  <2>1. unreferenced = <<>> /\ unreferenced' = <<>> /\ Plugins!Loaded = registered
    BY <1>1 DEF PluginsIInv, PluginsTyped, Plugins!PluginsInv, Plugins!EachTakenApart, Plugins!ToSet
  <2>2. Plugins!Loaded' = registered'
    BY <1>1, <1>2, <2>1, PluginFacts DEF PluginsIInv, PluginsTyped, Plugins!Loaded
  <2> QED   BY <1>1, <2>1, <2>2 DEF Plugins!EachTakenApart, Plugins!ToSet, Plugins!IsInjective
<1>12. Plugins!DependenciesOutlive'
  <2>1. Plugins!Loaded \subseteq Plugins!Loaded' /\ Plugins!Loaded' \subseteq Plugins!Loaded \cup {p}
    BY <1>1, <1>2 DEF PluginsIInv, PluginsTyped, Plugins!Loaded
  <2>2. \A q \in Plugins!Loaded : Plugins!ToSet(dependencies[q]) \subseteq Plugins!Loaded
    BY <1>1 DEF PluginsIInv, Plugins!PluginsInv, Plugins!DependenciesOutlive
  <2> QED   BY <1>5, <1>6, <2>1, <2>2, PluginFacts DEF Plugins!DependenciesOutlive
<1>13. Plugins!EnabledAreLoaded'
  <2>1. enabled \subseteq Plugins!Loaded'
    BY <1>1, <1>2 DEF PluginsIInv, PluginsTyped, Plugins!Loaded, Plugins!PluginsInv, Plugins!EnabledAreLoaded
  <2> QED   BY <1>1, <1>2, <2>1 DEF PluginsIInv, Plugins!PluginsInv, Plugins!EnabledAreLoaded
<1> QED   BY <1>7, <1>8, <1>9, <1>10, <1>11, <1>12, <1>13 DEF PluginsIInv, Plugins!PluginsInv

LEMMA EnableKeepsInv ==
  ASSUME PluginsIInv, NEW p \in Plugin, Plugins!Enable(p) \/ Plugins!Disable(p)
  PROVE  PluginsIInv'
<1>1. /\ enabled' \subseteq enabled \cup registered
      /\ UNCHANGED <<registered, state, dependencies, dependents, unreferenced, phase>>
  BY DEF Plugins!Enable, Plugins!Disable
<1>2. PluginsTyped' /\ DependenciesOrdered' /\ UnreferencedAreFree'
  BY <1>1 DEF PluginsIInv, PluginsTyped, DependenciesOrdered, UnreferencedAreFree, Attached,
              Plugins!Loaded, Plugins!Discarded
<1>3. Plugins!CountsMatch' /\ Plugins!DependenciesOutlive' /\ Plugins!EachTakenApart'
  BY <1>1 DEF PluginsIInv, Plugins!PluginsInv, Plugins!CountsMatch, Plugins!DependenciesOutlive,
              Plugins!EachTakenApart, Plugins!Loaded, Plugins!Discarded
<1>4. Plugins!EnabledAreLoaded'
  BY <1>1, PluginFacts DEF PluginsIInv, Plugins!PluginsInv, Plugins!EnabledAreLoaded, Plugins!Loaded
<1> QED   BY <1>2, <1>3, <1>4 DEF PluginsIInv, Plugins!PluginsInv

(* A plugin that nothing depends on is finalized and detached.             *)
LEMMA TakenOut ==
  ASSUME PluginsIInv, NEW p \in Plugins!Loaded, phase # "left", dependents[p] = 0,
         Plugins!Finalize(p), Plugins!OnPluginDetached(p)
  PROVE  /\ Plugins!Loaded' = Plugins!Loaded \ {p} /\ Plugins!Discarded' = Plugins!Discarded
         /\ \A q \in Plugin : Plugins!ToSet(dependencies'[q]) =
                               IF q = p THEN {} ELSE Plugins!ToSet(dependencies[q])
         /\ state' \in [Plugin -> {"new", "loaded", "finalized", "discarded"}]
         /\ dependencies' \in [Plugin -> Seq(Plugin)]
         /\ dependents' = [q \in Plugin |-> dependents[q] - (IF q \in Plugins!ToSet(dependencies[p]) THEN 1 ELSE 0)]
         /\ dependents' \in [Plugin -> Int]
         /\ IsFiniteSet(Attached')
         /\ DependenciesOrdered'
         /\ \A q \in Plugin : dependents'[q] = Cardinality(DependentsOf(q)')
         /\ \A q \in Plugins!Loaded' : Plugins!ToSet(dependencies'[q]) \subseteq Plugins!Loaded'
         /\ enabled' \subseteq Plugins!Loaded'
<1>1. /\ enabled' = enabled \ {p}
      /\ state' = [state EXCEPT ![p] = "finalized"]
      /\ dependencies' = [dependencies EXCEPT ![p] = <<>>]
      /\ dependents' = [q \in Plugin |-> dependents[q] - (IF q \in Plugins!ToSet(dependencies[p]) THEN 1 ELSE 0)]
  BY DEF Plugins!Finalize, Plugins!OnPluginDetached, Plugins!Released
<1>2. p \in Plugin /\ p \in Attached
  BY PluginFacts
<1>3. /\ Plugins!Loaded' = Plugins!Loaded \ {p} /\ Plugins!Discarded' = Plugins!Discarded
      /\ state' \in [Plugin -> {"new", "loaded", "finalized", "discarded"}]
      /\ \A q \in Plugin : state'[q] = "new" <=> state[q] = "new"
  BY <1>1 DEF PluginsIInv, PluginsTyped, Plugins!Loaded, Plugins!Discarded
<1>4. Attached' = Attached \ {p}
  BY <1>3, PluginFacts DEF Attached
<1>5. \A q \in Plugin : Plugins!ToSet(dependencies'[q]) = IF q = p THEN {} ELSE Plugins!ToSet(dependencies[q])
  BY <1>1 DEF PluginsIInv, PluginsTyped, Plugins!ToSet
<1>6. dependencies' \in [Plugin -> Seq(Plugin)] /\ dependents' \in [Plugin -> Int]
  <2>1. <<>> \in Seq(Plugin) /\ dependencies \in [Plugin -> Seq(Plugin)] /\ dependents \in [Plugin -> Int]
    BY DEF PluginsIInv, PluginsTyped
  <2> HIDE DEF Plugins!ToSet
  <2>2. dependencies' \in [Plugin -> Seq(Plugin)]
    BY <1>1, <2>1
  <2>3. dependents' \in [Plugin -> Int]
    BY <1>1, <2>1
  <2> QED   BY <2>2, <2>3
<1>7. IsFiniteSet(Attached')
  BY <1>4, FS_RemoveElement DEF PluginsIInv, PluginsTyped
<1>8. DependenciesOrdered'
  <2>1. \A q \in Plugin \ Attached' : dependencies'[q] = <<>>
    BY <1>1, <1>4 DEF PluginsIInv, DependenciesOrdered, PluginsTyped
  <2>2. \A q \in Plugin : \A r \in Plugins!ToSet(dependencies'[q]) : state'[r] # "new"
    BY <1>3, <1>5, PluginFacts DEF PluginsIInv, DependenciesOrdered
  <2>3. \E n \in Nat : \E rank \in [Plugin -> 0..n] :
          \A q \in Plugin : \A r \in Plugins!ToSet(dependencies'[q]) : rank[r] < rank[q]
    BY <1>5 DEF PluginsIInv, DependenciesOrdered
  <2> QED   BY <2>1, <2>2, <2>3 DEF DependenciesOrdered
<1>9. ASSUME NEW q \in Plugin PROVE dependents'[q] = Cardinality(DependentsOf(q)')
  <2>1. DependentsOf(q)' = DependentsOf(q) \ {p}
    BY <1>4, <1>5, PluginFacts DEF DependentsOf
  <2>2. /\ IsFiniteSet(DependentsOf(q)) /\ Cardinality(DependentsOf(q)) \in Nat
        /\ dependents[q] = Cardinality(DependentsOf(q))
    BY PluginFacts
  <2>3. p \in DependentsOf(q) <=> q \in Plugins!ToSet(dependencies[p])
    BY <1>2 DEF DependentsOf
  <2>4. dependents'[q] = dependents[q] - (IF q \in Plugins!ToSet(dependencies[p]) THEN 1 ELSE 0)
    BY <1>1
  <2>5. Cardinality(DependentsOf(q) \ {p}) =
          IF p \in DependentsOf(q) THEN Cardinality(DependentsOf(q)) - 1 ELSE Cardinality(DependentsOf(q))
    BY <2>2, FS_RemoveElement
  <2> HIDE DEF DependentsOf
  <2> QED   BY <2>1, <2>2, <2>3, <2>4, <2>5
<1>10. \A q \in Plugins!Loaded' : Plugins!ToSet(dependencies'[q]) \subseteq Plugins!Loaded'
  <2> SUFFICES ASSUME NEW q \in Plugins!Loaded', NEW r \in Plugins!ToSet(dependencies'[q])
               PROVE  r \in Plugins!Loaded /\ r # p
    BY <1>3
  <2>1. q \in Plugins!Loaded /\ q # p /\ q \in Plugin /\ q \in Attached
    BY <1>3, PluginFacts
  <2>2. r \in Plugins!ToSet(dependencies[q])
    BY <1>5, <2>1
  <2>3. r # p
    BY <1>2, <2>1, <2>2, NoneDepend
  <2>4. Plugins!ToSet(dependencies[q]) \subseteq Plugins!Loaded
    BY <2>1 DEF PluginsIInv, Plugins!PluginsInv, Plugins!DependenciesOutlive
  <2> QED   BY <2>2, <2>3, <2>4
<1>11. enabled' \subseteq Plugins!Loaded'
  BY <1>1, <1>3 DEF PluginsIInv, Plugins!PluginsInv, Plugins!EnabledAreLoaded
<1> QED   BY <1>1, <1>3, <1>5, <1>6, <1>7, <1>8, <1>9, <1>10, <1>11

LEMMA DetachKeepsInv ==
  ASSUME PluginsIInv, NEW p \in Plugin, Plugins!Detach(p)
  PROVE  PluginsIInv'
<1>1. /\ phase = "running" /\ p \in registered /\ dependents[p] = 0
      /\ Plugins!Finalize(p) /\ Plugins!OnPluginDetached(p)
      /\ registered' = registered \ {p}
      /\ UNCHANGED <<unreferenced, phase>>
  BY DEF Plugins!Detach
<1>2. p \in Plugins!Loaded
  BY <1>1, PluginFacts
<1>3. PluginsTyped' /\ DependenciesOrdered' /\ UnreferencedAreFree'
  <2>1. UnreferencedAreFree'
    BY <1>1 DEF UnreferencedAreFree
  <2> QED   BY <1>1, <1>2, <2>1, TakenOut DEF PluginsIInv, PluginsTyped
<1>4. Plugins!CountsMatch'
  <2>1. \A q \in Plugin : dependents'[q] = Cardinality(DependentsOf(q)')
    BY <1>1, <1>2, TakenOut
  <2> QED   BY <2>1, SameCardinality DEF Plugins!CountsMatch, DependentsOf, Attached
<1>5. Plugins!DependenciesOutlive'
  BY <1>1, <1>2, TakenOut DEF Plugins!DependenciesOutlive
<1>6. Plugins!EachTakenApart'
  BY <1>1, <1>2, TakenOut DEF PluginsIInv, PluginsTyped, Plugins!PluginsInv, Plugins!EachTakenApart, Plugins!ToSet
<1>7. Plugins!EnabledAreLoaded'
  BY <1>1, <1>2, TakenOut DEF PluginsIInv, Plugins!PluginsInv, Plugins!EnabledAreLoaded
<1> QED   BY <1>3, <1>4, <1>5, <1>6, <1>7 DEF PluginsIInv, Plugins!PluginsInv

LEMMA PopUnreferenced ==
  ASSUME NEW S, NEW s \in Seq(S), s # <<>>, Plugins!IsInjective(s)
  PROVE  /\ Plugins!Front(s) \in Seq(S) /\ Plugins!IsInjective(Plugins!Front(s))
         /\ Plugins!ToSet(Plugins!Front(s)) = Plugins!ToSet(s) \ {Plugins!Last(s)}
         /\ Plugins!Last(s) \in Plugins!ToSet(s)
<1>1. /\ Plugins!Front(s) = Front(s) /\ Plugins!Last(s) = Last(s)
      /\ \A x : Plugins!IsInjective(x) <=> IsInjective(x)
      /\ \A x : Plugins!ToSet(x) = ToSet(x)
  BY DEF IsInjective, ToSet, Front, Last,
         Plugins!IsInjective, Plugins!ToSet, Plugins!Front, Plugins!Last
<1> QED   BY <1>1, PopFromStack

(* The last of a sequence goes, and others come after the rest.            *)
LEMMA PopAndConcat ==
  ASSUME NEW S, NEW s \in Seq(S), s # <<>>, NEW t \in Seq(S),
         Plugins!IsInjective(s), Plugins!IsInjective(t), Plugins!ToSet(s) \cap Plugins!ToSet(t) = {}
  PROVE  /\ Plugins!Last(s) \in Plugins!ToSet(s)
         /\ Plugins!Front(s) \o t \in Seq(S) /\ Plugins!IsInjective(Plugins!Front(s) \o t)
         /\ Plugins!ToSet(Plugins!Front(s) \o t) = (Plugins!ToSet(s) \ {Plugins!Last(s)}) \cup Plugins!ToSet(t)
<1> DEFINE f == Plugins!Front(s)
           n == Len(f)
           m == Len(t)
<1>1. /\ f \in Seq(S) /\ Plugins!IsInjective(f)
      /\ Plugins!ToSet(f) = Plugins!ToSet(s) \ {Plugins!Last(s)}
      /\ Plugins!Last(s) \in Plugins!ToSet(s)
  BY PopUnreferenced
<1> HIDE DEF f
<1>2. /\ f \o t \in Seq(S) /\ n \in Nat /\ m \in Nat /\ Len(f \o t) = n + m
      /\ DOMAIN f = 1..n /\ DOMAIN t = 1..m /\ DOMAIN (f \o t) = 1..(n + m)
      /\ \A i \in 1..n : (f \o t)[i] = f[i]
      /\ \A i \in 1..m : (f \o t)[n + i] = t[i]
  BY <1>1, ConcatProperties, LenProperties
<1>3. \A i \in 1..(n + m) : i \in 1..n \/ (i - n \in 1..m /\ i = n + (i - n))
  BY <1>2
<1>4. \A i \in 1..m : n + i \in 1..(n + m)
  BY <1>2
<1>5. \A i \in 1..n : i \in 1..(n + m)
  BY <1>2
<1> DEFINE c == f \o t
<1>6. Plugins!ToSet(c) = Plugins!ToSet(f) \cup Plugins!ToSet(t)
  <2>1. ASSUME NEW x \in Plugins!ToSet(c) PROVE x \in Plugins!ToSet(f) \cup Plugins!ToSet(t)
    <3>1. PICK i \in 1..(n + m) : c[i] = x
      BY <1>2 DEF Plugins!ToSet
    <3> QED   BY <1>2, <1>3, <3>1 DEF Plugins!ToSet
  <2>2. ASSUME NEW x \in Plugins!ToSet(f) \cup Plugins!ToSet(t) PROVE x \in Plugins!ToSet(c)
    BY <1>2, <1>4, <1>5 DEF Plugins!ToSet
  <2> QED   BY <2>1, <2>2
<1>7. ASSUME NEW i \in 1..(n + m), NEW j \in 1..(n + m), c[i] = c[j] PROVE i = j
  <2>1. \A k \in 1..n, l \in 1..m : f[k] # t[l]
    BY <1>1, <1>2 DEF Plugins!ToSet
  <2>2. CASE i \in 1..n /\ j \in 1..n
    BY <1>1, <1>2, <1>7, <2>2 DEF Plugins!IsInjective
  <2>3. CASE i \in 1..n /\ j \notin 1..n
    BY <1>2, <1>3, <1>7, <2>1, <2>3
  <2>4. CASE i \notin 1..n /\ j \in 1..n
    BY <1>2, <1>3, <1>7, <2>1, <2>4
  <2>5. CASE i \notin 1..n /\ j \notin 1..n
    <3>1. /\ i - n \in 1..m /\ j - n \in 1..m /\ i = n + (i - n) /\ j = n + (j - n)
          /\ c[i] = t[i - n] /\ c[j] = t[j - n]
      BY <1>2, <1>3, <2>5
    <3>2. i - n = j - n
      BY <1>2, <1>7, <3>1 DEF Plugins!IsInjective
    <3> QED   BY <1>2, <3>2
  <2> QED   BY <2>2, <2>3, <2>4, <2>5
<1>8. Plugins!IsInjective(c)
  BY <1>2, <1>7 DEF Plugins!IsInjective
<1> QED   BY <1>1, <1>2, <1>6, <1>8 DEF f

LEMMA ShutdownKeepsInv ==
  ASSUME PluginsIInv, Plugins!Shutdown
  PROVE  PluginsIInv'
<1> DEFINE free == {p \in registered : dependents[p] = 0}
<1>1. /\ phase = "running" /\ phase' = "shutdown"
      /\ unreferenced' \in Plugins!InNameOrder(free)
      /\ registered' = registered \ free
      /\ UNCHANGED <<state, enabled, dependencies, dependents>>
  BY DEF Plugins!Shutdown
<1>2. IsFiniteSet(free) /\ free \subseteq Plugin
  <2>1. IsFiniteSet(Attached) /\ free \in SUBSET Attached
    BY PluginFacts DEF PluginsIInv, PluginsTyped
  <2> QED   BY <2>1, FS_Subset DEF PluginsIInv, PluginsTyped
<1>3. /\ unreferenced' \in Seq(free) /\ Plugins!IsInjective(unreferenced')
      /\ Plugins!ToSet(unreferenced') = free
  <2> HIDE DEF free
  <2>1. unreferenced' \in Plugins!SetToSeqs(free)
    BY <1>1 DEF Plugins!InNameOrder
  <2>2. \A s \in Plugins!SetToSeqs(free) : s \in Seq(free) /\ Plugins!IsInjective(s) /\ Plugins!ToSet(s) = free
    BY <1>2, OrdersOfSet
  <2> QED   BY <2>1, <2>2
<1>4. Plugins!Loaded' = Plugins!Loaded /\ Plugins!Discarded' = Plugins!Discarded /\ Attached' = Attached
  BY <1>1 DEF Plugins!Loaded, Plugins!Discarded, Attached
<1>5. PluginsTyped' /\ DependenciesOrdered'
  <2>1. unreferenced' \in Seq(Plugin)
    BY <1>2, <1>3
  <2> QED   BY <1>1, <1>4, <2>1 DEF PluginsIInv, PluginsTyped, DependenciesOrdered
<1>6. UnreferencedAreFree'
  BY <1>1, <1>3 DEF UnreferencedAreFree
<1>7. Plugins!CountsMatch' /\ Plugins!DependenciesOutlive'
  BY <1>1, <1>4 DEF PluginsIInv, Plugins!PluginsInv, Plugins!CountsMatch, Plugins!DependenciesOutlive
<1>8. Plugins!EachTakenApart'
  <2>1. Plugins!Loaded = registered
    BY <1>1 DEF PluginsIInv, PluginsTyped, Plugins!PluginsInv, Plugins!EachTakenApart, Plugins!ToSet
  <2> QED   BY <1>1, <1>3, <1>4, <2>1 DEF Plugins!EachTakenApart
<1>9. Plugins!EnabledAreLoaded'
  BY <1>1, <1>4 DEF PluginsIInv, Plugins!PluginsInv, Plugins!EnabledAreLoaded
<1> QED   BY <1>5, <1>6, <1>7, <1>8, <1>9 DEF PluginsIInv, Plugins!PluginsInv

LEMMA ShutdownNextKeepsInv ==
  ASSUME PluginsIInv, Plugins!ShutdownNext
  PROVE  PluginsIInv'
<1> DEFINE p == Plugins!Last(unreferenced)
           Freed == Plugins!OnlyDependentOf(p)
           U == Plugins!ToSet(unreferenced)
<1>1. /\ phase = "shutdown" /\ unreferenced # <<>> /\ phase' = phase
      /\ Plugins!Finalize(p) /\ Plugins!OnPluginDetached(p)
      /\ registered' = registered \ Freed
  BY DEF Plugins!ShutdownNext
<1>2. PICK freed \in Plugins!InOrderOf(dependencies[p], Freed) : unreferenced' = Plugins!Front(unreferenced) \o freed
  BY DEF Plugins!ShutdownNext
<1>3. /\ unreferenced \in Seq(Plugin) /\ Plugins!IsInjective(unreferenced)
      /\ Plugins!Loaded = registered \cup U /\ registered \cap U = {}
      /\ \A q \in registered : dependents[q] # 0
      /\ \A q \in U : dependents[q] = 0
  BY <1>1 DEF PluginsIInv, PluginsTyped, UnreferencedAreFree, Plugins!PluginsInv, Plugins!EachTakenApart
<1>4. p \in U
  BY <1>1, <1>3, PopUnreferenced
<1>5. p \in Plugins!Loaded /\ dependents[p] = 0 /\ p \in Plugin /\ p \in Attached
  BY <1>3, <1>4, PluginFacts
<1> HIDE DEF p
<1>6. /\ Freed = {q \in Plugins!ToSet(dependencies[p]) : dependents[q] = 1}
      /\ Plugins!ToSet(dependencies[p]) \subseteq Plugins!Loaded
  <2>1. Plugins!ToSet(dependencies[p]) \subseteq Plugins!Loaded
    BY <1>1, <1>5 DEF PluginsIInv, Plugins!PluginsInv, Plugins!DependenciesOutlive
  <2> QED   BY <2>1 DEF Plugins!OnlyDependentOf
<1> HIDE DEF Freed
<1>7. Freed \subseteq registered
  BY <1>3, <1>6
<1>8. freed \in Seq(Freed) /\ Plugins!IsInjective(freed) /\ Plugins!ToSet(freed) = Freed
  <2>1. IsFiniteSet(Attached) /\ Freed \in SUBSET Attached
    BY <1>7, PluginFacts DEF PluginsIInv, PluginsTyped
  <2>2. IsFiniteSet(Freed)
    BY <2>1, FS_Subset
  <2>3. freed \in Plugins!SetToSeqs(Freed)
    BY <1>2 DEF Plugins!InOrderOf
  <2> QED   BY <2>2, <2>3, OrdersOfSet
<1>9. /\ unreferenced' \in Seq(Plugin) /\ Plugins!IsInjective(unreferenced')
      /\ Plugins!ToSet(unreferenced') = (U \ {p}) \cup Freed
  <2>1. Freed \subseteq Plugin /\ U \cap Freed = {}
    BY <1>3, <1>7, PluginFacts
  <2>2. freed \in Seq(Plugin)
    BY <1>8, <2>1
  <2> QED   BY <1>1, <1>2, <1>3, <1>8, <2>1, <2>2, PopAndConcat DEF p
<1> HIDE DEF U
<1>10. PluginsTyped' /\ DependenciesOrdered'
  <2>1. registered' \subseteq Plugin
    BY <1>1 DEF PluginsIInv, PluginsTyped
  <2> QED   BY <1>1, <1>5, <1>9, <2>1, TakenOut DEF PluginsIInv, PluginsTyped
<1>11. \A q \in Plugin : /\ dependents'[q] = Cardinality(DependentsOf(q)')
                         /\ dependents'[q] = dependents[q] - (IF q \in Plugins!ToSet(dependencies[p]) THEN 1 ELSE 0)
                         /\ dependents[q] \in Int
  BY <1>1, <1>5, TakenOut DEF PluginsIInv, PluginsTyped
<1>12. Plugins!CountsMatch'
  BY <1>11, SameCardinality DEF Plugins!CountsMatch, DependentsOf, Attached
<1>13. UnreferencedAreFree'
  <2>1. ASSUME NEW q \in registered' PROVE dependents'[q] # 0
    <3>1. q \in registered /\ q \notin Freed /\ q \in Plugin
      BY <1>1 DEF PluginsIInv, PluginsTyped
    <3> QED   BY <1>3, <1>6, <1>11, <3>1
  <2>2. ASSUME NEW q \in Plugins!ToSet(unreferenced') PROVE dependents'[q] = 0
    <3>1. CASE q \in Freed
      BY <1>6, <1>7, <1>11, <3>1 DEF PluginsIInv, PluginsTyped
    <3>2. CASE q \in U \ {p}
      <4>1. q \in Plugin /\ dependents[q] = 0
        BY <1>3, <3>2, PluginFacts DEF U
      <4>2. q \notin Plugins!ToSet(dependencies[p])
        BY <1>1, <1>5, <4>1, NoneDepend
      <4> QED   BY <1>11, <4>1, <4>2
    <3> QED   BY <1>9, <3>1, <3>2
  <2> QED   BY <2>1, <2>2 DEF UnreferencedAreFree
<1>14. Plugins!DependenciesOutlive'
  BY <1>1, <1>5, TakenOut DEF Plugins!DependenciesOutlive
<1>15. Plugins!EachTakenApart'
  <2>1. Plugins!Loaded' = Plugins!Loaded \ {p}
    BY <1>1, <1>5, TakenOut
  <2>2. p \notin registered
    BY <1>3, <1>4 DEF U
  <2>3. Plugins!Loaded' = registered' \cup Plugins!ToSet(unreferenced')
    BY <1>1, <1>3, <1>7, <1>9, <2>1, <2>2 DEF U
  <2>4. registered' \cap Plugins!ToSet(unreferenced') = {}
    BY <1>1, <1>3, <1>9 DEF U
  <2> QED   BY <1>1, <1>9, <2>3, <2>4 DEF Plugins!EachTakenApart
<1>16. Plugins!EnabledAreLoaded'
  BY <1>1, <1>5, TakenOut DEF PluginsIInv, Plugins!PluginsInv, Plugins!EnabledAreLoaded
<1> QED   BY <1>10, <1>12, <1>13, <1>14, <1>15, <1>16 DEF PluginsIInv, Plugins!PluginsInv

(* The numbers of plugins that are attached cannot grow for ever.          *)
LEMMA SomethingIsFree ==
  ASSUME PluginsIInv, phase = "shutdown", unreferenced = <<>>, Plugins!Discarded = {}
  PROVE  Plugins!Loaded = {}
<1> SUFFICES ASSUME Plugins!Loaded # {} PROVE FALSE
  OBVIOUS
<1>1. Plugins!Loaded = registered /\ Attached = Plugins!Loaded
  BY PluginFacts DEF PluginsIInv, Plugins!PluginsInv, Plugins!EachTakenApart, Plugins!ToSet
<1>2. \A q \in Plugins!Loaded : \E p \in Plugins!Loaded : q \in Plugins!ToSet(dependencies[p])
  <2> SUFFICES ASSUME NEW q \in Plugins!Loaded PROVE DependentsOf(q) # {}
    BY <1>1 DEF DependentsOf
  <2>1. dependents[q] # 0 /\ dependents[q] = Cardinality(DependentsOf(q))
    BY <1>1, PluginFacts DEF PluginsIInv, UnreferencedAreFree
  <2> QED   BY <2>1, FS_EmptySet
<1>3. PICK n \in Nat : \E rank \in [Plugin -> 0..n] :
        \A p \in Plugin : \A q \in Plugins!ToSet(dependencies[p]) : rank[q] < rank[p]
  BY DEF PluginsIInv, DependenciesOrdered
<1>4. PICK rank \in [Plugin -> 0..n] :
        \A p \in Plugin : \A q \in Plugins!ToSet(dependencies[p]) : rank[q] < rank[p]
  BY <1>3
<1> DEFINE Left == {n - rank[p] : p \in Plugins!Loaded}
<1>5. Plugins!Loaded \subseteq Plugin
  BY PluginFacts
<1>6. Left \in SUBSET Nat /\ Left # {}
  BY <1>4, <1>5
<1>7. PICK m \in Left : \A k \in Left : m <= k
  BY <1>6, LeastNatural
<1>8. PICK q \in Plugins!Loaded : m = n - rank[q]
  BY <1>7
<1>9. PICK p \in Plugins!Loaded : q \in Plugins!ToSet(dependencies[p])
  BY <1>2
<1>10. rank[q] < rank[p] /\ rank[q] \in 0..n /\ rank[p] \in 0..n
  BY <1>4, <1>5, <1>9
<1>11. m <= n - rank[p]
  BY <1>7
<1> QED   BY <1>8, <1>10, <1>11

LEMMA ShutdownLeftKeepsInv ==
  ASSUME PluginsIInv, Plugins!ShutdownLeft
  PROVE  PluginsIInv'
<1>1. /\ phase = "shutdown" /\ unreferenced = <<>> /\ phase' = "left"
      /\ UNCHANGED <<registered, state, enabled, dependencies, dependents, unreferenced>>
  BY DEF Plugins!ShutdownLeft
<1>2. Plugins!Loaded' = Plugins!Loaded /\ Plugins!Discarded' = Plugins!Discarded /\ Attached' = Attached
  BY <1>1 DEF Plugins!Loaded, Plugins!Discarded, Attached
<1>3. PluginsTyped' /\ DependenciesOrdered' /\ UnreferencedAreFree'
  BY <1>1, <1>2 DEF PluginsIInv, PluginsTyped, DependenciesOrdered, UnreferencedAreFree
<1>4. Plugins!CountsMatch' /\ Plugins!DependenciesOutlive'
  BY <1>1, <1>2 DEF PluginsIInv, Plugins!PluginsInv, Plugins!CountsMatch, Plugins!DependenciesOutlive
<1>5. Plugins!EachTakenApart'
  BY <1>1, <1>2, SomethingIsFree DEF PluginsIInv, Plugins!PluginsInv, Plugins!EachTakenApart
<1>6. Plugins!EnabledAreLoaded'
  BY <1>1, <1>2 DEF PluginsIInv, Plugins!PluginsInv, Plugins!EnabledAreLoaded
<1> QED   BY <1>3, <1>4, <1>5, <1>6 DEF PluginsIInv, Plugins!PluginsInv

LEMMA FinalizeLeftKeepsInv ==
  ASSUME PluginsIInv, Plugins!FinalizeLeft
  PROVE  PluginsIInv'
<1>1. PICK p \in registered : /\ Plugins!Finalize(p)
                             /\ registered' = registered \ {p}
                             /\ dependencies' = [dependencies EXCEPT ![p] = <<>>]
  BY DEF Plugins!FinalizeLeft
<1>2. /\ phase = "left" /\ UNCHANGED <<dependents, unreferenced, phase>>
      /\ enabled' = enabled \ {p} /\ state' = [state EXCEPT ![p] = "finalized"]
  BY <1>1 DEF Plugins!FinalizeLeft, Plugins!Finalize
<1>3. p \in Plugin /\ p \in Plugins!Loaded
  BY PluginFacts
<1>4. /\ Plugins!Loaded' = Plugins!Loaded \ {p} /\ Plugins!Discarded' = Plugins!Discarded
      /\ state' \in [Plugin -> {"new", "loaded", "finalized", "discarded"}]
      /\ \A q \in Plugin : state'[q] = "new" <=> state[q] = "new"
  BY <1>2, <1>3 DEF PluginsIInv, PluginsTyped, Plugins!Loaded, Plugins!Discarded
<1>5. Attached' = Attached \ {p}
  BY <1>4, PluginFacts DEF Attached
<1>6. \A q \in Plugin : Plugins!ToSet(dependencies'[q]) = IF q = p THEN {} ELSE Plugins!ToSet(dependencies[q])
  BY <1>1 DEF PluginsIInv, PluginsTyped, Plugins!ToSet
<1>7. dependencies' \in [Plugin -> Seq(Plugin)]
  <2>1. <<>> \in Seq(Plugin) /\ dependencies \in [Plugin -> Seq(Plugin)]
    BY DEF PluginsIInv, PluginsTyped
  <2> QED   BY <1>1, <2>1
<1>8. IsFiniteSet(Attached')
  BY <1>5, FS_RemoveElement DEF PluginsIInv, PluginsTyped
<1>9. PluginsTyped'
  BY <1>1, <1>2, <1>4, <1>7, <1>8 DEF PluginsIInv, PluginsTyped
<1>10. DependenciesOrdered'
  <2>1. \A q \in Plugin \ Attached' : dependencies'[q] = <<>>
    BY <1>1, <1>5 DEF PluginsIInv, DependenciesOrdered, PluginsTyped
  <2>2. \A q \in Plugin : \A r \in Plugins!ToSet(dependencies'[q]) : state'[r] # "new"
    BY <1>4, <1>6, PluginFacts DEF PluginsIInv, DependenciesOrdered
  <2>3. \E n \in Nat : \E rank \in [Plugin -> 0..n] :
          \A q \in Plugin : \A r \in Plugins!ToSet(dependencies'[q]) : rank[r] < rank[q]
    BY <1>6 DEF PluginsIInv, DependenciesOrdered
  <2> QED   BY <2>1, <2>2, <2>3 DEF DependenciesOrdered
<1>11. UnreferencedAreFree' /\ Plugins!CountsMatch'
  BY <1>2 DEF UnreferencedAreFree, Plugins!CountsMatch
<1>12. Plugins!Discarded # {}
  BY <1>2, <1>3 DEF PluginsIInv, Plugins!PluginsInv, Plugins!EachTakenApart
<1>13. Plugins!DependenciesOutlive'
  BY <1>2, <1>4, <1>12 DEF Plugins!DependenciesOutlive
<1>14. Plugins!EachTakenApart'
  BY <1>1, <1>2, <1>4, <1>12 DEF PluginsIInv, PluginsTyped, Plugins!PluginsInv, Plugins!EachTakenApart, Plugins!ToSet
<1>15. Plugins!EnabledAreLoaded'
  BY <1>1, <1>2, <1>4 DEF PluginsIInv, Plugins!PluginsInv, Plugins!EnabledAreLoaded
<1> QED   BY <1>9, <1>10, <1>11, <1>13, <1>14, <1>15 DEF PluginsIInv, Plugins!PluginsInv

LEMMA PluginsNext == PluginsIInv /\ [Plugins!Next]_Plugins!vars => PluginsIInv'
<1> SUFFICES ASSUME PluginsIInv, [Plugins!Next]_Plugins!vars PROVE PluginsIInv'
  OBVIOUS
<1>1. CASE Plugins!Next
  <2>1. ASSUME NEW p \in Plugin, NEW deps \in Plugins!SetToSeqs(registered), NEW n \in 0..Len(deps),
               Plugins!Attach(p, SubSeq(deps, 1, n))
        PROVE  PluginsIInv'
    BY <2>1, AttachKeepsInv
  <2>2. ASSUME NEW p \in Plugin, Plugins!Enable(p) \/ Plugins!Disable(p) \/ Plugins!Detach(p)
        PROVE  PluginsIInv'
    BY <2>2, EnableKeepsInv, DetachKeepsInv
  <2> QED   BY <1>1, <2>1, <2>2, ShutdownKeepsInv, ShutdownNextKeepsInv, ShutdownLeftKeepsInv,
               FinalizeLeftKeepsInv DEF Plugins!Next
<1>2. CASE UNCHANGED Plugins!vars
  <2>1. /\ UNCHANGED <<registered, state, enabled, dependencies, dependents, unreferenced, phase>>
        /\ Plugins!Loaded' = Plugins!Loaded /\ Plugins!Discarded' = Plugins!Discarded /\ Attached' = Attached
    BY <1>2 DEF Plugins!vars, Plugins!Loaded, Plugins!Discarded, Attached
  <2>2. PluginsTyped' /\ DependenciesOrdered' /\ UnreferencedAreFree'
    BY <2>1 DEF PluginsIInv, PluginsTyped, DependenciesOrdered, UnreferencedAreFree
  <2>3. Plugins!PluginsInv'
    BY <2>1 DEF PluginsIInv, Plugins!PluginsInv, Plugins!CountsMatch, Plugins!DependenciesOutlive,
                Plugins!EachTakenApart, Plugins!EnabledAreLoaded
  <2> QED   BY <2>2, <2>3 DEF PluginsIInv
<1> QED   BY <1>1, <1>2

(* Whatever is attached, detached and enabled, each plugin is counted by   *)
(* those that depend on it, shutdown() finalizes each loaded plugin once,  *)
(* before those that it depends on, and without discarded plugins nothing  *)
(* is left for its loop for cycles.                                        *)
THEOREM PluginsCorrect == Plugins!Spec => []Plugins!PluginsInv
<1>1. PluginsIInv => Plugins!PluginsInv
  BY DEF PluginsIInv
<1> QED   BY <1>1, PluginsInit, PluginsNext, PTL DEF Plugins!Spec

-----------------------------------------------------------------------------
CONSTANTS Tab, MaxDepth, MaxRuns
VARIABLES list, subscribed, invocations, executing, finished

Events == INSTANCE EventBase WITH Handler <- Tab

(* The handlers of an event: `live` are those that are registered, in      *)
(* order, and cut[i] how many of them invocation i is past.                *)
After(s, c) == SubSeq(s, c + 1, Len(s))

Invocation == [handler : Tab, eraseWhenDone : BOOLEAN, ran : Seq(Tab), due : Seq(Tab)]

EventsTyped ==
  /\ list \in Seq(Tab)
  /\ subscribed \subseteq Tab
  /\ invocations \in Seq(Invocation)
  /\ executing \in {0, Len(invocations)}
  /\ finished.ran = finished.due

RunsFrom(inv, live, c) ==
  /\ c \in 0..Len(live)
  /\ inv.due = inv.ran \o After(live, c)
  /\ ~inv.eraseWhenDone => c # 0 /\ live[c] = inv.handler

EventsFollow(live, cut) ==
  /\ NoRepetition(live) /\ ElementsOf(live) = subscribed
  /\ \A i \in 1..Len(invocations) : RunsFrom(invocations[i], live, cut[i])
  /\ \A i \in 1..Len(invocations) : invocations[i].eraseWhenDone =>
       /\ i = Len(invocations) /\ executing = i
       /\ invocations[i].handler \notin subscribed
       /\ list = Inserted(live, cut[i], invocations[i].handler)
  /\ (\A i \in 1..Len(invocations) : ~invocations[i].eraseWhenDone) => list = live

EventsIInv ==
  /\ EventsTyped
  /\ \E live \in Seq(Tab) : \E cut \in [1..Len(invocations) -> Nat] : EventsFollow(live, cut)

LEMMA HandlersOnce ==
  ASSUME NEW S, NEW s \in Seq(S)
  PROVE  /\ Events!ToSet(s) = ElementsOf(s)
         /\ \A h : h \notin ElementsOf(s) => Events!Without(s, h) = s
         /\ NoRepetition(s) => \A k \in 1..Len(s) : /\ Events!PositionOf(s[k], s) = k
                                                    /\ Events!Without(s, s[k]) = RemoveAt(s, k)
<1>1. DOMAIN s = 1..Len(s)
  BY LenProperties
<1>2. Events!ToSet(s) = ElementsOf(s)
  BY <1>1 DEF Events!ToSet, ElementsOf
<1>3. ASSUME NEW h, h \notin ElementsOf(s) PROVE Events!Without(s, h) = s
  BY <1>2, <1>3 DEF Events!Without
<1>4. ASSUME NoRepetition(s), NEW k \in 1..Len(s)
      PROVE  Events!PositionOf(s[k], s) = k /\ Events!Without(s, s[k]) = RemoveAt(s, k)
  <2>1. \A i \in DOMAIN s : s[i] = s[k] => i = k
    BY <1>1, <1>4 DEF NoRepetition
  <2>2. Events!PositionOf(s[k], s) = k
    BY <1>1, <2>1 DEF Events!PositionOf
  <2>3. s[k] \in ElementsOf(s)
    BY DEF ElementsOf
  <2>4. Events!RemoveAt(s, k) = RemoveAt(s, k)
    BY DEF Events!RemoveAt, RemoveAt
  <2> QED   BY <1>2, <2>2, <2>3, <2>4 DEF Events!Without
<1> QED   BY <1>2, <1>3, <1>4

(* What is registered, and a handler that is about to be erased, is in the *)
(* list once.                                                              *)
LEMMA EventListFacts ==
  ASSUME EventsTyped, NEW live \in Seq(Tab), NEW cut \in [1..Len(invocations) -> Nat], EventsFollow(live, cut)
  PROVE  /\ NoRepetition(list) /\ subscribed \subseteq ElementsOf(list)
         /\ \A i \in 1..Len(invocations) : invocations[i].handler \in ElementsOf(list)
         /\ \A h \in ElementsOf(list) :
              h \in subscribed \/ \E i \in 1..Len(invocations) : invocations[i].eraseWhenDone /\ h = invocations[i].handler
<1> DEFINE n == Len(invocations)
<1>1. /\ NoRepetition(live) /\ ElementsOf(live) = subscribed
      /\ \A i \in 1..n : RunsFrom(invocations[i], live, cut[i])
      /\ \A i \in 1..n : invocations[i] \in Invocation
  BY ElementOfSeq DEF EventsFollow, EventsTyped
<1>2. CASE \A i \in 1..n : ~invocations[i].eraseWhenDone
  <2>1. list = live
    BY <1>2 DEF EventsFollow
  <2>2. \A i \in 1..n : cut[i] \in 1..Len(live) /\ live[cut[i]] = invocations[i].handler
    BY <1>1, <1>2, LenProperties DEF RunsFrom
  <2> QED   BY <1>1, <2>1, <2>2 DEF ElementsOf
<1>3. ASSUME NEW i \in 1..n, invocations[i].eraseWhenDone
      PROVE  /\ NoRepetition(list) /\ ElementsOf(list) = subscribed \cup {invocations[i].handler}
  <2>1. /\ invocations[i].handler \notin subscribed /\ invocations[i].handler \in Tab
        /\ list = Inserted(live, cut[i], invocations[i].handler) /\ cut[i] \in 0..Len(live)
    BY <1>1, <1>3 DEF EventsFollow, RunsFrom, Invocation
  <2> QED   BY <1>1, <2>1, InsertedElements
<1>4. \A i \in 1..n : ~invocations[i].eraseWhenDone => invocations[i].handler \in subscribed
  <2>1. \A i \in 1..n : ~invocations[i].eraseWhenDone =>
          cut[i] \in 1..Len(live) /\ live[cut[i]] = invocations[i].handler
    BY <1>1, LenProperties DEF RunsFrom
  <2> QED   BY <1>1, <2>1 DEF ElementsOf
<1>5. CASE \E i \in 1..n : invocations[i].eraseWhenDone
  <2>1. PICK i \in 1..n : invocations[i].eraseWhenDone
    BY <1>5
  <2>2. \A j \in 1..n : invocations[j].eraseWhenDone => j = i
    BY <2>1 DEF EventsFollow
  <2> QED   BY <1>3, <1>4, <2>1, <2>2
<1> QED   BY <1>2, <1>5

LEMMA EventsHold == EventsIInv => Events!EventsInv
<1> SUFFICES ASSUME EventsIInv PROVE Events!EventsInv
  OBVIOUS
<1> DEFINE n == Len(invocations)
<1>1. PICK live \in Seq(Tab) : \E cut \in [1..n -> Nat] : EventsFollow(live, cut)
  BY DEF EventsIInv
<1>2. PICK cut \in [1..n -> Nat] : EventsFollow(live, cut)
  BY <1>1
<1>3. /\ Events!ToSet(list) = ElementsOf(list)
      /\ subscribed \subseteq ElementsOf(list)
      /\ \A i \in 1..n : invocations[i].handler \in ElementsOf(list)
      /\ \A h \in ElementsOf(list) :
           h \in subscribed \/ \E i \in 1..n : invocations[i].eraseWhenDone /\ h = invocations[i].handler
  BY <1>2, HandlersOnce, EventListFacts DEF EventsIInv, EventsTyped
<1>4. ASSUME NEW i \in 1..n PROVE Events!IsPrefix(invocations[i].ran, invocations[i].due)
  <2> DEFINE a == invocations[i].ran
             b == After(live, cut[i])
  <2>1. invocations[i] \in Invocation /\ RunsFrom(invocations[i], live, cut[i])
    BY <1>2, ElementOfSeq DEF EventsIInv, EventsTyped, EventsFollow
  <2>2. a \in Seq(Tab) /\ b \in Seq(Tab) /\ invocations[i].due = a \o b
    BY <2>1, SuffixProperties DEF RunsFrom, Invocation, After
  <2> HIDE DEF a, b
  <2>3. Len(a) <= Len(a \o b)
    BY <2>2, ConcatProperties, LenProperties
  <2>4. SubSeq(a, 1, Len(a)) = SubSeq(a \o b, 1, Len(a))
    <3>1. CASE Len(a) = 0
      BY <2>2, <2>3, <3>1, SubSeqProperties, ConcatProperties
    <3>2. CASE Len(a) # 0
      <4>1. 1 \in 1..Len(a) /\ Len(a) \in 1..Len(a)
        BY <2>2, <3>2, LenProperties
      <4> QED   BY <2>2, <4>1, SubSeqOfConcat1
    <3> QED   BY <3>1, <3>2
  <2> QED   BY <2>2, <2>3, <2>4 DEF Events!IsPrefix, a
<1>5. Events!RunsWhatIsDue
  BY <1>4 DEF Events!RunsWhatIsDue, Events!Depth, EventsIInv, EventsTyped
<1>6. Events!IteratorsValid
  BY <1>3 DEF Events!IteratorsValid, Events!Depth
<1>7. Events!ListIsRegistered
  <2>1. ElementsOf(list) = subscribed \cup {invocations[i].handler : i \in {j \in 1..n : invocations[j].eraseWhenDone}}
    BY <1>3
  <2> QED   BY <1>3, <2>1 DEF Events!ListIsRegistered, Events!Depth
<1> QED   BY <1>5, <1>6, <1>7 DEF Events!EventsInv

LEMMA EventsInit == Events!Init => EventsIInv
<1> SUFFICES ASSUME Events!Init PROVE EventsIInv
  OBVIOUS
<1>1. list = <<>> /\ subscribed = {} /\ invocations = <<>> /\ executing = 0 /\ finished.ran = finished.due
  BY DEF Events!Init
<1>2. EventsTyped
  BY <1>1 DEF EventsTyped
<1>3. <<>> \in Seq(Tab) /\ <<>> \in [1..Len(invocations) -> Nat] /\ Len(invocations) = 0
  BY <1>1
<1>4. EventsFollow(<<>>, <<>>)
  BY <1>1 DEF EventsFollow, NoRepetition, ElementsOf
<1> QED   BY <1>2, <1>3, <1>4 DEF EventsIInv

LEMMA RegisterKeepsInv ==
  ASSUME EventsIInv, NEW h \in Tab, Events!Register(h)
  PROVE  EventsIInv'
<1> DEFINE n == Len(invocations)
<1>1. PICK live \in Seq(Tab) : \E cut \in [1..n -> Nat] : EventsFollow(live, cut)
  BY DEF EventsIInv
<1>2. PICK cut \in [1..n -> Nat] : EventsFollow(live, cut)
  BY <1>1
<1> DEFINE new == Append(live, h)
<1>3. /\ list \in Seq(Tab) /\ invocations \in Seq(Invocation) /\ n \in Nat
      /\ \A i \in 1..n : invocations[i] \in Invocation
      /\ subscribed \subseteq Tab /\ executing \in {0, n} /\ finished.ran = finished.due
  BY LenProperties, ElementOfSeq DEF EventsIInv, EventsTyped
<1>4. /\ h \notin ElementsOf(list)
      /\ list' = Append(list, h) /\ subscribed' = subscribed \cup {h}
      /\ invocations' = [i \in 1..n |-> [invocations[i] EXCEPT !.due = Append(@, h)]]
      /\ UNCHANGED <<executing, finished>>
  BY <1>3, HandlersOnce DEF Events!Register, Events!Depth
<1>5. /\ NoRepetition(live) /\ ElementsOf(live) = subscribed
      /\ \A i \in 1..n : RunsFrom(invocations[i], live, cut[i])
  BY <1>2 DEF EventsFollow
<1>6. h \notin subscribed /\ \A i \in 1..n : invocations[i].handler # h
  BY <1>2, <1>4, EventListFacts DEF EventsIInv
<1>7. /\ new \in Seq(Tab) /\ Len(new) = Len(live) + 1 /\ Len(live) \in Nat
      /\ \A j \in 1..Len(live) : new[j] = live[j]
  BY AppendProperties, LenProperties
<1>8. NoRepetition(new) /\ ElementsOf(new) = subscribed'
  BY <1>4, <1>5, <1>6, AppendElements
<1>9. \A i \in 1..n : /\ invocations'[i].handler = invocations[i].handler
                      /\ invocations'[i].eraseWhenDone = invocations[i].eraseWhenDone
                      /\ invocations'[i].ran = invocations[i].ran
                      /\ invocations'[i].due = Append(invocations[i].due, h)
                      /\ invocations'[i] \in Invocation
  <2> SUFFICES ASSUME NEW i \in 1..n
               PROVE  /\ invocations'[i].handler = invocations[i].handler
                      /\ invocations'[i].eraseWhenDone = invocations[i].eraseWhenDone
                      /\ invocations'[i].ran = invocations[i].ran
                      /\ invocations'[i].due = Append(invocations[i].due, h)
                      /\ invocations'[i] \in Invocation
    OBVIOUS
  <2>1. invocations[i] \in Invocation /\ Append(invocations[i].due, h) \in Seq(Tab)
    BY <1>3, AppendProperties DEF Invocation
  <2>2. invocations'[i] = [invocations[i] EXCEPT !.due = Append(@, h)]
    BY <1>4
  <2> QED   BY <2>1, <2>2 DEF Invocation
<1>10. invocations' \in Seq(Invocation) /\ Len(invocations') = n
  <2>1. invocations' \in [1..n -> Invocation]
    BY <1>4, <1>9
  <2> QED   BY <1>3, <2>1, IsASeq, LenProperties
<1> HIDE DEF new, n
<1>11. EventsTyped'
  BY <1>3, <1>4, <1>10, AppendProperties DEF EventsTyped
<1>12. ASSUME NEW i \in 1..n PROVE RunsFrom(invocations'[i], new, cut[i])
  <2> DEFINE a == invocations[i].ran
             b == After(live, cut[i])
  <2>1. /\ cut[i] \in 0..Len(live) /\ invocations[i].due = a \o b
        /\ ~invocations[i].eraseWhenDone => cut[i] # 0 /\ live[cut[i]] = invocations[i].handler
    BY <1>5 DEF RunsFrom
  <2>2. a \in Seq(Tab) /\ b \in Seq(Tab)
    BY <1>3, <2>1, SuffixProperties DEF Invocation, After
  <2>3. After(new, cut[i]) = Append(b, h)
    BY <2>1, SuffixOfAppend DEF After, new
  <2> HIDE DEF a, b
  <2>4. Append(a \o b, h) = a \o Append(b, h)
    <3>1. <<h>> \in Seq(Tab) /\ a \o b \in Seq(Tab)
      BY <2>2, ConcatProperties
    <3>2. Append(a \o b, h) = (a \o b) \o <<h>>
      BY <3>1, AppendIsConcat
    <3>3. Append(b, h) = b \o <<h>>
      BY <2>2, AppendIsConcat
    <3> DEFINE e == <<h>>
    <3>4. (a \o b) \o e = a \o (b \o e)
      <4>1. a \in Seq(Tab) /\ b \in Seq(Tab) /\ e \in Seq(Tab)
        BY <2>2, <3>1
      <4> HIDE DEF e
      <4> QED   BY <4>1, ConcatAssociative, SMTT(30)
    <3> QED   BY <3>2, <3>3, <3>4
  <2>5. invocations'[i].due = invocations'[i].ran \o After(new, cut[i])
    BY <1>9, <2>1, <2>3, <2>4 DEF a
  <2>6. cut[i] \in 0..Len(new)
    BY <1>7, <2>1
  <2>7. ~invocations'[i].eraseWhenDone => cut[i] # 0 /\ new[cut[i]] = invocations'[i].handler
    <3>1. cut[i] # 0 => cut[i] \in 1..Len(live)
      BY <1>7, <2>1
    <3> QED   BY <1>7, <1>9, <2>1, <3>1
  <2> QED   BY <2>5, <2>6, <2>7 DEF RunsFrom
<1>13. ASSUME NEW i \in 1..n, invocations'[i].eraseWhenDone
       PROVE  /\ i = n /\ executing' = i
              /\ invocations'[i].handler \notin subscribed'
              /\ list' = Inserted(new, cut[i], invocations'[i].handler)
  <2>1. /\ i = n /\ executing = i
        /\ invocations[i].handler \notin subscribed
        /\ list = Inserted(live, cut[i], invocations[i].handler)
    BY <1>2, <1>9, <1>13 DEF EventsFollow, n
  <2>2. invocations[i].handler \in Tab /\ cut[i] \in 0..Len(live)
    BY <1>3, <1>5 DEF RunsFrom, Invocation
  <2>3. Append(Inserted(live, cut[i], invocations[i].handler), h) = Inserted(new, cut[i], invocations[i].handler)
    BY <2>2, AppendInserted DEF new
  <2>4. invocations'[i].handler = invocations[i].handler /\ invocations[i].handler # h
    BY <1>6, <1>9
  <2>5. list' = Inserted(new, cut[i], invocations[i].handler)
    BY <1>4, <2>1, <2>3
  <2>6. i = n /\ executing' = i /\ invocations'[i].handler \notin subscribed'
    BY <1>4, <2>1, <2>4
  <2>7. list' = Inserted(new, cut[i], invocations'[i].handler)
    BY <2>4, <2>5
  <2> QED   BY <2>6, <2>7
<1>14. (\A i \in 1..n : ~invocations'[i].eraseWhenDone) => list' = new
  BY <1>2, <1>4, <1>9 DEF EventsFollow, n, new
<1>15. EventsFollow(new, cut)'
  BY <1>8, <1>10, <1>12, <1>13, <1>14 DEF EventsFollow, new
<1> QED   BY <1>7, <1>10, <1>11, <1>15 DEF EventsIInv, n

(* What is due after a handler is gone, for an invocation that is past the *)
(* first c handlers.                                                       *)
LEMMA DueWithout ==
  ASSUME NEW S, NEW s \in Seq(S), NoRepetition(s), NEW k \in 1..Len(s), NEW c \in 0..Len(s)
  PROVE  LET d == IF k <= c THEN c - 1 ELSE c
         IN  d \in 0..Len(RemoveAt(s, k)) /\ Events!Without(After(s, c), s[k]) = After(RemoveAt(s, k), d)
<1> DEFINE u == After(s, c)
           r == RemoveAt(s, k)
           d == IF k <= c THEN c - 1 ELSE c
           n == Len(s)
<1>1. n \in Nat /\ c \in Nat /\ c <= n /\ k \in Nat /\ 1 <= k /\ k <= n
  BY LenProperties
<1>2. u \in Seq(S) /\ Len(u) = n - c /\ \A j \in 1..(n - c) : u[j] = s[c + j]
  BY SuffixProperties DEF After
<1>3. r \in Seq(S) /\ Len(r) = n - 1
  BY RemoveAtProperties
<1>4. /\ c < k => k - c \in 1..Len(u) /\ u[k - c] = s[k] /\ After(r, c) = RemoveAt(u, k - c)
      /\ k <= c => After(r, c - 1) = u
  BY SuffixOfRemoveAt DEF After
<1> HIDE DEF u, r, n
<1>5. d \in 0..Len(r)
  BY <1>1, <1>3
<1>6. \A i, j \in 1..(n - c) : u[i] = u[j] => i = j
  <2> SUFFICES ASSUME NEW i \in 1..(n - c), NEW j \in 1..(n - c), u[i] = u[j] PROVE i = j
    OBVIOUS
  <2>1. c + i \in 1..n /\ c + j \in 1..n
    BY <1>1
  <2>2. s[c + i] = s[c + j]
    BY <1>2
  <2>3. c + i = c + j
    BY <2>1, <2>2 DEF NoRepetition, n
  <2> QED   BY <1>1, <2>3
<1>7. CASE c < k
  <2>1. NoRepetition(u)
    BY <1>2, <1>6 DEF NoRepetition
  <2>2. Events!Without(u, u[k - c]) = RemoveAt(u, k - c)
    BY <1>2, <1>4, <1>7, <2>1, HandlersOnce
  <2>3. ~ (k <= c)
    BY <1>1, <1>7
  <2> QED   BY <1>4, <1>5, <1>7, <2>2, <2>3 DEF u, r
<1>8. CASE k <= c
  <2>1. \A j \in 1..(n - c) : u[j] # s[k]
    <3> SUFFICES ASSUME NEW j \in 1..(n - c), u[j] = s[k] PROVE FALSE
      OBVIOUS
    <3>1. c + j \in 1..n /\ s[c + j] = s[k] /\ c + j # k
      BY <1>1, <1>2, <1>8
    <3> QED   BY <3>1 DEF NoRepetition, n
  <2>2. s[k] \notin ElementsOf(u)
    BY <1>2, <2>1 DEF ElementsOf
  <2>3. Events!Without(u, s[k]) = u
    BY <1>2, <2>2, HandlersOnce
  <2> QED   BY <1>4, <1>5, <1>8, <2>3 DEF u, r
<1> QED   BY <1>1, <1>7, <1>8

LEMMA UnregisterKeepsInv ==
  ASSUME EventsIInv, NEW h \in Tab, Events!Unregister(h)
  PROVE  EventsIInv'
<1> DEFINE n == Len(invocations)
<1>1. PICK live \in Seq(Tab) : \E cut \in [1..n -> Nat] : EventsFollow(live, cut)
  BY DEF EventsIInv
<1>2. PICK cut \in [1..n -> Nat] : EventsFollow(live, cut)
  BY <1>1
<1>3. /\ list \in Seq(Tab) /\ invocations \in Seq(Invocation) /\ n \in Nat
      /\ \A i \in 1..n : invocations[i] \in Invocation
      /\ subscribed \subseteq Tab /\ executing \in {0, n} /\ finished.ran = finished.due
  BY LenProperties, ElementOfSeq DEF EventsIInv, EventsTyped
<1>4. /\ NoRepetition(live) /\ ElementsOf(live) = subscribed
      /\ \A i \in 1..n : RunsFrom(invocations[i], live, cut[i])
  BY <1>2 DEF EventsFollow
<1>5. PICK k \in 1..Len(live) : live[k] = h
  BY <1>4 DEF Events!Unregister, ElementsOf
<1> DEFINE new == RemoveAt(live, k)
           due == [i \in 1..n |-> Events!NoLongerDue(invocations[i], h)]
<1>6. /\ subscribed' = subscribed \ {h} /\ UNCHANGED <<executing, finished>>
      /\ \A i \in 1..n : i # executing => invocations[i].handler # h
      /\ Events!IsExecuting(h) => /\ invocations' = [due EXCEPT ![executing].eraseWhenDone = TRUE]
                                  /\ list' = list
      /\ ~Events!IsExecuting(h) => invocations' = due /\ list' = Events!Without(list, h)
  BY DEF Events!Unregister, Events!MayUnregister, Events!Depth
<1>7. \A i \in 1..n : cut[i] \in 0..Len(live) /\ cut[i] \in Nat
  BY <1>4 DEF RunsFrom
<1>8. /\ Len(live) \in Nat /\ k \in Nat /\ 1 <= k /\ k <= Len(live)
      /\ new \in Seq(Tab) /\ Len(new) = Len(live) - 1
      /\ \A j \in 1..(Len(live) - 1) : new[j] = IF j < k THEN live[j] ELSE live[j + 1]
  BY LenProperties, RemoveAtProperties
<1>9. NoRepetition(new) /\ ElementsOf(new) = subscribed'
  <2>1. NoRepetition(new) /\ ElementsOf(new) = ElementsOf(live) \ {live[k]}
    BY <1>4, RemoveAtElements
  <2> QED   BY <1>4, <1>5, <1>6, <2>1
<1> HIDE DEF new
<1>10. PICK past \in [1..n -> Nat] : \A i \in 1..n : past[i] = IF k <= cut[i] THEN cut[i] - 1 ELSE cut[i]
  <2> DEFINE p == [i \in 1..n |-> IF k <= cut[i] THEN cut[i] - 1 ELSE cut[i]]
  <2>1. p \in [1..n -> Nat] /\ \A i \in 1..n : p[i] = IF k <= cut[i] THEN cut[i] - 1 ELSE cut[i]
    BY <1>7, <1>8
  <2> QED   BY <2>1
<1>11. ASSUME NEW i \in 1..n
       PROVE  /\ due[i] \in Invocation
              /\ due[i].handler = invocations[i].handler /\ due[i].eraseWhenDone = invocations[i].eraseWhenDone
              /\ past[i] \in 0..Len(new) /\ due[i].due = due[i].ran \o After(new, past[i])
  <2> DEFINE inv == invocations[i]
             c == cut[i]
             w == Events!Without(After(live, c), h)
  <2>1. inv \in Invocation /\ inv.due = inv.ran \o After(live, c) /\ c \in 0..Len(live)
    BY <1>3, <1>4 DEF RunsFrom
  <2>2. After(live, c) \in Seq(Tab) /\ inv.ran \in Seq(Tab)
    BY <2>1, SuffixProperties DEF After, Invocation
  <2>3. past[i] \in 0..Len(new) /\ w = After(new, past[i])
    BY <1>4, <1>5, <1>10, <2>1, DueWithout DEF new
  <2>4. SubSeq(inv.due, Len(inv.ran) + 1, Len(inv.due)) = After(live, c)
    BY <2>1, <2>2, SuffixOfConcat
  <2>5. due[i] = [inv EXCEPT !.due = inv.ran \o w]
    BY <2>4 DEF Events!NoLongerDue
  <2>6. After(new, past[i]) \in Seq(Tab)
    BY <1>8, <2>3, SuffixProperties DEF After
  <2>7. inv.ran \o w \in Seq(Tab)
    BY <2>2, <2>3, <2>6
  <2> HIDE DEF w
  <2> QED   BY <2>1, <2>3, <2>5, <2>7 DEF Invocation
<1> HIDE DEF due, n
<1>12. ASSUME NEW i \in 1..n, invocations[i].handler # h, ~due[i].eraseWhenDone
       PROVE  past[i] # 0 /\ new[past[i]] = due[i].handler
  <2>1. cut[i] # 0 /\ live[cut[i]] = invocations[i].handler /\ cut[i] # k /\ cut[i] \in 1..Len(live)
    <3>1. RunsFrom(invocations[i], live, cut[i]) /\ ~invocations[i].eraseWhenDone
      BY <1>4, <1>11, <1>12
    <3>2. cut[i] # 0 /\ live[cut[i]] = invocations[i].handler
      BY <3>1 DEF RunsFrom
    <3> QED   BY <1>5, <1>7, <1>8, <1>12, <3>2
  <2>2. CASE cut[i] < k
    <3>1. past[i] = cut[i] /\ cut[i] \in 1..(Len(live) - 1)
      BY <1>8, <1>10, <2>1, <2>2
    <3> QED   BY <1>8, <1>11, <2>1, <2>2, <3>1
  <2>3. CASE k < cut[i]
    <3>1. /\ past[i] = cut[i] - 1 /\ cut[i] - 1 \in 1..(Len(live) - 1) /\ ~ (cut[i] - 1 < k)
          /\ (cut[i] - 1) + 1 = cut[i]
      BY <1>8, <1>10, <2>1, <2>3
    <3> QED   BY <1>8, <1>11, <2>1, <3>1
  <2> QED   BY <1>8, <2>1, <2>2, <2>3
<1>13. due \in Seq(Invocation) /\ Len(due) = n /\ DOMAIN due = 1..n
  <2>1. due \in [1..n -> Invocation]
    BY <1>11 DEF due
  <2> QED   BY <1>3, <2>1, IsASeq, LenProperties
<1>14. CASE Events!IsExecuting(h)
  <2>1. executing = n /\ n \in 1..n /\ invocations[n].handler = h
    BY <1>3, <1>14 DEF Events!IsExecuting
  <2>2. ~invocations[n].eraseWhenDone
    BY <1>2, <2>1 DEF EventsFollow, Events!Unregister, n
  <2>3. cut[n] = k /\ past[n] = k - 1
    <3>1. cut[n] \in 1..Len(live) /\ live[cut[n]] = h
      BY <1>4, <1>7, <1>8, <2>1, <2>2 DEF RunsFrom
    <3>2. cut[n] = k
      BY <1>4, <1>5, <3>1 DEF NoRepetition
    <3> QED   BY <1>8, <1>10, <2>1, <3>2
  <2>4. list = live
    <3>1. \A i \in 1..n : ~invocations[i].eraseWhenDone
      BY <1>2, <2>2 DEF EventsFollow, n
    <3> QED   BY <1>2, <3>1 DEF EventsFollow, n
  <2>5. list' = Inserted(new, past[n], h)
    BY <1>5, <1>6, <1>14, <2>3, <2>4, InsertBack DEF new
  <2>6. /\ \A i \in 1..n : i # n => invocations'[i] = due[i]
        /\ invocations'[n] = [due[n] EXCEPT !.eraseWhenDone = TRUE]
    BY <1>6, <1>13, <1>14, <2>1
  <2>7. /\ invocations'[n] \in Invocation /\ invocations'[n].handler = h /\ invocations'[n].eraseWhenDone
        /\ invocations'[n].due = invocations'[n].ran \o After(new, past[n])
    BY <1>11, <2>1, <2>6 DEF Invocation
  <2>8. invocations' \in Seq(Invocation) /\ Len(invocations') = n
    <3>1. \A i \in 1..n : invocations'[i] \in Invocation
      BY <1>11, <2>6, <2>7
    <3>2. invocations' \in [1..n -> Invocation]
      BY <1>6, <1>13, <1>14, <3>1
    <3>3. n \in Nat
      BY <1>3
    <3>4. invocations' \in Seq(Invocation)
      BY <3>2, <3>3, IsASeq
    <3> QED   BY <3>2, <3>3, <3>4, LenProperties
  <2>9. ASSUME NEW i \in 1..n PROVE RunsFrom(invocations'[i], new, past[i])
    <3>1. CASE i = n
      BY <1>11, <2>7, <3>1 DEF RunsFrom
    <3>2. CASE i # n
      BY <1>6, <1>11, <1>12, <2>1, <2>6, <3>2 DEF RunsFrom
    <3> QED   BY <3>1, <3>2
  <2>10. ASSUME NEW i \in 1..n, invocations'[i].eraseWhenDone
         PROVE  /\ i = n /\ executing' = i
                /\ invocations'[i].handler \notin subscribed'
                /\ list' = Inserted(new, past[i], invocations'[i].handler)
    <3>1. i = n
      <4> SUFFICES ASSUME i # n PROVE FALSE
        OBVIOUS
      <4>1. invocations[i].eraseWhenDone
        BY <1>11, <2>6, <2>10
      <4> QED   BY <1>2, <4>1 DEF EventsFollow, n
    <3> QED   BY <1>6, <2>1, <2>5, <2>7, <3>1
  <2>11. EventsFollow(new, past)'
    BY <1>9, <2>1, <2>7, <2>8, <2>9, <2>10 DEF EventsFollow, new, n
  <2>12. EventsTyped'
    BY <1>3, <1>6, <1>14, <2>8 DEF EventsTyped
  <2> QED   BY <1>8, <1>10, <2>8, <2>11, <2>12 DEF EventsIInv
<1>15. CASE ~Events!IsExecuting(h)
  <2>1. invocations' = due /\ list' = Events!Without(list, h)
    BY <1>6, <1>15
  <2>2. \A i \in 1..n : ~invocations[i].eraseWhenDone => invocations[i].handler # h
    BY <1>3, <1>6, <1>15 DEF Events!IsExecuting
  <2>3. ASSUME NEW i \in 1..n PROVE RunsFrom(invocations'[i], new, past[i])
    BY <1>11, <1>12, <2>1, <2>2 DEF RunsFrom
  <2>4. ASSUME NEW i \in 1..n, invocations'[i].eraseWhenDone
        PROVE  /\ i = n /\ executing' = i
               /\ invocations'[i].handler \notin subscribed'
               /\ list' = Inserted(new, past[i], invocations'[i].handler)
    <3> DEFINE e == invocations[i].handler
               at == IF k <= cut[i] THEN k ELSE k + 1
    <3>1. /\ i = n /\ executing = i /\ e \notin subscribed /\ list = Inserted(live, cut[i], e)
          /\ e \in Tab /\ cut[i] \in 0..Len(live)
      BY <1>2, <1>3, <1>7, <1>11, <2>1, <2>4 DEF EventsFollow, n, Invocation
    <3>2. /\ at \in 1..(Len(live) + 1) /\ list[at] = h
          /\ RemoveAt(list, at) = Inserted(new, past[i], e)
      <4>1. at \in 1..(Len(live) + 1) /\ Inserted(live, cut[i], e)[at] = live[k]
        BY <3>1, RemoveFromInserted
      <4>2. RemoveAt(Inserted(live, cut[i], e), at) = Inserted(RemoveAt(live, k), IF k <= cut[i] THEN cut[i] - 1 ELSE cut[i], e)
        BY <3>1, RemoveFromInserted
      <4> QED   BY <1>5, <1>10, <3>1, <4>1, <4>2 DEF new
    <3>3. Len(list) = Len(live) + 1
      <4>1. Len(Inserted(live, cut[i], e)) = Len(live) + 1
        <5>1. e \in Tab /\ cut[i] \in 0..Len(live)
          BY <3>1
        <5> HIDE DEF e
        <5> QED   BY <5>1, InsertedIsASeq
      <4> QED   BY <3>1, <4>1
    <3>4. NoRepetition(list)
      BY <1>2, EventListFacts DEF EventsIInv, n
    <3> HIDE DEF at
    <3>5. Events!Without(list, list[at]) = RemoveAt(list, at)
      BY <1>3, <3>2, <3>3, <3>4, HandlersOnce
    <3> QED   BY <1>6, <1>11, <2>1, <3>1, <3>2, <3>5
  <2>5. ASSUME \A i \in 1..n : ~invocations'[i].eraseWhenDone PROVE list' = new
    <3>1. list = live
      BY <1>2, <1>11, <2>1, <2>5 DEF EventsFollow, n
    <3> QED   BY <1>4, <1>5, <2>1, <3>1, HandlersOnce DEF new
  <2>6. EventsFollow(new, past)'
    BY <1>9, <1>13, <2>1, <2>3, <2>4, <2>5 DEF EventsFollow, new, n
  <2>7. list' \in Seq(Tab)
    <3>1. CASE h \in ElementsOf(list)
      <4>1. PICK j \in 1..Len(list) : list[j] = h
        BY <3>1 DEF ElementsOf
      <4>2. NoRepetition(list)
        BY <1>2, EventListFacts DEF EventsIInv, n
      <4>3. list' = RemoveAt(list, j)
        BY <1>3, <2>1, <4>1, <4>2, HandlersOnce
      <4> QED   BY <1>3, <4>3, RemoveAtProperties
    <3>2. CASE h \notin ElementsOf(list)
      BY <1>3, <2>1, <3>2, HandlersOnce
    <3> QED   BY <3>1, <3>2
  <2>8. EventsTyped'
    BY <1>3, <1>6, <1>13, <2>1, <2>7 DEF EventsTyped
  <2> QED   BY <1>8, <1>10, <1>13, <2>1, <2>6, <2>8 DEF EventsIInv
<1> QED   BY <1>14, <1>15

LEMMA InvokeKeepsInv ==
  ASSUME EventsIInv, Events!Invoke
  PROVE  EventsIInv'
<1> DEFINE n == Len(invocations)
<1>1. PICK live \in Seq(Tab) : \E cut \in [1..n -> Nat] : EventsFollow(live, cut)
  BY DEF EventsIInv
<1>2. PICK cut \in [1..n -> Nat] : EventsFollow(live, cut)
  BY <1>1
<1>3. /\ list \in Seq(Tab) /\ invocations \in Seq(Invocation) /\ n \in Nat
      /\ \A i \in 1..n : invocations[i] \in Invocation
      /\ subscribed \subseteq Tab /\ executing \in {0, n} /\ finished.ran = finished.due
  BY LenProperties, ElementOfSeq DEF EventsIInv, EventsTyped
<1>4. \A i \in 1..n : ~invocations[i].eraseWhenDone
  BY <1>2, <1>3 DEF EventsFollow, Events!Invoke, Events!Top, Events!Depth
<1>5. list = live
  BY <1>2, <1>4 DEF EventsFollow
<1>6. /\ NoRepetition(live) /\ ElementsOf(live) = subscribed
      /\ \A i \in 1..n : RunsFrom(invocations[i], live, cut[i])
  BY <1>2 DEF EventsFollow
<1>7. UNCHANGED <<list, subscribed, finished>>
  BY DEF Events!Invoke
<1>8. CASE list = <<>>
  <2>1. executing' = 0 /\ UNCHANGED invocations
    BY <1>8 DEF Events!Invoke
  <2>2. EventsTyped'
    BY <1>3, <1>7, <2>1 DEF EventsTyped
  <2>3. EventsFollow(live, cut)'
    BY <1>4, <1>5, <1>6, <1>7, <2>1 DEF EventsFollow
  <2> QED   BY <2>1, <2>2, <2>3 DEF EventsIInv
<1>9. CASE list # <<>>
  <2> DEFINE first == [handler |-> Head(list), eraseWhenDone |-> FALSE, ran |-> <<Head(list)>>, due |-> list]
  <2>1. invocations' = Append(invocations, first) /\ executing' = n + 1
    BY <1>9 DEF Events!Invoke, Events!Depth
  <2>2. Len(live) \in Nat /\ Len(live) # 0 /\ Head(list) = live[1] /\ live[1] \in Tab
    BY <1>5, <1>9, EmptySeq, LenProperties, ElementOfSeq
  <2>3. /\ first \in Invocation /\ first.handler = live[1] /\ ~first.eraseWhenDone
        /\ first.ran = <<live[1]>> /\ first.due = live
    BY <1>3, <1>5, <2>2 DEF Invocation
  <2> HIDE DEF first, n
  <2>4. /\ invocations' \in Seq(Invocation) /\ Len(invocations') = n + 1
        /\ \A i \in 1..n : invocations'[i] = invocations[i]
        /\ invocations'[n + 1] = first
    BY <1>3, <2>1, <2>3, AppendProperties DEF n
  <2>5. live = <<live[1]>> \o After(live, 1)
    <3>1. live # <<>>
      BY <1>5, <1>9
    <3>2. live = <<Head(live)>> \o Tail(live)
      BY <3>1
    <3>3. After(live, 1) = Tail(live) /\ Head(live) = live[1]
      BY <2>2, <3>1 DEF After
    <3> QED   BY <3>2, <3>3
  <2>6. RunsFrom(first, live, 1)
    BY <2>2, <2>3, <2>5 DEF RunsFrom
  <2>7. PICK past \in [1..(n + 1) -> Nat] : past[n + 1] = 1 /\ \A i \in 1..n : past[i] = cut[i]
    <3> DEFINE p == [i \in 1..(n + 1) |-> IF i = n + 1 THEN 1 ELSE cut[i]]
    <3>1. p \in [1..(n + 1) -> Nat] /\ p[n + 1] = 1 /\ \A i \in 1..n : p[i] = cut[i]
      BY <1>3 DEF n
    <3> QED   BY <3>1
  <2>8. ASSUME NEW i \in 1..(n + 1)
        PROVE  RunsFrom(invocations'[i], live, past[i]) /\ ~invocations'[i].eraseWhenDone
    <3>1. CASE i = n + 1
      BY <2>3, <2>4, <2>6, <2>7, <3>1
    <3>2. CASE i # n + 1
      <4>1. i \in 1..n
        BY <1>3, <3>2 DEF n
      <4> QED   BY <1>4, <1>6, <2>4, <2>7, <4>1 DEF n
    <3> QED   BY <3>1, <3>2
  <2>9. EventsFollow(live, past)'
    BY <1>5, <1>6, <1>7, <2>4, <2>8 DEF EventsFollow
  <2>10. EventsTyped'
    BY <1>3, <1>7, <2>1, <2>4 DEF EventsTyped
  <2> QED   BY <2>4, <2>7, <2>9, <2>10 DEF EventsIInv
<1> QED   BY <1>8, <1>9

(* Where the loop of the last invocation is in the list, also when its     *)
(* handler is about to be erased.                                          *)
LEMMA WhereLoopIs ==
  ASSUME EventsTyped, NEW live \in Seq(Tab), NEW cut \in [1..Len(invocations) -> Nat], EventsFollow(live, cut),
         Len(invocations) > 0
  PROVE  LET n == Len(invocations)
             top == invocations[n]
             at == Events!PositionOf(top.handler, list)
         IN  /\ (IF top.eraseWhenDone THEN Events!RemoveAt(list, at) ELSE list) = live
             /\ at < Len(list) => list[at + 1] = live[cut[n] + 1]
             /\ at < Len(list) <=> cut[n] < Len(live)
<1> DEFINE n == Len(invocations)
           top == invocations[n]
           c == IF top.eraseWhenDone THEN cut[n] ELSE cut[n] - 1
           at == Events!PositionOf(top.handler, list)
<1>1. n \in 1..n /\ n \in Nat /\ Len(live) \in Nat /\ list \in Seq(Tab) /\ top \in Invocation
  BY LenProperties, ElementOfSeq DEF EventsTyped
<1>2. /\ RunsFrom(top, live, cut[n]) /\ cut[n] \in 0..Len(live) /\ cut[n] \in Nat
      /\ NoRepetition(live) /\ ElementsOf(live) = subscribed /\ NoRepetition(list)
  BY <1>1, EventListFacts DEF EventsFollow, RunsFrom
<1> HIDE DEF n
<1>3. CASE top.eraseWhenDone
  <2> DEFINE h == top.handler
             w == Inserted(live, c, h)
  <2>1. c = cut[n] /\ c \in 0..Len(live) /\ c \in Nat
    BY <1>2, <1>3 DEF n
  <2>2. list = w /\ h \in Tab
    BY <1>1, <1>3, <2>1 DEF EventsFollow, n, Invocation
  <2> HIDE DEF h
  <2>3. w \in Seq(Tab) /\ Len(w) = Len(live) + 1
    BY <2>1, <2>2, InsertedIsASeq
  <2>4. c + 1 \in 1..(Len(live) + 1) /\ w[c + 1] = h
    <3>1. c + 1 \in 1..(Len(live) + 1)
      BY <1>1, <2>1
    <3> QED   BY <2>1, <2>2, <3>1, InsertedAt
  <2>5. c < Len(live) => w[c + 2] = live[c + 1]
    <3> SUFFICES ASSUME c < Len(live) PROVE w[c + 2] = live[c + 1]
      OBVIOUS
    <3> DEFINE j == c + 2
    <3>1. j \in 1..(Len(live) + 1) /\ j > c + 1 /\ j - 1 = c + 1
      BY <1>1, <2>1
    <3> HIDE DEF j
    <3>2. w[j] = live[j - 1]
      BY <2>1, <2>2, <3>1, InsertedAt
    <3> QED   BY <3>1, <3>2 DEF j
  <2>6. RemoveAt(w, c + 1) = live
    BY <2>1, <2>2, RemoveInserted
  <2> HIDE DEF w
  <2>7. at = c + 1
    BY <1>1, <1>2, <2>2, <2>3, <2>4, HandlersOnce DEF h
  <2>8. Events!RemoveAt(list, at) = live
    BY <2>2, <2>6, <2>7 DEF Events!RemoveAt, RemoveAt
  <2>9. /\ Len(list) = Len(live) + 1
        /\ at < Len(list) <=> c < Len(live)
        /\ at < Len(list) => list[at + 1] = live[c + 1]
    <3>1. Len(list) = Len(live) + 1
      BY <2>2, <2>3
    <3>2. at < Len(list) <=> c < Len(live)
      BY <1>1, <2>1, <2>7, <3>1
    <3>3. at + 1 = c + 2
      BY <2>1, <2>7
    <3> QED   BY <2>2, <2>5, <3>1, <3>2, <3>3
  <2> QED   BY <1>3, <2>1, <2>7, <2>8, <2>9 DEF n
<1>4. CASE ~top.eraseWhenDone
  <2>1. c = cut[n] - 1 /\ cut[n] # 0 /\ live[cut[n]] = top.handler
    BY <1>2, <1>4 DEF n, RunsFrom
  <2>2. list = live
    <3>1. \A i \in 1..n : ~invocations[i].eraseWhenDone
      BY <1>4 DEF EventsFollow, n
    <3> QED   BY <3>1 DEF EventsFollow, n
  <2>3. cut[n] \in 1..Len(live) /\ c \in 0..Len(live) /\ c + 1 = cut[n]
    BY <1>1, <1>2, <2>1
  <2>4. at = cut[n]
    BY <1>2, <2>1, <2>2, <2>3, HandlersOnce
  <2> QED   BY <1>4, <2>2, <2>3, <2>4 DEF n
<1> QED   BY <1>3, <1>4

LEMMA HandlerReturnsKeepsInv ==
  ASSUME EventsIInv, Events!HandlerReturns
  PROVE  EventsIInv'
<1> DEFINE n == Len(invocations)
<1>1. PICK live \in Seq(Tab) : \E cut \in [1..n -> Nat] : EventsFollow(live, cut)
  BY DEF EventsIInv
<1>2. PICK cut \in [1..n -> Nat] : EventsFollow(live, cut)
  BY <1>1
<1> DEFINE top == invocations[n]
           at == Events!PositionOf(top.handler, list)
           next == Events!Continue(top, list[at + 1])
<1>3. /\ list \in Seq(Tab) /\ invocations \in Seq(Invocation) /\ n \in Nat /\ Len(live) \in Nat
      /\ \A i \in 1..n : invocations[i] \in Invocation
      /\ subscribed \subseteq Tab /\ executing \in {0, n} /\ finished.ran = finished.due
  BY LenProperties, ElementOfSeq DEF EventsIInv, EventsTyped
<1>4. n > 0 /\ n \in 1..n /\ top \in Invocation
  BY <1>3 DEF Events!HandlerReturns, Events!Depth
<1>5. /\ NoRepetition(live) /\ ElementsOf(live) = subscribed
      /\ \A i \in 1..n : RunsFrom(invocations[i], live, cut[i])
  BY <1>2 DEF EventsFollow
<1>6. /\ list' = IF top.eraseWhenDone THEN Events!RemoveAt(list, at) ELSE list
      /\ at < Len(list) => /\ invocations' = [invocations EXCEPT ![n] = next]
                           /\ UNCHANGED <<executing, finished>>
      /\ ~ (at < Len(list)) => /\ invocations' = Events!Front(invocations)
                               /\ executing' = 0
                               /\ finished' = [ran |-> top.ran, due |-> top.due]
      /\ UNCHANGED subscribed
  BY DEF Events!HandlerReturns, Events!Top, Events!Depth
<1>7. /\ list' = live
      /\ at < Len(list) => list[at + 1] = live[cut[n] + 1]
      /\ at < Len(list) <=> cut[n] < Len(live)
  <2>1. /\ (IF top.eraseWhenDone THEN Events!RemoveAt(list, at) ELSE list) = live
        /\ at < Len(list) => list[at + 1] = live[cut[n] + 1]
        /\ at < Len(list) <=> cut[n] < Len(live)
    BY <1>2, <1>4, WhereLoopIs DEF EventsIInv
  <2> QED   BY <1>6, <2>1
<1>8. /\ cut[n] \in 0..Len(live) /\ cut[n] \in Nat /\ top.ran \in Seq(Tab)
      /\ top.due = top.ran \o After(live, cut[n])
  BY <1>4, <1>5 DEF RunsFrom, Invocation
<1>9. \A i \in 1..n : i # n => ~invocations[i].eraseWhenDone
  BY <1>2 DEF EventsFollow
<1> HIDE DEF n, at
<1>10. CASE at < Len(list)
  <2> DEFINE h == live[cut[n] + 1]
  <2>1. cut[n] < Len(live) /\ cut[n] + 1 \in 1..Len(live) /\ h \in Tab /\ list[at + 1] = h
    BY <1>3, <1>7, <1>8, <1>10, ElementOfSeq
  <2> HIDE DEF h
  <2>2. /\ next.handler = h /\ next.eraseWhenDone = FALSE /\ next.ran = Append(top.ran, h)
        /\ next.due = top.due /\ next \in Invocation
    <3>1. next = [top EXCEPT !.handler = h, !.eraseWhenDone = FALSE, !.ran = Append(@, h)]
      BY <2>1 DEF Events!Continue
    <3>2. Append(top.ran, h) \in Seq(Tab)
      BY <1>8, <2>1, AppendProperties
    <3> QED   BY <1>4, <2>1, <3>1, <3>2 DEF Invocation
  <2>3. top.ran \o After(live, cut[n]) = Append(top.ran, h) \o After(live, cut[n] + 1)
    BY <1>8, <2>1, SuffixStep DEF After, h
  <2>4. RunsFrom(next, live, cut[n] + 1)
    <3>1. next.due = next.ran \o After(live, cut[n] + 1)
      BY <1>8, <2>2, <2>3
    <3>2. cut[n] + 1 \in 0..Len(live) /\ cut[n] + 1 # 0 /\ live[cut[n] + 1] = next.handler
      BY <1>3, <1>8, <2>1, <2>2 DEF h
    <3> QED   BY <3>1, <3>2 DEF RunsFrom
  <2> HIDE DEF next
  <2>5. invocations' = [invocations EXCEPT ![n] = next] /\ UNCHANGED <<executing, finished>>
    BY <1>6, <1>10
  <2>6. DOMAIN invocations = 1..n
    BY <1>3, LenProperties DEF n
  <2>7. invocations'[n] = next /\ \A i \in 1..n : i # n => invocations'[i] = invocations[i]
    BY <1>4, <2>5, <2>6
  <2>8. invocations' \in Seq(Invocation) /\ Len(invocations') = n
    <3>1. \A i \in 1..n : invocations'[i] \in Invocation
      BY <1>3, <2>2, <2>7
    <3>2. invocations' \in [1..n -> Invocation]
      BY <2>5, <2>6, <3>1
    <3>3. invocations' \in Seq(Invocation)
      BY <1>3, <3>2, IsASeq
    <3> QED   BY <1>3, <3>2, <3>3, LenProperties
  <2>9. PICK past \in [1..n -> Nat] : past[n] = cut[n] + 1 /\ \A i \in 1..n : i # n => past[i] = cut[i]
    <3> DEFINE p == [cut EXCEPT ![n] = @ + 1]
    <3>1. p \in [1..n -> Nat] /\ p[n] = cut[n] + 1 /\ \A i \in 1..n : i # n => p[i] = cut[i]
      BY <1>4, <1>8
    <3> QED   BY <3>1
  <2>10. ASSUME NEW i \in 1..n
         PROVE  RunsFrom(invocations'[i], live, past[i]) /\ ~invocations'[i].eraseWhenDone
    <3>1. CASE i = n
      BY <2>2, <2>4, <2>7, <2>9, <3>1
    <3>2. CASE i # n
      BY <1>5, <1>9, <2>7, <2>9, <3>2
    <3> QED   BY <3>1, <3>2
  <2>11. EventsFollow(live, past)'
    BY <1>5, <1>6, <1>7, <2>8, <2>10 DEF EventsFollow
  <2>12. EventsTyped'
    BY <1>3, <1>6, <1>7, <2>5, <2>8 DEF EventsTyped
  <2> QED   BY <2>8, <2>9, <2>11, <2>12 DEF EventsIInv
<1>11. CASE ~ (at < Len(list))
  <2>1. invocations' = Events!Front(invocations) /\ executing' = 0 /\ finished' = [ran |-> top.ran, due |-> top.due]
    BY <1>6, <1>11
  <2>2. top.ran = top.due
    <3>1. cut[n] = Len(live)
      BY <1>3, <1>7, <1>8, <1>11
    <3>2. After(live, cut[n]) \in Seq(Tab) /\ Len(After(live, cut[n])) = 0
      BY <1>3, <1>8, <3>1, SuffixProperties DEF After
    <3>3. After(live, cut[n]) = <<>>
      BY <3>2, EmptySeq
    <3> QED   BY <1>8, <3>3
  <2>3. invocations' = SubSeq(invocations, 1, n - 1)
    BY <2>1 DEF Events!Front, n
  <2>4. /\ invocations' \in Seq(Invocation) /\ Len(invocations') = n - 1
        /\ \A i \in 1..(n - 1) : invocations'[i] = invocations[i]
    <3>1. 1 \in Int /\ n - 1 \in Int /\ \A i \in 1..(n - 1) : invocations[i] \in Invocation
      BY <1>3, <1>4
    <3>2. /\ invocations' \in Seq(Invocation)
          /\ Len(invocations') = IF 1 <= n - 1 THEN (n - 1) - 1 + 1 ELSE 0
          /\ \A i \in 1..((n - 1) - 1 + 1) : invocations'[i] = invocations[1 + i - 1]
      BY <2>3, <3>1, SubSeqProperties
    <3> QED   BY <1>3, <1>4, <3>2
  <2>5. PICK past \in [1..(n - 1) -> Nat] : \A i \in 1..(n - 1) : past[i] = cut[i]
    <3> DEFINE p == [i \in 1..(n - 1) |-> cut[i]]
    <3>1. p \in [1..(n - 1) -> Nat] /\ \A i \in 1..(n - 1) : p[i] = cut[i]
      BY <1>3
    <3> QED   BY <3>1
  <2>6. ASSUME NEW i \in 1..(n - 1)
        PROVE  RunsFrom(invocations'[i], live, past[i]) /\ ~invocations'[i].eraseWhenDone
    <3>1. i \in 1..n /\ i # n
      BY <1>3
    <3> QED   BY <1>5, <1>9, <2>4, <2>5, <3>1
  <2>7. EventsFollow(live, past)'
    BY <1>5, <1>6, <1>7, <2>4, <2>6 DEF EventsFollow
  <2>8. EventsTyped'
    BY <1>3, <1>6, <1>7, <2>1, <2>2, <2>4 DEF EventsTyped
  <2> QED   BY <2>4, <2>5, <2>7, <2>8 DEF EventsIInv
<1> QED   BY <1>10, <1>11

LEMMA EventsNext == EventsIInv /\ [Events!Next]_Events!vars => EventsIInv'
<1> SUFFICES ASSUME EventsIInv, [Events!Next]_Events!vars PROVE EventsIInv'
  OBVIOUS
<1>1. CASE Events!Next
  BY <1>1, RegisterKeepsInv, UnregisterKeepsInv, InvokeKeepsInv, HandlerReturnsKeepsInv DEF Events!Next
<1>2. CASE UNCHANGED Events!vars
  <2>1. UNCHANGED <<list, subscribed, invocations, executing, finished>>
    BY <1>2 DEF Events!vars
  <2>2. EventsTyped'
    BY <2>1 DEF EventsIInv, EventsTyped
  <2>3. \A live \in Seq(Tab) : \A cut \in [1..Len(invocations) -> Nat] :
          EventsFollow(live, cut) => EventsFollow(live, cut)'
    BY <2>1 DEF EventsFollow
  <2> QED   BY <2>1, <2>2, <2>3 DEF EventsIInv
<1> QED   BY <1>1, <1>2

(* Each invocation of an event runs what is registered when its turn       *)
(* comes, in order, each handler once, whatever handlers are registered or *)
(* unregistered and however invocations nest; its iterator is never that   *)
(* of an erased handler.                                                   *)
THEOREM EventsCorrect == Events!Spec => []Events!EventsInv
BY EventsInit, EventsNext, EventsHold, PTL DEF Events!Spec

-----------------------------------------------------------------------------
CONSTANTS ProfilePaths, Entry, NoEntry, Missing, MaxTimestamp
VARIABLES storage, separated, timestamp, values

Profiles == INSTANCE Settings WITH Path <- ProfilePaths

(* The entry of the innermost profile that has one.                        *)
Having(path) == {p \in Profiles!Above(path) : storage[p] \in Entry}
InnermostEntry ==
  [path \in ProfilePaths |->
     IF Having(path) = {} THEN NoEntry
     ELSE storage[CHOOSE p \in Having(path) : \A q \in Having(path) : Len(q) <= Len(p)]]

(* Values are of now or earlier, and what is kept of profiles is from now. *)
SettingsTyped ==
  /\ storage \in Profiles!Storages
  /\ separated \in [ProfilePaths -> Profiles!Entries \cup {Missing}]
  /\ timestamp \in Nat
  /\ values \in [ProfilePaths -> [timestamp : 0..timestamp, value : Profiles!Entries]]

SettingsIInv == SettingsTyped /\ timestamp # 0 /\ Profiles!SettingsInv

(* Prefixes: of a sequence, those of its front and itself.                 *)
LEMMA PrefixOfFront ==
  ASSUME Profiles!ProfilesApart, NEW path \in ProfilePaths, path # <<>>
  PROVE  /\ Profiles!Front(path) \in ProfilePaths
         /\ Profiles!Above(path) = Profiles!Above(Profiles!Front(path)) \cup {path}
         /\ Len(path) \in Nat \ {0} /\ Len(Profiles!Front(path)) = Len(path) - 1
<1>1. Profiles!Front(path) \in ProfilePaths /\ path \in Seq(STRING)
  BY DEF Profiles!ProfilesApart
<1>2. Len(path) \in Nat \ {0}
  BY <1>1, EmptySeq
<1>3. /\ Len(Profiles!Front(path)) = Len(path) - 1
      /\ \A i \in 1..Len(path) - 1 : Profiles!Front(path)[i] = path[i]
  <2>1. /\ Len(path) - 1 \in Int /\ 1 \in Int
        /\ \A i \in 1..Len(path) - 1 : path[i] \in STRING
    BY <1>1, <1>2
  <2>2. /\ Len(SubSeq(path, 1, Len(path) - 1)) = IF 1 <= Len(path) - 1 THEN (Len(path) - 1) - 1 + 1 ELSE 0
        /\ \A i \in 1..(Len(path) - 1) - 1 + 1 : SubSeq(path, 1, Len(path) - 1)[i] = path[1 + i - 1]
    BY <2>1, SubSeqProperties
  <2>3. Profiles!Front(path) = SubSeq(path, 1, Len(path) - 1)
    BY DEF Profiles!Front
  <2>4. ASSUME NEW i \in 1..Len(path) - 1 PROVE SubSeq(path, 1, Len(path) - 1)[i] = path[i]
    <3>1. i \in 1..(Len(path) - 1) - 1 + 1 /\ 1 + i - 1 = i
      BY <1>2
    <3> QED   BY <2>2, <3>1
  <2>5. Len(SubSeq(path, 1, Len(path) - 1)) = Len(path) - 1
    <3>1. CASE Len(path) = 1
      BY <2>2, <3>1
    <3>2. CASE Len(path) > 1
      BY <1>2, <2>2, <3>2
    <3>3. \A n \in Nat \ {0} : n = 1 \/ n > 1
      OBVIOUS
    <3> QED   BY <1>2, <3>1, <3>2, <3>3, Zenon
  <2> QED   BY <2>3, <2>4, <2>5
<1>4. ASSUME NEW p \in ProfilePaths
      PROVE  Profiles!IsPrefix(p, path) <=> p = path \/ Profiles!IsPrefix(p, Profiles!Front(path))
  <2>1. p \in Seq(STRING) /\ Profiles!Front(path) \in Seq(STRING) /\ Len(p) \in Nat
    BY <1>1 DEF Profiles!ProfilesApart
  <2>2. ASSUME NEW t \in Seq(STRING)
        PROVE  Profiles!IsPrefix(p, t) <=> Len(p) <= Len(t) /\ \A i \in 1..Len(p) : p[i] = t[i]
    <3>1. Len(t) \in Nat
      OBVIOUS
    <3>2. SubSeq(p, 1, Len(p)) = [i \in 1..Len(p) |-> p[i]]
      BY <2>1
    <3>3. SubSeq(t, 1, Len(p)) = [i \in 1..Len(p) |-> t[i]]
      BY <2>1
    <3> QED   BY <2>1, <3>1, <3>2, <3>3 DEF Profiles!IsPrefix
  <2>3. Len(p) = Len(path) => (p = path <=> \A i \in 1..Len(p) : p[i] = path[i])
    BY <2>1, <1>1
  <2>4. CASE Len(p) = Len(path)
    BY <2>1, <2>2, <2>3, <2>4, <1>1, <1>2, <1>3
  <2>5. CASE Len(p) > Len(path)
    BY <2>1, <2>2, <2>5, <1>1, <1>2, <1>3
  <2>6. CASE Len(p) < Len(path)
    BY <2>1, <2>2, <2>6, <1>1, <1>2, <1>3
  <2> QED   BY <2>1, <2>4, <2>5, <2>6, <1>2
<1> QED   BY <1>1, <1>2, <1>3, <1>4 DEF Profiles!Above

(* Of the profiles that have an entry, one is innermost.                   *)
LEMMA OneIsInnermost ==
  ASSUME Profiles!ProfilesApart, NEW path \in ProfilePaths, Having(path) # {}
  PROVE  (CHOOSE p \in Having(path) : \A q \in Having(path) : Len(q) <= Len(p)) \in Having(path)
<1>1. \A p \in Having(path) : Len(p) \in Nat /\ Len(p) <= Len(path) /\ Len(path) \in Nat
  BY DEF Having, Profiles!Above, Profiles!IsPrefix, Profiles!ProfilesApart
<1> DEFINE Depths == {Len(path) - Len(p) : p \in Having(path)}
<1>2. Depths \in SUBSET Nat /\ Depths # {}
  BY <1>1
<1>3. PICK d \in Depths : \A k \in Depths : d <= k
  <2> HIDE DEF Depths
  <2> QED   BY <1>2, LeastNatural
<1>4. PICK p \in Having(path) : d = Len(path) - Len(p)
  OBVIOUS
<1>5. \A q \in Having(path) : Len(path) - Len(p) <= Len(path) - Len(q)
  BY <1>3, <1>4
<1>6. \A q \in Having(path) : Len(q) <= Len(p)
  BY <1>1, <1>5
<1> QED   BY <1>6

(* The recursion over the profiles above finds the innermost entry.        *)
LEMMA WrittenIsInnermost ==
  ASSUME Profiles!ProfilesApart
  PROVE  \A path \in ProfilePaths : Profiles!Written[path] = InnermostEntry[path]
<1> DEFINE Found(f) == [path \in ProfilePaths |->
             IF storage[path] \in Entry THEN storage[path]
             ELSE IF path = <<>> THEN NoEntry
             ELSE f[Profiles!Front(path)]]
<1>1. InnermostEntry = Found(InnermostEntry)
  <2>1. ASSUME NEW path \in ProfilePaths, storage[path] \in Entry
        PROVE  InnermostEntry[path] = storage[path]
    <3>0. path \in Seq(STRING) /\ Len(path) \in Nat
      BY DEF Profiles!ProfilesApart
    <3>1. path \in Having(path)
      BY <2>1 DEF Having, Profiles!Above, Profiles!IsPrefix, Profiles!ProfilesApart
    <3>2. ASSUME NEW p \in Having(path), p # path
          PROVE  Len(p) < Len(path) /\ Len(p) \in Nat /\ Len(path) \in Nat
      <4>1. Len(p) <= Len(path) /\ SubSeq(p, 1, Len(p)) = SubSeq(path, 1, Len(p))
        BY DEF Having, Profiles!Above, Profiles!IsPrefix
      <4>2. p \in Seq(STRING) /\ path \in Seq(STRING)
        BY DEF Having, Profiles!Above, Profiles!ProfilesApart
      <4>3. Len(p) # Len(path)
        BY <3>2, <4>1, <4>2
      <4> QED   BY <4>1, <4>2, <4>3
    <3>3. Len(path) <= Len(path)
      BY <3>0
    <3>4. path = CHOOSE p \in Having(path) : \A q \in Having(path) : Len(q) <= Len(p)
      <4>1. \A q \in Having(path) : Len(q) <= Len(path)
        BY <3>2, <3>3
      <4>2. \A p \in Having(path) : (\A q \in Having(path) : Len(q) <= Len(p)) => p = path
        BY <3>1, <3>2
      <4> QED   BY <3>1, <4>1, <4>2
    <3> QED   BY <3>1, <3>4 DEF InnermostEntry
  <2>2. ASSUME NEW path \in ProfilePaths, storage[path] \notin Entry, path = <<>>
        PROVE  InnermostEntry[path] = NoEntry
    <3>1. \A p \in Profiles!Above(path) : p = path
      BY <2>2 DEF Profiles!Above, Profiles!IsPrefix, Profiles!ProfilesApart
    <3>2. Having(path) = {}
      BY <2>2, <3>1 DEF Having
    <3> QED   BY <3>2 DEF InnermostEntry
  <2>3. ASSUME NEW path \in ProfilePaths, storage[path] \notin Entry, path # <<>>
        PROVE  InnermostEntry[path] = InnermostEntry[Profiles!Front(path)]
    <3>1. Having(path) = Having(Profiles!Front(path))
      BY <2>3, PrefixOfFront DEF Having
    <3> QED   BY <2>3, <3>1, PrefixOfFront DEF InnermostEntry
  <2>4. \A path \in ProfilePaths : InnermostEntry[path] = Found(InnermostEntry)[path]
    BY <2>1, <2>2, <2>3
  <2>5. \E g : InnermostEntry = [path \in ProfilePaths |-> g[path]]
    <3> DEFINE g == [path \in ProfilePaths |->
                 IF Having(path) = {} THEN NoEntry
                 ELSE storage[CHOOSE p \in Having(path) : \A q \in Having(path) : Len(q) <= Len(p)]]
    <3>1. InnermostEntry = g /\ g = [path \in ProfilePaths |-> g[path]]
      BY DEF InnermostEntry
    <3> HIDE DEF g
    <3> QED   BY <3>1
  <2>6. InnermostEntry = [path \in ProfilePaths |-> InnermostEntry[path]]
    BY <2>5
  <2> QED   BY <2>4, <2>6
<1>2. Profiles!Written = Found(Profiles!Written)
  BY <1>1 DEF Profiles!Written
<1> DEFINE Right == {n \in Nat : \A path \in ProfilePaths : Len(path) = n => Profiles!Written[path] = InnermostEntry[path]}
<1> HIDE DEF Found
<1>3. 0 \in Right
  <2> SUFFICES ASSUME NEW path \in ProfilePaths, Len(path) = 0
               PROVE  Profiles!Written[path] = InnermostEntry[path]
    OBVIOUS
  <2>1. path = <<>>
    BY EmptySeq DEF Profiles!ProfilesApart
  <2>2. \A f : Found(f)[path] = IF storage[path] \in Entry THEN storage[path] ELSE NoEntry
    BY <2>1 DEF Found
  <2> QED   BY <1>1, <1>2, <2>2
<1>4. ASSUME NEW n \in Nat, n \in Right PROVE n + 1 \in Right
  <2> SUFFICES ASSUME NEW path \in ProfilePaths, Len(path) = n + 1
               PROVE  Profiles!Written[path] = InnermostEntry[path]
    OBVIOUS
  <2>1. path # <<>>
    OBVIOUS
  <2>2. Profiles!Written[Profiles!Front(path)] = InnermostEntry[Profiles!Front(path)]
    BY <1>4, <2>1, PrefixOfFront
  <2>3. \A f : Found(f)[path] = IF storage[path] \in Entry THEN storage[path] ELSE f[Profiles!Front(path)]
    BY <2>1 DEF Found
  <2> QED   BY <1>1, <1>2, <2>2, <2>3
<1> HIDE DEF Right
<1>5. Nat \subseteq Right
  BY <1>3, <1>4, InductionOnNumbers
<1> QED   BY <1>5 DEF Right, Profiles!ProfilesApart

(* A getter finds what is written, and keeps what profiles refer to now.   *)
LEMMA GetterFinds ==
  ASSUME Profiles!ProfilesApart, SettingsIInv, NEW path \in ProfilePaths
  PROVE  LET after == Profiles!FindDeepest(separated, path)
         IN  /\ after \in [ProfilePaths -> Profiles!Entries \cup {Missing}]
             /\ \A p \in ProfilePaths : after[p] \in {Missing, storage[p]}
             /\ Profiles!Retrieve(after, path) = Profiles!Written[path]
             /\ Profiles!Retrieve(after, path) \in Profiles!Entries
<1> DEFINE after == Profiles!FindDeepest(separated, path)
<1>1. storage \in [ProfilePaths -> Profiles!Entries \cup {Missing}]
  BY DEF SettingsIInv, SettingsTyped, Profiles!Storages
<1>2. \A p \in ProfilePaths : separated[p] \in {Missing, storage[p]}
  BY DEF SettingsIInv, Profiles!SettingsInv
<1>3. \A p \in ProfilePaths : Profiles!FoundProfile(separated, p) = storage[p]
  BY <1>2 DEF Profiles!FoundProfile
<1>4. /\ after \in [ProfilePaths -> Profiles!Entries \cup {Missing}]
      /\ \A p \in ProfilePaths : after[p] \in {Missing, storage[p]}
  BY <1>1, <1>2, <1>3 DEF Profiles!FindDeepest, SettingsIInv, SettingsTyped
<1>5. \A p \in Profiles!Above(path) : after[p] = storage[p]
  <2> SUFFICES ASSUME NEW p \in Profiles!Above(path) PROVE after[p] = storage[p]
    OBVIOUS
  <2>1. p \in ProfilePaths
    BY DEF Profiles!Above
  <2>2. CASE storage[p] = Missing
    BY <1>4, <2>1, <2>2
  <2>3. CASE storage[p] # Missing
    <3>1. \A q \in Profiles!Above(p) : q \in ProfilePaths /\ storage[q] # Missing
      BY <2>1, <2>3 DEF SettingsIInv, SettingsTyped, Profiles!Storages, Profiles!Above
    <3>2. \A q \in Profiles!Above(p) : Profiles!FoundProfile(separated, q) # Missing
      BY <1>3, <3>1
    <3> QED   BY <1>3, <2>1, <3>2 DEF Profiles!FindDeepest
  <2> QED   BY <2>2, <2>3
<1> HIDE DEF after
<1>6. {p \in Profiles!Above(path) : after[p] \in Entry} = Having(path)
  BY <1>5 DEF Having
<1>7. Profiles!Retrieve(after, path) = InnermostEntry[path]
  <2>1. CASE Having(path) = {}
    BY <1>6, <2>1 DEF Profiles!Retrieve, InnermostEntry
  <2>2. CASE Having(path) # {}
    <3> DEFINE innermost == CHOOSE p \in Having(path) : \A q \in Having(path) : Len(q) <= Len(p)
    <3>1. Profiles!Retrieve(after, path) = after[innermost]
      BY <1>6, <2>2 DEF Profiles!Retrieve
    <3>2. InnermostEntry[path] = storage[innermost]
      BY <2>2 DEF InnermostEntry
    <3>3. innermost \in Having(path)
      BY <2>2, OneIsInnermost
    <3>4. after[innermost] = storage[innermost]
      BY <1>5, <3>3 DEF Having
    <3> QED   BY <3>1, <3>2, <3>4
  <2> QED   BY <2>1, <2>2
<1>8. InnermostEntry[path] \in Profiles!Entries
  BY OneIsInnermost DEF InnermostEntry, Having, Profiles!Entries
<1>9. Profiles!Written[path] = InnermostEntry[path]
  BY WrittenIsInnermost
<1> QED   BY <1>4, <1>7, <1>8, <1>9 DEF after
LEMMA SettingsInit == Profiles!ProfilesApart /\ Profiles!Init => SettingsIInv
<1> SUFFICES ASSUME Profiles!ProfilesApart, Profiles!Init PROVE SettingsIInv
  OBVIOUS
<1>1. storage \in Profiles!Storages
  <2>1. \A p \in ProfilePaths : storage[p] # Missing => p = <<>>
    BY DEF Profiles!Init, Profiles!NoProfiles
  <2>2. \A q \in Profiles!Above(<<>>) : q = <<>>
    BY DEF Profiles!Above, Profiles!IsPrefix, Profiles!ProfilesApart
  <2>3. storage[<<>>] # Missing
    BY DEF Profiles!Init, Profiles!NoProfiles, Profiles!ProfilesApart, Profiles!Entries
  <2>4. storage \in [ProfilePaths -> Profiles!Entries \cup {Missing}]
    BY DEF Profiles!Init, Profiles!NoProfiles, Profiles!Entries
  <2> QED   BY <2>1, <2>2, <2>3, <2>4 DEF Profiles!Storages
<1>2. SettingsTyped /\ timestamp # 0
  BY <1>1 DEF SettingsTyped, Profiles!Init, Profiles!NoProfiles, Profiles!Entries
<1>3. Profiles!SettingsInv
  BY DEF Profiles!SettingsInv, Profiles!Init, Profiles!NoProfiles
<1> QED   BY <1>2, <1>3 DEF SettingsIInv

LEMMA SetKeepsInv ==
  ASSUME Profiles!ProfilesApart, SettingsIInv, NEW s \in Profiles!Storages, Profiles!Set(s)
  PROVE  SettingsIInv'
<1> USE DEF Profiles!Set, Profiles!NoProfiles
<1>1. timestamp' \in Nat /\ \A p \in ProfilePaths : values'[p].timestamp < timestamp'
  BY DEF SettingsIInv, SettingsTyped
<1>2. SettingsTyped'
  BY <1>1 DEF SettingsIInv, SettingsTyped, Profiles!Storages, Profiles!Entries
<1>3. Profiles!SettingsInv'
  BY <1>1 DEF Profiles!SettingsInv
<1> QED   BY <1>1, <1>2, <1>3 DEF SettingsIInv, SettingsTyped

LEMMA GetValueKeepsInv ==
  ASSUME Profiles!ProfilesApart, SettingsIInv, NEW path \in ProfilePaths, Profiles!GetValue(path)
  PROVE  SettingsIInv'
<1>1. CASE UNCHANGED <<storage, separated, timestamp, values>>
  BY <1>1 DEF SettingsIInv, SettingsTyped, Profiles!SettingsInv, Profiles!Written, Profiles!Storages
<1>2. CASE values[path].timestamp # timestamp
  <2>1. /\ storage' = storage /\ timestamp' = timestamp
        /\ separated' = Profiles!FindDeepest(separated, path)
        /\ values' = [values EXCEPT ![path] = [timestamp |-> timestamp,
                                              value |-> Profiles!Retrieve(separated', path)]]
    BY <1>2 DEF Profiles!GetValue
  <2>2. Profiles!Written' = Profiles!Written
    BY <2>1 DEF Profiles!Written
  <2>3. SettingsTyped'
    BY <2>1, GetterFinds DEF SettingsIInv, SettingsTyped, Profiles!Storages
  <2>4. Profiles!SettingsInv'
    BY <2>1, <2>2, GetterFinds DEF SettingsIInv, SettingsTyped, Profiles!SettingsInv
  <2> QED   BY <2>1, <2>3, <2>4 DEF SettingsIInv
<1> QED   BY <1>1, <1>2 DEF Profiles!GetValue, Profiles!vars

(* Asked at any time, a getter returns the setting of the innermost        *)
(* profile that has it as it is written now, whatever was asked before.    *)
THEOREM SettingsCorrect == Profiles!ProfilesApart => (Profiles!Spec => []Profiles!SettingsInv)
<1> SUFFICES ASSUME Profiles!ProfilesApart PROVE Profiles!Spec => []Profiles!SettingsInv
  OBVIOUS
<1>1. Profiles!Init => SettingsIInv
  BY SettingsInit
<1>2. SettingsIInv /\ [Profiles!Next]_Profiles!vars => SettingsIInv'
  <2> SUFFICES ASSUME SettingsIInv, [Profiles!Next]_Profiles!vars
               PROVE  SettingsIInv'
    OBVIOUS
  <2>1. CASE UNCHANGED Profiles!vars
    BY <2>1 DEF SettingsIInv, SettingsTyped, Profiles!SettingsInv, Profiles!Written, Profiles!Storages, Profiles!vars
  <2>2. CASE Profiles!Next
    BY <2>2, SetKeepsInv, GetValueKeepsInv DEF Profiles!Next
  <2> QED   BY <2>1, <2>2
<1>3. SettingsIInv => Profiles!SettingsInv
  BY DEF SettingsIInv
<1> QED   BY <1>1, <1>2, <1>3, PTL DEF Profiles!Spec

-----------------------------------------------------------------------------
CONSTANTS Group, Gesture, Modifier, Hotkey, MaxEntries, MaxGroups, MaxGestures
VARIABLES hotkeys, active, gests, answer, typed

Hotkeys == INSTANCE HotkeyListener

(* The hotkeys of a group: sequences of keys, none the beginning of        *)
(* another.                                                                *)
Keys == Seq(Gesture)
Apart(group) == \A s, t \in group : Hotkeys!IsPrefix(s, t) => s = t
HotkeyGroups == {group \in SUBSET (Keys \ {<<>>}) : Apart(group)}

(* One sequence begins another if its keys are the first ones.             *)
LEMMA PrefixOfKeys ==
  ASSUME NEW s \in Keys, NEW t \in Keys
  PROVE  Hotkeys!IsPrefix(s, t) <=> Len(s) <= Len(t) /\ \A i \in 1..Len(s) : s[i] = t[i]
<1>1. Len(t) \in Nat /\ Len(s) \in Nat /\ s \in Seq(Gesture) /\ t \in Seq(Gesture)
  BY DEF Keys
<1>2. SubSeq(s, 1, Len(s)) = [i \in 1..Len(s) |-> s[i]]
  BY <1>1
<1>3. SubSeq(t, 1, Len(s)) = [i \in 1..Len(s) |-> t[i]]
  BY <1>1
<1> QED   BY <1>1, <1>2, <1>3 DEF Hotkeys!IsPrefix

(* register_hotkey() keeps hotkeys apart.                                  *)
LEMMA RegisteredApart ==
  ASSUME NEW group \in HotkeyGroups, NEW keys \in Keys
  PROVE  Hotkeys!Registered(group, keys) \in HotkeyGroups
<1>1. CASE Hotkeys!Registered(group, keys) = group
  BY <1>1
<1>2. CASE Hotkeys!Registered(group, keys) # group
  <2>1. keys # <<>> /\ (\A other \in group : ~Hotkeys!IsPrefix(other, keys) /\ ~Hotkeys!IsPrefix(keys, other))
    BY <1>2 DEF Hotkeys!Registered
  <2>2. Hotkeys!Registered(group, keys) = group \cup {keys}
    BY <1>2 DEF Hotkeys!Registered
  <2>3. Apart(group \cup {keys})
    BY <2>1 DEF Apart, HotkeyGroups
  <2> QED   BY <2>1, <2>2, <2>3 DEF HotkeyGroups
<1> QED   BY <1>1, <1>2

(* So does reading a group from the configuration.                         *)
LEMMA ParsedApart ==
  ASSUME NEW n \in Nat, NEW entries \in [1..n -> Keys]
  PROVE  Hotkeys!Parsed(entries) \in HotkeyGroups
<1>1. Len(entries) = n /\ \A k \in 1..n : entries[k] \in Keys
  <2>1. entries \in Seq(Keys)
    OBVIOUS
  <2> QED   BY <2>1
<1>2. {} \in HotkeyGroups
  BY DEF HotkeyGroups, Apart
<1> DEFINE F == [k \in 1..n |-> [g \in HotkeyGroups |-> Hotkeys!Registered(g, entries[k])]]
<1>3. StaysIn(F, n, HotkeyGroups)
  BY <1>1, RegisteredApart DEF StaysIn
<1>4. PICK f \in [0..n -> HotkeyGroups] : Repeats(f, F, n, {})
  <2> HIDE DEF F
  <2> QED   BY <1>2, <1>3, RepeatedSteps
<1>5. f[0] = {} /\ \A k \in 1..n : f[k] = F[k][f[k - 1]]
  <2> HIDE DEF F
  <2> QED   BY <1>4 DEF Repeats
<1>6. f = [k \in 0..n |-> IF k = 0 THEN {} ELSE Hotkeys!Registered(f[k - 1], entries[k])]
  <2> SUFFICES ASSUME NEW k \in 0..n
               PROVE  f[k] = IF k = 0 THEN {} ELSE Hotkeys!Registered(f[k - 1], entries[k])
    BY Zenon
  <2>1. CASE k = 0
    <3> HIDE DEF F
    <3> QED   BY <1>5, <2>1
  <2>2. CASE k # 0
    <3>0. k \in 1..n /\ k - 1 \in 0..n
      BY <2>2
    <3>1. f[k - 1] \in HotkeyGroups
      <4> HIDE DEF F
      <4> QED   BY <3>0
    <3>2. F[k][f[k - 1]] = Hotkeys!Registered(f[k - 1], entries[k])
      BY <3>0, <3>1
    <3> HIDE DEF F
    <3> QED   BY <1>5, <2>2, <3>0, <3>2
  <2> QED   BY <2>1, <2>2
<1> HIDE DEF F
<1> DEFINE r == CHOOSE h : h = [k \in 0..n |-> IF k = 0 THEN {} ELSE Hotkeys!Registered(h[k - 1], entries[k])]
<1>7. r = [k \in 0..n |-> IF k = 0 THEN {} ELSE Hotkeys!Registered(r[k - 1], entries[k])]
  BY <1>6
<1>8. Hotkeys!Parsed(entries) = r[n]
  BY <1>1, Zenon DEF Hotkeys!Parsed
<1> HIDE DEF r
<1> DEFINE P == {k \in Nat : k <= n => r[k] \in HotkeyGroups}
<1>9. 0 \in P
  BY <1>2, <1>7
<1>10. ASSUME NEW k \in Nat, k \in P PROVE k + 1 \in P
  <2> SUFFICES ASSUME k + 1 <= n PROVE r[k + 1] \in HotkeyGroups
    OBVIOUS
  <2>1. k + 1 \in 0..n /\ k + 1 \in 1..n /\ k + 1 # 0 /\ (k + 1) - 1 = k /\ r[k] \in HotkeyGroups
    BY <1>10
  <2>2. r[k + 1] = Hotkeys!Registered(r[k], entries[k + 1])
    BY <1>7, <2>1
  <2> QED   BY <1>1, <2>1, <2>2, RegisteredApart
<1> HIDE DEF P
<1>11. Nat \subseteq P
  BY <1>9, <1>10, InductionOnNumbers
<1>12. r[n] \in HotkeyGroups
  BY <1>11 DEF P
<1> QED   BY <1>8, <1>12

(* The keys of a chain without the modifiers, as the function of each      *)
(* length that WithoutModifiers defines.                                   *)
Shortened(s, k, r) == IF s[k] \in Modifier THEN r ELSE Append(r, s[k])
Rests(s) == CHOOSE h : h = [k \in 0..Len(s) |->
  IF k = 0 THEN <<>> ELSE IF s[k] \in Modifier THEN h[k - 1] ELSE Append(h[k - 1], s[k])]

(* It is what it says, and made of keys.                                   *)
LEMMA RestsOfKeys ==
  ASSUME NEW s \in Keys
  PROVE  /\ Hotkeys!WithoutModifiers(s) = Rests(s)[Len(s)]
         /\ Rests(s)[0] = <<>>
         /\ \A k \in 1..Len(s) : Rests(s)[k] = Shortened(s, k, Rests(s)[k - 1])
         /\ \A k \in 0..Len(s) : Rests(s)[k] \in Keys
<1>1. Len(s) \in Nat /\ (\A k \in 1..Len(s) : s[k] \in Gesture) /\ <<>> \in Keys
  BY DEF Keys
<1> DEFINE n == Len(s)
           F == [k \in 1..n |-> [g \in Keys |-> Shortened(s, k, g)]]
<1>2. ASSUME NEW k \in 1..n, NEW g \in Keys PROVE Shortened(s, k, g) \in Keys
  BY <1>1 DEF Shortened, Keys
<1>3. StaysIn(F, n, Keys)
  BY <1>2 DEF StaysIn
<1>4. PICK f \in [0..n -> Keys] : Repeats(f, F, n, <<>>)
  <2> HIDE DEF F
  <2> QED   BY <1>1, <1>3, RepeatedSteps
<1>5. f[0] = <<>> /\ \A k \in 1..n : f[k] = F[k][f[k - 1]]
  <2> HIDE DEF F
  <2> QED   BY <1>4 DEF Repeats
<1>6. \A k \in 1..n : f[k] = Shortened(s, k, f[k - 1])
  <2> SUFFICES ASSUME NEW k \in 1..n PROVE f[k] = Shortened(s, k, f[k - 1])
    OBVIOUS
  <2>1. k - 1 \in 0..n
    BY <1>1
  <2>2. f[k - 1] \in Keys
    BY <2>1
  <2>3. F[k][f[k - 1]] = Shortened(s, k, f[k - 1])
    BY <2>2
  <2> HIDE DEF F
  <2> QED   BY <1>5, <2>3
<1> HIDE DEF F
<1>7. f = [k \in 0..n |-> IF k = 0 THEN <<>> ELSE IF s[k] \in Modifier THEN f[k - 1] ELSE Append(f[k - 1], s[k])]
  <2> SUFFICES ASSUME NEW k \in 0..n
               PROVE  f[k] = IF k = 0 THEN <<>> ELSE IF s[k] \in Modifier THEN f[k - 1] ELSE Append(f[k - 1], s[k])
    BY Zenon
  <2>1. CASE k = 0
    BY <1>5, <2>1
  <2>2. CASE k # 0
    <3>1. k \in 1..n
      BY <1>1, <2>2
    <3> QED   BY <1>6, <2>2, <3>1, Zenon DEF Shortened
  <2> QED   BY <2>1, <2>2
<1> DEFINE r == Rests(s)
<1>8. r = [k \in 0..n |-> IF k = 0 THEN <<>> ELSE IF s[k] \in Modifier THEN r[k - 1] ELSE Append(r[k - 1], s[k])]
  BY <1>7, Zenon DEF Rests
<1>9. Hotkeys!WithoutModifiers(s) = r[Len(s)]
  BY Zenon DEF Hotkeys!WithoutModifiers, Rests
<1> HIDE DEF r
<1>10. r[0] = <<>>
  BY <1>1, <1>8
<1>11. ASSUME NEW k \in 1..n PROVE r[k] = Shortened(s, k, r[k - 1])
  <2>1. k \in 0..n /\ k # 0
    BY <1>1
  <2> QED   BY <1>8, <2>1 DEF Shortened
<1> DEFINE P == {k \in Nat : k <= n => r[k] \in Keys}
<1>12. 0 \in P
  BY <1>1, <1>10
<1>13. ASSUME NEW k \in Nat, k \in P PROVE k + 1 \in P
  <2> SUFFICES ASSUME k + 1 <= n PROVE r[k + 1] \in Keys
    OBVIOUS
  <2>1. k + 1 \in 1..n /\ (k + 1) - 1 = k /\ r[k] \in Keys
    BY <1>1, <1>13
  <2> QED   BY <1>2, <1>11, <2>1
<1> HIDE DEF P
<1>14. Nat \subseteq P
  BY <1>12, <1>13, InductionOnNumbers
<1>15. ASSUME NEW k \in 0..n PROVE r[k] \in Keys
  BY <1>1, <1>14 DEF P
<1> QED   BY <1>9, <1>10, <1>11, <1>15 DEF r

(* A key is added to what the keys before it are without modifiers, if it  *)
(* is not one.                                                             *)
LEMMA WithoutModifiersAppend ==
  ASSUME NEW s \in Keys, NEW key \in Gesture
  PROVE  /\ Hotkeys!WithoutModifiers(<<>>) = <<>>
         /\ Hotkeys!WithoutModifiers(s) \in Keys
         /\ Hotkeys!WithoutModifiers(Append(s, key)) =
              IF key \in Modifier THEN Hotkeys!WithoutModifiers(s) ELSE Append(Hotkeys!WithoutModifiers(s), key)
<1> DEFINE t == Append(s, key)
           n == Len(s)
           r == Rests(s)
           q == Rests(t)
<1>1. /\ n \in Nat /\ Len(t) = n + 1 /\ t \in Keys /\ t[n + 1] = key /\ <<>> \in Keys /\ Len(<<>>) = 0
      /\ \A k \in 1..n : t[k] = s[k]
  BY DEF Keys
<1>2. Hotkeys!WithoutModifiers(<<>>) = <<>>
  BY <1>1, RestsOfKeys
<1>3. /\ Hotkeys!WithoutModifiers(s) = r[n] /\ r[0] = <<>>
      /\ \A k \in 1..n : r[k] = Shortened(s, k, r[k - 1])
      /\ \A k \in 0..n : r[k] \in Keys
  BY RestsOfKeys
<1>4. /\ Hotkeys!WithoutModifiers(t) = q[n + 1] /\ q[0] = <<>>
      /\ \A k \in 1..n + 1 : q[k] = Shortened(t, k, q[k - 1])
  <2> HIDE DEF t
  <2> QED   BY <1>1, RestsOfKeys
<1> HIDE DEF t, r, q, n
<1> DEFINE P == {k \in Nat : k <= n => q[k] = r[k]}
<1>5. 0 \in P
  BY <1>3, <1>4
<1>6. ASSUME NEW k \in Nat, k \in P PROVE k + 1 \in P
  <2> SUFFICES ASSUME k + 1 <= n PROVE q[k + 1] = r[k + 1]
    OBVIOUS
  <2>1. k + 1 \in 1..n /\ k + 1 \in 1..n + 1 /\ (k + 1) - 1 = k /\ q[k] = r[k]
    BY <1>1, <1>6
  <2>2. q[k + 1] = Shortened(t, k + 1, q[k]) /\ r[k + 1] = Shortened(s, k + 1, r[k])
    BY <1>3, <1>4, <2>1
  <2> QED   BY <1>1, <2>1, <2>2 DEF Shortened
<1> HIDE DEF P
<1>7. Nat \subseteq P
  BY <1>5, <1>6, InductionOnNumbers
<1>8. q[n] = r[n]
  BY <1>1, <1>7 DEF P
<1>9. n + 1 \in 1..n + 1 /\ (n + 1) - 1 = n /\ n \in 0..n
  BY <1>1
<1>10. q[n + 1] = Shortened(t, n + 1, r[n]) /\ r[n] \in Keys
  BY <1>3, <1>4, <1>8, <1>9
<1>11. q[n + 1] = IF key \in Modifier THEN r[n] ELSE Append(r[n], key)
  BY <1>1, <1>10 DEF Shortened
<1> QED   BY <1>2, <1>3, <1>4, <1>10, <1>11 DEF t

(* What is in effect, with its types; the chain is not at the end of a     *)
(* hotkey, and some group follows it.                                      *)
GroupOf(i) == hotkeys[active[i].group]
ListenersTyped ==
  /\ hotkeys \in [Group -> HotkeyGroups]
  /\ \E n \in Nat : active \in [1..n -> [group : Group, state : Keys]]
  /\ gests \in Keys /\ typed \in Keys
ChainGoesOn ==
  /\ \A i \in DOMAIN active : typed \notin GroupOf(i)
  /\ typed # <<>> => \E i \in DOMAIN active : Hotkeys!IsNode(GroupOf(i), typed)
HotkeysIInv == ListenersTyped /\ Hotkeys!GroupsFollowKeys /\ ChainGoesOn

(* A group that goes on with a key has been at what is before it.          *)
LEMMA NodeFacts ==
  ASSUME NEW group \in HotkeyGroups, NEW t \in Keys, NEW key \in Gesture
  PROVE  /\ Append(t, key) \in Keys /\ Append(t, key) # <<>> /\ Append(t, key) # t /\ <<>> \in Keys
         /\ Hotkeys!IsNode(group, Append(t, key)) => Hotkeys!IsNode(group, t)
         /\ t \in group => Hotkeys!IsNode(group, t)
         /\ <<>> \notin group /\ group \subseteq Keys
<1> DEFINE c == Append(t, key)
<1>1. c \in Keys /\ Len(c) = Len(t) + 1 /\ Len(t) \in Nat /\ (\A i \in 1..Len(t) : c[i] = t[i]) /\ <<>> \in Keys /\ Len(<<>>) = 0
  BY DEF Keys
<1> HIDE DEF c
<1>2. c # <<>> /\ c # t
  BY <1>1
<1>3. group \subseteq Keys /\ <<>> \notin group
  BY DEF HotkeyGroups
<1>4. ASSUME NEW keys \in group, Hotkeys!IsPrefix(c, keys) PROVE Hotkeys!IsPrefix(t, keys)
  <2>1. keys \in Keys /\ Len(keys) \in Nat
    BY <1>3 DEF Keys
  <2>2. Len(c) <= Len(keys) /\ \A i \in 1..Len(c) : c[i] = keys[i]
    BY <1>1, <1>4, <2>1, PrefixOfKeys
  <2>3. Len(t) <= Len(keys) /\ \A i \in 1..Len(t) : t[i] = keys[i]
    BY <1>1, <2>1, <2>2
  <2> QED   BY <2>1, <2>3, PrefixOfKeys
<1>5. t \in group => Hotkeys!IsPrefix(t, t)
  BY PrefixOfKeys DEF Keys
<1> QED   BY <1>1, <1>2, <1>3, <1>4, <1>5 DEF c, Hotkeys!IsNode

Chain(key) == Append(typed, key)
StateAfter(i, key) == IF key \in Modifier THEN active[i].state
                 ELSE IF Hotkeys!IsNode(GroupOf(i), Chain(key)) THEN Chain(key) ELSE <<>>

(* A key takes every group to where the chain with it leads; a modifier    *)
(* leaves them where they are.                                             *)
LEMMA PressedStates ==
  ASSUME HotkeysIInv, NEW key \in Gesture, NEW n \in Nat, active \in [1..n -> [group : Group, state : Keys]]
  PROVE  /\ Hotkeys!Pressed(key) \in [1..n -> [group : Group, state : Keys]]
         /\ \A i \in 1..n : /\ Hotkeys!Pressed(key)[i].group = active[i].group
                            /\ Hotkeys!Pressed(key)[i].state = StateAfter(i, key)
<1>1. /\ hotkeys \in [Group -> HotkeyGroups] /\ gests \in Keys /\ typed \in Keys /\ DOMAIN active = 1..n
  BY DEF HotkeysIInv, ListenersTyped
<1>2. \A i \in 1..n : active[i].state = IF Hotkeys!IsNode(GroupOf(i), typed) THEN typed ELSE <<>>
  BY <1>1 DEF HotkeysIInv, Hotkeys!GroupsFollowKeys, GroupOf
<1>3. typed = <<>> => gests = <<>>
  BY DEF HotkeysIInv, Hotkeys!GroupsFollowKeys
<1>4. gests = <<>> => typed = <<>>
  BY <1>1, WithoutModifiersAppend DEF HotkeysIInv, Hotkeys!GroupsFollowKeys
<1>5. ASSUME NEW i \in 1..n
      PROVE  /\ Hotkeys!OnKeypress(active[i], key) \in [group : Group, state : Keys]
             /\ Hotkeys!OnKeypress(active[i], key).group = active[i].group
             /\ Hotkeys!OnKeypress(active[i], key).state = StateAfter(i, key)
  <2> DEFINE g == active[i]
             G == GroupOf(i)
             p == Hotkeys!OnKeypress(g, key)
  <2>1. g \in [group : Group, state : Keys]
    OBVIOUS
  <2>2. G \in HotkeyGroups /\ G = hotkeys[g.group]
    BY <1>1, <2>1 DEF GroupOf
  <2>3. typed \notin G /\ g.state = IF Hotkeys!IsNode(G, typed) THEN typed ELSE <<>>
    BY <1>1, <1>2 DEF HotkeysIInv, ChainGoesOn
  <2> HIDE DEF G, g
  <2>4. /\ Chain(key) \in Keys /\ Chain(key) # <<>> /\ <<>> \in Keys /\ <<>> \notin G
        /\ Hotkeys!IsNode(G, Chain(key)) => Hotkeys!IsNode(G, typed)
    BY <1>1, <2>2, NodeFacts DEF Chain
  <2> DEFINE a == IF key \in Modifier THEN g.state ELSE IF Hotkeys!IsNode(G, Chain(key)) THEN Chain(key) ELSE <<>>
  <2>5. a = StateAfter(i, key)
    BY DEF StateAfter, G, g
  <2>6. CASE gests # <<>> /\ g.state = <<>>
    <3>1. p = g
      BY <2>6 DEF Hotkeys!OnKeypress
    <3>2. ~Hotkeys!IsNode(G, typed)
      BY <1>4, <1>3, <2>3, <2>6
    <3>3. a = g.state
      BY <2>4, <2>6, <3>2
    <3> QED   BY <2>1, <2>5, <3>1, <3>3 DEF g
  <2>7. CASE ~(gests # <<>> /\ g.state = <<>>)
    <3>1. p = [g EXCEPT !.state = Hotkeys!UpdateState(G, g.state, key)]
      <4>1. [g EXCEPT !.state = Hotkeys!UpdateState(hotkeys[g.group], @, key)] = [g EXCEPT !.state = Hotkeys!UpdateState(G, g.state, key)]
        BY <2>2
      <4> QED   BY <2>7, <4>1 DEF Hotkeys!OnKeypress
    <3>2. g.state = typed
      BY <1>4, <2>3, <2>7
    <3>3. Hotkeys!UpdateState(G, g.state, key) = a
      BY <2>3, <3>2 DEF Hotkeys!UpdateState, Chain
    <3>4. a \in Keys
      BY <2>1, <2>4
    <3> HIDE DEF a
    <3> QED   BY <2>1, <2>5, <3>1, <3>3, <3>4 DEF g
  <2> QED   BY <2>6, <2>7 DEF g
<1>6. Hotkeys!Pressed(key) = [i \in 1..n |-> Hotkeys!OnKeypress(active[i], key)]
  BY <1>1 DEF Hotkeys!Pressed
<1> QED   BY <1>5, <1>6

(* A key completes the hotkeys that are what was typed with it.            *)
LEMMA TriggersAre ==
  ASSUME HotkeysIInv, NEW key \in Gesture
  PROVE  Hotkeys!Triggers(key) = {i \in DOMAIN active : key \notin Modifier /\ Chain(key) \in GroupOf(i)}
<1>1. PICK n \in Nat : active \in [1..n -> [group : Group, state : Keys]]
  BY DEF HotkeysIInv, ListenersTyped
<1>2. hotkeys \in [Group -> HotkeyGroups] /\ typed \in Keys /\ DOMAIN active = 1..n
  BY <1>1 DEF HotkeysIInv, ListenersTyped
<1>3. ASSUME NEW i \in 1..n
      PROVE  StateAfter(i, key) \in GroupOf(i) <=> key \notin Modifier /\ Chain(key) \in GroupOf(i)
  <2> DEFINE G == GroupOf(i)
  <2>1. G \in HotkeyGroups
    BY <1>1, <1>2 DEF GroupOf
  <2>2. typed \notin G /\ active[i].state \in {typed, <<>>}
    BY <1>2 DEF HotkeysIInv, ChainGoesOn, Hotkeys!GroupsFollowKeys, GroupOf
  <2> HIDE DEF G
  <2>3. <<>> \notin G /\ Chain(key) \in Keys
    BY <1>2, <2>1, NodeFacts DEF Chain
  <2>4. Chain(key) \in G => Hotkeys!IsNode(G, Chain(key))
    BY <2>1, <2>3, NodeFacts
  <2> QED   BY <2>2, <2>3, <2>4 DEF StateAfter, G
<1>4. Hotkeys!Triggers(key) = {i \in 1..n : StateAfter(i, key) \in GroupOf(i)}
  BY <1>1, <1>2, PressedStates DEF Hotkeys!Triggers, GroupOf
<1> QED   BY <1>2, <1>3, <1>4

-----------------------------------------------------------------------------
(* No group is in effect at first; those that there are have been parsed.  *)
LEMMA HotkeysInit ==
  ASSUME Hotkeys!HotkeysAreKeys
  PROVE  Hotkeys!Init => HotkeysIInv
<1> SUFFICES ASSUME Hotkeys!Init PROVE HotkeysIInv
  OBVIOUS
<1>1. \A n \in 0..MaxEntries : \A entries \in [1..n -> Hotkey] : Hotkeys!Parsed(entries) \in HotkeyGroups
  <2> SUFFICES ASSUME NEW n \in 0..MaxEntries, NEW entries \in [1..n -> Hotkey]
               PROVE  Hotkeys!Parsed(entries) \in HotkeyGroups
    OBVIOUS
  <2>1. n \in Nat
    OBVIOUS
  <2>2. entries \in [1..n -> Keys]
    BY DEF Hotkeys!HotkeysAreKeys, Keys
  <2> QED   BY <2>1, <2>2, ParsedApart
<1>2. hotkeys \in [Group -> HotkeyGroups]
  <2>1. \A x \in UNION {[1..n -> Hotkey] : n \in 0..MaxEntries} : Hotkeys!Parsed(x) \in HotkeyGroups
    BY <1>1
  <2> QED   BY <2>1 DEF Hotkeys!Init
<1>3. active = <<>> /\ gests = <<>> /\ typed = <<>>
  BY DEF Hotkeys!Init
<1>4. active \in [1..0 -> [group : Group, state : Keys]] /\ DOMAIN active = {}
  BY <1>3
<1>5. <<>> \in Keys
  BY DEF Keys
<1>6. ListenersTyped
  BY <1>2, <1>3, <1>4, <1>5 DEF ListenersTyped
<1>7. Hotkeys!GroupsFollowKeys
  <2>1. Hotkeys!WithoutModifiers(<<>>) = <<>>
    BY <1>5, RestsOfKeys DEF Keys
  <2> QED   BY <1>3, <1>4, <2>1 DEF Hotkeys!GroupsFollowKeys
<1>8. ChainGoesOn
  BY <1>3, <1>4 DEF ChainGoesOn
<1> QED   BY <1>6, <1>7, <1>8 DEF HotkeysIInv

(* Without a chain every group is at its beginning.                        *)
LEMMA NoChain ==
  ASSUME HotkeysIInv, hotkeys' = hotkeys, gests' = <<>>, typed' = <<>>, NEW n \in Nat,
         active' \in [1..n -> [group : Group, state : Keys]], \A i \in 1..n : active'[i].state = <<>>
  PROVE  HotkeysIInv'
<1>1. <<>> \in Keys /\ Hotkeys!WithoutModifiers(<<>>) = <<>> /\ DOMAIN active' = 1..n
  BY RestsOfKeys DEF Keys
<1>2. ListenersTyped'
  BY <1>1 DEF HotkeysIInv, ListenersTyped
<1>3. Hotkeys!GroupsFollowKeys'
  BY <1>1 DEF Hotkeys!GroupsFollowKeys
<1>4. ChainGoesOn'
  <2>1. \A i \in 1..n : hotkeys[active'[i].group] \in HotkeyGroups
    BY DEF HotkeysIInv, ListenersTyped
  <2>2. \A G \in HotkeyGroups : <<>> \notin G
    BY DEF HotkeyGroups
  <2> QED   BY <1>1, <2>1, <2>2 DEF ChainGoesOn, GroupOf
<1> QED   BY <1>2, <1>3, <1>4 DEF HotkeysIInv

(* The groups that come into effect are at their beginning.                *)
LEMMA FreshGroups ==
  ASSUME NEW groups \in Hotkeys!GroupLists
  PROVE  \E n \in Nat : /\ Hotkeys!Fresh(groups) \in [1..n -> [group : Group, state : Keys]]
                        /\ \A i \in 1..n : Hotkeys!Fresh(groups)[i].state = <<>>
<1>1. PICK n \in 0..MaxGroups : groups \in [1..n -> Group]
  BY DEF Hotkeys!GroupLists
<1>2. n \in Nat /\ <<>> \in Keys /\ DOMAIN groups = 1..n
  BY <1>1 DEF Keys
<1>3. Hotkeys!Fresh(groups) = [i \in 1..n |-> [group |-> groups[i], state |-> <<>>]]
  BY <1>2 DEF Hotkeys!Fresh
<1> QED   BY <1>1, <1>2, <1>3

(* When the focus moves the chain is over.                                 *)
LEMMA ResetGroupsKeeps ==
  ASSUME HotkeysIInv, NEW groups \in Hotkeys!GroupLists, Hotkeys!ResetGroups(groups)
  PROVE  HotkeysIInv'
BY FreshGroups, NoChain DEF Hotkeys!ResetGroups

(* The command of a hotkey may move the focus; the chain is over.          *)
LEMMA OnHotkeyKeeps ==
  ASSUME HotkeysIInv, NEW key \in Gesture, NEW focusMoves \in BOOLEAN, NEW groups,
         focusMoves => groups \in Hotkeys!GroupLists,
         Hotkeys!OnHotkey(key, focusMoves, groups), Hotkeys!Follow(key), hotkeys' = hotkeys
  PROVE  HotkeysIInv'
<1>1. PICK n \in Nat : active \in [1..n -> [group : Group, state : Keys]]
  BY DEF HotkeysIInv, ListenersTyped
<1>2. PICK i \in DOMAIN active : key \notin Modifier /\ Chain(key) \in GroupOf(i)
  BY TriggersAre DEF Hotkeys!OnHotkey
<1>3. typed' = <<>>
  BY <1>2 DEF Hotkeys!Follow, GroupOf, Chain
<1>4. gests' = <<>>
  BY DEF Hotkeys!OnHotkey
<1>5. CASE focusMoves
  BY <1>3, <1>4, <1>5, FreshGroups, NoChain DEF Hotkeys!OnHotkey
<1>6. CASE ~focusMoves
  <2>1. active' = [j \in 1..n |-> [active[j] EXCEPT !.state = <<>>]]
    BY <1>1, <1>6 DEF Hotkeys!OnHotkey
  <2>2. <<>> \in Keys
    BY DEF Keys
  <2>3. active' \in [1..n -> [group : Group, state : Keys]] /\ \A j \in 1..n : active'[j].state = <<>>
    BY <1>1, <2>1, <2>2
  <2> QED   BY <1>3, <1>4, <2>3, NoChain
<1> QED   BY <1>5, <1>6

(* What the chain has become, when no hotkey is complete.                  *)
LEMMA ChainFollows ==
  ASSUME HotkeysIInv, NEW key \in Gesture, Hotkeys!OnOtherKey(key), Hotkeys!Follow(key)
  PROVE  /\ \A i \in DOMAIN active : key \notin Modifier => Chain(key) \notin GroupOf(i)
         /\ typed' = IF key \in Modifier THEN typed
                     ELSE IF \E i \in DOMAIN active : Hotkeys!IsNode(GroupOf(i), Chain(key)) THEN Chain(key)
                     ELSE <<>>
<1>1. \A i \in DOMAIN active : key \notin Modifier => Chain(key) \notin GroupOf(i)
  BY TriggersAre DEF Hotkeys!OnOtherKey
<1> QED   BY <1>1 DEF Hotkeys!Follow, GroupOf, Chain

(* What on_key_down() finds when no hotkey is complete: the chain is over  *)
(* if no group follows it.                                                 *)
Ended(key) == \A i \in DOMAIN active : StateAfter(i, key) = <<>>

(* That is, after a modifier, if there was none.                           *)
LEMMA ChainEnds ==
  ASSUME HotkeysIInv, NEW key \in Gesture
  PROVE  Ended(key) <=> IF key \in Modifier THEN typed = <<>>
                        ELSE \A i \in DOMAIN active : ~Hotkeys!IsNode(GroupOf(i), Chain(key))
<1>1. typed \in Keys
  BY DEF HotkeysIInv, ListenersTyped
<1>2. Chain(key) # <<>>
  <2>1. {} \in HotkeyGroups
    BY DEF HotkeyGroups, Apart
  <2> QED   BY <1>1, <2>1, NodeFacts DEF Chain
<1>3. \A i \in DOMAIN active : active[i].state = IF Hotkeys!IsNode(GroupOf(i), typed) THEN typed ELSE <<>>
  BY DEF HotkeysIInv, Hotkeys!GroupsFollowKeys, GroupOf
<1>4. typed # <<>> => \E i \in DOMAIN active : Hotkeys!IsNode(GroupOf(i), typed)
  BY DEF HotkeysIInv, ChainGoesOn
<1> QED   BY <1>2, <1>3, <1>4 DEF Ended, StateAfter

(* The chain goes on, or is over.                                          *)
LEMMA OnOtherKeyKeeps ==
  ASSUME HotkeysIInv, NEW key \in Gesture, Hotkeys!OnOtherKey(key), Hotkeys!Follow(key), hotkeys' = hotkeys
  PROVE  HotkeysIInv'
<1>1. PICK n \in Nat : active \in [1..n -> [group : Group, state : Keys]]
  BY DEF HotkeysIInv, ListenersTyped
<1>2. /\ gests \in Keys /\ typed \in Keys /\ hotkeys \in [Group -> HotkeyGroups] /\ DOMAIN active = 1..n
      /\ Chain(key) \in Keys
  BY <1>1 DEF HotkeysIInv, ListenersTyped, Chain, Keys
<1>3. active' = Hotkeys!Pressed(key)
  BY DEF Hotkeys!OnOtherKey
<1>4. /\ active' \in [1..n -> [group : Group, state : Keys]] /\ DOMAIN active' = 1..n
      /\ \A i \in 1..n : active'[i].group = active[i].group /\ active'[i].state = StateAfter(i, key)
  BY <1>1, <1>3, PressedStates
<1>5. gests' = IF Ended(key) THEN <<>> ELSE Append(gests, key)
  <2>1. Ended(key) <=> \A i \in DOMAIN active : Hotkeys!Pressed(key)[i].state = <<>>
    BY <1>2, <1>3, <1>4 DEF Ended
  <2> QED   BY <2>1 DEF Hotkeys!OnOtherKey
<1>6. \A i \in 1..n : hotkeys'[active'[i].group] = GroupOf(i)
  BY <1>4 DEF GroupOf
<1>7. CASE Ended(key)
  <2>1. typed' = <<>>
    BY <1>7, ChainEnds, ChainFollows
  <2>2. \A i \in 1..n : active'[i].state = <<>>
    BY <1>2, <1>4, <1>7 DEF Ended
  <2> QED   BY <1>4, <1>5, <1>7, <2>1, <2>2, NoChain
<1>8. CASE ~Ended(key)
  <2>1. typed' = IF key \in Modifier THEN typed ELSE Chain(key)
    BY <1>8, ChainEnds, ChainFollows
  <2>2. typed' # <<>> /\ typed' \in Keys /\ \E i \in 1..n : Hotkeys!IsNode(GroupOf(i), typed')
    <3>1. CASE key \in Modifier
      BY <1>2, <1>8, <2>1, <3>1, ChainEnds DEF HotkeysIInv, ChainGoesOn
    <3>2. CASE key \notin Modifier
      <4>1. {} \in HotkeyGroups
        BY DEF HotkeyGroups, Apart
      <4>2. Chain(key) # <<>>
        BY <1>2, <4>1, NodeFacts DEF Chain
      <4> QED   BY <1>2, <1>8, <2>1, <3>2, <4>2, ChainEnds
    <3> QED   BY <3>1, <3>2
  <2>3. \A i \in 1..n : typed' \notin GroupOf(i)
    <3>1. CASE key \in Modifier
      BY <1>2, <2>1, <3>1 DEF HotkeysIInv, ChainGoesOn
    <3>2. CASE key \notin Modifier
      BY <1>2, <2>1, <3>2, ChainFollows
    <3> QED   BY <3>1, <3>2
  <2>4. \A i \in 1..n : StateAfter(i, key) = IF Hotkeys!IsNode(GroupOf(i), typed') THEN typed' ELSE <<>>
    BY <1>2, <2>1 DEF StateAfter, HotkeysIInv, Hotkeys!GroupsFollowKeys, GroupOf
  <2>5. gests' = Append(gests, key) /\ gests' \in Keys
    BY <1>2, <1>5, <1>8 DEF Keys
  <2>6. Hotkeys!WithoutModifiers(gests') = typed'
    <3>1. Hotkeys!WithoutModifiers(gests) = typed
      BY DEF HotkeysIInv, Hotkeys!GroupsFollowKeys
    <3> QED   BY <1>2, <2>1, <2>5, <3>1, WithoutModifiersAppend DEF Chain
  <2>7. ListenersTyped'
    BY <1>2, <1>4, <2>2, <2>5 DEF ListenersTyped
  <2>8. Hotkeys!GroupsFollowKeys'
    <3>1. \A i \in 1..n : Hotkeys!IsNode(GroupOf(i), typed') <=> Hotkeys!IsNode(hotkeys'[active'[i].group], typed')
      BY <1>6
    <3>2. \A i \in 1..n : active'[i].state = IF Hotkeys!IsNode(hotkeys'[active'[i].group], typed') THEN typed' ELSE <<>>
      BY <1>4, <2>4, <3>1
    <3> QED   BY <1>4, <2>2, <2>6, <3>2 DEF Hotkeys!GroupsFollowKeys, Hotkeys!IsNode
  <2>9. ChainGoesOn'
    BY <1>4, <1>6, <2>2, <2>3 DEF ChainGoesOn, GroupOf, Hotkeys!IsNode
  <2> QED   BY <2>7, <2>8, <2>9 DEF HotkeysIInv
<1> QED   BY <1>7, <1>8

(* Every step keeps the invariant.                                         *)
LEMMA HotkeysNext == HotkeysIInv /\ [Hotkeys!Next]_Hotkeys!vars => HotkeysIInv'
<1> SUFFICES ASSUME HotkeysIInv, [Hotkeys!Next]_Hotkeys!vars PROVE HotkeysIInv'
  OBVIOUS
<1>1. CASE UNCHANGED Hotkeys!vars
  BY <1>1 DEF Hotkeys!vars, HotkeysIInv, ListenersTyped, ChainGoesOn, GroupOf, Hotkeys!GroupsFollowKeys,
              Hotkeys!IsNode
<1>2. ASSUME NEW groups \in Hotkeys!GroupLists, Hotkeys!ResetGroups(groups) PROVE HotkeysIInv'
  BY <1>2, ResetGroupsKeeps
<1>3. ASSUME NEW key \in Gesture, Hotkeys!OnKeyDown(key) PROVE HotkeysIInv'
  <2>1. Hotkeys!Follow(key) /\ hotkeys' = hotkeys
    BY <1>3 DEF Hotkeys!OnKeyDown
  <2>2. CASE Hotkeys!OnOtherKey(key)
    BY <2>1, <2>2, OnOtherKeyKeeps
  <2>3. CASE Hotkeys!OnHotkey(key, FALSE, <<>>)
    BY <2>1, <2>3, OnHotkeyKeeps
  <2>4. ASSUME NEW groups \in Hotkeys!GroupLists, Hotkeys!OnHotkey(key, TRUE, groups) PROVE HotkeysIInv'
    BY <2>1, <2>4, OnHotkeyKeeps
  <2> QED   BY <1>3, <2>2, <2>3, <2>4 DEF Hotkeys!OnKeyDown
<1> QED   BY <1>1, <1>2, <1>3 DEF Hotkeys!Next

(* It contains what is to be shown of the states.                          *)
LEMMA HotkeysHold == HotkeysIInv => Hotkeys!ChainInv
BY DEF HotkeysIInv, ListenersTyped, HotkeyGroups, Apart, Hotkeys!ChainInv, Hotkeys!NoneHidesAnother

(* The answers.  If no hotkey is complete, the key has been intercepted    *)
(* when it belongs to one.                                                 *)
LEMMA OnOtherKeyAnswers ==
  ASSUME HotkeysIInv, NEW key \in Gesture, Hotkeys!OnOtherKey(key), Hotkeys!Follow(key)
  PROVE  Hotkeys!KeyAnswered(key)
<1>1. PICK n \in Nat : active \in [1..n -> [group : Group, state : Keys]]
  BY DEF HotkeysIInv, ListenersTyped
<1>2. DOMAIN active = 1..n /\ typed \in Keys /\ hotkeys \in [Group -> HotkeyGroups]
  BY <1>1 DEF HotkeysIInv, ListenersTyped
<1> DEFINE p == Hotkeys!Pressed(key)
           c == Chain(key)
<1>3. /\ p \in [1..n -> [group : Group, state : Keys]]
      /\ \A i \in 1..n : p[i].group = active[i].group /\ p[i].state = StateAfter(i, key)
  BY <1>1, PressedStates
<1>4. /\ \A i \in 1..n : active[i].state = IF Hotkeys!IsNode(GroupOf(i), typed) THEN typed ELSE <<>>
      /\ typed = <<>> => gests = <<>>
      /\ typed # <<>> => \E i \in 1..n : Hotkeys!IsNode(GroupOf(i), typed)
  BY <1>2 DEF HotkeysIInv, Hotkeys!GroupsFollowKeys, ChainGoesOn, GroupOf
<1>5. c # <<>> /\ c # typed
  <2>1. {} \in HotkeyGroups
    BY DEF HotkeyGroups, Apart
  <2> QED   BY <1>2, <2>1, NodeFacts DEF Chain
<1>6. /\ answer'.trigger = 0
      /\ answer'.intercepted = (p # active)
      /\ answer'.interrupted => Len(gests) > 1
  BY DEF Hotkeys!OnOtherKey
<1> HIDE DEF p, c
<1>7. p = active <=> \A i \in 1..n : p[i].state = active[i].state
  BY <1>1, <1>3
<1>8. CASE key \in Modifier
  <2>1. p = active
    BY <1>3, <1>7, <1>8 DEF StateAfter
  <2>2. answer'.interrupted => typed # <<>>
    BY <1>4, <1>6
  <2> QED   BY <1>6, <1>8, <2>1, <2>2 DEF Hotkeys!KeyAnswered
<1>9. CASE key \notin Modifier
  <2>1. \A i \in 1..n : p[i].state = IF Hotkeys!IsNode(GroupOf(i), c) THEN c ELSE <<>>
    BY <1>3, <1>9 DEF StateAfter, c
  <2>2. p # active <=> typed # <<>> \/ \E i \in 1..n : Hotkeys!IsNode(GroupOf(i), c)
    BY <1>4, <1>5, <1>7, <2>1
  <2>3. \A i \in 1..n : c \notin GroupOf(i)
    BY <1>2, <1>9, ChainFollows DEF c
  <2>4. answer'.interrupted => typed # <<>>
    BY <1>4, <1>6
  <2> QED   BY <1>2, <1>6, <1>9, <2>2, <2>3, <2>4 DEF Hotkeys!KeyAnswered, GroupOf, Chain, c
<1> QED   BY <1>8, <1>9

(* If some are, the first of them is triggered.                            *)
LEMMA OnHotkeyAnswers ==
  ASSUME HotkeysIInv, NEW key \in Gesture, NEW focusMoves \in BOOLEAN, NEW groups,
         Hotkeys!OnHotkey(key, focusMoves, groups)
  PROVE  Hotkeys!KeyAnswered(key)
<1>1. PICK n \in Nat : active \in [1..n -> [group : Group, state : Keys]]
  BY DEF HotkeysIInv, ListenersTyped
<1>2. DOMAIN active = 1..n /\ typed \in Keys /\ hotkeys \in [Group -> HotkeyGroups]
  BY <1>1 DEF HotkeysIInv, ListenersTyped
<1> DEFINE T == Hotkeys!Triggers(key)
<1>3. T = {i \in 1..n : key \notin Modifier /\ Chain(key) \in GroupOf(i)} /\ T # {}
  BY <1>2, TriggersAre DEF Hotkeys!OnHotkey
<1>4. /\ answer'.trigger = CHOOSE i \in T : \A j \in T : i <= j
      /\ answer'.intercepted = TRUE
      /\ answer'.interrupted => gests # <<>>
  BY DEF Hotkeys!OnHotkey
<1> HIDE DEF T
<1>5. \E i \in T : \A j \in T : i <= j
  BY <1>3, LeastNatural
<1>6. PICK i \in T : i = answer'.trigger /\ \A j \in T : i <= j
  BY <1>4, <1>5
<1>7. \A j \in 1..i - 1 : Chain(key) \notin GroupOf(j)
  <2> SUFFICES ASSUME NEW j \in 1..i - 1 PROVE Chain(key) \notin GroupOf(j)
    OBVIOUS
  <2>1. i \in 1..n
    BY <1>3
  <2>2. j \in 1..n /\ ~(i <= j)
    BY <2>1
  <2>3. j \notin T
    BY <1>6, <2>2
  <2> QED   BY <1>3, <2>2, <2>3
<1>8. Hotkeys!IsNode(GroupOf(i), Chain(key))
  <2>1. GroupOf(i) \in HotkeyGroups /\ Chain(key) \in GroupOf(i)
    BY <1>1, <1>2, <1>3 DEF GroupOf
  <2>2. Chain(key) \in Keys
    BY <1>2 DEF Chain, Keys
  <2> QED   BY <2>1, <2>2, NodeFacts
<1>9. typed = <<>> => gests = <<>>
  BY DEF HotkeysIInv, Hotkeys!GroupsFollowKeys
<1>10. i \in 1..n /\ i # 0 /\ key \notin Modifier /\ Chain(key) \in GroupOf(i)
  BY <1>3
<1> QED   BY <1>2, <1>4, <1>6, <1>7, <1>8, <1>9, <1>10 DEF Hotkeys!KeyAnswered, GroupOf, Chain

(* Every step that may be one of a key answers it.                         *)
LEMMA KeysAreAnswered == HotkeysIInv => Hotkeys!KeysAnswered
<1> SUFFICES ASSUME HotkeysIInv, NEW key \in Gesture, Hotkeys!OnKeyDown(key) PROVE Hotkeys!KeyAnswered(key)
  BY DEF Hotkeys!KeysAnswered
<1>1. Hotkeys!Follow(key)
  BY DEF Hotkeys!OnKeyDown
<1> QED   BY <1>1, OnOtherKeyAnswers, OnHotkeyAnswers DEF Hotkeys!OnKeyDown

(* No hotkey of a group begins another; every group of the focus is where  *)
(* the keys of the chain lead in it, and a key completes the hotkey of the *)
(* first group that has what was typed and is passed on only if it belongs *)
(* to none, whatever was typed, configured and focused before.             *)
THEOREM HotkeysCorrect == Hotkeys!HotkeysAreKeys => (Hotkeys!Spec => Hotkeys!HotkeysFollowed)
<1> SUFFICES ASSUME Hotkeys!HotkeysAreKeys PROVE Hotkeys!Spec => Hotkeys!HotkeysFollowed
  OBVIOUS
<1>1. Hotkeys!Init => HotkeysIInv
  BY HotkeysInit
<1> QED   BY <1>1, HotkeysNext, HotkeysHold, KeysAreAnswered, PTL DEF Hotkeys!Spec, Hotkeys!HotkeysFollowed

-----------------------------------------------------------------------------
CONSTANTS Element, Window, Scope, Panel, Focusable, MaxElements, MaxMarked
VARIABLES parent, existing, marked, focus, focusedWindow, scopeFocus, groups, capture

Tree == INSTANCE ElementTree

(* The elements and the parent of each, if it has one.                     *)
Parents == [Element -> Element \cup {None}]

(* Following the parents leads from each element to one without parent.    *)
Ranked(par, n, rank) ==
  /\ n \in Nat /\ rank \in [Element -> 0..n]
  /\ \A e \in Element : par[e] # None => rank[par[e]] < rank[e]
Forest(par) == par \in Parents /\ \E n \in Nat : \E rank \in [Element -> 0..n] : Ranked(par, n, rank)

(* The way from an element to the one without parent.                      *)
IsPath(par, p, e) ==
  /\ p \in Seq(Element) /\ Len(p) \in Nat \ {0} /\ p[1] = e
  /\ \A i \in 1..Len(p) - 1 : par[p[i]] = p[i + 1]
  /\ par[p[Len(p)]] = None

LEMMA NoneApart ==
  ASSUME Tree!ElementsNested
  PROVE  None \notin Element
BY DEF Tree!ElementsNested

LEMMA PathFacts ==
  ASSUME Tree!ElementsNested, NEW par, NEW p, NEW e, IsPath(par, p, e)
  PROVE  /\ Len(p) \in Nat /\ Len(p) >= 1 /\ p[1] = e /\ e \in Element
         /\ \A i \in 1..Len(p) : p[i] \in Element
         /\ \A i \in 1..Len(p) : i < Len(p) => par[p[i]] = p[i + 1] /\ par[p[i]] # None
         /\ par[p[Len(p)]] = None
         /\ \A i \in 1..Len(p) : par[p[i]] = None => i = Len(p)
<1>1. Len(p) \in Nat /\ Len(p) >= 1 /\ p[1] = e /\ par[p[Len(p)]] = None
  BY DEF IsPath
<1>2. \A i \in 1..Len(p) : p[i] \in Element
  BY ElementOfSeq DEF IsPath
<1>3. ASSUME NEW i \in 1..Len(p), i < Len(p) PROVE par[p[i]] = p[i + 1] /\ par[p[i]] # None
  <2>1. i \in 1..Len(p) - 1 /\ i + 1 \in 1..Len(p)
    BY <1>1, <1>3
  <2>2. par[p[i]] = p[i + 1]
    BY <2>1 DEF IsPath
  <2> QED   BY <1>2, <2>1, <2>2, NoneApart
<1> QED   BY <1>1, <1>2, <1>3

(* An element has one path.                                                *)
LEMMA OnePath ==
  ASSUME Tree!ElementsNested, NEW par, NEW p, NEW q, NEW e, IsPath(par, p, e), IsPath(par, q, e)
  PROVE  p = q
<1> DEFINE m == Len(p)
           n == Len(q)
           P == {k \in Nat : k + 1 <= m => k + 1 <= n /\ p[k + 1] = q[k + 1]}
<1>1. /\ m \in Nat /\ m >= 1 /\ p[1] = e /\ par[p[m]] = None
      /\ \A i \in 1..m : i < m => par[p[i]] = p[i + 1] /\ par[p[i]] # None
  BY PathFacts
<1>2. /\ n \in Nat /\ n >= 1 /\ q[1] = e /\ par[q[n]] = None
      /\ \A i \in 1..n : i < n => par[q[i]] = q[i + 1] /\ par[q[i]] # None
  BY PathFacts
<1>3. p \in Seq(Element) /\ q \in Seq(Element)
  BY DEF IsPath
<1> HIDE DEF m, n
<1>4. 0 \in P
  BY <1>1, <1>2
<1>5. ASSUME NEW k \in Nat, k \in P PROVE k + 1 \in P
  <2> SUFFICES ASSUME (k + 1) + 1 <= m PROVE (k + 1) + 1 <= n /\ p[(k + 1) + 1] = q[(k + 1) + 1]
    OBVIOUS
  <2>1. k + 1 \in 1..m /\ k + 1 < m /\ k + 1 \in 1..n /\ p[k + 1] = q[k + 1]
    BY <1>1, <1>2, <1>5
  <2>2. par[p[k + 1]] = p[(k + 1) + 1] /\ par[p[k + 1]] # None
    BY <1>1, <2>1
  <2>3. k + 1 # n
    BY <1>2, <2>1, <2>2
  <2>4. k + 1 < n
    BY <1>2, <2>1, <2>3
  <2> QED   BY <1>2, <2>1, <2>2, <2>4
<1> HIDE DEF P
<1>6. Nat \subseteq P
  BY <1>4, <1>5, InductionOnNumbers
<1>7. ASSUME NEW i \in 1..m PROVE i <= n /\ p[i] = q[i]
  <2>1. i - 1 \in Nat /\ (i - 1) + 1 = i
    BY <1>1
  <2>2. i - 1 \in P
    BY <1>6, <2>1
  <2> QED   BY <1>1, <2>1, <2>2 DEF P
<1>8. m <= n /\ p[m] = q[m] /\ m \in 1..n
  BY <1>1, <1>2, <1>7
<1>9. m = n
  BY <1>1, <1>2, <1>8
<1> QED   BY <1>3, <1>7, <1>9, SeqEqual DEF m, n

(* What is behind an element on a path is the path of that element.        *)
LEMMA PathSuffix ==
  ASSUME Tree!ElementsNested, NEW par, NEW p, NEW e, IsPath(par, p, e), NEW k \in 1..Len(p)
  PROVE  LET s == SubSeq(p, k, Len(p))
         IN  IsPath(par, s, p[k]) /\ Len(s) = Len(p) - k + 1 /\ \A i \in 1..Len(s) : s[i] = p[k + i - 1]
<1> DEFINE s == SubSeq(p, k, Len(p))
<1>1. /\ Len(p) \in Nat /\ Len(p) >= 1 /\ par[p[Len(p)]] = None
      /\ (\A i \in 1..Len(p) : p[i] \in Element)
      /\ \A i \in 1..Len(p) : i < Len(p) => par[p[i]] = p[i + 1]
  BY PathFacts
<1>2. k \in Int /\ Len(p) \in Int /\ \A i \in k..Len(p) : p[i] \in Element
  BY <1>1
<1>3. /\ s \in Seq(Element) /\ Len(s) = Len(p) - k + 1
      /\ \A i \in 1..Len(p) - k + 1 : s[i] = p[k + i - 1]
  BY <1>1, <1>2, SubSeqProperties
<1> HIDE DEF s
<1>4. s[1] = p[k] /\ Len(s) \in Nat \ {0} /\ s[Len(s)] = p[Len(p)]
  BY <1>1, <1>3
<1>5. ASSUME NEW i \in 1..Len(s) - 1 PROVE par[s[i]] = s[i + 1]
  <2>1. k + i - 1 \in 1..Len(p) /\ k + i - 1 < Len(p) /\ i \in 1..Len(p) - k + 1
        /\ i + 1 \in 1..Len(p) - k + 1 /\ k + (i + 1) - 1 = (k + i - 1) + 1
    BY <1>1, <1>3
  <2> QED   BY <1>1, <1>3, <2>1
<1> QED   BY <1>1, <1>3, <1>4, <1>5 DEF s, IsPath

(* The path of an element begins with it and goes on with that of its      *)
(* parent.                                                                 *)
LEMMA PathExtends ==
  ASSUME Tree!ElementsNested, NEW par \in Parents, NEW e \in Element
  PROVE  /\ par[e] = None => IsPath(par, <<e>>, e)
         /\ \A q : IsPath(par, q, par[e]) => IsPath(par, <<e>> \o q, e)
<1>1. <<e>> \in Seq(Element) /\ Len(<<e>>) = 1 /\ <<e>>[1] = e
  OBVIOUS
<1>2. par[e] = None => IsPath(par, <<e>>, e)
  BY <1>1 DEF IsPath
<1>3. ASSUME NEW q, IsPath(par, q, par[e]) PROVE IsPath(par, <<e>> \o q, e)
  <2>1. /\ q \in Seq(Element) /\ Len(q) \in Nat /\ Len(q) >= 1 /\ q[1] = par[e] /\ par[q[Len(q)]] = None
        /\ \A i \in 1..Len(q) : i < Len(q) => par[q[i]] = q[i + 1]
    BY <1>3, PathFacts DEF IsPath
  <2> DEFINE p == <<e>> \o q
  <2>2. /\ p \in Seq(Element) /\ Len(p) = 1 + Len(q)
        /\ \A i \in 1..1 + Len(q) : p[i] = IF i = 1 THEN e ELSE q[i - 1]
    BY <1>1, <2>1, ConcatProperties
  <2> HIDE DEF p
  <2>3. p[1] = e /\ p[Len(p)] = q[Len(q)] /\ Len(p) \in Nat \ {0}
    BY <2>1, <2>2
  <2>4. ASSUME NEW i \in 1..Len(p) - 1 PROVE par[p[i]] = p[i + 1]
    <3>1. p[i + 1] = q[i] /\ i \in 1..Len(q)
      BY <2>1, <2>2
    <3>2. CASE i = 1
      BY <2>1, <2>2, <3>1, <3>2
    <3>3. CASE i # 1
      <4>1. p[i] = q[i - 1] /\ i - 1 \in 1..Len(q) /\ i - 1 < Len(q) /\ (i - 1) + 1 = i
        BY <2>1, <2>2, <3>1, <3>3
      <4> QED   BY <2>1, <3>1, <4>1
    <3> QED   BY <3>2, <3>3
  <2> QED   BY <2>1, <2>2, <2>3, <2>4 DEF p, IsPath
<1> QED   BY <1>2, <1>3

(* Each element has a path.                                                *)
LEMMA PathsExist ==
  ASSUME Tree!ElementsNested, NEW par, Forest(par), NEW e \in Element
  PROVE  \E p \in Seq(Element) : IsPath(par, p, e)
<1>1. par \in Parents
  BY DEF Forest
<1>2. PICK n \in Nat : \E rank \in [Element -> 0..n] : Ranked(par, n, rank)
  BY DEF Forest
<1>3. PICK rank \in [Element -> 0..n] : Ranked(par, n, rank)
  BY <1>2
<1> DEFINE P == {f \in Element : \E p \in Seq(Element) : IsPath(par, p, f)}
<1>4. ASSUME NEW f \in Element, \A g \in Element : rank[g] < rank[f] => g \in P PROVE f \in P
  <2>1. CASE par[f] = None
    <3>1. IsPath(par, <<f>>, f) /\ <<f>> \in Seq(Element)
      BY <1>1, <2>1, PathExtends
    <3> QED   BY <3>1
  <2>2. CASE par[f] # None
    <3>1. par[f] \in Element /\ rank[par[f]] < rank[f]
      BY <1>1, <1>3, <2>2 DEF Parents, Ranked
    <3>2. PICK q \in Seq(Element) : IsPath(par, q, par[f])
      BY <1>4, <3>1
    <3>3. IsPath(par, <<f>> \o q, f)
      BY <1>1, <3>2, PathExtends
    <3>4. <<f>> \o q \in Seq(Element)
      BY <3>3 DEF IsPath
    <3> QED   BY <3>3, <3>4
  <2> QED   BY <2>1, <2>2
<1> HIDE DEF P
<1>5. Element \subseteq P
  BY <1>4, MeasureInduction
<1> QED   BY <1>5 DEF P

(* It is the path of ElementTree.                                          *)
LEMMA PathIsPath ==
  ASSUME Tree!ElementsNested, NEW st, Forest(st.parent)
  PROVE  /\ \A e \in Element : IsPath(st.parent, Tree!Path(st, e), e)
         /\ Tree!Path(st, None) = <<>>
<1> DEFINE par == st.parent
           r == CHOOSE h : h = [f \in Element |-> <<f>> \o (IF st.parent[f] = None THEN <<>> ELSE h[st.parent[f]])]
           g == [f \in Element |-> CHOOSE p : IsPath(par, p, f)]
<1>1. par \in Parents
  BY DEF Forest
<1>2. PICK n \in Nat : \E rank \in [Element -> 0..n] : Ranked(par, n, rank)
  BY DEF Forest
<1>3. PICK rank \in [Element -> 0..n] : Ranked(par, n, rank)
  BY <1>2
<1>4. ASSUME NEW f \in Element PROVE IsPath(par, g[f], f)
  BY PathsExist
<1>5. g = [f \in Element |-> <<f>> \o (IF par[f] = None THEN <<>> ELSE g[par[f]])]
  <2>1. g = [f \in Element |-> g[f]]
    OBVIOUS
  <2> HIDE DEF g
  <2>2. ASSUME NEW f \in Element
        PROVE  g[f] = <<f>> \o (IF par[f] = None THEN <<>> ELSE g[par[f]])
    <3>1. IsPath(par, g[f], f)
      BY <1>4
    <3>2. CASE par[f] = None
      <4>1. IsPath(par, <<f>>, f) /\ <<f>> \o <<>> = <<f>>
        BY <1>1, <3>2, PathExtends
      <4> QED   BY <3>1, <3>2, <4>1, OnePath
    <3>3. CASE par[f] # None
      <4>1. par[f] \in Element
        BY <1>1, <3>3 DEF Parents
      <4>2. IsPath(par, <<f>> \o g[par[f]], f)
        BY <1>1, <1>4, <4>1, PathExtends
      <4>3. g[f] = <<f>> \o g[par[f]]
        BY <3>1, <4>2, OnePath
      <4> QED   BY <3>3, <4>3
    <3> QED   BY <3>2, <3>3
  <2> QED   BY <2>1, <2>2, Zenon
<1> HIDE DEF g
<1>6. r = [f \in Element |-> <<f>> \o (IF st.parent[f] = None THEN <<>> ELSE r[st.parent[f]])]
  BY <1>5, Zenon
<1>7. \A e : Tree!Path(st, e) = IF e = None THEN <<>> ELSE r[e]
  BY Zenon DEF Tree!Path
<1> HIDE DEF r
<1> DEFINE P == {f \in Element : IsPath(par, r[f], f)}
<1>8. ASSUME NEW f \in Element, \A h \in Element : rank[h] < rank[f] => h \in P PROVE f \in P
  <2>1. r[f] = <<f>> \o (IF par[f] = None THEN <<>> ELSE r[par[f]])
    BY <1>6
  <2>2. CASE par[f] = None
    <3>1. IsPath(par, <<f>>, f) /\ <<f>> \o <<>> = <<f>>
      BY <1>1, <2>2, PathExtends
    <3> QED   BY <2>1, <2>2, <3>1
  <2>3. CASE par[f] # None
    <3>1. par[f] \in Element /\ rank[par[f]] < rank[f]
      BY <1>1, <1>3, <2>3 DEF Parents, Ranked
    <3>2. IsPath(par, r[par[f]], par[f])
      BY <1>8, <3>1
    <3>3. IsPath(par, <<f>> \o r[par[f]], f)
      BY <1>1, <3>2, PathExtends
    <3> QED   BY <2>1, <2>3, <3>3
  <2> QED   BY <2>2, <2>3
<1> HIDE DEF P
<1>9. Element \subseteq P
  BY <1>8, MeasureInduction
<1> QED   BY <1>7, <1>9, NoneApart DEF P

(* The path of an element, and the elements on it.                         *)
OnPath(p, e, par) ==
  /\ IsPath(par, p, e) /\ DOMAIN p = 1..Len(p)
  /\ Len(p) \in Nat /\ Len(p) >= 1 /\ p[1] = e
  /\ \A i \in 1..Len(p) : p[i] \in Element
  /\ \A i \in 1..Len(p) : i < Len(p) => par[p[i]] = p[i + 1] /\ par[p[i]] # None
  /\ par[p[Len(p)]] = None
  /\ \A i, j \in 1..Len(p) : i # j => p[i] # p[j]

(* No element is twice on a path.                                          *)
LEMMA PathRanks ==
  ASSUME Tree!ElementsNested, NEW par, NEW n, NEW rank, Ranked(par, n, rank), NEW p, NEW e, IsPath(par, p, e),
         NEW i \in 1..Len(p), NEW j \in 1..Len(p), i < j
  PROVE  rank[p[j]] < rank[p[i]]
<1>1. /\ Len(p) \in Nat /\ \A k \in 1..Len(p) : p[k] \in Element
      /\ \A k \in 1..Len(p) : k < Len(p) => par[p[k]] = p[k + 1] /\ par[p[k]] # None
  BY PathFacts
<1>2. n \in Nat /\ rank \in [Element -> 0..n] /\ \A f \in Element : par[f] # None => rank[par[f]] < rank[f]
  BY DEF Ranked
<1>3. ASSUME NEW k \in 1..Len(p), k < Len(p) PROVE rank[p[k + 1]] < rank[p[k]]
  BY <1>1, <1>2, <1>3
<1> DEFINE P == {k \in Nat : i + 1 + k <= Len(p) => rank[p[i + 1 + k]] < rank[p[i]]}
<1>4. 0 \in P
  BY <1>1, <1>3
<1>5. ASSUME NEW k \in Nat, k \in P PROVE k + 1 \in P
  <2> SUFFICES ASSUME i + 1 + (k + 1) <= Len(p) PROVE rank[p[i + 1 + (k + 1)]] < rank[p[i]]
    OBVIOUS
  <2>1. i + 1 + k \in 1..Len(p) /\ i + 1 + k < Len(p) /\ i + 1 + (k + 1) \in 1..Len(p)
    BY <1>1
  <2>2. rank[p[i + 1 + k]] < rank[p[i]]
    BY <1>1, <1>5
  <2>3. rank[p[(i + 1 + k) + 1]] < rank[p[i + 1 + k]]
    BY <1>3, <2>1
  <2>4. (i + 1 + k) + 1 = i + 1 + (k + 1)
    BY <1>1
  <2>5. rank[p[i]] \in Nat /\ rank[p[i + 1 + k]] \in Nat /\ rank[p[i + 1 + (k + 1)]] \in Nat
    BY <1>1, <1>2, <2>1
  <2> QED   BY <2>2, <2>3, <2>4, <2>5
<1> HIDE DEF P
<1>6. Nat \subseteq P
  BY <1>4, <1>5, InductionOnNumbers
<1>7. j - i - 1 \in Nat /\ i + 1 + (j - i - 1) = j /\ j <= Len(p)
  BY <1>1
<1>8. j - i - 1 \in P
  BY <1>6, <1>7
<1> QED   BY <1>7, <1>8 DEF P

(* What the path of an element is, in a forest.                            *)
LEMMA PathOfElement ==
  ASSUME Tree!ElementsNested, NEW st, Forest(st.parent), NEW e \in Element
  PROVE  OnPath(Tree!Path(st, e), e, st.parent)
<1> DEFINE p == Tree!Path(st, e)
<1>1. IsPath(st.parent, p, e)
  BY PathIsPath
<1>2. PICK n \in Nat : \E rank \in [Element -> 0..n] : Ranked(st.parent, n, rank)
  BY DEF Forest
<1>3. PICK rank \in [Element -> 0..n] : Ranked(st.parent, n, rank)
  BY <1>2
<1> HIDE DEF p
<1>4. p \in Seq(Element)
  BY <1>1 DEF IsPath
<1>5. /\ Len(p) \in Nat /\ Len(p) >= 1 /\ p[1] = e
      /\ (\A i \in 1..Len(p) : p[i] \in Element)
      /\ (\A i \in 1..Len(p) : i < Len(p) => st.parent[p[i]] = p[i + 1] /\ st.parent[p[i]] # None)
      /\ st.parent[p[Len(p)]] = None
  BY <1>1, PathFacts
<1>6. ASSUME NEW i \in 1..Len(p), NEW j \in 1..Len(p), i < j PROVE p[i] # p[j]
  <2>1. rank[p[j]] < rank[p[i]]
    BY <1>1, <1>3, <1>6, PathRanks
  <2>2. rank[p[j]] \in Nat /\ rank[p[i]] \in Nat
    BY <1>5
  <2> QED   BY <2>1, <2>2
<1>7. ASSUME NEW i \in 1..Len(p), NEW j \in 1..Len(p), i # j PROVE p[i] # p[j]
  <2>1. i < j \/ j < i
    BY <1>5, <1>7
  <2> QED   BY <1>6, <2>1
<1>8. DOMAIN p = 1..Len(p)
  BY <1>4
<1> QED   BY <1>1, <1>5, <1>7, <1>8 DEF OnPath, p

(* The path of an element on a path.                                       *)
LEMMA PathFrom ==
  ASSUME Tree!ElementsNested, NEW st, Forest(st.parent), NEW e \in Element, NEW k \in 1..Len(Tree!Path(st, e))
  PROVE  LET p == Tree!Path(st, e)
             s == Tree!Path(st, p[k])
         IN  p[k] \in Element /\ Len(s) = Len(p) - k + 1 /\ \A i \in 1..Len(s) : s[i] = p[k + i - 1]
<1> DEFINE p == Tree!Path(st, e)
           s == SubSeq(p, k, Len(p))
<1>1. IsPath(st.parent, p, e) /\ p[k] \in Element
  BY PathOfElement DEF OnPath
<1>2. IsPath(st.parent, Tree!Path(st, p[k]), p[k])
  BY <1>1, PathIsPath
<1>3. IsPath(st.parent, s, p[k]) /\ Len(s) = Len(p) - k + 1 /\ \A i \in 1..Len(s) : s[i] = p[k + i - 1]
  BY <1>1, PathSuffix
<1>4. s = Tree!Path(st, p[k])
  BY <1>2, <1>3, OnePath
<1> QED   BY <1>1, <1>3, <1>4

(* Where the path of an element leads, and what is on it.                  *)
RootOf(st, e) == Last(Tree!Path(st, e))
Above(st, e, f) == \E i \in 1..Len(Tree!Path(st, e)) : Tree!Path(st, e)[i] = f

(* Being under an element.                                                 *)
LEMMA UnderIs ==
  ASSUME Tree!ElementsNested, NEW st, Forest(st.parent)
  PROVE  /\ \A e \in Element : \A f : Tree!Under(st, e, f) <=> Above(st, e, f)
         /\ \A f : ~ Tree!Under(st, None, f)
<1>1. ASSUME NEW e \in Element PROVE DOMAIN Tree!Path(st, e) = 1..Len(Tree!Path(st, e))
  BY PathOfElement DEF OnPath
<1>2. Tree!Path(st, None) = <<>>
  BY PathIsPath
<1> QED   BY <1>1, <1>2 DEF Tree!Under, Tree!ToSet, Above

(* An element on a path is under what comes after it there.                *)
LEMMA UnderOnPath ==
  ASSUME Tree!ElementsNested, NEW st, Forest(st.parent), NEW e \in Element, NEW k \in 1..Len(Tree!Path(st, e))
  PROVE  LET p == Tree!Path(st, e)
         IN  /\ \A f : Tree!Under(st, p[k], f) <=> \E i \in k..Len(p) : p[i] = f
             /\ RootOf(st, p[k]) = p[Len(p)]
<1> DEFINE p == Tree!Path(st, e)
           n == Len(p)
<1>1. n \in Nat /\ n >= 1 /\ k \in 1..n
  BY PathOfElement DEF OnPath
<1> DEFINE s == Tree!Path(st, p[k])
<1>2. p[k] \in Element /\ Len(s) = n - k + 1 /\ \A i \in 1..Len(s) : s[i] = p[k + i - 1]
  BY PathFrom
<1>3. \A f : Tree!Under(st, p[k], f) <=> \E i \in 1..Len(s) : s[i] = f
  BY <1>2, UnderIs DEF Above
<1> HIDE DEF s, p, n
<1>4. ASSUME NEW f PROVE (\E i \in 1..Len(s) : s[i] = f) <=> (\E i \in k..n : p[i] = f)
  <2>1. ASSUME NEW i \in 1..Len(s), s[i] = f PROVE \E j \in k..n : p[j] = f
    <3>1. k + i - 1 \in k..n /\ p[k + i - 1] = f
      BY <1>1, <1>2, <2>1
    <3> QED   BY <3>1
  <2>2. ASSUME NEW j \in k..n, p[j] = f PROVE \E i \in 1..Len(s) : s[i] = f
    <3>1. j - k + 1 \in 1..Len(s) /\ k + (j - k + 1) - 1 = j
      BY <1>1, <1>2
    <3>2. s[j - k + 1] = f
      BY <1>2, <2>2, <3>1
    <3> QED   BY <3>1, <3>2
  <2> QED   BY <2>1, <2>2
<1>5. s[Len(s)] = p[n]
  BY <1>1, <1>2
<1>6. RootOf(st, p[k]) = s[Len(s)]
  BY DEF RootOf, Last, s
<1> QED   BY <1>3, <1>4, <1>5, <1>6 DEF p, n

LEMMA UnderAlong ==
  ASSUME Tree!ElementsNested, NEW st, Forest(st.parent)
  PROVE  \A f \in Element : \A i \in 1..Len(Tree!Path(st, f)) : \A g :
           Tree!Under(st, Tree!Path(st, f)[i], g) <=>
             \E j \in i..Len(Tree!Path(st, f)) : Tree!Path(st, f)[j] = g
BY UnderOnPath

(* Under is an order; what an element is under is in a line.               *)
LEMMA UnderFacts ==
  ASSUME Tree!ElementsNested, NEW st, Forest(st.parent), NEW e \in Element
  PROVE  /\ Tree!Under(st, e, e)
         /\ \A f : Tree!Under(st, e, f) => f \in Element
         /\ \A f : e # f /\ Tree!Under(st, e, f) => st.parent[e] # None /\ Tree!Under(st, st.parent[e], f)
         /\ \A f : st.parent[e] # None /\ Tree!Under(st, st.parent[e], f) => Tree!Under(st, e, f) /\ e # f
         /\ \A f, g : Tree!Under(st, e, f) /\ Tree!Under(st, f, g) => Tree!Under(st, e, g)
         /\ \A f, g : Tree!Under(st, e, f) /\ Tree!Under(st, e, g) => Tree!Under(st, f, g) \/ Tree!Under(st, g, f)
         /\ \A f : Tree!Under(st, e, f) /\ Tree!Under(st, f, e) => e = f
         /\ \A f : Tree!Under(st, e, f) => RootOf(st, e) = RootOf(st, f)
         /\ Tree!Under(st, e, RootOf(st, e)) /\ st.parent[RootOf(st, e)] = None
         /\ \A f : Tree!Under(st, e, f) /\ st.parent[f] = None => f = RootOf(st, e)
<1> DEFINE p == Tree!Path(st, e)
           n == Len(p)
<1>1. /\ n \in Nat /\ n >= 1 /\ p[1] = e
      /\ (\A i \in 1..n : p[i] \in Element)
      /\ (\A i \in 1..n : i < n => st.parent[p[i]] = p[i + 1] /\ st.parent[p[i]] # None)
      /\ st.parent[p[n]] = None
      /\ (\A i, j \in 1..n : i # j => p[i] # p[j])
  <2>1. OnPath(p, e, st.parent)
    BY PathOfElement
  <2> HIDE DEF p
  <2> QED   BY <2>1 DEF OnPath
<1>2. \A f : Tree!Under(st, e, f) <=> \E i \in 1..n : p[i] = f
  BY UnderIs DEF Above
<1>3. ASSUME NEW k \in 1..n
      PROVE  /\ \A f : Tree!Under(st, p[k], f) <=> \E i \in k..n : p[i] = f
             /\ RootOf(st, p[k]) = p[n]
  BY UnderOnPath
<1>4. RootOf(st, e) = p[n]
  BY DEF RootOf, Last
<1> HIDE DEF p, n
<1>5. Tree!Under(st, e, e) /\ \A f : Tree!Under(st, e, f) => f \in Element
  BY <1>1, <1>2
<1>6. ASSUME NEW f, e # f, Tree!Under(st, e, f) PROVE st.parent[e] # None /\ Tree!Under(st, st.parent[e], f)
  <2>1. PICK i \in 1..n : p[i] = f
    BY <1>2, <1>6
  <2>2. i # 1 /\ i \in 2..n /\ 1 \in 1..n /\ 1 < n /\ 2 \in 1..n
    BY <1>1, <1>6, <2>1
  <2>3. st.parent[e] = p[2] /\ st.parent[e] # None
    BY <1>1, <2>2
  <2>4. Tree!Under(st, p[2], f)
    BY <1>3, <2>1, <2>2
  <2> QED   BY <2>3, <2>4
<1>7. ASSUME NEW f, st.parent[e] # None, Tree!Under(st, st.parent[e], f) PROVE Tree!Under(st, e, f) /\ e # f
  <2>1. n # 1 /\ 1 < n /\ 1 \in 1..n /\ 2 \in 1..n
    BY <1>1, <1>7
  <2>2. st.parent[e] = p[2]
    BY <1>1, <2>1
  <2>3. PICK i \in 2..n : p[i] = f
    BY <1>3, <1>7, <2>1, <2>2
  <2>4. i \in 1..n /\ i # 1
    BY <1>1, <2>3
  <2> QED   BY <1>1, <1>2, <2>1, <2>3, <2>4
<1>8. ASSUME NEW f, Tree!Under(st, e, f)
      PROVE  /\ \A g : Tree!Under(st, f, g) => Tree!Under(st, e, g)
             /\ \A g : Tree!Under(st, e, g) => Tree!Under(st, f, g) \/ Tree!Under(st, g, f)
             /\ Tree!Under(st, f, e) => e = f
             /\ RootOf(st, e) = RootOf(st, f)
             /\ st.parent[f] = None => f = RootOf(st, e)
  <2>1. PICK i \in 1..n : p[i] = f
    BY <1>2, <1>8
  <2>2. \A g : Tree!Under(st, f, g) <=> \E j \in i..n : p[j] = g
    BY <1>3, <2>1
  <2>3. i..n \subseteq 1..n
    BY <1>1
  <2>4. \A g : Tree!Under(st, f, g) => Tree!Under(st, e, g)
    BY <1>2, <2>2, <2>3
  <2>5. ASSUME NEW g, Tree!Under(st, e, g) PROVE Tree!Under(st, f, g) \/ Tree!Under(st, g, f)
    <3>1. PICK j \in 1..n : p[j] = g
      BY <1>2, <2>5
    <3>2. \A h : Tree!Under(st, g, h) <=> \E k \in j..n : p[k] = h
      BY <1>3, <3>1
    <3>3. j \in i..n \/ i \in j..n
      BY <1>1
    <3> QED   BY <2>1, <2>2, <3>1, <3>2, <3>3
  <2>6. ASSUME Tree!Under(st, f, e) PROVE e = f
    <3>1. PICK j \in i..n : p[j] = e
      BY <2>2, <2>6
    <3>2. j \in 1..n /\ 1 \in 1..n /\ (j # 1 => p[j] # p[1])
      BY <1>1, <2>3
    <3>3. j = 1 /\ i = 1
      BY <1>1, <3>1, <3>2
    <3> QED   BY <1>1, <2>1, <3>3
  <2>7. RootOf(st, f) = p[n]
    BY <1>3, <2>1
  <2>8. ASSUME st.parent[f] = None PROVE f = p[n]
    BY <1>1, <2>1, <2>8
  <2> QED   BY <1>4, <2>4, <2>5, <2>6, <2>7, <2>8
<1>9. Tree!Under(st, e, p[n]) /\ st.parent[p[n]] = None
  BY <1>1, <1>2
<1> QED   BY <1>4, <1>5, <1>6, <1>7, <1>8, <1>9

(* The nearest element above.                                              *)
LEMMA NearestFacts ==
  ASSUME Tree!ElementsNested, NEW st, Forest(st.parent), NEW e \in Element, NEW among
  PROVE  LET n == Tree!Nearest(st, e, among)
         IN  /\ n = None => \A g \in among : Tree!Under(st, e, g) => g = e
             /\ n # None => /\ n \in among /\ n \in Element /\ n # e /\ Tree!Under(st, e, n)
                            /\ \A g \in among : Tree!Under(st, e, g) /\ g # e => Tree!Under(st, n, g)
<1> DEFINE p == Tree!Path(st, e)
           above == {i \in 2..Len(p) : p[i] \in among}
           least == CHOOSE i \in above : \A j \in above : i <= j
<1>1. /\ Len(p) \in Nat /\ Len(p) >= 1 /\ p[1] = e /\ (\A i \in 1..Len(p) : p[i] \in Element)
      /\ (\A i, j \in 1..Len(p) : i # j => p[i] # p[j])
  <2>1. OnPath(p, e, st.parent)
    BY PathOfElement
  <2> HIDE DEF p
  <2> QED   BY <2>1 DEF OnPath
<1>2. \A k \in 1..Len(p) : \A f : Tree!Under(st, p[k], f) <=> \E i \in k..Len(p) : p[i] = f
  BY UnderOnPath
<1>3. Tree!Nearest(st, e, among) = IF above = {} THEN None ELSE p[least]
  BY DEF Tree!Nearest
<1> HIDE DEF p
<1>4. ASSUME NEW g \in among, Tree!Under(st, e, g), g # e PROVE \E i \in above : p[i] = g
  <2>1. PICK i \in 1..Len(p) : p[i] = g
    BY <1>1, <1>2, <1>4
  <2>2. i # 1 /\ i \in 2..Len(p)
    BY <1>1, <1>4, <2>1
  <2> QED   BY <1>4, <2>1, <2>2
<1>5. CASE above = {}
  BY <1>3, <1>4, <1>5
<1>6. CASE above # {}
  <2>1. above \in SUBSET Nat
    BY <1>1
  <2>2. least \in above /\ \A j \in above : least <= j
    <3> HIDE DEF above
    <3>1. \E i \in above : \A j \in above : i <= j
      BY <1>6, <2>1, LeastNatural
    <3> QED   BY <3>1
  <2> DEFINE n == p[least]
  <2>3. Tree!Nearest(st, e, among) = n
    BY <1>3, <1>6
  <2> HIDE DEF least
  <2>4. least \in 1..Len(p) /\ least # 1 /\ 1 \in 1..Len(p) /\ n \in among
    BY <1>1, <2>2
  <2>5. n \in Element /\ n # e /\ Tree!Under(st, e, n)
    BY <1>1, <1>2, <2>4
  <2>6. ASSUME NEW g \in among, Tree!Under(st, e, g), g # e PROVE Tree!Under(st, n, g)
    <3>1. PICK i \in above : p[i] = g
      BY <1>4, <2>6
    <3>2. least <= i /\ i \in least..Len(p)
      BY <1>1, <2>2, <3>1
    <3> QED   BY <1>2, <2>4, <3>1, <3>2
  <2> HIDE DEF n
  <2> QED   BY <2>3, <2>4, <2>5, <2>6, NoneApart
<1> QED   BY <1>5, <1>6

(* The nearest element above is the only one of its kind.                  *)
LEMMA NearestIs ==
  ASSUME Tree!ElementsNested, NEW st, Forest(st.parent), NEW e \in Element, NEW among, NEW n \in Element,
         n \in among, n # e, Tree!Under(st, e, n),
         \A g \in among : Tree!Under(st, e, g) /\ g # e => Tree!Under(st, n, g)
  PROVE  Tree!Nearest(st, e, among) = n
<1> DEFINE m == Tree!Nearest(st, e, among)
<1>1. m # None
  BY NearestFacts
<1>2. m \in among /\ m \in Element /\ m # e /\ Tree!Under(st, e, m)
      /\ \A g \in among : Tree!Under(st, e, g) /\ g # e => Tree!Under(st, m, g)
  BY <1>1, NearestFacts
<1> HIDE DEF m
<1>3. Tree!Under(st, m, n) /\ Tree!Under(st, n, m)
  BY <1>2
<1> QED   BY <1>2, <1>3, UnderFacts DEF m

-----------------------------------------------------------------------------
(* A tree whose focus, focuses of scopes and captures are what FocusInv    *)
(* says, as a state that the operations of ElementTree act on.             *)
TreeStates ==
  [parent : Parents, existing : SUBSET Element, marked : SUBSET Element, focus : Element \cup {None},
   focused : Window \cup {None}, scope : [Scope -> Element \cup {None}], groups : Seq(Element),
   capture : [Window -> Element \cup {None}]]

ShapeKept(st) ==
  /\ Forest(st.parent)
  /\ \A w \in Window : st.parent[w] = None
  /\ \A e \in Element : st.parent[e] # None => e \in st.existing /\ st.parent[e] \in st.existing
  /\ st.marked \subseteq st.existing
GroupsKept(st) == st.groups = Tree!Path(st, st.focus)
ScopesKept(st) ==
  \A s \in Scope : st.scope[s] # None => st.scope[s] \in st.existing /\ Tree!ScopeOf(st, st.scope[s]) = s
CapturesKept(st) ==
  \A w \in Window : st.capture[w] # None => st.capture[w] \in st.existing /\ RootOf(st, st.capture[w]) = w

(* All but that the focus is in the focused window, which it is not before *)
(* it has followed the focus of the system.                                *)
TreeRight(st) == st \in TreeStates /\ ShapeKept(st) /\ GroupsKept(st) /\ ScopesKept(st) /\ CapturesKept(st)
FocusKept(st) ==
  st.focus # None => st.focus \in st.existing /\ st.focused \in Window /\ RootOf(st, st.focus) = st.focused

TreeOk(st) == TreeRight(st) /\ FocusKept(st)

(* What the constants are.                                                 *)
LEMMA Nesting ==
  ASSUME Tree!ElementsNested
  PROVE  /\ None \notin Element /\ None \notin Window
         /\ Window \subseteq Scope /\ Scope \subseteq Element /\ Window \subseteq Element
         /\ Panel \subseteq Element
BY DEF Tree!ElementsNested

(* Paths and what follows from them depend on the parents only.            *)
LEMMA SameParents ==
  ASSUME Tree!ElementsNested, NEW st, NEW u, Forest(st.parent), u.parent = st.parent
  PROVE  /\ \A e \in Element \cup {None} :
              /\ Tree!Path(u, e) = Tree!Path(st, e)
              /\ RootOf(u, e) = RootOf(st, e)
              /\ \A f : Tree!Under(u, e, f) <=> Tree!Under(st, e, f)
              /\ \A among : Tree!Nearest(u, e, among) = Tree!Nearest(st, e, among)
              /\ Tree!ScopeOf(u, e) = Tree!ScopeOf(st, e)
         /\ \A e : Tree!Children(u, e) = Tree!Children(st, e)
<1>1. ASSUME NEW e \in Element \cup {None} PROVE Tree!Path(u, e) = Tree!Path(st, e)
  <2>1. CASE e = None
    BY <2>1, PathIsPath
  <2>2. CASE e \in Element
    <3>1. IsPath(st.parent, Tree!Path(st, e), e) /\ IsPath(st.parent, Tree!Path(u, e), e)
      BY <2>2, PathIsPath
    <3> QED   BY <3>1, OnePath
  <2> QED   BY <2>1, <2>2
<1>2. ASSUME NEW e \in Element \cup {None}
      PROVE  RootOf(u, e) = RootOf(st, e) /\ \A f : Tree!Under(u, e, f) <=> Tree!Under(st, e, f)
  BY <1>1 DEF RootOf, Tree!Under
<1>3. ASSUME NEW e \in Element \cup {None}, NEW among PROVE Tree!Nearest(u, e, among) = Tree!Nearest(st, e, among)
  <2>1. Tree!Path(u, e) = Tree!Path(st, e)
    BY <1>1
  <2> DEFINE above(p) == {i \in 2..Len(p) : p[i] \in among}
             found(p) == IF above(p) = {} THEN None ELSE p[CHOOSE i \in above(p) : \A j \in above(p) : i <= j]
  <2>2. \A v, f : Tree!Nearest(v, f, among) = found(Tree!Path(v, f))
    BY DEF Tree!Nearest
  <2> HIDE DEF found
  <2> QED   BY <2>1, <2>2
<1>4. ASSUME NEW e PROVE Tree!Children(u, e) = Tree!Children(st, e)
  BY DEF Tree!Children
<1> QED   BY <1>1, <1>2, <1>3, <1>4 DEF Tree!ScopeOf

(* The rank of an element is larger than that of what it is under.         *)
LEMMA UnderRanks ==
  ASSUME Tree!ElementsNested, NEW st, Forest(st.parent), NEW n, NEW rank, Ranked(st.parent, n, rank),
         NEW e \in Element, NEW f, Tree!Under(st, e, f), e # f
  PROVE  rank[f] < rank[e]
<1>1. OnPath(Tree!Path(st, e), e, st.parent)
  BY PathOfElement
<1>2. PICK i \in 1..Len(Tree!Path(st, e)) : Tree!Path(st, e)[i] = f
  BY UnderIs DEF Above
<1>3. 1 \in 1..Len(Tree!Path(st, e)) /\ Tree!Path(st, e)[1] = e /\ 1 < i /\ IsPath(st.parent, Tree!Path(st, e), e)
  BY <1>1, <1>2 DEF OnPath
<1> QED   BY <1>2, <1>3, PathRanks

(* The scope of an element, if it has one.                                 *)
LEMMA ScopeFacts ==
  ASSUME Tree!ElementsNested, NEW st, TreeRight(st), NEW s \in Scope, st.scope[s] # None
  PROVE  /\ st.scope[s] \in Element /\ st.scope[s] \in st.existing /\ st.scope[s] # s
         /\ Tree!Under(st, st.scope[s], s)
         /\ \A t \in Scope : Tree!Under(st, st.scope[s], t) /\ t # st.scope[s] => Tree!Under(st, s, t)
<1>1. /\ Forest(st.parent) /\ st.scope[s] \in Element /\ st.scope[s] \in st.existing
      /\ Tree!Nearest(st, st.scope[s], Scope) = s /\ s # None
  BY Nesting DEF TreeRight, TreeStates, ShapeKept, ScopesKept, Tree!ScopeOf
<1> QED   BY <1>1, NearestFacts

(* No scope outside x has its focus within x.                              *)
NotInto(st, x) ==
  \A s \in Scope : st.scope[s] # None /\ Tree!Under(st, st.scope[s], x) => Tree!Under(st, s, x)

(* What receives the focus is within what was asked to.                    *)
LEMMA InnermostFacts ==
  ASSUME Tree!ElementsNested, NEW st, TreeRight(st), NEW e \in Element
  PROVE  LET n == Tree!Innermost(st, e)
         IN  /\ n \in Element /\ Tree!Under(st, n, e) /\ (e \in st.existing => n \in st.existing)
             /\ \A x \in Element : NotInto(st, x) /\ ~ Tree!Under(st, e, x) => ~ Tree!Under(st, n, x)
<1>1. Forest(st.parent)
  BY DEF TreeRight, ShapeKept
<1>2. PICK n \in Nat : \E rank \in [Element -> 0..n] : Ranked(st.parent, n, rank)
  BY <1>1 DEF Forest
<1>3. PICK rank \in [Element -> 0..n] : Ranked(st.parent, n, rank)
  BY <1>2
<1> DEFINE goes(f) == f \in Scope /\ st.scope[f] \notin {None, f}
           stop == {f \in Element : ~ goes(f)}
           onward == [f \in Element |-> IF goes(f) THEN st.scope[f] ELSE f]
           m == [f \in Element |-> n - rank[f]]
           r == CHOOSE h : h = [f \in Element |-> IF f \in Scope /\ st.scope[f] \notin {None, f}
                                                  THEN h[st.scope[f]] ELSE f]
           same == [f \in Element |-> f]
           next == [f \in Element |-> same]
<1>4. ASSUME NEW f \in Element, goes(f)
      PROVE  /\ f \in Scope /\ st.scope[f] # None /\ st.scope[f] \in Element /\ st.scope[f] \in st.existing
             /\ Tree!Under(st, st.scope[f], f) /\ rank[f] < rank[st.scope[f]]
  <2>1. f \in Scope /\ st.scope[f] # None /\ st.scope[f] # f
    BY <1>4
  <2>2. /\ st.scope[f] \in Element /\ st.scope[f] \in st.existing
        /\ Tree!Under(st, st.scope[f], f)
    BY <2>1, ScopeFacts
  <2>3. rank[f] < rank[st.scope[f]]
    BY <1>1, <1>3, <2>1, <2>2, UnderRanks
  <2> QED   BY <2>1, <2>2, <2>3
<1> HIDE DEF goes
<1>5. m \in [Element -> 0..n] /\ onward \in [Element -> Element] /\ same \in [Element -> Element]
  BY <1>4
<1>6. ASSUME NEW f \in Element, goes(f) PROVE onward[f] = st.scope[f] /\ m[onward[f]] < m[f]
  BY <1>4, <1>6
<1>7. PICK g \in [Element -> Element] : FollowsFrom(g, Element, stop, onward, same, next)
  <2>1. \A f \in Element : f \notin stop => m[onward[f]] < m[f]
    BY <1>6
  <2>2. next \in [Element -> [Element -> Element]]
    BY <1>5
  <2> HIDE DEF m, onward, same, next, stop
  <2> QED   BY <1>5, <2>1, <2>2, DefinedByMeasure
<1>8. ASSUME NEW f \in Element PROVE g[f] = IF goes(f) THEN g[st.scope[f]] ELSE f
  <2>1. g[f] = IF f \in stop THEN same[f] ELSE next[f][g[onward[f]]]
    <3> HIDE DEF stop, onward, same, next
    <3> QED   BY <1>7 DEF FollowsFrom
  <2>2. CASE goes(f)
    <3>1. g[onward[f]] \in Element /\ onward[f] = st.scope[f]
      BY <1>4, <1>6, <2>2
    <3> QED   BY <2>1, <2>2, <3>1
  <2>3. CASE ~ goes(f)
    BY <2>1, <2>3
  <2> QED   BY <2>2, <2>3
<1>9. g = [f \in Element |-> IF f \in Scope /\ st.scope[f] \notin {None, f} THEN g[st.scope[f]] ELSE f]
  <2>1. g = [f \in Element |-> g[f]]
    BY <1>7
  <2>2. \A f \in Element : g[f] = IF f \in Scope /\ st.scope[f] \notin {None, f} THEN g[st.scope[f]] ELSE f
    BY <1>8 DEF goes
  <2> QED   BY <2>1, <2>2, Zenon
<1>10. r = [f \in Element |-> IF f \in Scope /\ st.scope[f] \notin {None, f} THEN r[st.scope[f]] ELSE f]
  BY <1>9, Zenon
<1>11. Tree!Innermost(st, e) = r[e]
  BY NoneApart, Zenon DEF Tree!Innermost
<1> HIDE DEF r
<1>12. ASSUME NEW f \in Element PROVE r[f] = IF goes(f) THEN r[st.scope[f]] ELSE f
  BY <1>10 DEF goes
<1> DEFINE Fine(f) ==
             /\ r[f] \in Element /\ Tree!Under(st, r[f], f) /\ (f \in st.existing => r[f] \in st.existing)
             /\ \A x \in Element : NotInto(st, x) /\ ~ Tree!Under(st, f, x) => ~ Tree!Under(st, r[f], x)
           P == {f \in Element : Fine(f)}
<1>13. ASSUME NEW f \in Element, \A h \in Element : m[h] < m[f] => h \in P PROVE f \in P
  <2>1. CASE ~ goes(f)
    <3>1. r[f] = f /\ Tree!Under(st, f, f)
      BY <1>1, <1>12, <2>1, UnderFacts
    <3> QED   BY <3>1
  <2>2. CASE goes(f)
    <3> DEFINE h == st.scope[f]
    <3>1. /\ h \in Element /\ h \in st.existing /\ Tree!Under(st, h, f) /\ f \in Scope /\ h # None
          /\ m[h] < m[f] /\ r[f] = r[h]
      BY <1>4, <1>6, <1>12, <2>2
    <3>2. Fine(h)
      <4> HIDE DEF Fine, h, m
      <4> QED   BY <1>13, <3>1
    <3>3. Tree!Under(st, r[f], f)
      BY <1>1, <3>1, <3>2, UnderFacts
    <3>4. ASSUME NEW x \in Element, NotInto(st, x), ~ Tree!Under(st, f, x) PROVE ~ Tree!Under(st, r[f], x)
      <4>1. ~ Tree!Under(st, h, x)
        BY <3>1, <3>4 DEF NotInto
      <4> QED   BY <3>1, <3>2, <3>4, <4>1
    <3> QED   BY <3>1, <3>2, <3>3, <3>4
  <2> QED   BY <2>1, <2>2
<1> HIDE DEF P, m
<1>14. Element \subseteq P
  BY <1>5, <1>13, MeasureInduction
<1>15. Fine(e)
  BY <1>14 DEF P
<1> QED   BY <1>11, <1>15

(* What an element that exists is in exists.                               *)
LEMMA ExistingAbove ==
  ASSUME Tree!ElementsNested, NEW st, ShapeKept(st), NEW e \in Element, e \in st.existing, NEW f, Tree!Under(st, e, f)
  PROVE  f \in st.existing
<1> DEFINE p == Tree!Path(st, e)
<1>1. Forest(st.parent) /\ \A g \in Element : st.parent[g] # None => st.parent[g] \in st.existing
  BY DEF ShapeKept
<1>2. /\ Len(p) \in Nat /\ Len(p) >= 1 /\ p[1] = e /\ (\A i \in 1..Len(p) : p[i] \in Element)
      /\ (\A i \in 1..Len(p) : i < Len(p) => st.parent[p[i]] = p[i + 1] /\ st.parent[p[i]] # None)
  <2>1. OnPath(p, e, st.parent)
    BY <1>1, PathOfElement
  <2> HIDE DEF p
  <2> QED   BY <2>1 DEF OnPath
<1>3. PICK i \in 1..Len(p) : p[i] = f
  BY <1>1, UnderIs DEF Above
<1> HIDE DEF p
<1>4. CASE i = 1
  BY <1>2, <1>3, <1>4
<1>5. CASE i # 1
  <2>1. i - 1 \in 1..Len(p) /\ i - 1 < Len(p) /\ (i - 1) + 1 = i
    BY <1>2, <1>5
  <2>2. st.parent[p[i - 1]] = p[i] /\ st.parent[p[i - 1]] # None /\ p[i - 1] \in Element
    BY <1>2, <2>1
  <2> QED   BY <1>1, <1>3, <2>2
<1> QED   BY <1>4, <1>5

(* The focus of each scope on the way to the focus.                        *)
FocusOfScope(path, s) ==
  LET at == CHOOSE i \in 1..Len(path) : path[i] = s
      below == {i \in 1..at - 1 : i = 1 \/ path[i] \in Scope}
  IN  path[CHOOSE i \in below : \A j \in below : j <= i]

(* It is in the scope, with no other scope between them.                   *)
LEMMA FocusOfScopeFacts ==
  ASSUME Tree!ElementsNested, NEW st, ShapeKept(st), NEW e \in Element, e \in st.existing,
         NEW s \in Scope, Tree!Under(st, e, s), s # e
  PROVE  LET c == FocusOfScope(Tree!Path(st, e), s)
         IN  c \in Element /\ c \in st.existing /\ Tree!Under(st, e, c) /\ Tree!ScopeOf(st, c) = s
<1> DEFINE p == Tree!Path(st, e)
           at == CHOOSE i \in 1..Len(p) : p[i] = s
           below == {i \in 1..at - 1 : i = 1 \/ p[i] \in Scope}
           k == CHOOSE i \in below : \A j \in below : j <= i
<1>1. Forest(st.parent) /\ s \in Element
  BY Nesting DEF ShapeKept
<1>2. /\ Len(p) \in Nat /\ Len(p) >= 1 /\ p[1] = e /\ (\A i \in 1..Len(p) : p[i] \in Element)
      /\ (\A i, j \in 1..Len(p) : i # j => p[i] # p[j])
  <2>1. OnPath(p, e, st.parent)
    BY <1>1, PathOfElement
  <2> HIDE DEF p
  <2> QED   BY <2>1 DEF OnPath
<1>3. \A i \in 1..Len(p) : \A f : Tree!Under(st, p[i], f) <=> \E j \in i..Len(p) : p[j] = f
  BY <1>1, UnderOnPath
<1>4. \E i \in 1..Len(p) : p[i] = s
  BY <1>1, UnderIs DEF Above
<1>5. FocusOfScope(p, s) = p[k]
  BY DEF FocusOfScope
<1> HIDE DEF p
<1>6. at \in 1..Len(p) /\ p[at] = s
  BY <1>4
<1> HIDE DEF at
<1>7. at # 1 /\ 1 \in below /\ below \subseteq 0..Len(p)
  BY <1>2, <1>6
<1>8. k \in below /\ \A j \in below : j <= k
  <2> HIDE DEF below
  <2>1. \E i \in below : \A j \in below : j <= i
    BY <1>2, <1>7, GreatestNumber
  <2> QED   BY <2>1
<1> HIDE DEF k
<1>9. k \in 1..Len(p) /\ k < at
  BY <1>2, <1>6, <1>8
<1> DEFINE c == p[k]
<1>10. c \in Element /\ Tree!Under(st, e, c)
  BY <1>1, <1>2, <1>9, UnderIs DEF Above, p
<1>11. Tree!Under(st, c, s) /\ s # c
  <2>1. at \in k..Len(p) /\ k # at
    BY <1>2, <1>6, <1>9
  <2>2. Tree!Under(st, p[k], s)
    BY <1>3, <1>6, <1>9, <2>1
  <2> QED   BY <1>2, <1>6, <1>9, <2>1, <2>2
<1>12. ASSUME NEW g \in Scope, Tree!Under(st, c, g), g # c PROVE Tree!Under(st, s, g)
  <2>1. PICK j \in k..Len(p) : p[j] = g
    BY <1>3, <1>9, <1>12
  <2>2. j \in 1..Len(p) /\ j # k
    BY <1>2, <1>9, <1>12, <2>1
  <2>3. ASSUME j < at PROVE FALSE
    <3>1. j \in below
      BY <1>2, <1>6, <1>12, <2>1, <2>2, <2>3
    <3> QED   BY <1>8, <1>9, <2>1, <2>2, <3>1
  <2>4. j \in at..Len(p)
    BY <1>6, <2>2, <2>3
  <2> QED   BY <1>3, <1>6, <2>1, <2>4
<1>13. Tree!Nearest(st, c, Scope) = s
  <2> HIDE DEF c
  <2> QED   BY <1>1, <1>10, <1>11, <1>12, NearestIs
<1>14. c \in st.existing
  BY <1>10, ExistingAbove
<1> QED   BY <1>5, <1>10, <1>13, <1>14 DEF Tree!ScopeOf, p

(* The window of an element is its root, if that is one.                   *)
LEMMA WindowIsRoot ==
  \A st, e : Tree!WindowOf(st, e) = IF RootOf(st, e) \in Window THEN RootOf(st, e) ELSE None
BY DEF Tree!WindowOf, Tree!Last, RootOf, Last

(* What a request for the focus does, and when it is granted.              *)
Granted(st, e) == e = None \/ (st.focused \in Window /\ RootOf(st, e) = st.focused)
SameTree(st, u) ==
  u.parent = st.parent /\ u.existing = st.existing /\ u.marked = st.marked /\ u.focused = st.focused
FocusMoved(st, u, e) ==
  LET new == Tree!Innermost(st, e)
  IN  /\ SameTree(st, u) /\ u.capture = st.capture
      /\ ~ Granted(st, e) => u = st
      /\ Granted(st, e) => u.focus = new
      /\ \A s \in Scope : \/ u.scope[s] = st.scope[s]
                          \/ /\ new # None /\ u.scope[s] # None /\ Tree!Under(st, new, u.scope[s])
                             /\ Tree!ScopeOf(st, u.scope[s]) = s
(* A request for the focus keeps what is right of the tree.                *)
LEMMA FocusMoves ==
  ASSUME Tree!ElementsNested, NEW st, TreeRight(st), NEW e \in Element \cup {None}, e # None => e \in st.existing
  PROVE  LET u == Tree!SetFocusedElement(st, e)
         IN  TreeRight(u) /\ FocusMoved(st, u, e)
<1> DEFINE new == Tree!Innermost(st, e)
           path == Tree!Path(st, new)
           u == Tree!SetFocusedElement(st, e)
           scopes == [s \in Scope |-> IF s \in Tree!ToSet(path) \ {new} THEN FocusOfScope(path, s) ELSE st.scope[s]]
<1>1. st \in TreeStates /\ ShapeKept(st) /\ Forest(st.parent) /\ GroupsKept(st) /\ ScopesKept(st) /\ CapturesKept(st)
  BY DEF TreeRight, ShapeKept
<1>2. /\ e = None => new = None
      /\ e # None => new \in Element /\ new \in st.existing /\ Tree!Under(st, new, e)
  <2>1. e = None => new = None
    BY Zenon DEF Tree!Innermost
  <2>2. e # None => new \in Element /\ new \in st.existing /\ Tree!Under(st, new, e)
    BY InnermostFacts
  <2> QED   BY <2>1, <2>2
<1>3. u = IF (e # None /\ Tree!WindowOf(st, e) \notin {st.focused} \ {None}) \/ new = st.focus THEN st
          ELSE [st EXCEPT !.focus = new, !.groups = path, !.scope = scopes]
  BY Zenon DEF Tree!SetFocusedElement, FocusOfScope
<1>4. (e # None /\ Tree!WindowOf(st, e) \notin {st.focused} \ {None}) <=> ~ Granted(st, e)
  BY <1>1, WindowIsRoot, Nesting DEF Granted, TreeStates
<1>5. ASSUME NEW s \in Scope, s \in Tree!ToSet(path) \ {new}
      PROVE  /\ new # None /\ Tree!Under(st, new, scopes[s])
             /\ scopes[s] \in Element /\ scopes[s] \in st.existing
             /\ Tree!ScopeOf(st, scopes[s]) = s
  <2>1. new # None
    <3>1. new = None => path = <<>>
      BY <1>1, PathIsPath
    <3>2. Tree!ToSet(<<>>) = {}
      BY DEF Tree!ToSet
    <3> QED   BY <1>5, <3>1, <3>2
  <2>2. new \in Element /\ new \in st.existing /\ Tree!Under(st, new, s) /\ s # new
    BY <1>2, <1>5, <2>1 DEF Tree!Under
  <2>3. scopes[s] = FocusOfScope(path, s)
    BY <1>5
  <2> HIDE DEF scopes, path, new
  <2>4. path = Tree!Path(st, new)
    BY DEF path
  <2> QED   BY <1>1, <2>1, <2>2, <2>3, <2>4, FocusOfScopeFacts
<1>6. ASSUME NEW s \in Scope, s \notin Tree!ToSet(path) \ {new} PROVE scopes[s] = st.scope[s]
  BY <1>6
<1>7. path \in Seq(Element)
  <2>1. CASE new = None
    <3>1. path = Tree!Path(st, None)
      BY <2>1
    <3>2. path = <<>>
      BY <1>1, <3>1, PathIsPath
    <3> QED   BY <3>2
  <2>2. CASE new # None
    BY <1>1, <1>2, <2>2, PathIsPath DEF IsPath
  <2> QED   BY <2>1, <2>2
<1>8. scopes \in [Scope -> Element \cup {None}]
  <2>1. \A s \in Scope : st.scope[s] \in Element \cup {None}
    BY <1>1 DEF TreeStates
  <2>2. \A s \in Scope : scopes[s] \in Element \cup {None}
    BY <1>5, <1>6, <2>1
  <2> QED   BY <2>2
<1> HIDE DEF scopes, path, new
<1>9. CASE u = st /\ (Granted(st, e) => new = st.focus)
  <2>1. FocusMoved(st, st, e)
    BY <1>9 DEF FocusMoved, SameTree, new
  <2> QED   BY <1>9, <2>1
<1>10. CASE Granted(st, e) /\ u = [st EXCEPT !.focus = new, !.groups = path, !.scope = scopes]
  <2> HIDE DEF u
  <2>1. /\ u.parent = st.parent /\ u.existing = st.existing /\ u.marked = st.marked /\ u.focused = st.focused
        /\ u.capture = st.capture /\ u.focus = new /\ u.groups = path /\ u.scope = scopes /\ u \in TreeStates
    BY <1>1, <1>2, <1>7, <1>8, <1>10 DEF TreeStates
  <2>2. /\ \A f \in Element \cup {None} : /\ Tree!Path(u, f) = Tree!Path(st, f)
                                          /\ RootOf(u, f) = RootOf(st, f)
                                          /\ Tree!ScopeOf(u, f) = Tree!ScopeOf(st, f)
    BY <1>1, <2>1, SameParents
  <2>3. ShapeKept(u)
    BY <1>1, <2>1 DEF ShapeKept
  <2>4. GroupsKept(u)
    BY <1>2, <2>1, <2>2 DEF GroupsKept, path
  <2>5. ScopesKept(u)
    <3> SUFFICES ASSUME NEW s \in Scope, scopes[s] # None
                 PROVE  scopes[s] \in st.existing /\ Tree!ScopeOf(st, scopes[s]) = s
      BY <1>8, <2>1, <2>2 DEF ScopesKept
    <3>1. CASE s \in Tree!ToSet(path) \ {new}
      BY <1>5, <3>1
    <3>2. CASE s \notin Tree!ToSet(path) \ {new}
      BY <1>1, <1>6, <3>2 DEF ScopesKept
    <3> QED   BY <3>1, <3>2
  <2>6. CapturesKept(u)
    BY <1>1, <2>1, <2>2 DEF CapturesKept, TreeStates
  <2>7. ASSUME NEW s \in Scope
        PROVE  \/ u.scope[s] = st.scope[s]
               \/ /\ new # None /\ u.scope[s] # None /\ Tree!Under(st, new, u.scope[s])
                  /\ Tree!ScopeOf(st, u.scope[s]) = s
    <3>1. CASE s \in Tree!ToSet(path) \ {new}
      BY <1>5, <2>1, <3>1, NoneApart
    <3>2. CASE s \notin Tree!ToSet(path) \ {new}
      BY <1>6, <2>1, <3>2
    <3> QED   BY <3>1, <3>2
  <2>8. FocusMoved(st, u, e)
    BY <1>10, <2>1, <2>7 DEF FocusMoved, SameTree, new
  <2> QED   BY <2>1, <2>3, <2>4, <2>5, <2>6, <2>8 DEF TreeRight, u
<1> QED   BY <1>3, <1>4, <1>9, <1>10

-----------------------------------------------------------------------------
(* What is left of an element that is about to be removed.                 *)
FocusNotIn(st, e) == ~ Tree!Under(st, st.focus, e)
CaptureNotIn(st, e) == \A w \in Window : st.capture[w] # None => ~ Tree!Under(st, st.capture[w], e)

(* What does not come back.                                                *)
StaysLost(st, u) ==
  /\ st.focus = None => u.focus = None
  /\ \A w \in Window : st.capture[w] = None => u.capture[w] = None

LEMMA SameUnder ==
  ASSUME Tree!ElementsNested, NEW st, NEW u, Forest(st.parent), u.parent = st.parent
  PROVE  \A e \in Element \cup {None} : \A f : Tree!Under(u, e, f) <=> Tree!Under(st, e, f)
BY SameParents

(* The scope that an element is in forgets its focus, if that is within    *)
(* the element.                                                            *)
LEMMA ScopeLeftFacts ==
  ASSUME Tree!ElementsNested, NEW st, TreeOk(st), NEW e \in Element
  PROVE  LET u == Tree!ScopeLeft(st, e)
         IN  TreeOk(u) /\ SameTree(st, u) /\ NotInto(u, e) /\ StaysLost(st, u)
<1> DEFINE s == Tree!ScopeOf(st, e)
           u == Tree!ScopeLeft(st, e)
           leaves == s # None /\ st.scope[s] # None /\ Tree!Under(st, st.scope[s], e)
<1>1. /\ st \in TreeStates /\ ShapeKept(st) /\ Forest(st.parent) /\ GroupsKept(st) /\ ScopesKept(st)
      /\ CapturesKept(st) /\ FocusKept(st) /\ TreeRight(st)
  BY DEF TreeOk, TreeRight, ShapeKept
<1>2. u = IF leaves THEN [st EXCEPT !.scope[s] = None] ELSE st
  BY DEF Tree!ScopeLeft
<1>3. /\ s = None => \A g \in Scope : Tree!Under(st, e, g) => g = e
      /\ s # None => /\ s \in Scope /\ s # e /\ Tree!Under(st, e, s)
                     /\ \A g \in Scope : Tree!Under(st, e, g) /\ g # e => Tree!Under(st, s, g)
  BY <1>1, NearestFacts DEF Tree!ScopeOf
<1> HIDE DEF s
<1>4. ASSUME NEW t \in Scope, st.scope[t] # None, Tree!Under(st, st.scope[t], e), ~ Tree!Under(st, t, e)
      PROVE  leaves /\ s = t
  <2> DEFINE f == st.scope[t]
  <2>1. /\ f \in Element /\ Tree!Under(st, f, t) /\ Tree!Under(st, f, e) /\ t \in Element
        /\ \A g \in Scope : Tree!Under(st, f, g) /\ g # f => Tree!Under(st, t, g)
    BY <1>1, <1>4, ScopeFacts, Nesting
  <2> HIDE DEF f
  <2>2. Tree!Under(st, e, t) /\ t # e
    BY <1>1, <1>4, <2>1, UnderFacts
  <2>3. s \in Scope /\ s # e /\ s # None /\ Tree!Under(st, e, s) /\ Tree!Under(st, s, t) /\ s \in Element
    BY <1>3, <2>2, Nesting
  <2>4. Tree!Under(st, f, s)
    BY <1>1, <2>1, <2>3, UnderFacts
  <2>5. s # f
    BY <1>1, <2>1, <2>3, UnderFacts
  <2>6. Tree!Under(st, t, s)
    BY <2>1, <2>3, <2>4, <2>5
  <2>7. s = t
    BY <1>1, <2>1, <2>3, <2>6, UnderFacts
  <2> QED   BY <1>4, <2>3, <2>7
<1>5. CASE ~ leaves
  <2>1. u = st
    BY <1>2, <1>5
  <2> QED   BY <1>4, <1>5, <2>1 DEF SameTree, NotInto, StaysLost
<1>6. CASE leaves
  <2>1. u = [st EXCEPT !.scope[s] = None] /\ s \in Scope
    BY <1>2, <1>3, <1>6
  <2> HIDE DEF u
  <2>2. /\ u \in TreeStates /\ u.parent = st.parent /\ u.existing = st.existing /\ u.marked = st.marked
        /\ u.focus = st.focus /\ u.focused = st.focused /\ u.groups = st.groups /\ u.capture = st.capture
        /\ u.scope[s] = None /\ \A t \in Scope \ {s} : u.scope[t] = st.scope[t]
    BY <1>1, <2>1 DEF TreeStates
  <2>3. /\ \A f \in Element \cup {None} : /\ Tree!Path(u, f) = Tree!Path(st, f)
                                          /\ RootOf(u, f) = RootOf(st, f)
                                          /\ Tree!ScopeOf(u, f) = Tree!ScopeOf(st, f)
                                          /\ \A g : Tree!Under(u, f, g) <=> Tree!Under(st, f, g)
    BY <1>1, <2>2, SameParents
  <2>4. ShapeKept(u)
    BY <1>1, <2>2 DEF ShapeKept
  <2>5. GroupsKept(u) /\ FocusKept(u)
    BY <1>1, <2>2, <2>3 DEF GroupsKept, FocusKept, TreeStates
  <2>6. ScopesKept(u)
    <3> SUFFICES ASSUME NEW t \in Scope, u.scope[t] # None
                 PROVE  u.scope[t] \in st.existing /\ Tree!ScopeOf(u, u.scope[t]) = t
      BY <2>2 DEF ScopesKept
    <3>1. u.scope[t] = st.scope[t] /\ st.scope[t] \in Element \cup {None}
      BY <1>1, <2>2 DEF TreeStates
    <3> QED   BY <1>1, <2>3, <3>1 DEF ScopesKept
  <2>7. CapturesKept(u)
    BY <1>1, <2>2, <2>3 DEF CapturesKept, TreeStates
  <2>8. NotInto(u, e)
    <3> SUFFICES ASSUME NEW t \in Scope, u.scope[t] # None, Tree!Under(u, u.scope[t], e)
                 PROVE  Tree!Under(u, t, e)
      BY DEF NotInto
    <3>1. t # s /\ u.scope[t] = st.scope[t] /\ st.scope[t] \in Element \cup {None} /\ t \in Element
      BY <1>1, <2>2, Nesting DEF TreeStates
    <3> QED   BY <1>4, <2>3, <3>1
  <2> QED   BY <2>2, <2>4, <2>5, <2>6, <2>7, <2>8 DEF TreeOk, TreeRight, SameTree, StaysLost, u
<1> QED   BY <1>5, <1>6

(* The focus goes to what the element is in, and comes not back into it.   *)
LEMMA FocusLeftFacts ==
  ASSUME Tree!ElementsNested, NEW st, TreeOk(st), NEW e \in Element, NotInto(st, e)
  PROVE  LET u == Tree!FocusLeft(st, e)
         IN  TreeOk(u) /\ SameTree(st, u) /\ NotInto(u, e) /\ FocusNotIn(u, e) /\ StaysLost(st, u)
<1> DEFINE t == Tree!TakesOver(st, e)
           u == Tree!FocusLeft(st, e)
           new == Tree!Innermost(st, t)
<1>1. /\ st \in TreeStates /\ ShapeKept(st) /\ Forest(st.parent) /\ FocusKept(st) /\ TreeRight(st)
      /\ st.focus \in Element \cup {None}
  BY DEF TreeOk, TreeRight, ShapeKept, TreeStates
<1>2. u = IF Tree!Under(st, st.focus, e) THEN Tree!SetFocusedElement(st, t) ELSE st
  BY DEF Tree!FocusLeft
<1>3. CASE ~ Tree!Under(st, st.focus, e)
  BY <1>2, <1>3 DEF SameTree, FocusNotIn, StaysLost
<1>4. CASE Tree!Under(st, st.focus, e)
  <2>1. /\ st.focus \in Element /\ st.focus # None /\ st.focus \in st.existing /\ st.focused \in Window
        /\ RootOf(st, st.focus) = st.focused
    BY <1>1, <1>4, UnderIs DEF FocusKept
  <2>2. e \in st.existing /\ RootOf(st, e) = st.focused
    BY <1>1, <1>4, <2>1, UnderFacts, ExistingAbove
  <2>3. t # None => t \in Element /\ t # e /\ Tree!Under(st, e, t)
    BY <1>1, NearestFacts DEF Tree!TakesOver
  <2> HIDE DEF t
  <2>4. t # None => t \in st.existing /\ RootOf(st, t) = st.focused /\ ~ Tree!Under(st, t, e)
    BY <1>1, <2>2, <2>3, UnderFacts, ExistingAbove
  <2>5. t \in Element \cup {None} /\ Granted(st, t)
    BY <2>1, <2>3, <2>4 DEF Granted
  <2>6. TreeRight(u) /\ FocusMoved(st, u, t)
    BY <1>1, <1>2, <1>4, <2>4, <2>5, FocusMoves
  <2>7. /\ t = None => new = None
        /\ t # None => /\ new \in Element /\ new \in st.existing /\ RootOf(st, new) = st.focused
                       /\ ~ Tree!Under(st, new, e)
    <3>1. t = None => new = None
      BY Zenon DEF Tree!Innermost
    <3>2. ASSUME t # None PROVE new \in Element /\ new \in st.existing /\ Tree!Under(st, new, t) /\ ~ Tree!Under(st, new, e)
      BY <1>1, <2>3, <2>4, <3>2, InnermostFacts
    <3> HIDE DEF new
    <3> QED   BY <1>1, <2>4, <3>1, <3>2, UnderFacts
  <2> HIDE DEF u
  <2>8. /\ SameTree(st, u) /\ u.capture = st.capture /\ u.focus = new
        /\ \A s \in Scope : u.scope[s] = st.scope[s] \/ (new # None /\ u.scope[s] # None /\ Tree!Under(st, new, u.scope[s]))
    BY <2>5, <2>6 DEF FocusMoved
  <2> HIDE DEF new
  <2>9. \A f \in Element \cup {None} : /\ RootOf(u, f) = RootOf(st, f)
                                       /\ \A g : Tree!Under(u, f, g) <=> Tree!Under(st, f, g)
    BY <1>1, <2>8, SameParents DEF SameTree
  <2>10. new \in Element \cup {None} /\ ~ Tree!Under(st, new, e)
    BY <1>1, <2>7, UnderIs
  <2>11. FocusKept(u)
    BY <2>1, <2>7, <2>8, <2>9, <2>10 DEF FocusKept, SameTree
  <2>12. FocusNotIn(u, e)
    BY <2>8, <2>9, <2>10 DEF FocusNotIn
  <2>13. NotInto(u, e)
    <3> SUFFICES ASSUME NEW s \in Scope, u.scope[s] # None, Tree!Under(u, u.scope[s], e)
                 PROVE  Tree!Under(u, s, e)
      BY DEF NotInto
    <3>1. u.scope[s] \in Element /\ s \in Element
      BY <2>6, Nesting DEF TreeRight, TreeStates
    <3>2. Tree!Under(st, u.scope[s], e)
      BY <2>9, <3>1
    <3>3. ~ (new # None /\ Tree!Under(st, new, u.scope[s]))
      BY <1>1, <2>10, <3>2, UnderFacts
    <3>4. u.scope[s] = st.scope[s]
      BY <2>8, <3>3
    <3>5. Tree!Under(st, s, e)
      BY <3>2, <3>4 DEF NotInto
    <3> QED   BY <2>9, <3>1, <3>5
  <2>14. StaysLost(st, u)
    BY <2>1, <2>8 DEF StaysLost
  <2> QED   BY <2>6, <2>8, <2>11, <2>12, <2>13, <2>14 DEF TreeOk, u
<1> QED   BY <1>3, <1>4

(* The window that the element is in forgets a capture within the element. *)
LEMMA CaptureLeftFacts ==
  ASSUME Tree!ElementsNested, NEW st, TreeOk(st), NEW e \in Element
  PROVE  LET u == Tree!CaptureLeft(st, e)
         IN  /\ TreeOk(u) /\ SameTree(st, u) /\ CaptureNotIn(u, e) /\ StaysLost(st, u)
             /\ u.focus = st.focus /\ u.scope = st.scope
<1> DEFINE w == Tree!WindowOf(st, e)
           u == Tree!CaptureLeft(st, e)
           leaves == w # None /\ st.capture[w] # None /\ Tree!Under(st, st.capture[w], e)
<1>1. /\ st \in TreeStates /\ ShapeKept(st) /\ Forest(st.parent) /\ GroupsKept(st) /\ ScopesKept(st)
      /\ CapturesKept(st) /\ FocusKept(st)
  BY DEF TreeOk, TreeRight, ShapeKept
<1>2. u = IF leaves THEN [st EXCEPT !.capture[w] = None] ELSE st
  BY DEF Tree!CaptureLeft
<1>3. w = IF RootOf(st, e) \in Window THEN RootOf(st, e) ELSE None
  BY WindowIsRoot
<1> HIDE DEF w
<1>4. ASSUME NEW v \in Window, st.capture[v] # None, Tree!Under(st, st.capture[v], e) PROVE leaves /\ w = v
  <2>1. st.capture[v] \in Element /\ RootOf(st, st.capture[v]) = v
    BY <1>1, <1>4 DEF TreeStates, CapturesKept
  <2>2. RootOf(st, e) = v
    BY <1>1, <1>4, <2>1, UnderFacts
  <2> QED   BY <1>3, <1>4, <2>2, Nesting
<1>5. CASE ~ leaves
  BY <1>2, <1>4, <1>5 DEF SameTree, CaptureNotIn, StaysLost
<1>6. CASE leaves
  <2>1. u = [st EXCEPT !.capture[w] = None] /\ w \in Window
    BY <1>2, <1>3, <1>6
  <2> HIDE DEF u
  <2>2. /\ u \in TreeStates /\ u.parent = st.parent /\ u.existing = st.existing /\ u.marked = st.marked
        /\ u.focus = st.focus /\ u.focused = st.focused /\ u.groups = st.groups /\ u.scope = st.scope
        /\ u.capture[w] = None /\ \A v \in Window \ {w} : u.capture[v] = st.capture[v]
    BY <1>1, <2>1 DEF TreeStates
  <2>3. /\ \A f \in Element \cup {None} : /\ Tree!Path(u, f) = Tree!Path(st, f)
                                          /\ RootOf(u, f) = RootOf(st, f)
                                          /\ Tree!ScopeOf(u, f) = Tree!ScopeOf(st, f)
                                          /\ \A g : Tree!Under(u, f, g) <=> Tree!Under(st, f, g)
    BY <1>1, <2>2, SameParents
  <2>4. ShapeKept(u)
    BY <1>1, <2>2 DEF ShapeKept
  <2>5. GroupsKept(u) /\ FocusKept(u)
    BY <1>1, <2>2, <2>3 DEF GroupsKept, FocusKept, TreeStates
  <2>6. ScopesKept(u)
    BY <1>1, <2>2, <2>3 DEF ScopesKept, TreeStates
  <2>7. ASSUME NEW v \in Window, u.capture[v] # None
        PROVE  /\ u.capture[v] = st.capture[v] /\ u.capture[v] \in Element /\ v # w
               /\ u.capture[v] \in st.existing /\ RootOf(u, u.capture[v]) = v
    <3>1. v # w /\ u.capture[v] = st.capture[v] /\ st.capture[v] \in Element
      BY <1>1, <2>2, <2>7 DEF TreeStates
    <3> QED   BY <1>1, <2>3, <2>7, <3>1 DEF CapturesKept
  <2>8. CapturesKept(u)
    BY <2>2, <2>7 DEF CapturesKept
  <2>9. CaptureNotIn(u, e)
    BY <1>4, <2>3, <2>7 DEF CaptureNotIn
  <2>10. StaysLost(st, u)
    BY <2>2 DEF StaysLost
  <2> QED   BY <2>2, <2>4, <2>5, <2>6, <2>8, <2>9, <2>10 DEF TreeOk, TreeRight, SameTree, u
<1> QED   BY <1>5, <1>6

(* Nothing refers into an element that is about to be removed.             *)
LEMMA OnRemovingFacts ==
  ASSUME Tree!ElementsNested, NEW st, TreeOk(st), NEW e \in Element
  PROVE  LET u == Tree!OnRemoving(st, e)
         IN  /\ TreeOk(u) /\ SameTree(st, u) /\ StaysLost(st, u)
             /\ NotInto(u, e) /\ FocusNotIn(u, e) /\ CaptureNotIn(u, e)
<1> DEFINE a == Tree!ScopeLeft(st, e)
           b == Tree!FocusLeft(a, e)
           u == Tree!CaptureLeft(b, e)
<1>1. Tree!OnRemoving(st, e) = u
  BY DEF Tree!OnRemoving
<1>2. TreeOk(a) /\ SameTree(st, a) /\ NotInto(a, e) /\ StaysLost(st, a)
  BY ScopeLeftFacts
<1> HIDE DEF a
<1>3. TreeOk(b) /\ SameTree(a, b) /\ NotInto(b, e) /\ FocusNotIn(b, e) /\ StaysLost(a, b)
  BY <1>2, FocusLeftFacts
<1> HIDE DEF b
<1>4. TreeOk(u) /\ SameTree(b, u) /\ CaptureNotIn(u, e) /\ StaysLost(b, u) /\ u.focus = b.focus /\ u.scope = b.scope
  BY <1>3, CaptureLeftFacts
<1> HIDE DEF u
<1>5. /\ Forest(b.parent) /\ b.focus \in Element \cup {None}
      /\ \A s \in Scope : s \in Element /\ b.scope[s] \in Element \cup {None}
  BY <1>3, Nesting DEF TreeOk, TreeRight, ShapeKept, TreeStates
<1>6. \A f \in Element \cup {None} : \A g : Tree!Under(u, f, g) <=> Tree!Under(b, f, g)
  BY <1>4, <1>5, SameUnder DEF SameTree
<1>7. NotInto(u, e)
  BY <1>3, <1>4, <1>5, <1>6 DEF NotInto
<1>8. FocusNotIn(u, e)
  BY <1>3, <1>4, <1>5, <1>6 DEF FocusNotIn
<1> QED   BY <1>1, <1>2, <1>3, <1>4, <1>7, <1>8 DEF SameTree, StaysLost

(* Taking an element out of its parent cuts the paths that lead through it.*)
CutAt(st, u, e) == u.parent = [st.parent EXCEPT ![e] = None]

(* What was under the element stays under it, and the rest stays.          *)
LEMMA CutFacts ==
  ASSUME Tree!ElementsNested, NEW st, Forest(st.parent), NEW e \in Element, NEW u, CutAt(st, u, e)
  PROVE  /\ Forest(u.parent)
         /\ \A f \in Element : ~ Tree!Under(st, f, e) => Tree!Path(u, f) = Tree!Path(st, f)
         /\ \A f \in Element : \A g :
              Tree!Under(st, f, e) => (Tree!Under(u, f, g) <=> Tree!Under(st, f, g) /\ Tree!Under(st, g, e))
<1>1. st.parent \in Parents /\ u.parent \in Parents /\ \A f \in Element \ {e} : u.parent[f] = st.parent[f]
  BY DEF Forest, Parents, CutAt
<1>2. u.parent[e] = None
  BY <1>1 DEF Parents, CutAt
<1>3. Forest(u.parent)
  <2>1. PICK n \in Nat : \E rank \in [Element -> 0..n] : Ranked(st.parent, n, rank)
    BY DEF Forest
  <2>2. PICK rank \in [Element -> 0..n] : Ranked(st.parent, n, rank)
    BY <2>1
  <2>3. Ranked(u.parent, n, rank)
    BY <1>1, <1>2, <2>2 DEF Ranked
  <2> QED   BY <1>1, <2>3 DEF Forest
<1>4. ASSUME NEW f \in Element, ~ Tree!Under(st, f, e) PROVE Tree!Path(u, f) = Tree!Path(st, f)
  <2> DEFINE p == Tree!Path(st, f)
  <2>1. /\ IsPath(st.parent, p, f) /\ Len(p) \in Nat /\ Len(p) >= 1 /\ \A i \in 1..Len(p) : p[i] \in Element
    <3>1. OnPath(p, f, st.parent)
      BY PathOfElement
    <3> HIDE DEF p
    <3> QED   BY <3>1 DEF OnPath
  <2>2. \A i \in 1..Len(p) : p[i] # e
    BY <1>4, UnderIs DEF Above
  <2> HIDE DEF p
  <2>3. \A i \in 1..Len(p) : u.parent[p[i]] = st.parent[p[i]]
    BY <1>1, <2>1, <2>2
  <2>4. Len(p) \in 1..Len(p) /\ 1..Len(p) - 1 \subseteq 1..Len(p)
    BY <2>1
  <2>5. IsPath(u.parent, p, f)
    BY <2>1, <2>3, <2>4 DEF IsPath
  <2>6. IsPath(u.parent, Tree!Path(u, f), f)
    BY <1>3, PathIsPath
  <2> QED   BY <2>5, <2>6, OnePath DEF p
<1>5. ASSUME NEW f \in Element, Tree!Under(st, f, e)
      PROVE  \A g : Tree!Under(u, f, g) <=> Tree!Under(st, f, g) /\ Tree!Under(st, g, e)
  <2> DEFINE p == Tree!Path(st, f)
             q == Tree!Path(u, f)
  <2>1. /\ Len(p) \in Nat /\ Len(p) >= 1 /\ p[1] = f /\ (\A i \in 1..Len(p) : p[i] \in Element)
        /\ (\A i \in 1..Len(p) : i < Len(p) => st.parent[p[i]] = p[i + 1] /\ st.parent[p[i]] # None)
        /\ (\A i, j \in 1..Len(p) : i # j => p[i] # p[j]) /\ p \in Seq(Element)
    <3>1. OnPath(p, f, st.parent)
      BY PathOfElement
    <3> HIDE DEF p
    <3>2. IsPath(st.parent, p, f)
      BY <3>1 DEF OnPath
    <3>3. p \in Seq(Element)
      BY <3>2 DEF IsPath
    <3> QED   BY <3>1, <3>3 DEF OnPath
  <2>2. \A g : Tree!Under(st, f, g) <=> \E i \in 1..Len(p) : p[i] = g
    BY UnderIs DEF Above
  <2>3. \A i \in 1..Len(p) : \A g : Tree!Under(st, p[i], g) <=> \E j \in i..Len(p) : p[j] = g
    BY UnderAlong
  <2>4. \A g : Tree!Under(u, f, g) <=> \E i \in 1..Len(q) : q[i] = g
    BY <1>3, UnderIs DEF Above
  <2>5. IsPath(u.parent, q, f)
    BY <1>3, PathIsPath
  <2> HIDE DEF p, q
  <2>6. PICK k \in 1..Len(p) : p[k] = e
    BY <1>5, <2>2
  <2> DEFINE s == SubSeq(p, 1, k)
  <2>7. s \in Seq(Element) /\ Len(s) = k /\ \A i \in 1..k : s[i] = p[i]
    <3>1. k \in Int /\ 1 <= k /\ \A i \in 1..k : p[i] \in Element
      BY <2>1
    <3>2. s \in Seq(Element) /\ Len(s) = k - 1 + 1 /\ \A i \in 1..k - 1 + 1 : s[i] = p[1 + i - 1]
      BY <3>1, SubSeqProperties
    <3> HIDE DEF s
    <3> QED   BY <3>1, <3>2
  <2> HIDE DEF s
  <2>8. s[1] = f /\ Len(s) \in Nat \ {0} /\ u.parent[s[Len(s)]] = None
    <3>1. k \in Nat \ {0} /\ 1 \in 1..k /\ k \in 1..k
      BY <2>1
    <3>2. s[1] = f /\ s[k] = e
      BY <2>1, <2>6, <2>7, <3>1
    <3> QED   BY <1>2, <2>7, <3>1, <3>2
  <2>9. ASSUME NEW i \in 1..Len(s) - 1 PROVE u.parent[s[i]] = s[i + 1]
    <3>1. i \in 1..Len(p) /\ i < Len(p) /\ i # k /\ i \in 1..k /\ i + 1 \in 1..k
      BY <2>1, <2>7
    <3>2. p[i] # e /\ p[i] \in Element /\ st.parent[p[i]] = p[i + 1]
      BY <2>1, <2>6, <3>1
    <3> QED   BY <1>1, <2>7, <3>1, <3>2
  <2>10. IsPath(u.parent, s, f)
    BY <2>7, <2>8, <2>9 DEF IsPath
  <2>11. q = s
    BY <2>5, <2>10, OnePath
  <2>12. ASSUME NEW g, Tree!Under(u, f, g) PROVE Tree!Under(st, f, g) /\ Tree!Under(st, g, e)
    <3>1. PICK i \in 1..k : p[i] = g
      BY <2>4, <2>7, <2>11, <2>12
    <3>2. i \in 1..Len(p) /\ k \in i..Len(p)
      BY <2>1
    <3> QED   BY <2>2, <2>3, <2>6, <3>1, <3>2
  <2>13. ASSUME NEW g, Tree!Under(st, f, g), Tree!Under(st, g, e) PROVE Tree!Under(u, f, g)
    <3>1. PICK i \in 1..Len(p) : p[i] = g
      BY <2>2, <2>13
    <3>2. PICK j \in i..Len(p) : p[j] = e
      BY <2>3, <2>13, <3>1
    <3>3. j \in 1..Len(p)
      BY <2>1
    <3>4. j = k
      BY <2>1, <2>6, <3>2, <3>3
    <3>5. i \in 1..k
      BY <2>1, <3>4
    <3> QED   BY <2>4, <2>7, <2>11, <3>1, <3>5
  <2> QED   BY <2>12, <2>13
<1> QED   BY <1>3, <1>4, <1>5

(* Nothing refers into an element that was removed.                        *)
LEMMA RemoveChildFacts ==
  ASSUME Tree!ElementsNested, NEW st, TreeOk(st), NEW e \in Element
  PROVE  LET u == Tree!RemoveChild(st, e)
         IN  /\ TreeOk(u) /\ CutAt(st, u, e) /\ StaysLost(st, u)
             /\ u.existing = st.existing /\ u.marked = st.marked /\ u.focused = st.focused
<1> DEFINE v == Tree!OnRemoving(st, e)
           u == Tree!RemoveChild(st, e)
<1>1. u = [v EXCEPT !.parent[e] = None]
  BY DEF Tree!RemoveChild
<1>2. TreeOk(v) /\ SameTree(st, v) /\ StaysLost(st, v) /\ NotInto(v, e) /\ FocusNotIn(v, e) /\ CaptureNotIn(v, e)
  BY OnRemovingFacts
<1> HIDE DEF v, u
<1>3. /\ v \in TreeStates /\ ShapeKept(v) /\ Forest(v.parent) /\ GroupsKept(v) /\ ScopesKept(v)
      /\ CapturesKept(v) /\ FocusKept(v) /\ v.parent \in Parents
  BY <1>2 DEF TreeOk, TreeRight, ShapeKept, Forest
<1>4. /\ u.parent = [v.parent EXCEPT ![e] = None]
      /\ u.existing = v.existing /\ u.marked = v.marked /\ u.focus = v.focus
      /\ u.focused = v.focused /\ u.groups = v.groups /\ u.scope = v.scope /\ u.capture = v.capture
      /\ u \in TreeStates
  BY <1>1, <1>3 DEF TreeStates, Parents
<1>5. CutAt(v, u, e) /\ CutAt(st, u, e)
  BY <1>2, <1>4 DEF CutAt, SameTree
<1>6. /\ u.parent \in Parents /\ u.parent[e] = None /\ \A f \in Element \ {e} : u.parent[f] = v.parent[f]
  BY <1>3, <1>4 DEF Parents
<1>7. /\ Forest(u.parent)
      /\ \A f \in Element : ~ Tree!Under(v, f, e) => Tree!Path(u, f) = Tree!Path(v, f)
      /\ \A f \in Element : \A g :
           Tree!Under(v, f, e) => (Tree!Under(u, f, g) <=> Tree!Under(v, f, g) /\ Tree!Under(v, g, e))
  BY <1>3, <1>5, CutFacts
<1>8. ASSUME NEW f \in Element, ~ Tree!Under(v, f, e)
      PROVE  /\ RootOf(u, f) = RootOf(v, f) /\ Tree!ScopeOf(u, f) = Tree!ScopeOf(v, f)
             /\ Tree!Path(u, f) = Tree!Path(v, f)
  <2>1. Tree!Path(u, f) = Tree!Path(v, f)
    BY <1>7, <1>8
  <2> DEFINE above(p) == {i \in 2..Len(p) : p[i] \in Scope}
             found(p) == IF above(p) = {} THEN None ELSE p[CHOOSE i \in above(p) : \A j \in above(p) : i <= j]
  <2>2. \A w, g : Tree!ScopeOf(w, g) = found(Tree!Path(w, g))
    BY DEF Tree!ScopeOf, Tree!Nearest
  <2> HIDE DEF found
  <2> QED   BY <2>1, <2>2 DEF RootOf
<1>9. ShapeKept(u)
  BY <1>3, <1>4, <1>6, <1>7, Nesting DEF ShapeKept
<1>10. v.focus \in Element \cup {None} /\ (v.focus # None => ~ Tree!Under(v, v.focus, e))
  BY <1>2, <1>3 DEF TreeStates, FocusNotIn
<1>11. FocusKept(u)
  BY <1>3, <1>4, <1>8, <1>10 DEF FocusKept
<1>12. GroupsKept(u)
  <2>1. CASE v.focus = None
    BY <1>3, <1>4, <1>7, <2>1, PathIsPath DEF GroupsKept
  <2>2. CASE v.focus # None
    BY <1>3, <1>4, <1>8, <1>10, <2>2 DEF GroupsKept
  <2> QED   BY <2>1, <2>2
<1>13. ScopesKept(u)
  <2> SUFFICES ASSUME NEW s \in Scope, v.scope[s] # None
               PROVE  v.scope[s] \in v.existing /\ Tree!ScopeOf(u, v.scope[s]) = s
    BY <1>4 DEF ScopesKept
  <2> DEFINE f == v.scope[s]
  <2>1. /\ f \in Element /\ f \in v.existing /\ f # s /\ Tree!Under(v, f, s) /\ s \in Element
        /\ \A g \in Scope : Tree!Under(v, f, g) /\ g # f => Tree!Under(v, s, g)
    BY <1>2, ScopeFacts, Nesting DEF TreeOk
  <2>2. Tree!Under(v, f, e) => Tree!Under(v, s, e)
    BY <1>2 DEF NotInto
  <2>3. Tree!ScopeOf(v, f) = s
    BY <1>3 DEF ScopesKept
  <2> HIDE DEF f
  <2>4. CASE ~ Tree!Under(v, f, e)
    BY <1>8, <2>1, <2>3, <2>4 DEF f
  <2>5. CASE Tree!Under(v, f, e)
    <3>1. Tree!Under(u, f, s)
      BY <1>7, <2>1, <2>2, <2>5
    <3>2. ASSUME NEW g \in Scope, Tree!Under(u, f, g), g # f PROVE Tree!Under(u, s, g)
      BY <1>7, <2>1, <2>2, <2>5, <3>2
    <3>3. Tree!Nearest(u, f, Scope) = s
      BY <1>7, <2>1, <3>1, <3>2, NearestIs
    <3> QED   BY <2>1, <3>3 DEF Tree!ScopeOf, f
  <2> QED   BY <2>4, <2>5
<1>14. CapturesKept(u)
  <2> SUFFICES ASSUME NEW w \in Window, v.capture[w] # None
               PROVE  v.capture[w] \in v.existing /\ RootOf(u, v.capture[w]) = w
    BY <1>4 DEF CapturesKept
  <2>1. v.capture[w] \in Element /\ ~ Tree!Under(v, v.capture[w], e)
    BY <1>2, <1>3 DEF TreeStates, CaptureNotIn
  <2> QED   BY <1>3, <1>8, <2>1 DEF CapturesKept
<1>15. StaysLost(st, u)
  BY <1>2, <1>4 DEF StaysLost
<1> QED   BY <1>2, <1>4, <1>5, <1>9, <1>11, <1>12, <1>13, <1>14, <1>15 DEF TreeOk, TreeRight, SameTree, u

-----------------------------------------------------------------------------
(* What some removals leave.                                               *)
Lessened(st, u) ==
  /\ u.existing = st.existing /\ u.marked = st.marked /\ u.focused = st.focused /\ StaysLost(st, u)
  /\ \A f \in Element : u.parent[f] \in {st.parent[f], None}

(* Removing some elements one after the other.                             *)
LEMMA RemoveChildrenFacts ==
  ASSUME Tree!ElementsNested, NEW st, TreeOk(st), NEW n \in Nat, NEW elements \in [1..n -> Element]
  PROVE  LET u == Tree!RemoveChildren(st, elements)
         IN  TreeOk(u) /\ Lessened(st, u) /\ \A i \in 1..n : u.parent[elements[i]] = None
<1> DEFINE S == {v \in TreeStates : TreeOk(v)}
           F == [k \in 1..n |-> [v \in S |-> Tree!RemoveChild(v, elements[k])]]
           r == CHOOSE h : h = [k \in 0..n |-> IF k = 0 THEN st ELSE Tree!RemoveChild(h[k - 1], elements[k])]
<1>1. Len(elements) = n
  OBVIOUS
<1>2. ASSUME NEW k \in 1..n, NEW v \in S PROVE Tree!RemoveChild(v, elements[k]) \in S
  BY RemoveChildFacts DEF TreeOk, TreeRight
<1>3. st \in S /\ StaysIn(F, n, S)
  BY <1>2 DEF StaysIn, TreeOk, TreeRight
<1> HIDE DEF S
<1>4. PICK f \in [0..n -> S] : Repeats(f, F, n, st)
  <2> HIDE DEF F
  <2> QED   BY <1>3, RepeatedSteps
<1>5. f = [k \in 0..n |-> IF k = 0 THEN st ELSE Tree!RemoveChild(f[k - 1], elements[k])]
  <2>1. ASSUME NEW k \in 0..n PROVE f[k] = IF k = 0 THEN st ELSE Tree!RemoveChild(f[k - 1], elements[k])
    <3>1. CASE k = 0
      BY <1>4, <3>1 DEF Repeats
    <3>2. CASE k # 0
      <4>1. k \in 1..n /\ k - 1 \in 0..n /\ f[k - 1] \in S
        BY <1>4, <3>2
      <4>2. f[k] = F[k][f[k - 1]]
        <5> HIDE DEF F
        <5> QED   BY <1>4, <4>1 DEF Repeats
      <4> QED   BY <3>2, <4>1, <4>2
    <3> QED   BY <3>1, <3>2
  <2>2. f = [k \in 0..n |-> f[k]]
    BY <1>4
  <2> HIDE DEF F
  <2> QED   BY <2>1, <2>2, Zenon
<1>6. r = [k \in 0..n |-> IF k = 0 THEN st ELSE Tree!RemoveChild(r[k - 1], elements[k])]
  BY <1>5, Zenon
<1>7. Tree!RemoveChildren(st, elements) = r[n]
  BY <1>1, Zenon DEF Tree!RemoveChildren
<1> HIDE DEF r, F
<1> DEFINE Right(k) == TreeOk(r[k]) /\ Lessened(st, r[k]) /\ \A i \in 1..k : r[k].parent[elements[i]] = None
           P == {k \in Nat : k <= n => Right(k)}
<1>8. 0 \in P
  <2>1. r[0] = st
    BY <1>6
  <2> QED   BY <2>1 DEF Lessened, StaysLost
<1>9. ASSUME NEW k \in Nat, k \in P PROVE k + 1 \in P
  <2> SUFFICES ASSUME k + 1 <= n PROVE Right(k + 1)
    OBVIOUS
  <2>1. k + 1 \in 0..n /\ k + 1 # 0 /\ (k + 1) - 1 = k /\ k + 1 \in 1..n /\ Right(k)
    BY <1>9
  <2> DEFINE v == r[k]
             u == r[k + 1]
             e == elements[k + 1]
  <2>2. u = Tree!RemoveChild(v, e) /\ e \in Element
    BY <1>6, <2>1
  <2>3. TreeOk(v) /\ Lessened(st, v) /\ \A i \in 1..k : v.parent[elements[i]] = None
    BY <2>1
  <2> HIDE DEF v, e
  <2>4. /\ TreeOk(u) /\ CutAt(v, u, e) /\ StaysLost(v, u)
        /\ u.existing = v.existing /\ u.marked = v.marked /\ u.focused = v.focused
    BY <2>2, <2>3, RemoveChildFacts
  <2> HIDE DEF u
  <2>5. v.parent \in Parents
    BY <2>3 DEF TreeOk, TreeRight, TreeStates
  <2>6. u.parent[e] = None /\ \A g \in Element \ {e} : u.parent[g] = v.parent[g]
    BY <2>2, <2>4, <2>5 DEF CutAt, Parents
  <2>7. \A g \in Element : u.parent[g] \in {st.parent[g], None}
    BY <2>3, <2>6 DEF Lessened
  <2>8. Lessened(st, u)
    BY <2>3, <2>4, <2>7 DEF Lessened, StaysLost
  <2>9. ASSUME NEW i \in 1..k + 1 PROVE u.parent[elements[i]] = None
    <3>1. CASE i = k + 1
      BY <2>6, <3>1 DEF e
    <3>2. CASE i # k + 1
      <4>1. i \in 1..k /\ i \in 1..n
        BY <2>1, <3>2
      <4>2. v.parent[elements[i]] = None /\ elements[i] \in Element
        BY <2>3, <4>1
      <4> QED   BY <2>6, <4>2
    <3> QED   BY <3>1, <3>2
  <2> QED   BY <2>4, <2>8, <2>9 DEF u
<1> HIDE DEF P
<1>10. Nat \subseteq P
  BY <1>8, <1>9, InductionOnNumbers
<1>11. Right(n)
  BY <1>10 DEF P
<1> QED   BY <1>7, <1>11

(* What exists may be marked.                                              *)
LEMMA MarkedFacts ==
  ASSUME Tree!ElementsNested, NEW st, TreeOk(st), NEW m \in SUBSET st.existing
  PROVE  TreeOk([st EXCEPT !.marked = m])
<1> DEFINE u == [st EXCEPT !.marked = m]
<1>1. /\ st \in TreeStates /\ ShapeKept(st) /\ Forest(st.parent) /\ GroupsKept(st) /\ ScopesKept(st)
      /\ CapturesKept(st) /\ FocusKept(st)
  BY DEF TreeOk, TreeRight, ShapeKept
<1>2. /\ u \in TreeStates /\ u.parent = st.parent /\ u.existing = st.existing /\ u.marked = m
      /\ u.focus = st.focus /\ u.focused = st.focused /\ u.groups = st.groups /\ u.scope = st.scope
      /\ u.capture = st.capture
  BY <1>1 DEF TreeStates
<1> HIDE DEF u
<1>3. \A f \in Element \cup {None} : /\ Tree!Path(u, f) = Tree!Path(st, f)
                                     /\ RootOf(u, f) = RootOf(st, f)
                                     /\ Tree!ScopeOf(u, f) = Tree!ScopeOf(st, f)
  BY <1>1, <1>2, SameParents
<1>4. ShapeKept(u)
  BY <1>1, <1>2 DEF ShapeKept
<1>5. GroupsKept(u) /\ FocusKept(u)
  BY <1>1, <1>2, <1>3 DEF GroupsKept, FocusKept, TreeStates
<1>6. ScopesKept(u)
  BY <1>1, <1>2, <1>3 DEF ScopesKept, TreeStates
<1>7. CapturesKept(u)
  BY <1>1, <1>2, <1>3 DEF CapturesKept, TreeStates
<1> QED   BY <1>2, <1>4, <1>5, <1>6, <1>7 DEF TreeOk, TreeRight, u

(* The elements of a set, one after the other.                             *)
LEMMA ElementsInTurn ==
  ASSUME Tree!ElementsNested, NEW S \in SUBSET Element
  PROVE  \E n \in Nat :
           /\ Tree!SetToSeq(S) \in [1..n -> S] /\ Tree!SetToSeqs(S) \subseteq [1..n -> S]
           /\ \A x \in S : \E i \in 1..n : Tree!SetToSeq(S)[i] = x
<1> DEFINE n == Cardinality(S)
           s == Tree!SetToSeq(S)
<1>1. Tree!IsFiniteSet(Element) <=> IsFiniteSet(Element)
  BY DEF Tree!IsFiniteSet, IsFiniteSet
<1>2. IsFiniteSet(S)
  BY <1>1, FS_Subset DEF Tree!ElementsNested
<1>3. n \in Nat /\ ExistsBijection(1..n, S)
  BY <1>2, FS_CardinalityType
<1>4. Tree!Cardinality(S) = n
  BY DEF Tree!Cardinality, Cardinality
<1>5. Tree!SetToSeqs(S) \subseteq [1..n -> S]
  BY <1>4 DEF Tree!SetToSeqs
<1>6. s = CHOOSE f \in [1..n -> S] : Tree!IsInjective(f)
  BY <1>4 DEF Tree!SetToSeq
<1>7. \E f \in [1..n -> S] : Tree!IsInjective(f)
  <2>1. PICK f \in Bijection(1..n, S) : TRUE
    BY <1>3 DEF ExistsBijection
  <2>2. f \in [1..n -> S] /\ \A i, j \in 1..n : f[i] = f[j] => i = j
    BY <2>1 DEF Bijection, Injection, IsInjective
  <2> QED   BY <2>2 DEF Tree!IsInjective
<1> HIDE DEF n, s
<1>8. s \in [1..n -> S] /\ Tree!IsInjective(s)
  BY <1>6, <1>7
<1>9. s \in Surjection(1..n, S)
  <2>1. s \in Injection(1..n, S)
    BY <1>8 DEF Injection, IsInjective, Tree!IsInjective
  <2>2. Cardinality(1..n) = n /\ n = Cardinality(S)
    BY <1>3, FS_Interval DEF n
  <2> QED   BY <1>2, <2>1, <2>2, FS_Injection
<1>10. \A x \in S : \E i \in 1..n : s[i] = x
  BY <1>9 DEF Surjection
<1> QED   BY <1>3, <1>5, <1>8, <1>10 DEF s

(* An element without parent is by itself.                                 *)
LEMMA RootFacts ==
  ASSUME Tree!ElementsNested, NEW st, Forest(st.parent), NEW e \in Element, st.parent[e] = None
  PROVE  RootOf(st, e) = e /\ Tree!ScopeOf(st, e) = None
<1>1. RootOf(st, e) = e
  BY UnderFacts
<1>2. Tree!ScopeOf(st, e) = None
  BY NearestFacts, UnderFacts DEF Tree!ScopeOf
<1> QED   BY <1>1, <1>2

(* An element that nothing refers to can be deleted.                       *)
LEMMA DeletedFacts ==
  ASSUME Tree!ElementsNested, NEW st, TreeOk(st), NEW e \in Element,
         st.parent[e] = None, \A f \in Element : st.parent[f] # e,
         e \in Window => st.focus # e /\ st.capture[e] # e
  PROVE  TreeOk([st EXCEPT !.existing = @ \ {e}, !.marked = @ \ {e}])
<1> DEFINE u == [st EXCEPT !.existing = @ \ {e}, !.marked = @ \ {e}]
<1>1. /\ st \in TreeStates /\ ShapeKept(st) /\ Forest(st.parent) /\ GroupsKept(st) /\ ScopesKept(st)
      /\ CapturesKept(st) /\ FocusKept(st)
  BY DEF TreeOk, TreeRight, ShapeKept
<1>2. /\ u \in TreeStates /\ u.parent = st.parent /\ u.existing = st.existing \ {e} /\ u.marked = st.marked \ {e}
      /\ u.focus = st.focus /\ u.focused = st.focused /\ u.groups = st.groups /\ u.scope = st.scope
      /\ u.capture = st.capture
  BY <1>1 DEF TreeStates
<1> HIDE DEF u
<1>3. \A f \in Element \cup {None} : /\ Tree!Path(u, f) = Tree!Path(st, f)
                                     /\ RootOf(u, f) = RootOf(st, f)
                                     /\ Tree!ScopeOf(u, f) = Tree!ScopeOf(st, f)
  BY <1>1, <1>2, SameParents
<1>4. RootOf(st, e) = e /\ Tree!ScopeOf(st, e) = None /\ e # None
  BY <1>1, RootFacts, NoneApart
<1>5. ShapeKept(u)
  BY <1>1, <1>2 DEF ShapeKept
<1>6. st.focus # e
  BY <1>1, <1>4 DEF FocusKept
<1>7. GroupsKept(u) /\ FocusKept(u)
  BY <1>1, <1>2, <1>3, <1>6 DEF GroupsKept, FocusKept, TreeStates
<1>8. ScopesKept(u)
  <2> SUFFICES ASSUME NEW s \in Scope, st.scope[s] # None
               PROVE  st.scope[s] \in st.existing \ {e} /\ Tree!ScopeOf(u, st.scope[s]) = s
    BY <1>2 DEF ScopesKept
  <2>1. st.scope[s] \in Element /\ st.scope[s] \in st.existing /\ Tree!ScopeOf(st, st.scope[s]) = s /\ s # None
    BY <1>1, Nesting DEF ScopesKept, TreeStates
  <2> QED   BY <1>3, <1>4, <2>1
<1>9. CapturesKept(u)
  <2> SUFFICES ASSUME NEW w \in Window, st.capture[w] # None
               PROVE  st.capture[w] \in st.existing \ {e} /\ RootOf(u, st.capture[w]) = w
    BY <1>2 DEF CapturesKept
  <2>1. st.capture[w] \in Element /\ st.capture[w] \in st.existing /\ RootOf(st, st.capture[w]) = w
    BY <1>1 DEF CapturesKept, TreeStates
  <2>2. st.capture[w] # e
    BY <1>4, <2>1
  <2> QED   BY <1>3, <2>1, <2>2
<1> QED   BY <1>2, <1>5, <1>7, <1>8, <1>9 DEF TreeOk, TreeRight, u

(* A panel leaves no child behind, and an element that is deleted is       *)
(* referred to by nothing.                                                 *)
LEMMA DisposeElementFacts ==
  ASSUME Tree!ElementsNested, NEW st, TreeOk(st), NEW e \in Element
  PROVE  TreeOk(Tree!DisposeElement(st, e))
<1> DEFINE theirs == Tree!Children(st, e)
           order == Tree!SetToSeq(theirs)
           begun == IF e \in Window THEN Tree!OnRemoving(st, e) ELSE st
           told == [begun EXCEPT !.marked = @ \cup theirs]
           alone == Tree!RemoveChildren(told, order)
           gone == IF st.parent[e] = None THEN alone ELSE Tree!RemoveChild(alone, e)
<1>1. Tree!DisposeElement(st, e) = [gone EXCEPT !.existing = @ \ {e}, !.marked = @ \ {e}]
  BY Zenon DEF Tree!DisposeElement
<1>2. /\ TreeOk(begun) /\ SameTree(st, begun)
      /\ e \in Window => FocusNotIn(begun, e) /\ CaptureNotIn(begun, e)
  BY OnRemovingFacts DEF SameTree
<1>3. theirs \in SUBSET Element /\ \A f \in Element : st.parent[f] = e => f \in theirs
  BY DEF Tree!Children
<1>4. theirs \subseteq st.existing
  BY NoneApart DEF Tree!Children, TreeOk, TreeRight, ShapeKept
<1>5. PICK n \in Nat : order \in [1..n -> theirs] /\ \A f \in theirs : \E i \in 1..n : order[i] = f
  BY <1>3, ElementsInTurn
<1> HIDE DEF order, theirs, begun
<1>6. /\ TreeOk(told) /\ told.parent = st.parent /\ told.focus = begun.focus /\ told.focused = begun.focused
      /\ told.capture = begun.capture
  <2>1. begun \in TreeStates /\ begun.existing = st.existing /\ begun.parent = st.parent
    BY <1>2 DEF TreeOk, TreeRight, SameTree
  <2>2. begun.marked \cup theirs \in SUBSET begun.existing
    BY <1>2, <1>4, <2>1 DEF TreeOk, TreeRight, ShapeKept
  <2>3. TreeOk(told)
    BY <1>2, <2>2, MarkedFacts
  <2> QED   BY <2>1, <2>3 DEF TreeStates
<1> HIDE DEF told
<1>7. /\ TreeOk(alone) /\ Lessened(told, alone)
      /\ \A i \in 1..n : alone.parent[order[i]] = None
  <2>1. order \in [1..n -> Element]
    BY <1>3, <1>5
  <2> QED   BY <1>6, <2>1, RemoveChildrenFacts
<1> HIDE DEF alone
<1>8. \A f \in Element : alone.parent[f] # e
  <2> SUFFICES ASSUME NEW f \in Element, alone.parent[f] = e PROVE FALSE
    OBVIOUS
  <2>1. st.parent[f] = e
    BY <1>6, <1>7, NoneApart DEF Lessened
  <2>2. PICK i \in 1..n : order[i] = f
    BY <1>3, <1>5, <2>1
  <2> QED   BY <1>7, <2>2, NoneApart
<1>9. /\ TreeOk(gone) /\ gone.parent[e] = None
      /\ \A f \in Element : gone.parent[f] # e
  <2>1. CASE st.parent[e] = None
    <3>1. gone = alone
      BY <2>1
    <3>2. alone.parent[e] = None
      BY <1>6, <1>7, <2>1 DEF Lessened
    <3> QED   BY <1>7, <1>8, <3>1, <3>2
  <2>2. CASE st.parent[e] # None
    <3>1. gone = Tree!RemoveChild(alone, e)
      BY <2>2
    <3> HIDE DEF gone
    <3>2. TreeOk(gone) /\ CutAt(alone, gone, e)
      BY <1>7, <3>1, RemoveChildFacts
    <3>3. alone.parent \in Parents
      BY <1>7 DEF TreeOk, TreeRight, TreeStates
    <3>4. gone.parent[e] = None /\ \A f \in Element \ {e} : gone.parent[f] = alone.parent[f]
      BY <3>2, <3>3 DEF CutAt, Parents
    <3> QED   BY <1>8, <3>2, <3>4, NoneApart
  <2> QED   BY <2>1, <2>2
<1>10. ASSUME e \in Window PROVE gone.focus # e /\ gone.capture[e] # e
  <2>1. gone = alone
    BY <1>2, <1>10 DEF TreeOk, TreeRight, ShapeKept, SameTree
  <2>2. /\ begun \in TreeStates /\ Forest(begun.parent) /\ CapturesKept(begun) /\ FocusKept(begun) /\ begun.parent[e] = None
    BY <1>2, <1>10 DEF TreeOk, TreeRight, ShapeKept
  <2>3. FocusNotIn(begun, e) /\ CaptureNotIn(begun, e)
    BY <1>2, <1>10
  <2>4. begun.capture[e] = None
    <3> SUFFICES ASSUME begun.capture[e] # None PROVE FALSE
      OBVIOUS
    <3>1. begun.capture[e] \in Element /\ RootOf(begun, begun.capture[e]) = e
      BY <1>10, <2>2 DEF TreeStates, CapturesKept
    <3>2. Tree!Under(begun, begun.capture[e], e)
      BY <2>2, <3>1, UnderFacts
    <3> QED   BY <1>10, <2>3, <3>2 DEF CaptureNotIn
  <2>5. begun.focus = None \/ begun.focused # e
    <3> SUFFICES ASSUME begun.focus # None, begun.focused = e PROVE FALSE
      OBVIOUS
    <3>1. begun.focus \in Element /\ RootOf(begun, begun.focus) = e
      BY <2>2 DEF TreeStates, FocusKept
    <3>2. Tree!Under(begun, begun.focus, e)
      BY <2>2, <3>1, UnderFacts
    <3> QED   BY <2>3, <3>2 DEF FocusNotIn
  <2>6. alone.capture[e] = None /\ (alone.focus = None \/ alone.focused # e)
    BY <1>6, <1>7, <1>10, <2>4, <2>5 DEF Lessened, StaysLost
  <2>7. Forest(alone.parent) /\ FocusKept(alone) /\ alone.parent[e] = None
    BY <1>7, <1>10 DEF TreeOk, TreeRight, ShapeKept
  <2>8. RootOf(alone, e) = e
    BY <2>7, RootFacts
  <2> QED   BY <2>1, <2>6, <2>7, <2>8, NoneApart DEF FocusKept
<1> HIDE DEF gone
<1>11. TreeOk([gone EXCEPT !.existing = @ \ {e}, !.marked = @ \ {e}])
  BY <1>9, <1>10, DeletedFacts
<1> QED   BY <1>1, <1>11, Zenon

(* Disposing of some elements one after the other.                         *)
LEMMA DisposeElementsFacts ==
  ASSUME Tree!ElementsNested, NEW st, TreeOk(st), NEW n \in Nat, NEW elements \in [1..n -> Element]
  PROVE  TreeOk(Tree!DisposeElements(st, elements))
<1> DEFINE S == {v \in TreeStates : TreeOk(v)}
           F == [k \in 1..n |-> [v \in S |-> Tree!DisposeElement(v, elements[k])]]
           r == CHOOSE h : h = [k \in 0..n |-> IF k = 0 THEN st ELSE Tree!DisposeElement(h[k - 1], elements[k])]
<1>1. Len(elements) = n
  OBVIOUS
<1>2. ASSUME NEW k \in 1..n, NEW v \in S PROVE Tree!DisposeElement(v, elements[k]) \in S
  BY DisposeElementFacts DEF TreeOk, TreeRight
<1>3. st \in S /\ StaysIn(F, n, S)
  BY <1>2 DEF StaysIn, TreeOk, TreeRight
<1>4. \A v \in S : TreeOk(v)
  OBVIOUS
<1> HIDE DEF S
<1>5. PICK f \in [0..n -> S] : Repeats(f, F, n, st)
  <2> HIDE DEF F
  <2> QED   BY <1>3, RepeatedSteps
<1>6. f = [k \in 0..n |-> IF k = 0 THEN st ELSE Tree!DisposeElement(f[k - 1], elements[k])]
  <2>1. ASSUME NEW k \in 0..n PROVE f[k] = IF k = 0 THEN st ELSE Tree!DisposeElement(f[k - 1], elements[k])
    <3>1. CASE k = 0
      BY <1>5, <3>1 DEF Repeats
    <3>2. CASE k # 0
      <4>1. k \in 1..n /\ k - 1 \in 0..n /\ f[k - 1] \in S
        BY <1>5, <3>2
      <4>2. f[k] = F[k][f[k - 1]]
        <5> HIDE DEF F
        <5> QED   BY <1>5, <4>1 DEF Repeats
      <4> QED   BY <3>2, <4>1, <4>2
    <3> QED   BY <3>1, <3>2
  <2>2. f = [k \in 0..n |-> f[k]]
    BY <1>5
  <2> HIDE DEF F
  <2> QED   BY <2>1, <2>2, Zenon
<1>7. r = [k \in 0..n |-> IF k = 0 THEN st ELSE Tree!DisposeElement(r[k - 1], elements[k])]
  BY <1>6, Zenon
<1>8. Tree!DisposeElements(st, elements) = r[n]
  BY <1>1, Zenon DEF Tree!DisposeElements
<1> HIDE DEF r, F
<1> DEFINE P == {k \in Nat : k <= n => r[k] \in S}
<1>9. 0 \in P
  <2>1. r[0] = st
    BY <1>7
  <2> QED   BY <1>3, <2>1
<1>10. ASSUME NEW k \in Nat, k \in P PROVE k + 1 \in P
  <2> SUFFICES ASSUME k + 1 <= n PROVE r[k + 1] \in S
    OBVIOUS
  <2>1. k + 1 \in 0..n /\ k + 1 # 0 /\ (k + 1) - 1 = k /\ k + 1 \in 1..n /\ r[k] \in S
    BY <1>10
  <2>2. r[k + 1] = Tree!DisposeElement(r[k], elements[k + 1])
    BY <1>7, <2>1
  <2> QED   BY <1>2, <2>1, <2>2
<1> HIDE DEF P
<1>11. Nat \subseteq P
  BY <1>9, <1>10, InductionOnNumbers
<1>12. r[n] \in S
  BY <1>11 DEF P
<1> QED   BY <1>4, <1>8, <1>12

-----------------------------------------------------------------------------
(* The inductive invariant of the tree.                                    *)
TreeIInv == TreeOk(Tree!Now)

(* The state that an operation leads to.                                   *)
LEMMA BecomeKeeps ==
  ASSUME Tree!ElementsNested, NEW st, TreeOk(st), Tree!Become(st)
  PROVE  TreeIInv'
<1>1. st \in TreeStates
  BY DEF TreeOk, TreeRight
<1>2. (Tree!Now)' = st
  BY <1>1 DEF Tree!Now, Tree!Become, TreeStates
<1>3. TreeIInv' <=> TreeOk((Tree!Now)')
  BY DEF TreeIInv
<1> QED   BY <1>2, <1>3

(* What exists and is in the window may have the mouse captured.           *)
LEMMA CapturedFacts ==
  ASSUME Tree!ElementsNested, NEW st, TreeOk(st), NEW w \in Window, NEW e \in Element \cup {None},
         e # None => e \in st.existing /\ RootOf(st, e) = w
  PROVE  TreeOk([st EXCEPT !.capture = [@ EXCEPT ![w] = e]])
<1> DEFINE u == [st EXCEPT !.capture = [@ EXCEPT ![w] = e]]
<1>1. /\ st \in TreeStates /\ ShapeKept(st) /\ Forest(st.parent) /\ GroupsKept(st) /\ ScopesKept(st)
      /\ CapturesKept(st) /\ FocusKept(st)
  BY DEF TreeOk, TreeRight, ShapeKept
<1>2. /\ u \in TreeStates /\ u.parent = st.parent /\ u.existing = st.existing /\ u.marked = st.marked
      /\ u.focus = st.focus /\ u.focused = st.focused /\ u.groups = st.groups /\ u.scope = st.scope
      /\ u.capture[w] = e /\ \A v \in Window \ {w} : u.capture[v] = st.capture[v]
  BY <1>1 DEF TreeStates
<1> HIDE DEF u
<1>3. \A f \in Element \cup {None} : /\ Tree!Path(u, f) = Tree!Path(st, f)
                                     /\ RootOf(u, f) = RootOf(st, f)
                                     /\ Tree!ScopeOf(u, f) = Tree!ScopeOf(st, f)
  BY <1>1, <1>2, SameParents
<1>4. ShapeKept(u)
  BY <1>1, <1>2 DEF ShapeKept
<1>5. GroupsKept(u) /\ FocusKept(u)
  BY <1>1, <1>2, <1>3 DEF GroupsKept, FocusKept, TreeStates
<1>6. ScopesKept(u)
  BY <1>1, <1>2, <1>3 DEF ScopesKept, TreeStates
<1>7. CapturesKept(u)
  BY <1>1, <1>2, <1>3 DEF CapturesKept, TreeStates
<1> QED   BY <1>2, <1>4, <1>5, <1>6, <1>7 DEF TreeOk, TreeRight, u

(* After a request for the focus, which is refused or granted, the focus   *)
(* is in the focused window.                                               *)
LEMMA FocusedFacts ==
  ASSUME Tree!ElementsNested, NEW st, TreeRight(st), NEW e \in Element \cup {None}, e # None => e \in st.existing,
         TreeOk(st) \/ Granted(st, e)
  PROVE  TreeOk(Tree!SetFocusedElement(st, e))
<1> DEFINE u == Tree!SetFocusedElement(st, e)
           new == Tree!Innermost(st, e)
<1>1. TreeRight(u) /\ FocusMoved(st, u, e)
  BY FocusMoves
<1> HIDE DEF u
<1>2. CASE ~ Granted(st, e)
  BY <1>1, <1>2 DEF FocusMoved, u
<1>3. CASE Granted(st, e) /\ e = None
  <2>1. new = None
    BY <1>3, Zenon DEF Tree!Innermost
  <2>2. u.focus = None
    BY <1>1, <1>3, <2>1 DEF FocusMoved
  <2> QED   BY <1>1, <2>2 DEF TreeOk, FocusKept, u
<1>4. CASE Granted(st, e) /\ e # None
  <2>1. Forest(st.parent) /\ st.focused \in Window /\ RootOf(st, e) = st.focused /\ e \in Element
    BY <1>4 DEF Granted, TreeRight, ShapeKept
  <2>2. new \in Element /\ Tree!Under(st, new, e) /\ new \in st.existing
    BY <1>4, <2>1, InnermostFacts
  <2>3. u.focus = new /\ SameTree(st, u)
    BY <1>1, <1>4 DEF FocusMoved
  <2> HIDE DEF new
  <2>4. RootOf(st, new) = st.focused
    BY <2>1, <2>2, UnderFacts
  <2>5. RootOf(u, new) = st.focused
    BY <2>1, <2>2, <2>3, <2>4, SameParents DEF SameTree
  <2> QED   BY <1>1, <2>1, <2>2, <2>3, <2>5 DEF TreeOk, FocusKept, SameTree, u
<1> QED   BY <1>2, <1>3, <1>4

(* An element that is no window, and that p is not in, is added to p.      *)
LEMMA AddedFacts ==
  ASSUME Tree!ElementsNested, NEW st, TreeOk(st), NEW e \in st.existing, NEW p \in st.existing,
         e \notin Window, st.parent[e] = None, ~ Tree!Under(st, p, e)
  PROVE  TreeOk([st EXCEPT !.parent = [@ EXCEPT ![e] = p]])
<1> DEFINE u == [st EXCEPT !.parent = [@ EXCEPT ![e] = p]]
<1>1. /\ st \in TreeStates /\ ShapeKept(st) /\ Forest(st.parent) /\ GroupsKept(st) /\ ScopesKept(st)
      /\ CapturesKept(st) /\ FocusKept(st) /\ st.parent \in Parents /\ e \in Element /\ p \in Element
  BY DEF TreeOk, TreeRight, ShapeKept, TreeStates
<1>2. /\ u \in TreeStates /\ u.existing = st.existing /\ u.marked = st.marked
      /\ u.focus = st.focus /\ u.focused = st.focused /\ u.groups = st.groups /\ u.scope = st.scope
      /\ u.capture = st.capture /\ u.parent \in Parents
      /\ u.parent = [st.parent EXCEPT ![e] = p]
  BY <1>1 DEF TreeStates, Parents
<1> HIDE DEF u
<1>3. u.parent[e] = p /\ \A f \in Element \ {e} : u.parent[f] = st.parent[f]
  BY <1>1, <1>2 DEF Parents
<1>4. Forest(u.parent)
  <2>1. PICK n \in Nat : \E rank \in [Element -> 0..n] : Ranked(st.parent, n, rank)
    BY <1>1 DEF Forest
  <2>2. PICK rank \in [Element -> 0..n] : Ranked(st.parent, n, rank)
    BY <2>1
  <2>3. \A f \in Element : rank[f] \in 0..n /\ (st.parent[f] # None => rank[st.parent[f]] < rank[f])
    BY <2>2 DEF Ranked
  <2> DEFINE high == [f \in Element |-> IF Tree!Under(st, f, e) THEN rank[f] + rank[p] + 1 ELSE rank[f]]
             m == n + n + 1
  <2>4. m \in Nat /\ high \in [Element -> 0..m]
    BY <1>1, <2>3
  <2>5. ASSUME NEW f \in Element, u.parent[f] # None PROVE high[u.parent[f]] < high[f]
    <3>1. CASE f = e
      <4>1. Tree!Under(st, e, e)
        BY <1>1, UnderFacts
      <4>2. high[e] = rank[e] + rank[p] + 1 /\ high[p] = rank[p]
        BY <1>1, <4>1
      <4> HIDE DEF high
      <4> QED   BY <1>1, <1>3, <2>3, <3>1, <4>2
    <3>2. CASE f # e
      <4> DEFINE g == st.parent[f]
      <4>1. u.parent[f] = g /\ g \in Element /\ g # None /\ rank[g] < rank[f]
        BY <1>1, <1>3, <2>3, <2>5, <3>2 DEF Parents
      <4>2. Tree!Under(st, f, e) <=> Tree!Under(st, g, e)
        BY <1>1, <3>2, <4>1, UnderFacts
      <4> HIDE DEF g
      <4>3. /\ high[g] = IF Tree!Under(st, f, e) THEN rank[g] + rank[p] + 1 ELSE rank[g]
            /\ high[f] = IF Tree!Under(st, f, e) THEN rank[f] + rank[p] + 1 ELSE rank[f]
        BY <4>1, <4>2
      <4> HIDE DEF high
      <4> QED   BY <1>1, <2>3, <4>1, <4>3
    <3> QED   BY <3>1, <3>2
  <2> HIDE DEF high, m
  <2> QED   BY <1>2, <2>4, <2>5 DEF Forest, Ranked
<1>5. CutAt(u, st, e)
  <2>1. st.parent = [f \in Element |-> st.parent[f]] /\ u.parent = [f \in Element |-> u.parent[f]]
    BY <1>1, <1>2 DEF Parents
  <2>2. [u.parent EXCEPT ![e] = None] = [f \in Element |-> IF f = e THEN None ELSE u.parent[f]]
    BY <1>2, <2>1 DEF Parents
  <2>3. \A f \in Element : st.parent[f] = IF f = e THEN None ELSE u.parent[f]
    BY <1>3
  <2> QED   BY <2>1, <2>2, <2>3 DEF CutAt
<1>6. /\ \A f \in Element : ~ Tree!Under(u, f, e) => Tree!Path(st, f) = Tree!Path(u, f)
      /\ \A f \in Element : \A g :
           Tree!Under(u, f, e) => (Tree!Under(st, f, g) <=> Tree!Under(u, f, g) /\ Tree!Under(u, g, e))
  BY <1>1, <1>4, <1>5, CutFacts
<1>7. ASSUME NEW f \in Element, ~ Tree!Under(u, f, e)
      PROVE  /\ RootOf(u, f) = RootOf(st, f) /\ Tree!ScopeOf(u, f) = Tree!ScopeOf(st, f)
             /\ Tree!Path(u, f) = Tree!Path(st, f)
  <2>1. Tree!Path(u, f) = Tree!Path(st, f)
    BY <1>6, <1>7
  <2> DEFINE above(q) == {i \in 2..Len(q) : q[i] \in Scope}
             found(q) == IF above(q) = {} THEN None ELSE q[CHOOSE i \in above(q) : \A j \in above(q) : i <= j]
  <2>2. \A w, g : Tree!ScopeOf(w, g) = found(Tree!Path(w, g))
    BY DEF Tree!ScopeOf, Tree!Nearest
  <2> HIDE DEF found
  <2> QED   BY <2>1, <2>2 DEF RootOf
<1>8. ASSUME NEW f \in Element, RootOf(st, f) \in Window PROVE ~ Tree!Under(u, f, e)
  <2> SUFFICES ASSUME Tree!Under(u, f, e) PROVE FALSE
    OBVIOUS
  <2>1. Tree!Under(u, e, e)
    BY <1>1, <1>4, UnderFacts
  <2>2. Tree!Under(st, f, e)
    BY <1>6, <2>1
  <2>3. e = RootOf(st, f)
    BY <1>1, <2>2, UnderFacts
  <2> QED   BY <1>8, <2>3
<1>9. ShapeKept(u)
  <2>1. ASSUME NEW f \in Element, u.parent[f] # None PROVE f \in u.existing /\ u.parent[f] \in u.existing
    BY <1>1, <1>2, <1>3, <2>1 DEF ShapeKept
  <2>2. ASSUME NEW w \in Window PROVE u.parent[w] = None
    BY <1>1, <1>3, Nesting DEF ShapeKept
  <2> QED   BY <1>1, <1>2, <1>4, <2>1, <2>2 DEF ShapeKept
<1>10. GroupsKept(u) /\ FocusKept(u)
  <2>1. CASE st.focus = None
    <3>1. Tree!Path(st, None) = <<>> /\ Tree!Path(u, None) = <<>>
      BY <1>1, <1>4, PathIsPath
    <3> QED   BY <1>1, <1>2, <2>1, <3>1 DEF GroupsKept, FocusKept
  <2>2. CASE st.focus # None
    <3>1. st.focus \in Element /\ RootOf(st, st.focus) \in Window
      BY <1>1, <2>2 DEF TreeStates, FocusKept
    <3>2. RootOf(u, st.focus) = RootOf(st, st.focus) /\ Tree!Path(u, st.focus) = Tree!Path(st, st.focus)
      BY <1>7, <1>8, <3>1
    <3> QED   BY <1>1, <1>2, <3>2 DEF GroupsKept, FocusKept
  <2> QED   BY <2>1, <2>2
<1>11. CapturesKept(u)
  <2> SUFFICES ASSUME NEW w \in Window, st.capture[w] # None
               PROVE  st.capture[w] \in st.existing /\ RootOf(u, st.capture[w]) = w
    BY <1>2 DEF CapturesKept
  <2>1. st.capture[w] \in Element /\ st.capture[w] \in st.existing /\ RootOf(st, st.capture[w]) = w
    BY <1>1 DEF TreeStates, CapturesKept
  <2> QED   BY <1>7, <1>8, <2>1
<1>12. ScopesKept(u)
  <2> SUFFICES ASSUME NEW s \in Scope, st.scope[s] # None
               PROVE  st.scope[s] \in st.existing /\ Tree!ScopeOf(u, st.scope[s]) = s
    BY <1>2 DEF ScopesKept
  <2> DEFINE f == st.scope[s]
  <2>1. /\ f \in Element /\ f \in st.existing /\ f # s /\ Tree!Under(st, f, s) /\ s \in Element
        /\ \A g \in Scope : Tree!Under(st, f, g) /\ g # f => Tree!Under(st, s, g)
    BY ScopeFacts, Nesting DEF TreeOk
  <2>2. Tree!ScopeOf(st, f) = s
    BY <1>1 DEF ScopesKept
  <2> HIDE DEF f
  <2>3. CASE ~ Tree!Under(u, f, e)
    BY <1>7, <2>1, <2>2, <2>3 DEF f
  <2>4. CASE Tree!Under(u, f, e)
    <3>1. Tree!Under(u, f, s) /\ Tree!Under(u, s, e)
      BY <1>6, <2>1, <2>4
    <3>2. ASSUME NEW g \in Scope, Tree!Under(u, f, g), g # f PROVE Tree!Under(u, s, g)
      <4>1. g \in Element
        BY Nesting
      <4>2. CASE Tree!Under(u, g, e)
        <5>1. Tree!Under(st, s, g)
          BY <1>6, <2>1, <2>4, <3>2, <4>2
        <5> QED   BY <1>6, <2>1, <3>1, <5>1
      <4>3. CASE ~ Tree!Under(u, g, e)
        <5>1. Tree!Under(u, s, g) \/ Tree!Under(u, g, s)
          BY <1>4, <2>1, <3>1, <3>2, UnderFacts
        <5>2. Tree!Under(u, g, s) => Tree!Under(u, g, e)
          BY <1>4, <3>1, <4>1, UnderFacts
        <5> QED   BY <4>3, <5>1, <5>2
      <4> QED   BY <4>2, <4>3
    <3>3. Tree!Nearest(u, f, Scope) = s
      BY <1>4, <2>1, <3>1, <3>2, NearestIs
    <3> QED   BY <2>1, <3>3 DEF Tree!ScopeOf, f
  <2> QED   BY <2>3, <2>4
<1> QED   BY <1>2, <1>9, <1>10, <1>11, <1>12 DEF TreeOk, TreeRight, u

-----------------------------------------------------------------------------
(* At the beginning nothing refers to anything.                            *)
LEMMA TreeInit ==
  ASSUME Tree!ElementsNested, Tree!Init
  PROVE  TreeIInv
<1> SUFFICES TreeOk(Tree!Now)
  BY DEF TreeIInv
<1> DEFINE st == Tree!Now
<1>1. /\ st.parent = [e \in Element |-> None] /\ st.existing \in SUBSET Element /\ st.marked = {}
      /\ st.focus = None /\ st.focused = None /\ st.scope = [s \in Scope |-> None] /\ st.groups = <<>>
      /\ st.capture = [w \in Window |-> None]
  BY DEF Tree!Init, Tree!Now, Tree!kSubset
<1>2. st \in TreeStates
  BY DEF Tree!Init, Tree!Now, Tree!kSubset, TreeStates, Parents
<1> HIDE DEF st
<1>3. Forest(st.parent)
  <2> DEFINE rank == [e \in Element |-> 0]
  <2>1. rank \in [Element -> 0..0] /\ \A e \in Element : st.parent[e] = None
    BY <1>1
  <2>2. Ranked(st.parent, 0, rank)
    BY <2>1 DEF Ranked
  <2>3. \E r \in [Element -> 0..0] : Ranked(st.parent, 0, r)
    BY <2>1, <2>2
  <2> QED   BY <1>1, <2>3 DEF Forest, Parents
<1>4. ShapeKept(st)
  BY <1>1, <1>3, Nesting DEF ShapeKept
<1>5. GroupsKept(st) /\ FocusKept(st)
  BY <1>1, <1>3, PathIsPath DEF GroupsKept, FocusKept
<1>6. ScopesKept(st) /\ CapturesKept(st)
  BY <1>1 DEF ScopesKept, CapturesKept
<1> QED   BY <1>2, <1>4, <1>5, <1>6 DEF TreeOk, TreeRight, st

(* The state after an action that changes some variables directly.         *)
LEMMA NowFacts ==
  ASSUME Tree!ElementsNested, TreeIInv
  PROVE  /\ Tree!Now \in TreeStates /\ TreeOk(Tree!Now) /\ Forest(parent)
         /\ Tree!Now.parent = parent /\ Tree!Now.existing = existing /\ Tree!Now.marked = marked
         /\ Tree!Now.focus = focus /\ Tree!Now.focused = focusedWindow /\ Tree!Now.scope = scopeFocus
         /\ Tree!Now.groups = groups /\ Tree!Now.capture = capture
<1>1. Tree!Now \in TreeStates /\ TreeOk(Tree!Now) /\ Forest(Tree!Now.parent)
  BY DEF TreeIInv, TreeOk, TreeRight, ShapeKept
<1> QED   BY <1>1 DEF Tree!Now

(* Each action keeps the tree.                                             *)
LEMMA TreeAddKeeps ==
  ASSUME Tree!ElementsNested, TreeIInv, NEW e \in Element, NEW p \in Panel, Tree!Add(e, p)
  PROVE  TreeIInv'
<1> DEFINE u == [Tree!Now EXCEPT !.parent = [@ EXCEPT ![e] = p]]
<1>1. TreeOk(u)
  BY NowFacts, AddedFacts DEF Tree!Add
<1>2. Tree!Become(u)
  BY NowFacts DEF Tree!Add, Tree!Become, TreeStates
<1> HIDE DEF u
<1> QED   BY <1>1, <1>2, BecomeKeeps

LEMMA TreeRemoveKeeps ==
  ASSUME Tree!ElementsNested, TreeIInv, NEW e \in Element, Tree!RemoveElement(e)
  PROVE  TreeIInv'
<1>1. TreeOk(Tree!RemoveChild(Tree!Now, e))
  BY NowFacts, RemoveChildFacts
<1>2. Tree!Become(Tree!RemoveChild(Tree!Now, e))
  BY DEF Tree!RemoveElement
<1> QED   BY <1>1, <1>2, BecomeKeeps

LEMMA TreeMarkKeeps ==
  ASSUME Tree!ElementsNested, TreeIInv, NEW e \in Element, Tree!MarkForDisposal(e)
  PROVE  TreeIInv'
<1> DEFINE u == [Tree!Now EXCEPT !.marked = marked \cup {e}]
<1>1. marked \cup {e} \in SUBSET existing
  BY NowFacts DEF Tree!MarkForDisposal, TreeOk, TreeRight, ShapeKept
<1>2. TreeOk(u)
  BY <1>1, NowFacts, MarkedFacts
<1>3. Tree!Become(u)
  BY NowFacts DEF Tree!MarkForDisposal, Tree!Become, TreeStates
<1> HIDE DEF u
<1> QED   BY <1>2, <1>3, BecomeKeeps

LEMMA TreeDisposeKeeps ==
  ASSUME Tree!ElementsNested, TreeIInv, Tree!DisposeBatch
  PROVE  TreeIInv'
<1> DEFINE st == [Tree!Now EXCEPT !.marked = {}]
<1>1. TreeOk(st) /\ marked \in SUBSET Element
  BY NowFacts, MarkedFacts DEF TreeStates
<1> HIDE DEF st
<1>2. PICK batch \in Tree!SetToSeqs(marked) : Tree!Become(Tree!DisposeElements(st, batch))
  BY Zenon DEF Tree!DisposeBatch, st
<1>3. PICK n \in Nat : Tree!SetToSeqs(marked) \subseteq [1..n -> marked]
  BY <1>1, ElementsInTurn
<1>4. batch \in [1..n -> Element]
  BY <1>1, <1>3
<1>5. TreeOk(Tree!DisposeElements(st, batch))
  BY <1>1, <1>4, DisposeElementsFacts
<1> QED   BY <1>2, <1>5, BecomeKeeps

LEMMA TreeFocusKeeps ==
  ASSUME Tree!ElementsNested, TreeIInv, NEW e \in Element, Tree!Focus(e)
  PROVE  TreeIInv'
<1>1. e \in existing /\ Tree!Become(Tree!SetFocusedElement(Tree!Now, e))
  BY DEF Tree!Focus
<1>2. TreeOk(Tree!SetFocusedElement(Tree!Now, e))
  <2>1. TreeRight(Tree!Now) /\ TreeOk(Tree!Now) /\ e \in Tree!Now.existing
    BY <1>1, NowFacts DEF TreeOk
  <2> QED   BY <2>1, FocusedFacts
<1> QED   BY <1>1, <1>2, BecomeKeeps

LEMMA TreeSystemFocusKeeps ==
  ASSUME Tree!ElementsNested, TreeIInv, NEW w \in (Window \cap existing) \cup {None}, Tree!SystemFocus(w)
  PROVE  TreeIInv'
<1> DEFINE st == Tree!Now
           u == [st EXCEPT !.focused = w]
<1>1. /\ st \in TreeStates /\ ShapeKept(st) /\ Forest(st.parent) /\ GroupsKept(st) /\ ScopesKept(st)
      /\ CapturesKept(st) /\ st.existing = existing
  BY NowFacts DEF TreeOk, TreeRight, ShapeKept
<1>2. Tree!Become(Tree!SetFocusedElement(u, w))
  BY Zenon DEF Tree!SystemFocus
<1> HIDE DEF st
<1>3. /\ u \in TreeStates /\ u.parent = st.parent /\ u.existing = st.existing /\ u.marked = st.marked
      /\ u.focus = st.focus /\ u.focused = w /\ u.groups = st.groups /\ u.scope = st.scope
      /\ u.capture = st.capture
  BY <1>1 DEF TreeStates
<1> HIDE DEF u
<1>4. \A f \in Element \cup {None} : /\ Tree!Path(u, f) = Tree!Path(st, f)
                                     /\ RootOf(u, f) = RootOf(st, f)
                                     /\ Tree!ScopeOf(u, f) = Tree!ScopeOf(st, f)
  BY <1>1, <1>3, SameParents
<1>5. ShapeKept(u)
  BY <1>1, <1>3 DEF ShapeKept
<1>6. GroupsKept(u) /\ ScopesKept(u) /\ CapturesKept(u)
  BY <1>1, <1>3, <1>4 DEF GroupsKept, ScopesKept, CapturesKept, TreeStates
<1>7. Granted(u, w)
  <2>1. CASE w = None
    BY <2>1 DEF Granted
  <2>2. CASE w # None
    <3>1. w \in Window /\ w \in Element /\ u.parent[w] = None /\ Forest(u.parent)
      BY <1>5, <2>2, Nesting DEF ShapeKept
    <3>2. RootOf(u, w) = w
      BY <3>1, RootFacts
    <3> QED   BY <1>3, <3>1, <3>2 DEF Granted
  <2> QED   BY <2>1, <2>2
<1>8. w \in Element \cup {None} /\ (w # None => w \in u.existing)
  BY <1>1, <1>3, Nesting
<1>9. TreeOk(Tree!SetFocusedElement(u, w))
  BY <1>3, <1>5, <1>6, <1>7, <1>8, FocusedFacts DEF TreeRight
<1> QED   BY <1>2, <1>9, BecomeKeeps

LEMMA TreeCaptureKeeps ==
  ASSUME Tree!ElementsNested, TreeIInv, NEW e \in Element, Tree!SetMouseCapture(e)
  PROVE  TreeIInv'
<1> DEFINE w == Tree!WindowOf(Tree!Now, e)
           u == [Tree!Now EXCEPT !.capture = [@ EXCEPT ![w] = e]]
<1>1. e \in existing /\ w \in Window /\ RootOf(Tree!Now, e) = w /\ capture' = [capture EXCEPT ![w] = e]
  BY WindowIsRoot DEF Tree!SetMouseCapture
<1>2. TreeOk(u)
  BY <1>1, NowFacts, CapturedFacts
<1> HIDE DEF w
<1>3. Tree!Become(u)
  BY <1>1, NowFacts DEF Tree!SetMouseCapture, Tree!Become, TreeStates
<1> HIDE DEF u
<1> QED   BY <1>2, <1>3, BecomeKeeps

LEMMA TreeReleaseKeeps ==
  ASSUME Tree!ElementsNested, TreeIInv, NEW w \in Window, Tree!ReleaseMouseCapture(w)
  PROVE  TreeIInv'
<1> DEFINE u == [Tree!Now EXCEPT !.capture = [@ EXCEPT ![w] = None]]
<1>1. TreeOk(u)
  BY NowFacts, CapturedFacts
<1>2. Tree!Become(u)
  BY NowFacts DEF Tree!ReleaseMouseCapture, Tree!Become, TreeStates
<1> HIDE DEF u
<1> QED   BY <1>1, <1>2, BecomeKeeps

(* So does every step.                                                     *)
LEMMA TreeStep ==
  ASSUME Tree!ElementsNested, TreeIInv, [Tree!Next]_(Tree!vars)
  PROVE  TreeIInv'
<1>1. CASE UNCHANGED Tree!vars
  BY <1>1 DEF Tree!vars, TreeIInv, Tree!Now
<1>2. CASE Tree!Next
  BY <1>2, TreeAddKeeps, TreeRemoveKeeps, TreeMarkKeeps, TreeDisposeKeeps, TreeFocusKeeps, TreeSystemFocusKeeps,
     TreeCaptureKeeps, TreeReleaseKeeps DEF Tree!Next
<1> QED   BY <1>1, <1>2

(* What is kept includes what the run checks.                              *)
LEMMA TreeInvImplies ==
  ASSUME Tree!ElementsNested, TreeIInv
  PROVE  Tree!FocusInv
<1>1. /\ ShapeKept(Tree!Now) /\ Forest(parent) /\ GroupsKept(Tree!Now) /\ ScopesKept(Tree!Now)
      /\ CapturesKept(Tree!Now) /\ FocusKept(Tree!Now)
  BY NowFacts DEF TreeOk, TreeRight
<1>2. Tree!FocusAttached
  BY <1>1, NowFacts, WindowIsRoot DEF FocusKept, Tree!FocusAttached
<1>3. Tree!HotkeysFollowFocus
  BY <1>1, NowFacts DEF GroupsKept, Tree!HotkeysFollowFocus
<1>4. Tree!ScopeFocusWithin
  BY <1>1, NowFacts DEF ScopesKept, Tree!ScopeFocusWithin
<1>5. Tree!CaptureWithin
  BY <1>1, NowFacts, WindowIsRoot, Nesting DEF CapturesKept, Tree!CaptureWithin
<1>6. Tree!DeletedAreGone
  BY <1>1, NowFacts DEF ShapeKept, Tree!DeletedAreGone
<1> QED   BY <1>2, <1>3, <1>4, <1>5, <1>6 DEF Tree!FocusInv

(* Whatever is added, removed, marked and disposed of in batches, focused  *)
(* and captured, in any tree of any elements: the focus is an element of   *)
(* the focused window that exists, the hotkeys are those of what it is in, *)
(* the focus of a scope is in the scope with no other between them, a      *)
(* captured mouse is for an element of the window, and what was deleted is *)
(* out of the tree.                                                        *)
THEOREM FocusCorrect == Tree!ElementsNested => (Tree!Spec => []Tree!FocusInv)
<1> SUFFICES ASSUME Tree!ElementsNested PROVE Tree!Spec => []Tree!FocusInv
  OBVIOUS
<1>1. Tree!Init => TreeIInv
  BY TreeInit
<1>2. TreeIInv /\ [Tree!Next]_(Tree!vars) => TreeIInv'
  BY TreeStep
<1>3. TreeIInv => Tree!FocusInv
  BY TreeInvImplies
<1> QED   BY <1>1, <1>2, <1>3, PTL DEF Tree!Spec
=============================================================================
