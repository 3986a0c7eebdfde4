---------------------------- MODULE BufferManager ----------------------------
(***************************************************************************)
(* buffer_manager: the registry of open buffers and their interpretations, *)
(* which it does not keep alive, and the tag slots that plugins allocate   *)
(* in every interpretation.  A buffer lives as long as one of its          *)
(* interpretations or another owner, an interpretation as long as an       *)
(* owner; here owners are editors and commands on the main thread.         *)
(***************************************************************************)
EXTENDS Naturals, Sequences, FiniteSets, SequencesExt

CONSTANTS
  File,           \* canonical paths
  Buffer,         \* objects, by address
  Interpretation,
  Encoding,
  None,
  MaxTags         \* bound on the tag slots

(* Paths, numbers, objects and null are different things.                  *)
ObjectsApart ==
  /\ None \notin File \cup Nat \cup Buffer \cup Interpretation \cup [buffer : Buffer, encoding : Encoding]
  /\ File \cap Nat = {} /\ Buffer \cap Interpretation = {}
  /\ MaxTags \in Nat

VARIABLES
  fileMap,     \* _file_map
  nonameMap,   \* _noname_map
  nonameAlloc, \* _noname_alloc, a stack
  fileid,      \* buffer::_fileid of the buffers that exist
  registry,    \* _buffer_data::interpretations of each buffer
  interp,      \* the buffer and the encoding of the interpretations that exist
  owned,       \* what is held by an editor or a command
  tags,        \* interpretation::_tags
  tagAlloc,    \* _interpretation_tag_alloc, a stack
  tagMax,      \* _interpretation_tag_alloc_max
  tokens       \* the tokens that plugins hold

bufferVars == <<fileMap, nonameMap, nonameAlloc, fileid, registry>>
tagVars == <<tagAlloc, tagMax, tokens>>
vars == <<bufferVars, interp, owned, tags, tagVars>>

Open == {b \in Buffer : fileid[b] # None}
Existing == {i \in Interpretation : interp[i] # None}
InterpretationsOf(b) == {i \in Existing : interp[i].buffer = b}
NoInterpretations == [e \in Encoding |-> None]

Init ==
  /\ fileMap = [f \in File |-> None]
  /\ nonameMap = <<>>
  /\ nonameAlloc = <<>>
  /\ fileid = [b \in Buffer |-> None]
  /\ registry = [b \in Buffer |-> NoInterpretations]
  /\ interp = [i \in Interpretation |-> None]
  /\ owned = {}
  /\ tags = [i \in Interpretation |-> <<>>]
  /\ tagAlloc = <<>>
  /\ tagMax = 0
  /\ tokens = {}

-----------------------------------------------------------------------------
(* open_file(), of a file that is open already and of another             *)
OpenFile(f) ==
  /\ IF fileMap[f] # None
     THEN owned' = owned \cup {fileMap[f]} /\ UNCHANGED bufferVars
     ELSE \E b \in Buffer \ Open :
            /\ fileMap' = [fileMap EXCEPT ![f] = b]
            /\ fileid' = [fileid EXCEPT ![b] = f]
            /\ owned' = owned \cup {b}
            /\ UNCHANGED <<nonameMap, nonameAlloc, registry>>
  /\ UNCHANGED <<interp, tags, tagVars>>

NewFile(b) ==
  /\ b \notin Open
  /\ IF nonameAlloc = <<>>
     THEN /\ nonameMap' = Append(nonameMap, b)
          /\ fileid' = [fileid EXCEPT ![b] = Len(nonameMap) + 1]
          /\ UNCHANGED nonameAlloc
     ELSE /\ nonameMap' = [nonameMap EXCEPT ![Last(nonameAlloc)] = b]
          /\ fileid' = [fileid EXCEPT ![b] = Last(nonameAlloc)]
          /\ nonameAlloc' = Front(nonameAlloc)
  /\ owned' = owned \cup {b}
  /\ UNCHANGED <<fileMap, registry, interp, tags, tagVars>>

(* open_interpretation() *)
OpenInterpretation(b, e) ==
  /\ b \in Open
  /\ LET registered == registry[b][e]
     IN  IF registered # None
         THEN /\ owned' = owned \cup {registered}
              /\ UNCHANGED <<registry, interp, tags>>
         ELSE \E i \in Interpretation \ Existing :
                /\ registry' = [registry EXCEPT ![b][e] = i]
                /\ interp' = [interp EXCEPT ![i] = [buffer |-> b, encoding |-> e]]
                /\ tags' = [tags EXCEPT ![i] = [k \in 1..tagMax |-> "empty"]]
                /\ owned' = owned \cup {i}
  /\ UNCHANGED <<fileMap, nonameMap, nonameAlloc, fileid, tagVars>>

-----------------------------------------------------------------------------
(* _on_deleting_buffer(), by the destructor of the buffer *)
DeleteBuffer(b) ==
  /\ IF fileid[b] \in File
     THEN /\ fileMap' = [fileMap EXCEPT ![fileid[b]] = None]
          /\ UNCHANGED <<nonameMap, nonameAlloc>>
     ELSE /\ nonameMap' = [nonameMap EXCEPT ![fileid[b]] = None]
          /\ nonameAlloc' = Append(nonameAlloc, fileid[b])
          /\ UNCHANGED fileMap
  /\ fileid' = [fileid EXCEPT ![b] = None]
  /\ registry' = [registry EXCEPT ![b] = NoInterpretations]

(* The last owner of a buffer releases it. *)
ReleaseBuffer(b) ==
  /\ b \in owned
  /\ owned' = owned \ {b}
  /\ IF InterpretationsOf(b) = {} THEN DeleteBuffer(b) ELSE UNCHANGED bufferVars
  /\ UNCHANGED <<interp, tags, tagVars>>

(* The last owner of an interpretation releases it, which clears its tags  *)
(* and may have been the last to keep the buffer.                          *)
ReleaseInterpretation(i) ==
  LET b == interp[i].buffer
  IN  /\ i \in owned
      /\ owned' = owned \ {i}
      /\ interp' = [interp EXCEPT ![i] = None]
      /\ tags' = [tags EXCEPT ![i] = <<>>]
      /\ IF b \notin owned /\ InterpretationsOf(b) = {i} THEN DeleteBuffer(b)
         ELSE /\ registry' = [registry EXCEPT ![b][interp[i].encoding] = None]
              /\ UNCHANGED <<fileMap, nonameMap, nonameAlloc, fileid>>
      /\ UNCHANGED tagVars

-----------------------------------------------------------------------------
(* Mutant of Registered: buffers that have no file are left out.           *)
Registered_Files == {registry[fileMap[f]][e] : f \in {g \in File : fileMap[g] # None}, e \in Encoding} \ {None}

(* for_each_interpretation(), over what is in the registry *)
Registered ==
  LET buffers == ({fileMap[f] : f \in File} \cup ToSet(nonameMap)) \ {None}
  IN  {registry[b][e] : b \in buffers, e \in Encoding} \ {None}

(* allocate_interpretation_tag() *)
AllocateTag ==
  /\ IF tagAlloc = <<>>
     THEN /\ tagMax < MaxTags
          /\ tagMax' = tagMax + 1
          /\ tokens' = tokens \cup {tagMax'}
          /\ tags' = [i \in Interpretation |-> IF i \in Registered THEN Append(tags[i], "empty") ELSE tags[i]]
          /\ UNCHANGED tagAlloc
     ELSE /\ tokens' = tokens \cup {Last(tagAlloc)}
          /\ tagAlloc' = Front(tagAlloc)
          /\ UNCHANGED <<tags, tagMax>>
  /\ UNCHANGED <<bufferVars, interp, owned>>

(* deallocate_interpretation_tag() *)
Cleared(k) == [i \in Interpretation |-> IF i \in Registered THEN [tags[i] EXCEPT ![k] = "empty"] ELSE tags[i]]
DeallocateTag(k) ==
  /\ k \in tokens
  /\ tags' = Cleared(k)
  /\ tagAlloc' = Append(tagAlloc, k)
  /\ tokens' = tokens \ {k}
  /\ UNCHANGED <<bufferVars, interp, owned, tagMax>>

(* The owner of the token puts its data into an interpretation, when it is *)
(* created or later.                                                       *)
SetTag(i, k) ==
  /\ i \in Existing /\ k \in tokens
  /\ tags' = [tags EXCEPT ![i][k] = "set"]
  /\ UNCHANGED <<bufferVars, interp, owned, tagVars>>

Next ==
  \/ \E f \in File : OpenFile(f)
  \/ \E b \in Buffer : NewFile(b) \/ ReleaseBuffer(b)
  \/ \E b \in Buffer, e \in Encoding : OpenInterpretation(b, e)
  \/ \E i \in Interpretation : ReleaseInterpretation(i)
  \/ AllocateTag
  \/ \E k \in 1..MaxTags : DeallocateTag(k)
  \/ \E i \in Interpretation, k \in 1..MaxTags : SetTag(i, k)

Spec == Init /\ [][Next]_vars

-----------------------------------------------------------------------------
(* Every buffer is found by its path or its number, alone and while it     *)
(* exists, and a number that has no buffer will be given out once.         *)
BuffersFound ==
  /\ \A b \in Buffer, f \in File : fileMap[f] = b <=> fileid[b] = f
  /\ \A b \in Buffer, n \in DOMAIN nonameMap : nonameMap[n] = b <=> fileid[b] = n
  /\ \A b \in Open : fileid[b] \in File \cup DOMAIN nonameMap
  /\ IsInjective(nonameAlloc)
  /\ ToSet(nonameAlloc) = {n \in DOMAIN nonameMap : nonameMap[n] = None}

(* Two editors of a file in one encoding share an interpretation, and all  *)
(* that exist are in the registry.                                         *)
InterpretationsShared ==
  /\ \A i \in Existing : interp[i].buffer \in Open /\ registry[interp[i].buffer][interp[i].encoding] = i
  /\ Registered = Existing

(* Every interpretation has a slot for each token, and a slot that is free *)
(* is empty in all of them when it is allocated again.                     *)
TagsClean ==
  /\ IsInjective(tagAlloc) /\ ToSet(tagAlloc) = (1..tagMax) \ tokens
  /\ \A i \in Existing : Len(tags[i]) = tagMax /\ \A k \in ToSet(tagAlloc) : tags[i][k] = "empty"

BuffersInv == BuffersFound /\ InterpretationsShared /\ TagsClean
=============================================================================
