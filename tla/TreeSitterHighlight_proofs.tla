--------------------- MODULE TreeSitterHighlight_proofs ---------------------
(***************************************************************************)
(* Proofs about highlighting, for any number of tasks, workers and changes:*)
(* one task at a time, which finds its tag and its interpretation; nothing *)
(* changes under a task that reads; highlights are never replaced by older *)
(* ones.                                                                   *)
(***************************************************************************)
EXTENDS TreeSitterHighlight, QueueLemmas

(* Only the task that the tag refers to is ever queued or running, and a   *)
(* task has gone as far as its phase in the pool says.                     *)
TasksInv ==
  /\ \A t \in Tasks :
       /\ Active(t) => t = current
       /\ phase[t] \in {"new", "pending"} => at[t] = "lock"
       /\ phase[t] = "taken" => at[t] \notin {"destroy", "gone"}
       /\ phase[t] = "done" => at[t] \in {"moved", "return", "destroy", "gone"}
  /\ pending = IF current \in Tasks /\ phase[current] = "pending" THEN <<current>> ELSE <<>>

(* Every callback is queued once, after its task has computed the result,  *)
(* and runs alone.                                                         *)
ResultsInv ==
  /\ \A t \in Tasks :
       /\ at[t] \in {"lock", "reading", "check", "post", "return", "destroy"} => fate[t] = "new"
       /\ fate[t] = "waiting" <=> t \in ElementsOf(waiting)
       /\ fate[t] = "running" <=> running = t
  /\ NoRepetition(waiting)
  /\ running # NoTask => mpc \in {"callback", "crashed"}

(* An interpretation is destroyed by one thread, which has found that      *)
(* nobody else holds it, and while it is edited the editors hold it.       *)
Destroying(t) == at[t] = "destroy"
LifeInv ==
  /\ Held => alive
  /\ mpc = "destroy" \/ (\E t \in Tasks : Destroying(t)) => alive /\ ~Held
  /\ \A t \in Tasks : Destroying(t) => mpc # "destroy"
  /\ \A t, u \in Tasks : Destroying(t) /\ Destroying(u) => t = u
  /\ mpc \in {"begin", "acquire", "editing", "language"} => opened
  /\ mpc = "language" => tag

(* What the main thread has made sure of before it changes a version.      *)
ModesInv ==
  /\ mpc \in {"begin", "acquire", "editing"} => Below("text")
  /\ mpc = "language" => Below("lang")
  /\ mpc = "settings" => Below("config")
  /\ mpc \in {"acquire", "editing"} => \A t \in Tasks : ~Active(t)

(* What is shown, the results that wait, in order, what a task has read,   *)
(* and the current version are each not newer than the next.               *)
NotNewer(v, w) == v.text <= w.text /\ v.lang <= w.lang /\ v.config <= w.config
HasRead(t) == at[t] \in {"reading", "check", "post"}
VersionsInv ==
  /\ NotNewer(shown, version)
  /\ \A t \in Tasks :
       HasRead(t) \/ fate[t] = "waiting" => NotNewer(shown, input[t]) /\ NotNewer(input[t], version)
  /\ \A t, u \in Tasks : HasRead(t) /\ fate[u] = "waiting" => NotNewer(input[u], input[t])
  /\ \A i, j \in 1..Len(waiting) : i < j => NotNewer(input[waiting[i]], input[waiting[j]])

HighlightInv == TypeOK /\ TasksInv /\ ResultsInv /\ LifeInv /\ ModesInv /\ VersionsInv
-----------------------------------------------------------------------------
LEMMA VersionChanges ==
  ASSUME NEW v \in Versions, NEW n \in 0..MaxVersion
  PROVE  /\ [v EXCEPT !.text = n] \in Versions
         /\ [v EXCEPT !.lang = n] \in Versions
         /\ [v EXCEPT !.config = n] \in Versions
BY DEF Versions

LEMMA NoVersionInVersions == NoVersion \in Versions
BY HighlightAssumption DEF Versions, NoVersion

LEMMA NoVersionIsOldest == \A v \in Versions : NotNewer(NoVersion, v)
BY HighlightAssumption DEF Versions, NoVersion, NotNewer

LEMMA NotNewerTrans ==
  ASSUME NEW u \in Versions, NEW v \in Versions, NEW w \in Versions, NotNewer(u, v), NotNewer(v, w)
  PROVE  NotNewer(u, w)
BY HighlightAssumption DEF Versions, NotNewer

LEMMA InitKeepsInv == Init => HighlightInv
<1> SUFFICES ASSUME Init PROVE HighlightInv
  OBVIOUS
<1> USE HighlightAssumption DEF Init, Pool!Init, Queue!Init
<1>1. NoVersion \in Versions
  BY DEF Versions, NoVersion
<1>2. TypeOK
  <2>1. pending \in Seq(Tasks) /\ waiting \in Seq(Tasks)
    OBVIOUS
  <2>2. input \in [Tasks -> Versions] /\ version \in Versions /\ shown \in Versions
    BY <1>1
  <2> QED   BY <2>1, <2>2 DEF TypeOK, TaskLabels, MainLabels
<1>3. TasksInv
  BY DEF TasksInv, Active
<1>4. ResultsInv
  BY DEF ResultsInv, ElementsOf, NoRepetition
<1>5. LifeInv
  BY DEF LifeInv, Held, TaskHolds, Destroying
<1>6. ModesInv
  BY DEF ModesInv
<1>7. VersionsInv
  BY DEF VersionsInv, NotNewer, HasRead, NoVersion
<1> QED   BY <1>2, <1>3, <1>4, <1>5, <1>6, <1>7 DEF HighlightInv

(* Whoever has waited for the task knows that none is queued or running.   *)
LEMMA WaitedIsQuiet ==
  ASSUME TypeOK, TasksInv, Waited
  PROVE  (\A t \in Tasks : ~Active(t)) /\ pending = <<>>
BY HighlightAssumption DEF TypeOK, TasksInv, Waited, HasTask, Active

(* The main thread starts a task when it knows that none is active.        *)
LEMMA StartKeepsTasks ==
  ASSUME TypeOK, TasksInv, NEW t \in Unstarted, Start(t), UNCHANGED taskVars, \A u \in Tasks : ~Active(u)
  PROVE  /\ phase' \in [Tasks -> {"new", "pending", "taken", "done"}]
         /\ pending' \in Seq(Tasks)
         /\ current' \in Tasks
         /\ TasksInv'
<1> USE DEF Start, Unstarted, Pool!Submit, taskVars
<1>1. pending = <<>>
  BY HighlightAssumption DEF TypeOK, TasksInv, Active
<1>2. pending' = <<t>>
  BY <1>1
<1> QED   BY <1>1, <1>2, HighlightAssumption DEF TypeOK, TasksInv, Active

(* A worker takes the task that waits, which is the current one.           *)
LEMMA TakeKeepsInv ==
  ASSUME HighlightInv, Take
  PROVE  HighlightInv'
<1> USE HighlightAssumption DEF HighlightInv, Take, Pool!Take, poolVars, queueVars, taskVars, bufferVars, tagVars, objectVars
<1>1. current \in Tasks /\ phase[current] = "pending" /\ pending = <<current>>
  BY DEF TypeOK, TasksInv
<1>2. phase' = [phase EXCEPT ![current] = "taken"] /\ pending' = <<>>
  BY <1>1
<1>3. TypeOK'
  BY <1>1, <1>2 DEF TypeOK
<1>4. TasksInv'
  BY <1>1, <1>2 DEF TasksInv, TypeOK, Active
<1>5. ResultsInv'
  BY DEF ResultsInv
<1>6. LifeInv'
  BY <1>1, <1>2 DEF LifeInv, Held, TaskHolds, Destroying, TypeOK
<1>7. ModesInv'
  BY <1>1, <1>2 DEF ModesInv, Below, Active, TypeOK
<1>8. VersionsInv'
  BY DEF VersionsInv, HasRead
<1> QED   BY <1>3, <1>4, <1>5, <1>6, <1>7, <1>8

(* What a worker does in execute() and after it.                           *)
LEMMA TaskStepKeepsInv ==
  ASSUME HighlightInv, NEW t \in Tasks, TaskStep(t)
  PROVE  HighlightInv'
<1> USE HighlightAssumption DEF HighlightInv, poolVars, queueVars, taskVars, bufferVars, tagVars, objectVars
<1>1. CASE BeginRead(t)
  <2> USE <1>1 DEF BeginRead
  <2>1. TypeOK'
    BY DEF TypeOK, TaskLabels
  <2>2. TasksInv'
    BY DEF TasksInv, TypeOK, Active
  <2>3. ResultsInv'
    BY DEF ResultsInv, TasksInv, TypeOK, Active
  <2>4. LifeInv'
    BY DEF LifeInv, Destroying, Held, TaskHolds, TypeOK, TasksInv, ResultsInv
  <2>5. ModesInv'
    BY DEF ModesInv, Below, TypeOK, TasksInv, Active, LifeInv
  <2>6. VersionsInv'
    <3>1. input'[t] = version /\ \A u \in Tasks \ {t} : input'[u] = input[u]
      BY DEF TypeOK
    <3>2. fate[t] # "waiting" /\ t \notin ElementsOf(waiting)
      BY DEF ResultsInv
    <3>3. \A i \in 1..Len(waiting) : waiting[i] \in Tasks \ {t}
      BY <3>2 DEF TypeOK, ElementsOf
    <3>4. \A u \in Tasks \ {t} : ~HasRead(u)'
      BY DEF HasRead, TasksInv, TypeOK, Active
    <3>5. NotNewer(version, version)
      BY DEF NotNewer, TypeOK, Versions
    <3> QED   BY <3>1, <3>2, <3>3, <3>4, <3>5 DEF VersionsInv, NotNewer
  <2> QED   BY <2>1, <2>2, <2>3, <2>4, <2>5, <2>6
<1>2. CASE EndRead(t)
  <2> USE <1>2 DEF EndRead
  <2>1. TypeOK'
    BY DEF TypeOK, TaskLabels
  <2>2. TasksInv'
    BY DEF TasksInv, TypeOK, Active
  <2>3. ResultsInv'
    BY DEF ResultsInv, TasksInv, TypeOK, Active
  <2>4. LifeInv'
    BY DEF LifeInv, Destroying, Held, TaskHolds, TypeOK, TasksInv, ResultsInv
  <2>5. ModesInv'
    BY DEF ModesInv, Below, TypeOK, TasksInv, Active, LifeInv
  <2>6. VersionsInv'
    BY DEF VersionsInv, NotNewer, HasRead, TypeOK, TasksInv, ResultsInv, Active
  <2> QED   BY <2>1, <2>2, <2>3, <2>4, <2>5, <2>6
<1>3. CASE CheckCancelled(t)
  <2> USE <1>3 DEF CheckCancelled
  <2>1. TypeOK'
    BY DEF TypeOK, TaskLabels
  <2>2. TasksInv'
    BY DEF TasksInv, TypeOK, Active
  <2>3. ResultsInv'
    BY DEF ResultsInv, TasksInv, TypeOK, Active
  <2>4. LifeInv'
    BY DEF LifeInv, Destroying, Held, TaskHolds, TypeOK, TasksInv, ResultsInv
  <2>5. ModesInv'
    BY DEF ModesInv, Below, TypeOK, TasksInv, Active, LifeInv
  <2>6. VersionsInv'
    BY DEF VersionsInv, NotNewer, HasRead, TypeOK, TasksInv, ResultsInv, Active
  <2> QED   BY <2>1, <2>2, <2>3, <2>4, <2>5, <2>6
<1>4. CASE PostResult(t)
  <2> USE <1>4 DEF PostResult
  <2>1. TypeOK'
    BY DEF TypeOK, TaskLabels, Queue!Post
  <2>2. TasksInv'
    BY DEF TasksInv, TypeOK, Active
  <2>3. ResultsInv'
    <3>1. waiting' = Append(waiting, t) /\ waiting \in Seq(Tasks) /\ t \notin ElementsOf(waiting)
      BY DEF TypeOK, ResultsInv, Queue!Post
    <3>2. NoRepetition(Append(waiting, t)) /\ ElementsOf(Append(waiting, t)) = ElementsOf(waiting) \cup {t}
      <4>1. NoRepetition(waiting)
        BY DEF ResultsInv
      <4> QED   BY <3>1, <4>1, AppendElements, Zenon
    <3>3. NoRepetition(waiting') /\ ElementsOf(waiting') = ElementsOf(waiting) \cup {t}
      BY <3>1, <3>2
    <3> QED   BY <3>3 DEF ResultsInv, TasksInv, TypeOK, Active, Queue!Post
  <2>4. LifeInv'
    BY DEF LifeInv, Destroying, Held, TaskHolds, TypeOK, TasksInv, ResultsInv, Queue!Post
  <2>5. ModesInv'
    BY DEF ModesInv, Below, TypeOK, TasksInv, Active, LifeInv
  <2>6. VersionsInv'
    <3>1. waiting' = Append(waiting, t) /\ waiting \in Seq(Tasks) /\ Len(waiting) \in Nat
      BY DEF TypeOK, Queue!Post
    <3>2. /\ Len(waiting') = Len(waiting) + 1 /\ waiting'[Len(waiting) + 1] = t
          /\ \A i \in 1..Len(waiting) : waiting'[i] = waiting[i]
      BY <3>1, AppendProperties
    <3>3. \A i \in 1..Len(waiting) : waiting[i] \in Tasks /\ fate[waiting[i]] = "waiting"
      BY DEF ResultsInv, TypeOK, ElementsOf
    <3>4. \A u \in Tasks : HasRead(u) => u = t
      BY DEF HasRead, TasksInv, TypeOK, Active
    <3>5. \A u \in Tasks : ~HasRead(u)'
      BY <3>4 DEF HasRead, TypeOK
    <3>6. \A u \in Tasks : fate'[u] = "waiting" => u = t \/ fate[u] = "waiting"
      BY DEF Queue!Post, TypeOK
    <3>7. HasRead(t)
      BY DEF HasRead
    <3>8. \A i, j \in 1..Len(waiting') : i < j => NotNewer(input[waiting'[i]], input[waiting'[j]])
      <4> SUFFICES ASSUME NEW i \in 1..Len(waiting'), NEW j \in 1..Len(waiting'), i < j
                   PROVE  NotNewer(input[waiting'[i]], input[waiting'[j]])
        OBVIOUS
      <4>1. CASE j = Len(waiting) + 1
        <5>1. i \in 1..Len(waiting) /\ waiting'[i] = waiting[i] /\ waiting'[j] = t
          BY <3>1, <3>2, <4>1
        <5> QED   BY <3>3, <3>7, <5>1, Zenon DEF VersionsInv
      <4>2. CASE j # Len(waiting) + 1
        <5>1. /\ i \in 1..Len(waiting) /\ waiting'[i] = waiting[i]
              /\ j \in 1..Len(waiting) /\ waiting'[j] = waiting[j]
          BY <3>1, <3>2, <4>2
        <5> QED   BY <5>1, Zenon DEF VersionsInv
      <4> QED   BY <4>1, <4>2
    <3> QED   BY <3>5, <3>6, <3>7, <3>8, Zenon DEF VersionsInv, NotNewer
  <2> QED   BY <2>1, <2>2, <2>3, <2>4, <2>5, <2>6
<1>5. CASE Finish(t)
  <2> USE <1>5 DEF Finish, Pool!Complete
  <2>1. TypeOK'
    BY DEF TypeOK
  <2>2. TasksInv'
    BY DEF TasksInv, TypeOK, Active
  <2>3. ResultsInv'
    BY DEF ResultsInv, TasksInv, TypeOK, Active
  <2>4. LifeInv'
    BY DEF LifeInv, Destroying, Held, TaskHolds, TypeOK, TasksInv, ResultsInv
  <2>5. ModesInv'
    BY DEF ModesInv, Below, TypeOK, TasksInv, Active, LifeInv
  <2>6. VersionsInv'
    BY DEF VersionsInv, NotNewer, HasRead, TypeOK, TasksInv, ResultsInv, Active
  <2> QED   BY <2>1, <2>2, <2>3, <2>4, <2>5, <2>6
<1>6. CASE Discard(t)
  <2> USE <1>6 DEF Discard
  <2>1. TypeOK'
    BY DEF TypeOK, TaskLabels
  <2>2. TasksInv'
    BY DEF TasksInv, TypeOK, Active
  <2>3. ResultsInv'
    BY DEF ResultsInv, TasksInv, TypeOK, Active
  <2>4. LifeInv'
    BY DEF LifeInv, Destroying, Held, TaskHolds, TypeOK, TasksInv, ResultsInv, HeldBesides
  <2>5. ModesInv'
    BY DEF ModesInv, Below, TypeOK, TasksInv, Active, LifeInv
  <2>6. VersionsInv'
    BY DEF VersionsInv, NotNewer, HasRead, TypeOK, TasksInv, ResultsInv, Active
  <2> QED   BY <2>1, <2>2, <2>3, <2>4, <2>5, <2>6
<1>7. CASE DestroyOnWorker(t)
  <2> USE <1>7 DEF DestroyOnWorker, DropTag
  <2>1. TypeOK'
    BY NoVersionInVersions DEF TypeOK, TaskLabels
  <2>2. TasksInv'
    BY WaitedIsQuiet DEF TasksInv, TypeOK, Active
  <2>3. ResultsInv'
    BY DEF ResultsInv, TasksInv, TypeOK, Active
  <2>4. LifeInv'
    BY DEF LifeInv, Destroying, Held, TaskHolds, TypeOK, TasksInv, ResultsInv
  <2>5. ModesInv'
    BY DEF ModesInv, Below, TypeOK, TasksInv, Active, LifeInv
  <2>6. VersionsInv'
    BY NoVersionIsOldest DEF VersionsInv, NotNewer, HasRead, TypeOK, TasksInv, ResultsInv, Active
  <2> QED   BY <2>1, <2>2, <2>3, <2>4, <2>5, <2>6
<1> QED   BY <1>1, <1>2, <1>3, <1>4, <1>5, <1>6, <1>7 DEF TaskStep

(* The main thread edits the buffer or changes its language.               *)
LEMMA EditKeepsInv ==
  ASSUME HighlightInv, BeginEdit \/ BeginEditWaited \/ AcquireLock \/ EndEdit \/ SetLanguage \/ LanguageWaited
  PROVE  HighlightInv'
<1> USE HighlightAssumption DEF HighlightInv, poolVars, queueVars, taskVars, bufferVars, tagVars, objectVars
<1>1. CASE BeginEdit
  <2> USE <1>1 DEF BeginEdit
  <2>1. TypeOK'
    BY DEF TypeOK, CancelCurrent, MainLabels
  <2>2. TasksInv'
    BY DEF TasksInv, TypeOK, Active
  <2>3. ResultsInv'
    BY DEF ResultsInv, TasksInv, TypeOK, Active
  <2>4. LifeInv'
    BY DEF LifeInv, Destroying, Held, TaskHolds, TypeOK, TasksInv, ResultsInv
  <2>5. ModesInv'
    BY DEF ModesInv, Below, TypeOK, TasksInv, Active, LifeInv
  <2>6. VersionsInv'
    BY DEF VersionsInv, NotNewer, HasRead, TypeOK, TasksInv, ResultsInv, Active
  <2> QED   BY <2>1, <2>2, <2>3, <2>4, <2>5, <2>6
<1>2. CASE BeginEditWaited
  <2> USE <1>2 DEF BeginEditWaited
  <2>1. TypeOK'
    BY DEF TypeOK, MainLabels
  <2>2. TasksInv'
    BY DEF TasksInv, TypeOK, Active
  <2>3. ResultsInv'
    BY DEF ResultsInv, TasksInv, TypeOK, Active
  <2>4. LifeInv'
    BY DEF LifeInv, Destroying, Held, TaskHolds, TypeOK, TasksInv, ResultsInv
  <2>5. ModesInv'
    BY WaitedIsQuiet DEF ModesInv, Below, TypeOK, TasksInv, Active, LifeInv
  <2>6. VersionsInv'
    BY DEF VersionsInv, NotNewer, HasRead, TypeOK, TasksInv, ResultsInv, Active
  <2> QED   BY <2>1, <2>2, <2>3, <2>4, <2>5, <2>6
<1>3. CASE AcquireLock
  <2> USE <1>3 DEF AcquireLock
  <2>1. TypeOK'
    BY DEF TypeOK, MainLabels
  <2>2. TasksInv'
    BY DEF TasksInv, TypeOK, Active
  <2>3. ResultsInv'
    BY DEF ResultsInv, TasksInv, TypeOK, Active
  <2>4. LifeInv'
    BY DEF LifeInv, Destroying, Held, TaskHolds, TypeOK, TasksInv, ResultsInv
  <2>5. ModesInv'
    BY DEF ModesInv, Below, TypeOK, TasksInv, Active, LifeInv
  <2>6. VersionsInv'
    BY DEF VersionsInv, NotNewer, HasRead, TypeOK, TasksInv, ResultsInv, Active
  <2> QED   BY <2>1, <2>2, <2>3, <2>4, <2>5, <2>6
<1>4. CASE EndEdit
  <2> USE <1>4 DEF EndEdit, NoStart
  <2>1. TypeOK'
    <3>1. version.text \in 0..MaxVersion /\ version.text < MaxVersion
      BY DEF TypeOK, Versions, ModesInv, Below
    <3>2. version' \in Versions
      <4>1. version.text + 1 \in 0..MaxVersion
        BY <3>1
      <4> QED   BY <4>1, VersionChanges DEF TypeOK, Bump
    <3>3. CASE tag
      BY <3>2, <3>3, StartKeepsTasks DEF TypeOK, MainLabels, Start, ModesInv
    <3>4. CASE ~tag
      BY <3>2, <3>4 DEF TypeOK, MainLabels
    <3> QED   BY <3>3, <3>4
  <2>2. TasksInv'
    <3>1. CASE tag
      BY <3>1, StartKeepsTasks DEF ModesInv
    <3>2. CASE ~tag
      BY <3>2 DEF TasksInv, TypeOK, Active
    <3> QED   BY <3>1, <3>2
  <2>3. ResultsInv'
    BY DEF ResultsInv, TasksInv, TypeOK, Active
  <2>4. LifeInv'
    BY DEF LifeInv, Destroying, Held, TaskHolds, TypeOK, TasksInv, ResultsInv, Start, Unstarted, Pool!Submit
  <2>5. ModesInv'
    BY DEF ModesInv
  <2>6. VersionsInv'
    <3>1. NotNewer(version, version')
      BY DEF NotNewer, TypeOK, Versions, Bump
    <3>2. version \in Versions /\ version' \in Versions /\ shown \in Versions /\ \A u \in Tasks : input[u] \in Versions
      BY <2>1 DEF TypeOK
    <3>3. /\ NotNewer(shown, version')
          /\ \A u \in Tasks : NotNewer(input[u], version) => NotNewer(input[u], version')
      BY <3>1, <3>2, NotNewerTrans, Zenon DEF VersionsInv
    <3> QED   BY <3>3, Zenon DEF VersionsInv, HasRead, NotNewer
  <2> QED   BY <2>1, <2>2, <2>3, <2>4, <2>5, <2>6
<1>5. CASE SetLanguage
  <2> USE <1>5 DEF SetLanguage
  <2>1. TypeOK'
    BY DEF TypeOK, CancelCurrent, MainLabels
  <2>2. TasksInv'
    BY DEF TasksInv, TypeOK, Active
  <2>3. ResultsInv'
    BY DEF ResultsInv, TasksInv, TypeOK, Active
  <2>4. LifeInv'
    BY DEF LifeInv, Destroying, Held, TaskHolds, TypeOK, TasksInv, ResultsInv
  <2>5. ModesInv'
    BY DEF ModesInv, Below, TypeOK, TasksInv, Active, LifeInv
  <2>6. VersionsInv'
    BY DEF VersionsInv, NotNewer, HasRead, TypeOK, TasksInv, ResultsInv, Active
  <2> QED   BY <2>1, <2>2, <2>3, <2>4, <2>5, <2>6
<1>6. CASE LanguageWaited
  <2> USE <1>6 DEF LanguageWaited
  <2>1. TypeOK'
    <3>1. version.lang \in 0..MaxVersion /\ version.lang < MaxVersion
      BY DEF TypeOK, Versions, ModesInv, Below
    <3>2. version' \in Versions
      <4>1. version.lang + 1 \in 0..MaxVersion
        BY <3>1
      <4> QED   BY <4>1, VersionChanges DEF TypeOK, Bump
    <3> QED   BY <3>2, WaitedIsQuiet, StartKeepsTasks DEF TypeOK, MainLabels, Start, LifeInv
  <2>2. TasksInv'
    BY WaitedIsQuiet, StartKeepsTasks
  <2>3. ResultsInv'
    BY DEF ResultsInv, TasksInv, TypeOK, Active
  <2>4. LifeInv'
    BY DEF LifeInv, Destroying, Held, TaskHolds, TypeOK, TasksInv, ResultsInv, Start, Unstarted, Pool!Submit
  <2>5. ModesInv'
    BY DEF ModesInv
  <2>6. VersionsInv'
    <3>1. NotNewer(version, version')
      BY DEF NotNewer, TypeOK, Versions, Bump
    <3>2. version \in Versions /\ version' \in Versions /\ shown \in Versions /\ \A u \in Tasks : input[u] \in Versions
      BY <2>1 DEF TypeOK
    <3>3. /\ NotNewer(shown, version')
          /\ \A u \in Tasks : NotNewer(input[u], version) => NotNewer(input[u], version')
      BY <3>1, <3>2, NotNewerTrans, Zenon DEF VersionsInv
    <3> QED   BY <3>3, Zenon DEF VersionsInv, HasRead, NotNewer
  <2> QED   BY <2>1, <2>2, <2>3, <2>4, <2>5, <2>6
<1> QED   BY <1>1, <1>2, <1>3, <1>4, <1>5, <1>6

(* The interpretation is opened, closed and destroyed.                     *)
LEMMA LifeKeepsInv ==
  ASSUME HighlightInv, Open \/ Close \/ DestroyWaited
  PROVE  HighlightInv'
<1> USE HighlightAssumption DEF HighlightInv, poolVars, queueVars, taskVars, bufferVars, tagVars, objectVars
<1>1. CASE Open
  <2> USE <1>1 DEF Open, NoStart
  <2>1. TypeOK'
    <3>1. CASE Held
      BY <3>1 DEF TypeOK, LifeInv
    <3>2. CASE ~Held /\ plugin = "enabled"
      <4>1. \A t \in Tasks : ~Active(t)
        BY <3>2 DEF TypeOK, TasksInv
      <4> QED   BY <3>2, <4>1, StartKeepsTasks, NoVersionInVersions DEF TypeOK, Start
    <3>3. CASE ~Held /\ plugin # "enabled"
      BY <3>3, NoVersionInVersions DEF TypeOK
    <3> QED   BY <3>1, <3>2, <3>3
  <2>2. TasksInv'
    <3>1. CASE ~Held /\ plugin = "enabled"
      <4>1. \A t \in Tasks : ~Active(t)
        BY <3>1 DEF TypeOK, TasksInv
      <4> QED   BY <3>1, <4>1, StartKeepsTasks
    <3>2. CASE ~(~Held /\ plugin = "enabled")
      BY <3>2 DEF TasksInv, Active
    <3> QED   BY <3>1, <3>2
  <2>3. ResultsInv'
    BY DEF ResultsInv, TasksInv, TypeOK, Active
  <2>4. LifeInv'
    BY DEF LifeInv, Destroying, Held, TaskHolds, TypeOK, TasksInv, ResultsInv, Start, Unstarted, Pool!Submit
  <2>5. ModesInv'
    BY DEF ModesInv
  <2>6. VersionsInv'
    BY NoVersionIsOldest DEF VersionsInv, NotNewer, HasRead, TypeOK, TasksInv, ResultsInv, Active
  <2> QED   BY <2>1, <2>2, <2>3, <2>4, <2>5, <2>6
<1>2. CASE Close
  <2> USE <1>2 DEF Close
  <2>1. TypeOK'
    BY DEF TypeOK, CancelCurrent, AfterRelease, MainLabels
  <2>2. TasksInv'
    BY DEF TasksInv, TypeOK, Active
  <2>3. ResultsInv'
    BY DEF ResultsInv, TasksInv, TypeOK, Active, AfterRelease
  <2>4. LifeInv'
    BY DEF LifeInv, Destroying, Held, TaskHolds, TypeOK, TasksInv, ResultsInv, AfterRelease
  <2>5. ModesInv'
    BY DEF ModesInv, Below, TypeOK, TasksInv, Active, LifeInv, AfterRelease
  <2>6. VersionsInv'
    BY DEF VersionsInv, NotNewer, HasRead, TypeOK, TasksInv, ResultsInv, Active
  <2> QED   BY <2>1, <2>2, <2>3, <2>4, <2>5, <2>6
<1>3. CASE DestroyWaited
  <2> USE <1>3 DEF DestroyWaited, DropTag
  <2>1. TypeOK'
    BY NoVersionInVersions DEF TypeOK, MainLabels
  <2>2. TasksInv'
    BY WaitedIsQuiet DEF TasksInv, TypeOK, Active
  <2>3. ResultsInv'
    BY DEF ResultsInv, TasksInv, TypeOK, Active
  <2>4. LifeInv'
    BY DEF LifeInv, Destroying, Held, TaskHolds, TypeOK, TasksInv, ResultsInv
  <2>5. ModesInv'
    BY DEF ModesInv, Below, TypeOK, TasksInv, Active, LifeInv
  <2>6. VersionsInv'
    BY NoVersionIsOldest DEF VersionsInv, NotNewer, HasRead, TypeOK, TasksInv, ResultsInv, Active
  <2> QED   BY <2>1, <2>2, <2>3, <2>4, <2>5, <2>6
<1> QED   BY <1>1, <1>2, <1>3

(* A result is shown, and the reference of its callback dropped.           *)
LEMMA CallbackKeepsInv ==
  ASSUME HighlightInv, StartCallback \/ EndCallback
  PROVE  HighlightInv'
<1> USE HighlightAssumption DEF HighlightInv, poolVars, queueVars, taskVars, bufferVars, tagVars, objectVars
<1>1. CASE StartCallback
  <2> USE <1>1 DEF StartCallback, Queue!Start
  <2>1. TypeOK'
    BY DEF TypeOK, MainLabels
  <2>2. TasksInv'
    BY DEF TasksInv, TypeOK, Active
  <2>3. ResultsInv'
    <3>1. waiting' = Tail(waiting) /\ waiting \in Seq(Tasks) /\ waiting # <<>> /\ NoRepetition(waiting)
      BY DEF TypeOK, ResultsInv
    <3>2. /\ NoRepetition(Tail(waiting)) /\ ElementsOf(Tail(waiting)) = ElementsOf(waiting) \ {Head(waiting)}
          /\ Head(waiting) \in ElementsOf(waiting)
      BY <3>1, PopElements, Zenon
    <3>3. Head(waiting) \in Tasks /\ fate[Head(waiting)] = "waiting"
      BY <3>1, <3>2 DEF ResultsInv, TypeOK
    <3> QED   BY <3>1, <3>2, <3>3 DEF ResultsInv, TypeOK
  <2>4. LifeInv'
    <3>1. fate[Head(waiting)] = "waiting" /\ Head(waiting) \in Tasks
      <4>1. waiting \in Seq(Tasks) /\ waiting # <<>> /\ NoRepetition(waiting)
        BY DEF TypeOK, ResultsInv
      <4>2. Head(waiting) \in ElementsOf(waiting)
        BY <4>1, PopElements, Zenon
      <4> QED   BY <4>1, <4>2 DEF ResultsInv, TypeOK
    <3>2. \A u \in Tasks : fate'[u] \in {"waiting", "running"} <=> fate[u] \in {"waiting", "running"}
      BY <3>1 DEF TypeOK
    <3>3. Held' = Held
      BY <3>2 DEF Held, TaskHolds
    <3> QED   BY <3>3 DEF LifeInv, Destroying
  <2>5. ModesInv'
    BY DEF ModesInv, Below, TypeOK, TasksInv, Active, LifeInv
  <2>6. VersionsInv'
    <3>1. /\ waiting \in Seq(Tasks) /\ waiting # <<>> /\ waiting' = Tail(waiting)
          /\ Len(waiting) \in Nat \ {0} /\ Len(waiting') = Len(waiting) - 1
          /\ \A i \in 1..Len(waiting') : waiting'[i] = waiting[i + 1]
      BY HeadTailProperties, EmptySeq, LenProperties DEF TypeOK
    <3>2. Head(waiting) = waiting[1] /\ Head(waiting) \in Tasks /\ fate[Head(waiting)] = "waiting"
      BY <3>1 DEF ResultsInv, TypeOK, ElementsOf
    <3>3. \A u \in Tasks : fate'[u] = "waiting" => /\ fate[u] = "waiting"
                                                   /\ NotNewer(input[Head(waiting)], input[u])
      <4> SUFFICES ASSUME NEW u \in Tasks, fate'[u] = "waiting"
                   PROVE  fate[u] = "waiting" /\ NotNewer(input[Head(waiting)], input[u])
        OBVIOUS
      <4>1. fate[u] = "waiting" /\ u # Head(waiting)
        BY <3>2 DEF TypeOK
      <4>2. PICK i \in 1..Len(waiting) : waiting[i] = u
        BY <4>1 DEF ResultsInv, ElementsOf
      <4>3. 1 < i /\ 1 \in 1..Len(waiting)
        BY <3>1, <3>2, <4>1, <4>2
      <4> QED   BY <3>2, <4>1, <4>2, <4>3 DEF VersionsInv
    <3>4. NotNewer(shown', version)
      BY <3>2 DEF VersionsInv
    <3>5. \A u \in Tasks : HasRead(u) \/ fate'[u] = "waiting" => NotNewer(shown', input[u])
      BY <3>2, <3>3 DEF VersionsInv
    <3>6. \A i, j \in 1..Len(waiting') : i < j => NotNewer(input[waiting'[i]], input[waiting'[j]])
      BY <3>1 DEF VersionsInv
    <3> QED   BY <3>3, <3>4, <3>5, <3>6, Zenon DEF VersionsInv, HasRead, NotNewer
  <2> QED   BY <2>1, <2>2, <2>3, <2>4, <2>5, <2>6
<1>2. CASE EndCallback
  <2> USE <1>2 DEF EndCallback, Queue!Finish
  <2>1. TypeOK'
    BY DEF TypeOK, CancelCurrent, AfterRelease, MainLabels
  <2>2. TasksInv'
    BY DEF TasksInv, TypeOK, Active
  <2>3. ResultsInv'
    BY DEF ResultsInv, TasksInv, TypeOK, Active, AfterRelease
  <2>4. LifeInv'
    BY DEF LifeInv, Destroying, Held, TaskHolds, TypeOK, TasksInv, ResultsInv, AfterRelease
  <2>5. ModesInv'
    BY DEF ModesInv, Below, TypeOK, TasksInv, Active, LifeInv, AfterRelease
  <2>6. VersionsInv'
    BY DEF VersionsInv, NotNewer, HasRead, TypeOK, TasksInv, ResultsInv, Active
  <2> QED   BY <2>1, <2>2, <2>3, <2>4, <2>5, <2>6
<1> QED   BY <1>1, <1>2

(* The settings change, the plugin is disabled, enabled and finalized.     *)
LEMMA PluginKeepsInv ==
  ASSUME HighlightInv, SettingsChanged \/ SettingsWaited \/ Disable \/ DisableWaited \/ Enable \/ Finalize
  PROVE  HighlightInv'
<1> USE HighlightAssumption DEF HighlightInv, poolVars, queueVars, taskVars, bufferVars, tagVars, objectVars
<1>1. CASE SettingsChanged
  <2> USE <1>1 DEF SettingsChanged, CancelAll
  <2>1. TypeOK'
    BY DEF TypeOK, CancelCurrent, MainLabels
  <2>2. TasksInv'
    BY DEF TasksInv, TypeOK, Active
  <2>3. ResultsInv'
    BY DEF ResultsInv, TasksInv, TypeOK, Active
  <2>4. LifeInv'
    BY DEF LifeInv, Destroying, Held, TaskHolds, TypeOK, TasksInv, ResultsInv
  <2>5. ModesInv'
    BY DEF ModesInv, Below, TypeOK, TasksInv, Active, LifeInv
  <2>6. VersionsInv'
    BY DEF VersionsInv, NotNewer, HasRead, TypeOK, TasksInv, ResultsInv, Active
  <2> QED   BY <2>1, <2>2, <2>3, <2>4, <2>5, <2>6
<1>2. CASE SettingsWaited
  <2> USE <1>2 DEF SettingsWaited
  <2>1. TypeOK'
    <3>1. version.config \in 0..MaxVersion /\ version.config < MaxVersion
      BY DEF TypeOK, Versions, ModesInv, Below
    <3>2. version' \in Versions
      <4>1. version.config + 1 \in 0..MaxVersion
        BY <3>1
      <4> QED   BY <4>1, VersionChanges DEF TypeOK, Bump
    <3> QED   BY <3>2 DEF TypeOK, MainLabels, AfterRelease
  <2>2. TasksInv'
    BY DEF TasksInv, TypeOK, Active
  <2>3. ResultsInv'
    BY DEF ResultsInv, TasksInv, TypeOK, Active, AfterRelease
  <2>4. LifeInv'
    BY DEF LifeInv, Destroying, Held, TaskHolds, TypeOK, TasksInv, ResultsInv, AfterRelease
  <2>5. ModesInv'
    BY DEF ModesInv, AfterRelease
  <2>6. VersionsInv'
    <3>1. NotNewer(version, version')
      BY DEF NotNewer, TypeOK, Versions, Bump
    <3>2. version \in Versions /\ version' \in Versions /\ shown \in Versions /\ \A u \in Tasks : input[u] \in Versions
      BY <2>1 DEF TypeOK
    <3>3. /\ NotNewer(shown, version')
          /\ \A u \in Tasks : NotNewer(input[u], version) => NotNewer(input[u], version')
      BY <3>1, <3>2, NotNewerTrans, Zenon DEF VersionsInv
    <3> QED   BY <3>3, Zenon DEF VersionsInv, HasRead, NotNewer
  <2> QED   BY <2>1, <2>2, <2>3, <2>4, <2>5, <2>6
<1>3. CASE Disable
  <2> USE <1>3 DEF Disable, CancelAll
  <2>1. TypeOK'
    BY DEF TypeOK, CancelCurrent, MainLabels
  <2>2. TasksInv'
    BY DEF TasksInv, TypeOK, Active
  <2>3. ResultsInv'
    BY DEF ResultsInv, TasksInv, TypeOK, Active
  <2>4. LifeInv'
    BY DEF LifeInv, Destroying, Held, TaskHolds, TypeOK, TasksInv, ResultsInv
  <2>5. ModesInv'
    BY DEF ModesInv, Below, TypeOK, TasksInv, Active, LifeInv
  <2>6. VersionsInv'
    BY DEF VersionsInv, NotNewer, HasRead, TypeOK, TasksInv, ResultsInv, Active
  <2> QED   BY <2>1, <2>2, <2>3, <2>4, <2>5, <2>6
<1>4. CASE DisableWaited
  <2> USE <1>4 DEF DisableWaited, DropTag
  <2>1. TypeOK'
    BY NoVersionInVersions DEF TypeOK, MainLabels, AfterRelease
  <2>2. TasksInv'
    BY WaitedIsQuiet DEF TasksInv, TypeOK, Active
  <2>3. ResultsInv'
    BY DEF ResultsInv, TasksInv, TypeOK, Active, AfterRelease
  <2>4. LifeInv'
    BY DEF LifeInv, Destroying, Held, TaskHolds, TypeOK, TasksInv, ResultsInv, AfterRelease
  <2>5. ModesInv'
    BY DEF ModesInv, AfterRelease
  <2>6. VersionsInv'
    BY NoVersionIsOldest DEF VersionsInv, NotNewer, HasRead, TypeOK, TasksInv, ResultsInv, Active
  <2> QED   BY <2>1, <2>2, <2>3, <2>4, <2>5, <2>6
<1>5. CASE Enable
  <2> USE <1>5 DEF Enable
  <2>1. TypeOK'
    BY DEF TypeOK
  <2>2. TasksInv'
    BY DEF TasksInv, TypeOK, Active
  <2>3. ResultsInv'
    BY DEF ResultsInv, TasksInv, TypeOK, Active
  <2>4. LifeInv'
    BY DEF LifeInv, Destroying, Held, TaskHolds, TypeOK, TasksInv, ResultsInv
  <2>5. ModesInv'
    BY DEF ModesInv, Below, TypeOK, TasksInv, Active, LifeInv
  <2>6. VersionsInv'
    BY DEF VersionsInv, NotNewer, HasRead, TypeOK, TasksInv, ResultsInv, Active
  <2> QED   BY <2>1, <2>2, <2>3, <2>4, <2>5, <2>6
<1>6. CASE Finalize
  <2> USE <1>6 DEF Finalize
  <2>1. TypeOK'
    BY DEF TypeOK, MainLabels
  <2>2. TasksInv'
    BY DEF TasksInv, TypeOK, Active
  <2>3. ResultsInv'
    BY DEF ResultsInv, TasksInv, TypeOK, Active
  <2>4. LifeInv'
    BY DEF LifeInv, Destroying, Held, TaskHolds, TypeOK, TasksInv, ResultsInv
  <2>5. ModesInv'
    BY DEF ModesInv, Below, TypeOK, TasksInv, Active, LifeInv
  <2>6. VersionsInv'
    BY DEF VersionsInv, NotNewer, HasRead, TypeOK, TasksInv, ResultsInv, Active
  <2> QED   BY <2>1, <2>2, <2>3, <2>4, <2>5, <2>6
<1> QED   BY <1>1, <1>2, <1>3, <1>4, <1>5, <1>6

LEMMA StutterKeepsInv == HighlightInv /\ UNCHANGED vars => HighlightInv'
BY DEF HighlightInv, vars, TypeOK, TasksInv, Active, ResultsInv, LifeInv, Destroying, Held, TaskHolds,
       ModesInv, Below, VersionsInv, NotNewer, HasRead

LEMMA NextKeepsInv == HighlightInv /\ [Next]_vars => HighlightInv'
BY TakeKeepsInv, TaskStepKeepsInv, EditKeepsInv, LifeKeepsInv, CallbackKeepsInv, PluginKeepsInv, StutterKeepsInv
   DEF Next, MainStep, UserStep, WorkerStep

LEMMA HighlightInvHolds == Spec => []HighlightInv
BY InitKeepsInv, NextKeepsInv, PTL DEF Spec

-----------------------------------------------------------------------------
(* However edits, settings, closing, disabling, tasks and callbacks are    *)
(* interleaved: one task of the interpretation at a time, which finds the  *)
(* tag and the interpretation that it refers to, and nobody holds an       *)
(* interpretation that is destroyed.                                       *)
THEOREM OneTaskFindsItsTag == Spec => []TagLifetimeInv
<1>1. HighlightInv => TagLifetimeInv
  <2> SUFFICES ASSUME HighlightInv PROVE TagLifetimeInv
    OBVIOUS
  <2> USE DEF HighlightInv
  <2>1. OneTaskAtATime
    BY DEF OneTaskAtATime, TasksInv
  <2>2. TagOutlivesTask
    BY HighlightAssumption DEF TagOutlivesTask, UsesTag, TasksInv, TypeOK
  <2>3. HeldIsAlive
    BY DEF HeldIsAlive, LifeInv
  <2> QED   BY <2>1, <2>2, <2>3 DEF TagLifetimeInv
<1> QED   BY <1>1, HighlightInvHolds, PTL

(* No step changes the text, the language or the configurations while a    *)
(* task reads.                                                             *)
LEMMA StepIsStable ==
  ASSUME HighlightInv, [Next]_vars, version' # version, NEW t \in Tasks
  PROVE  at[t] # "reading"
<1> USE HighlightAssumption DEF HighlightInv, poolVars, queueVars, taskVars, bufferVars, tagVars, objectVars
<1>1. CASE EndEdit
  BY <1>1 DEF EndEdit, ModesInv, TasksInv, Active, TypeOK
<1>2. CASE LanguageWaited \/ SettingsWaited
  <2>1. \A u \in Tasks : ~Active(u)
    BY <1>2, WaitedIsQuiet DEF LanguageWaited, SettingsWaited
  <2> QED   BY <2>1 DEF TasksInv, Active, TypeOK
<1>3. CASE Take \/ (\E u \in Tasks : TaskStep(u)) \/ UNCHANGED vars
  BY <1>3 DEF Take, TaskStep, BeginRead, EndRead, CheckCancelled, PostResult, Finish, Discard, DestroyOnWorker, vars
<1>4. CASE UserStep
  BY <1>4 DEF UserStep, BeginEdit, SetLanguage, Open, Close, SettingsChanged, Disable, Enable, Finalize
<1>5. CASE BeginEditWaited \/ AcquireLock \/ DisableWaited \/ DestroyWaited \/ StartCallback \/ EndCallback
  BY <1>5 DEF BeginEditWaited, AcquireLock, DisableWaited, DestroyWaited, StartCallback, EndCallback
<1> QED   BY <1>1, <1>2, <1>3, <1>4, <1>5 DEF Next, MainStep, WorkerStep

(* No step that leaves the tag in place shows an older version.            *)
LEMMA StepShowsNothingOlder ==
  ASSUME HighlightInv, [Next]_vars, tag, tag', NEW f \in {"text", "lang", "config"}
  PROVE  shown'[f] >= shown[f]
<1> USE HighlightAssumption DEF HighlightInv, poolVars, queueVars, taskVars, bufferVars, tagVars, objectVars
<1>0. shown[f] \in Nat
  BY DEF TypeOK, Versions
<1>1. CASE StartCallback
  <2>1. Head(waiting) \in Tasks /\ fate[Head(waiting)] = "waiting"
    <3>1. waiting \in Seq(Tasks) /\ waiting # <<>> /\ NoRepetition(waiting)
      BY <1>1 DEF StartCallback, Queue!Start, TypeOK, ResultsInv
    <3>2. Head(waiting) \in ElementsOf(waiting)
      BY <3>1, PopElements, Zenon
    <3> QED   BY <3>1, <3>2 DEF ResultsInv, TypeOK
  <2>2. NotNewer(shown, input[Head(waiting)]) /\ input[Head(waiting)] \in Versions
    BY <2>1 DEF VersionsInv, TypeOK
  <2> QED   BY <1>0, <1>1, <2>2 DEF StartCallback, NotNewer, Versions
<1>2. CASE DestroyWaited \/ DisableWaited \/ \E u \in Tasks : DestroyOnWorker(u)
  BY <1>2 DEF DestroyWaited, DisableWaited, DestroyOnWorker, DropTag
<1>3. CASE Open
  BY <1>0, <1>3 DEF Open, LifeInv, TypeOK
<1>4. CASE Take \/ UNCHANGED vars \/ \E u \in Tasks : TaskStep(u) /\ ~DestroyOnWorker(u)
  BY <1>0, <1>4 DEF Take, TaskStep, BeginRead, EndRead, CheckCancelled, PostResult, Finish, Discard, vars
<1>5. CASE UserStep /\ ~Open
  BY <1>0, <1>5 DEF UserStep, BeginEdit, SetLanguage, Close, SettingsChanged, Disable, Enable, Finalize
<1>6. CASE BeginEditWaited \/ AcquireLock \/ EndEdit \/ LanguageWaited \/ SettingsWaited \/ EndCallback
  BY <1>0, <1>6 DEF BeginEditWaited, AcquireLock, EndEdit, LanguageWaited, SettingsWaited, EndCallback
<1> QED   BY <1>1, <1>2, <1>3, <1>4, <1>5, <1>6 DEF Next, MainStep, WorkerStep

(* What a task reads is one version, and the screen goes from one version  *)
(* to a later one, however late a result is.                               *)
THEOREM HighlightsInOrder == Spec => VersionsInOrder
<1>1. HighlightInv /\ [Next]_vars => [version' # version => \A t \in Tasks : at[t] # "reading"]_vars
  BY StepIsStable
<1>2. HighlightInv /\ [Next]_vars
        => [tag /\ tag' => \A f \in {"text", "lang", "config"} : shown'[f] >= shown[f]]_vars
  BY StepShowsNothingOlder
<1>3. Spec => StableWhileRead
  BY <1>1, HighlightInvHolds, PTL DEF Spec, StableWhileRead
<1>4. Spec => ShownNeverOlder
  BY <1>2, HighlightInvHolds, PTL DEF Spec, ShownNeverOlder
<1> QED   BY <1>3, <1>4 DEF VersionsInOrder
=============================================================================
