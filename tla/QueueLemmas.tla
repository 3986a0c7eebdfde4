---------------------------- MODULE QueueLemmas ----------------------------
(***************************************************************************)
(* Facts about queues without repetitions, for the proofs about the thread *)
(* pool, the scheduler's callbacks and what is queued there, induction     *)
(* over the numbers of a set, and what the operations of the intrusive     *)
(* priority queue make of a heap.                                          *)
(***************************************************************************)
EXTENDS Integers, Sequences, SequencesExt, SequenceTheorems, WellFoundedInduction, TLAPS,
        IntrusivePriorityQueue

(* Every set of natural numbers that is not empty has a least element.     *)
LEMMA LeastNatural ==
  ASSUME NEW S \in SUBSET Nat, S # {}
  PROVE  \E m \in S : \A k \in S : m <= k
<1> DEFINE Less == {p \in Nat \X Nat : p[1] < p[2]}
<1>1. IsWellFoundedOn(Less, Nat)
  BY NatLessThanWellFounded DEF OpToRel
<1>2. \E m \in S : \A k \in S : ~ (<<k, m>> \in Less)
  <2> HIDE DEF Less
  <2> QED   BY <1>1, WFMin, Zenon
<1>3. PICK m \in S : \A k \in S : ~ (<<k, m>> \in Less)
  BY <1>2
<1>4. \A k \in S : m <= k
  <2> SUFFICES ASSUME NEW k \in S PROVE m <= k
    OBVIOUS
  <2>1. k \in Nat /\ m \in Nat
    OBVIOUS
  <2>2. k < m => <<k, m>> \in Less
    BY <2>1, SMT
  <2> HIDE DEF Less
  <2> QED   BY <1>3, <2>1, <2>2
<1> QED   BY <1>4

(* A set has every number if it has 0 and, with any number, the next one.  *)
LEMMA InductionOnNumbers ==
  ASSUME NEW S, 0 \in S, \A n \in Nat : n \in S => n + 1 \in S
  PROVE  Nat \subseteq S
<1> SUFFICES ASSUME Nat \ S # {} PROVE FALSE
  OBVIOUS
<1>1. PICK m \in Nat \ S : \A k \in Nat \ S : m <= k
  BY LeastNatural
<1>2. m # 0 /\ m - 1 \in Nat
  BY <1>1
<1>3. m - 1 \in S
  BY <1>1, <1>2
<1>4. (m - 1) + 1 \in S
  BY <1>2, <1>3
<1> QED   BY <1>1, <1>2, <1>4

(* n steps, and where they lead.                                           *)
StaysIn(F, n, S) == \A k \in 1..n, s \in S : F[k][s] \in S
Repeats(f, F, n, b) == f[0] = b /\ \A k \in 1..n : f[k] = F[k][f[k - 1]]

(* Steps that stay in a set can be taken one after the other.              *)
LEMMA RepeatedSteps ==
  ASSUME NEW S, NEW n \in Nat, NEW b \in S, NEW F, StaysIn(F, n, S)
  PROVE  \E f \in [0..n -> S] : Repeats(f, F, n, b)
<1> DEFINE P == {k \in Nat : k <= n => \E f \in [0..k -> S] : Repeats(f, F, k, b)}
<1>1. 0 \in P
  <2>1. [j \in 0..0 |-> b] \in [0..0 -> S] /\ Repeats([j \in 0..0 |-> b], F, 0, b)
    BY DEF Repeats
  <2> QED   BY <2>1
<1>2. ASSUME NEW k \in Nat, k \in P PROVE k + 1 \in P
  <2> SUFFICES ASSUME k + 1 <= n PROVE \E f \in [0..k + 1 -> S] : Repeats(f, F, k + 1, b)
    OBVIOUS
  <2>1. PICK f \in [0..k -> S] : Repeats(f, F, k, b)
    BY <1>2
  <2>2. k \in 0..k /\ f[k] \in S /\ k + 1 \in 1..n
    BY <2>1
  <2>4. F[k + 1][f[k]] \in S
    BY <2>2 DEF StaysIn
  <2> DEFINE g == [j \in 0..k + 1 |-> IF j = k + 1 THEN F[k + 1][f[k]] ELSE f[j]]
  <2>5. g \in [0..k + 1 -> S]
    BY <2>1, <2>4
  <2>6. g[k + 1] = F[k + 1][f[k]] /\ \A j \in 0..k : g[j] = f[j]
    OBVIOUS
  <2>7. (k + 1) - 1 = k /\ 0 \in 0..k
    OBVIOUS
  <2> HIDE DEF g
  <2>8. g[0] = b
    BY <2>1, <2>6, <2>7 DEF Repeats
  <2>9. ASSUME NEW j \in 1..k + 1 PROVE g[j] = F[j][g[j - 1]]
    <3>1. CASE j = k + 1
      BY <2>2, <2>6, <2>7, <3>1
    <3>2. CASE j # k + 1
      <4>1. j \in 1..k /\ j \in 0..k /\ j - 1 \in 0..k
        BY <3>2
      <4> QED   BY <2>1, <2>6, <4>1 DEF Repeats
    <3> QED   BY <3>1, <3>2
  <2> QED   BY <2>5, <2>8, <2>9 DEF Repeats
<1> HIDE DEF P
<1>3. Nat \subseteq P
  BY <1>1, <1>2, InductionOnNumbers
<1> QED   BY <1>3 DEF P

(* Every set of numbers up to n that is not empty has a greatest element.  *)
LEMMA GreatestNumber ==
  ASSUME NEW n \in Nat, NEW S \in SUBSET (0..n), S # {}
  PROVE  \E m \in S : \A k \in S : k <= m
<1> DEFINE D == {n - k : k \in S}
<1>1. D \in SUBSET Nat /\ D # {}
  <2>1. \A k \in S : k \in Int /\ k <= n
    OBVIOUS
  <2>2. \A k \in S : n - k \in Nat
    BY <2>1
  <2> QED   BY <2>2
<1>2. PICK d \in D : \A k \in D : d <= k
  <2> HIDE DEF D
  <2> QED   BY <1>1, LeastNatural
<1>3. PICK m \in S : d = n - m
  BY <1>2
<1>4. ASSUME NEW k \in S PROVE k <= m
  <2>1. n - k \in D
    OBVIOUS
  <2>2. n - m <= n - k
    BY <1>2, <1>3, <2>1
  <2> QED   BY <2>2
<1> QED   BY <1>4

(* What holds of an element if it holds of all with a smaller measure holds *)
(* of all elements.                                                        *)
LEMMA MeasureInduction ==
  ASSUME NEW S, NEW n \in Nat, NEW m \in [S -> 0..n], NEW P,
         \A x \in S : (\A y \in S : m[y] < m[x] => y \in P) => x \in P
  PROVE  S \subseteq P
<1> DEFINE Q == {k \in Nat : \A x \in S : m[x] < k => x \in P}
<1>1. 0 \in Q
  OBVIOUS
<1>2. ASSUME NEW k \in Nat, k \in Q PROVE k + 1 \in Q
  <2> SUFFICES ASSUME NEW x \in S, m[x] < k + 1 PROVE x \in P
    OBVIOUS
  <2>1. m[x] \in Nat
    OBVIOUS
  <2>2. ASSUME NEW y \in S, m[y] < m[x] PROVE y \in P
    <3>1. m[y] \in Nat /\ m[y] < k
      BY <2>1, <2>2
    <3> QED   BY <1>2, <3>1
  <2> QED   BY <2>2
<1> HIDE DEF Q
<1>3. Nat \subseteq Q
  BY <1>1, <1>2, InductionOnNumbers
<1>4. n + 1 \in Q /\ \A x \in S : m[x] < n + 1
  BY <1>3
<1> QED   BY <1>4 DEF Q

(* A function that is defined by its value at an element with a smaller    *)
(* measure exists.                                                         *)
FollowsFrom(f, S, stop, onward, first, next) ==
  \A x \in S : f[x] = IF x \in stop THEN first[x] ELSE next[x][f[onward[x]]]

LEMMA DefinedByMeasure ==
  ASSUME NEW S, NEW T, NEW n \in Nat, NEW m \in [S -> 0..n], NEW stop,
         NEW onward \in [S -> S], NEW first \in [S -> T], NEW next \in [S -> [T -> T]],
         \A x \in S : x \notin stop => m[onward[x]] < m[x]
  PROVE  \E f \in [S -> T] : FollowsFrom(f, S, stop, onward, first, next)
<1> DEFINE Right(f, x) == f[x] = IF x \in stop THEN first[x] ELSE next[x][f[onward[x]]]
           Q == {k \in Nat : \E f \in [S -> T] : \A x \in S : m[x] < k => Right(f, x)}
<1>1. 0 \in Q
  <2>1. first \in [S -> T] /\ \A x \in S : ~ (m[x] < 0)
    OBVIOUS
  <2> QED   BY <2>1
<1>2. ASSUME NEW k \in Nat, k \in Q PROVE k + 1 \in Q
  <2>1. PICK f \in [S -> T] : \A x \in S : m[x] < k => Right(f, x)
    BY <1>2
  <2> DEFINE g == [x \in S |-> IF x \in stop THEN first[x] ELSE next[x][f[onward[x]]]]
  <2>2. g \in [S -> T]
    OBVIOUS
  <2>3. ASSUME NEW x \in S, m[x] < k PROVE g[x] = f[x]
    BY <2>1, <2>3
  <2>4. ASSUME NEW x \in S, m[x] < k + 1 PROVE Right(g, x)
    <3>1. CASE x \in stop
      BY <3>1
    <3>2. CASE x \notin stop
      <4>1. onward[x] \in S /\ m[onward[x]] < m[x] /\ m[x] \in Nat /\ m[onward[x]] \in Nat
        BY <3>2
      <4>2. m[onward[x]] < k
        BY <2>4, <4>1
      <4>3. g[onward[x]] = f[onward[x]]
        BY <2>3, <4>1, <4>2
      <4> QED   BY <3>2, <4>3
    <3> QED   BY <3>1, <3>2
  <2> HIDE DEF g, Right
  <2> QED   BY <2>2, <2>4
<1> HIDE DEF Q
<1>3. Nat \subseteq Q
  BY <1>1, <1>2, InductionOnNumbers
<1>4. PICK f \in [S -> T] : \A x \in S : m[x] < n + 1 => Right(f, x)
  BY <1>3 DEF Q
<1>5. \A x \in S : m[x] < n + 1
  OBVIOUS
<1> QED   BY <1>4, <1>5 DEF FollowsFrom

(* Queues without repetitions. *)
ElementsOf(s) == {s[i] : i \in 1..Len(s)}
NoRepetition(s) == \A i, j \in 1..Len(s) : s[i] = s[j] => i = j

(* Popping the head of a queue without repetitions removes just that task. *)
LEMMA PopElements ==
  ASSUME NEW S, NEW s \in Seq(S), s # <<>>, NoRepetition(s)
  PROVE  /\ NoRepetition(Tail(s))
         /\ ElementsOf(Tail(s)) = ElementsOf(s) \ {Head(s)}
         /\ Head(s) \in ElementsOf(s)
<1> USE DEF ElementsOf, NoRepetition
<1>1. /\ Tail(s) \in Seq(S)
      /\ Len(Tail(s)) = Len(s) - 1
      /\ \A i \in 1..Len(Tail(s)) : Tail(s)[i] = s[i + 1]
  BY HeadTailProperties
<1>2. Len(s) \in Nat /\ Len(s) > 0 /\ Head(s) = s[1]
  BY LenProperties, EmptySeq
<1>3. \A i, j \in 1..Len(Tail(s)) : Tail(s)[i] = Tail(s)[j] => i = j
  <2> SUFFICES ASSUME NEW i \in 1..Len(Tail(s)), NEW j \in 1..Len(Tail(s)), Tail(s)[i] = Tail(s)[j]
               PROVE  i = j
    OBVIOUS
  <2>1. s[i + 1] = s[j + 1] /\ i + 1 \in 1..Len(s) /\ j + 1 \in 1..Len(s)
    BY <1>1, <1>2
  <2>2. i + 1 = j + 1
    BY <2>1
  <2> QED   BY <1>1, <1>2, <2>2
<1>4. ASSUME NEW x \in {Tail(s)[i] : i \in 1..Len(Tail(s))}
      PROVE  x \in {s[i] : i \in 1..Len(s)} \ {Head(s)}
  <2>1. PICK i \in 1..Len(Tail(s)) : x = Tail(s)[i]
    OBVIOUS
  <2>2. i + 1 \in 1..Len(s) /\ 1 \in 1..Len(s) /\ i + 1 # 1 /\ x = s[i + 1]
    BY <1>1, <1>2, <2>1
  <2>3. s[i + 1] # s[1]
    BY <2>2
  <2> QED   BY <1>2, <2>2, <2>3
<1>5. ASSUME NEW x \in {s[i] : i \in 1..Len(s)} \ {Head(s)}
      PROVE  x \in {Tail(s)[i] : i \in 1..Len(Tail(s))}
  <2>1. PICK i \in 1..Len(s) : x = s[i] /\ i # 1
    BY <1>2
  <2>2. i - 1 \in 1..Len(Tail(s)) /\ (i - 1) + 1 = i
    BY <1>1, <1>2, <2>1
  <2>3. Tail(s)[i - 1] = x
    BY <1>1, <2>1, <2>2
  <2> QED   BY <2>2, <2>3
<1>6. {Tail(s)[i] : i \in 1..Len(Tail(s))} = {s[i] : i \in 1..Len(s)} \ {Head(s)}
  BY <1>4, <1>5, Zenon
<1>7. NoRepetition(Tail(s))
  BY <1>3, Zenon
<1>8. ElementsOf(Tail(s)) = ElementsOf(s) \ {Head(s)}
  BY <1>6, Zenon
<1>9. 1 \in 1..Len(s)
  BY <1>2
<1>10. Head(s) \in ElementsOf(s)
  BY <1>2, <1>9, Zenon
<1> QED   BY <1>7, <1>8, <1>10, Zenon

(* A task that is not in the queue can be added at its end.                *)
LEMMA AppendElements ==
  ASSUME NEW S, NEW s \in Seq(S), NEW e \in S, NoRepetition(s), e \notin ElementsOf(s)
  PROVE  /\ NoRepetition(Append(s, e))
         /\ ElementsOf(Append(s, e)) = ElementsOf(s) \cup {e}
<1> USE DEF ElementsOf, NoRepetition
<1>1. /\ Len(Append(s, e)) = Len(s) + 1
      /\ Append(s, e)[Len(s) + 1] = e
      /\ \A i \in 1..Len(s) : Append(s, e)[i] = s[i]
      /\ Len(s) \in Nat
  BY LenProperties
<1>2. \A i, j \in 1..Len(Append(s, e)) : Append(s, e)[i] = Append(s, e)[j] => i = j
  BY <1>1
<1>3. {Append(s, e)[i] : i \in 1..Len(Append(s, e))} \subseteq {s[i] : i \in 1..Len(s)} \cup {e}
  BY <1>1
<1>4. {s[i] : i \in 1..Len(s)} \subseteq {Append(s, e)[i] : i \in 1..Len(Append(s, e))}
  <2> SUFFICES ASSUME NEW i \in 1..Len(s)
               PROVE  s[i] \in {Append(s, e)[k] : k \in 1..Len(Append(s, e))}
    OBVIOUS
  <2>1. i \in 1..Len(Append(s, e)) /\ s[i] = Append(s, e)[i]
    BY <1>1
  <2> QED   BY <2>1
<1>5. e \in {Append(s, e)[i] : i \in 1..Len(Append(s, e))}
  <2>1. Len(s) + 1 \in 1..Len(Append(s, e)) /\ e = Append(s, e)[Len(s) + 1]
    BY <1>1
  <2> QED   BY <2>1
<1>6. NoRepetition(Append(s, e))
  BY <1>2, Zenon
<1>7. ElementsOf(Append(s, e)) = ElementsOf(s) \cup {e}
  BY <1>3, <1>4, <1>5, Zenon
<1> QED   BY <1>6, <1>7, Zenon

(* What is left when the entry at position i is taken out. *)
LEMMA RemoveAtProperties ==
  ASSUME NEW S, NEW s \in Seq(S), NEW i \in 1..Len(s)
  PROVE  /\ RemoveAt(s, i) \in Seq(S)
         /\ Len(RemoveAt(s, i)) = Len(s) - 1
         /\ \A j \in 1..(Len(s) - 1) :
              RemoveAt(s, i)[j] = IF j < i THEN s[j] ELSE s[j + 1]
<1> DEFINE a == SubSeq(s, 1, i - 1)
           b == SubSeq(s, i + 1, Len(s))
<1>1. Len(s) \in Nat /\ i \in Int /\ 1 <= i /\ i <= Len(s)
  BY LenProperties
<1>2. \A j \in 1..Len(s) : s[j] \in S
  BY ElementOfSeq
<1>3. /\ a \in Seq(S)
      /\ Len(a) = i - 1
      /\ \A j \in 1..(i - 1) : a[j] = s[j]
  <2>1. \A j \in 1..(i - 1) : s[j] \in S
    BY <1>1, <1>2
  <2>2. /\ a \in Seq(S)
        /\ Len(a) = IF 1 <= i - 1 THEN (i - 1) - 1 + 1 ELSE 0
        /\ \A j \in 1..((i - 1) - 1 + 1) : a[j] = s[1 + j - 1]
    BY <1>1, <2>1, SubSeqProperties
  <2> QED   BY <1>1, <2>2
<1>4. /\ b \in Seq(S)
      /\ Len(b) = Len(s) - i
      /\ \A j \in 1..(Len(s) - i) : b[j] = s[i + j]
  <2>1. \A j \in (i + 1)..Len(s) : s[j] \in S
    BY <1>1, <1>2
  <2>2. /\ b \in Seq(S)
        /\ Len(b) = IF i + 1 <= Len(s) THEN Len(s) - (i + 1) + 1 ELSE 0
        /\ \A j \in 1..(Len(s) - (i + 1) + 1) : b[j] = s[(i + 1) + j - 1]
    BY <1>1, <2>1, SubSeqProperties
  <2> QED   BY <1>1, <2>2
<1> HIDE DEF a, b
<1>5. /\ a \o b \in Seq(S)
      /\ Len(a \o b) = Len(a) + Len(b)
      /\ \A j \in 1..(Len(a) + Len(b)) :
           (a \o b)[j] = IF j <= Len(a) THEN a[j] ELSE b[j - Len(a)]
  BY <1>3, <1>4, ConcatProperties
<1>6. RemoveAt(s, i) = a \o b
  BY DEF RemoveAt, a, b
<1>7. \A j \in 1..(Len(s) - 1) : (a \o b)[j] = IF j < i THEN s[j] ELSE s[j + 1]
  <2> SUFFICES ASSUME NEW j \in 1..(Len(s) - 1)
               PROVE  (a \o b)[j] = IF j < i THEN s[j] ELSE s[j + 1]
    OBVIOUS
  <2>1. CASE j < i
    BY <1>1, <1>3, <1>4, <1>5, <2>1
  <2>2. CASE ~(j < i)
    <3>1. (a \o b)[j] = b[j - (i - 1)] /\ j - (i - 1) \in 1..(Len(s) - i)
      BY <1>1, <1>3, <1>4, <1>5, <2>2
    <3>2. i + (j - (i - 1)) = j + 1
      BY <1>1
    <3>3. b[j - (i - 1)] = s[i + (j - (i - 1))]
      BY <1>4, <3>1
    <3> QED   BY <2>2, <3>1, <3>2, <3>3
  <2> QED   BY <2>1, <2>2
<1>8. RemoveAt(s, i) \in Seq(S)
  BY <1>5, <1>6, Zenon
<1>9. Len(RemoveAt(s, i)) = Len(s) - 1
  <2>1. Len(a \o b) = Len(s) - 1
    BY <1>1, <1>3, <1>4, <1>5
  <2> QED   BY <1>6, <2>1, Zenon
<1>10. \A j \in 1..(Len(s) - 1) : RemoveAt(s, i)[j] = IF j < i THEN s[j] ELSE s[j + 1]
  BY <1>6, <1>7, Zenon
<1> QED   BY <1>8, <1>9, <1>10, Zenon

(* Taking out an entry of a queue without repetitions takes out just that. *)
LEMMA RemoveAtElements ==
  ASSUME NEW S, NEW s \in Seq(S), NEW i \in 1..Len(s), NoRepetition(s)
  PROVE  /\ NoRepetition(RemoveAt(s, i))
         /\ ElementsOf(RemoveAt(s, i)) = ElementsOf(s) \ {s[i]}
<1> DEFINE r == RemoveAt(s, i)
           old(j) == IF j < i THEN j ELSE j + 1
<1>1. /\ Len(s) \in Nat /\ i \in Int /\ 1 <= i /\ i <= Len(s)
      /\ Len(r) = Len(s) - 1
  BY LenProperties, RemoveAtProperties
<1>2. \A j \in 1..Len(r) : r[j] = s[old(j)]
  BY <1>1, RemoveAtProperties
<1>3. \A j \in 1..Len(r) : old(j) \in 1..Len(s) /\ old(j) # i
  BY <1>1
<1>4. \A j, k \in 1..Len(r) : old(j) = old(k) => j = k
  BY <1>1
<1> HIDE DEF r
<1>5. NoRepetition(r)
  BY <1>2, <1>3, <1>4 DEF NoRepetition
<1>6. \A j \in 1..Len(r) : r[j] \in ElementsOf(s) \ {s[i]}
  BY <1>2, <1>3 DEF NoRepetition, ElementsOf
<1>7. \A k \in 1..Len(s) : k # i => \E j \in 1..Len(r) : r[j] = s[k]
  <2> SUFFICES ASSUME NEW k \in 1..Len(s), k # i
               PROVE  \E j \in 1..Len(r) : r[j] = s[k]
    OBVIOUS
  <2>1. CASE k < i
    BY <1>1, <1>2, <2>1
  <2>2. CASE k > i
    <3>1. k - 1 \in 1..Len(r) /\ old(k - 1) = k
      BY <1>1, <2>2
    <3> QED   BY <1>2, <3>1
  <2> QED   BY <1>1, <2>1, <2>2
<1>8. ElementsOf(r) = ElementsOf(s) \ {s[i]}
  BY <1>6, <1>7 DEF ElementsOf
<1> QED   BY <1>5, <1>8 DEF r

(* Taking the head off, or an entry out of the second part, of a queue in  *)
(* two parts.                                                              *)
LEMMA TailOfConcat ==
  ASSUME NEW S, NEW s \in Seq(S), NEW t \in Seq(S), s # <<>>
  PROVE  /\ s \o t # <<>>
         /\ Head(s \o t) = Head(s)
         /\ Tail(s \o t) = Tail(s) \o t
<1>1. /\ s \o t \in Seq(S) /\ Len(s \o t) = Len(s) + Len(t)
      /\ Len(s) \in Nat /\ Len(t) \in Nat /\ Len(s) > 0
      /\ \A i \in 1..(Len(s) + Len(t)) :
           (s \o t)[i] = IF i <= Len(s) THEN s[i] ELSE t[i - Len(s)]
  BY ConcatProperties, LenProperties, EmptySeq
<1>2. s \o t # <<>>
  BY <1>1, EmptySeq
<1>3. Head(s \o t) = Head(s)
  BY <1>1, <1>2
<1>4. /\ Tail(s) \in Seq(S) /\ Len(Tail(s)) = Len(s) - 1
      /\ \A i \in 1..(Len(s) - 1) : Tail(s)[i] = s[i + 1]
  BY HeadTailProperties
<1>5. /\ Tail(s) \o t \in Seq(S) /\ Len(Tail(s) \o t) = Len(s) - 1 + Len(t)
      /\ \A i \in 1..(Len(s) - 1 + Len(t)) :
           (Tail(s) \o t)[i] = IF i <= Len(s) - 1 THEN Tail(s)[i] ELSE t[i - (Len(s) - 1)]
  BY <1>1, <1>4, ConcatProperties
<1>6. /\ Tail(s \o t) \in Seq(S) /\ Len(Tail(s \o t)) = Len(s) + Len(t) - 1
      /\ \A i \in 1..(Len(s) + Len(t) - 1) : Tail(s \o t)[i] = (s \o t)[i + 1]
  BY <1>1, <1>2, HeadTailProperties
<1>7. \A i \in 1..Len(Tail(s \o t)) : Tail(s \o t)[i] = (Tail(s) \o t)[i]
  <2> SUFFICES ASSUME NEW i \in 1..(Len(s) + Len(t) - 1)
               PROVE  Tail(s \o t)[i] = (Tail(s) \o t)[i]
    BY <1>6
  <2>1. CASE i <= Len(s) - 1
    BY <1>1, <1>4, <1>5, <1>6, <2>1
  <2>2. CASE ~(i <= Len(s) - 1)
    <3>1. i + 1 \in 1..(Len(s) + Len(t)) /\ ~(i + 1 <= Len(s)) /\ (i + 1) - Len(s) = i - (Len(s) - 1)
      BY <1>1, <2>2
    <3>2. Tail(s \o t)[i] = t[(i + 1) - Len(s)]
      BY <1>1, <1>6, <3>1
    <3>3. (Tail(s) \o t)[i] = t[i - (Len(s) - 1)]
      BY <1>1, <1>5, <2>2
    <3> QED   BY <3>1, <3>2, <3>3
  <2> QED   BY <2>1, <2>2
<1>8. Tail(s \o t) = Tail(s) \o t
  BY <1>1, <1>5, <1>6, <1>7, SeqEqual
<1> QED   BY <1>2, <1>3, <1>8

(* The same for an entry of the second part. *)
LEMMA RemoveFromConcat ==
  ASSUME NEW S, NEW s \in Seq(S), NEW t \in Seq(S), NEW i \in 1..Len(t)
  PROVE  /\ Len(s) + i \in 1..Len(s \o t)
         /\ (s \o t)[Len(s) + i] = t[i]
         /\ RemoveAt(s \o t, Len(s) + i) = s \o RemoveAt(t, i)
<1> DEFINE n == Len(s)
           m == Len(t)
           w == s \o t
           r == RemoveAt(t, i)
<1>1. /\ w \in Seq(S) /\ Len(w) = n + m /\ n \in Nat /\ m \in Nat /\ i \in Nat /\ 1 <= i /\ i <= m
      /\ \A j \in 1..(n + m) : w[j] = IF j <= n THEN s[j] ELSE t[j - n]
  BY ConcatProperties, LenProperties
<1>2. /\ r \in Seq(S) /\ Len(r) = m - 1
      /\ \A j \in 1..(m - 1) : r[j] = IF j < i THEN t[j] ELSE t[j + 1]
  BY RemoveAtProperties
<1> HIDE DEF w, r, n, m
<1>3. /\ s \o r \in Seq(S) /\ Len(s \o r) = n + (m - 1)
      /\ \A j \in 1..(n + (m - 1)) : (s \o r)[j] = IF j <= n THEN s[j] ELSE r[j - n]
  <2>1. s \in Seq(S) /\ r \in Seq(S)
    BY <1>2
  <2>2. /\ s \o r \in Seq(S) /\ Len(s \o r) = n + Len(r)
        /\ \A j \in 1..(n + Len(r)) : (s \o r)[j] = IF j <= n THEN s[j] ELSE r[j - n]
    BY <2>1, ConcatProperties, Zenon DEF n
  <2> QED   BY <1>2, <2>2, Zenon
<1>4. n + i \in 1..Len(w) /\ w[n + i] = t[i]
  <2>1. n + i \in 1..(n + m) /\ ~(n + i <= n) /\ (n + i) - n = i
    BY <1>1
  <2> QED   BY <1>1, <2>1
<1>5. /\ RemoveAt(w, n + i) \in Seq(S) /\ Len(RemoveAt(w, n + i)) = n + m - 1
      /\ \A j \in 1..(n + m - 1) :
           RemoveAt(w, n + i)[j] = IF j < n + i THEN w[j] ELSE w[j + 1]
  <2>1. w \in Seq(S) /\ n + i \in 1..Len(w) /\ Len(w) = n + m /\ n \in Nat /\ m \in Nat
    BY <1>1, <1>4
  <2>2. /\ RemoveAt(w, n + i) \in Seq(S) /\ Len(RemoveAt(w, n + i)) = Len(w) - 1
        /\ \A j \in 1..(Len(w) - 1) :
             RemoveAt(w, n + i)[j] = IF j < n + i THEN w[j] ELSE w[j + 1]
    BY <2>1, RemoveAtProperties, Zenon
  <2>3. \A j \in 1..(n + m - 1) : j \in 1..(Len(w) - 1)
    BY <2>1
  <2>4. \A j \in 1..(n + m - 1) :
          RemoveAt(w, n + i)[j] = IF j < n + i THEN w[j] ELSE w[j + 1]
    BY <2>2, <2>3, Zenon
  <2>5. Len(RemoveAt(w, n + i)) = n + m - 1
    BY <2>1, <2>2
  <2> QED   BY <2>2, <2>4, <2>5, Zenon
<1>6. \A j \in 1..(n + m - 1) : RemoveAt(w, n + i)[j] = (s \o r)[j]
  <2> SUFFICES ASSUME NEW j \in 1..(n + m - 1)
               PROVE  RemoveAt(w, n + i)[j] = (s \o r)[j]
    OBVIOUS
  <2>1. CASE j <= n
    <3>1. j < n + i /\ j \in 1..(n + m)
      BY <1>1, <2>1
    <3> QED   BY <1>1, <1>3, <1>5, <2>1, <3>1
  <2>2. CASE j > n /\ j < n + i
    <3>1. j - n \in 1..(m - 1) /\ j - n < i /\ j \in 1..(n + m) /\ ~(j <= n) /\ j \in 1..(n + (m - 1))
      BY <1>1, <2>2
    <3>2. RemoveAt(w, n + i)[j] = t[j - n]
      BY <1>1, <1>5, <2>2, <3>1
    <3>3. (s \o r)[j] = r[j - n]
      BY <1>3, <3>1
    <3>4. r[j - n] = t[j - n]
      BY <1>2, <3>1
    <3> QED   BY <3>2, <3>3, <3>4
  <2>3. CASE j > n /\ ~(j < n + i)
    <3>1. /\ j - n \in 1..(m - 1) /\ ~(j - n < i) /\ j + 1 \in 1..(n + m) /\ ~(j + 1 <= n)
          /\ ~(j <= n) /\ j \in 1..(n + (m - 1)) /\ (j + 1) - n = (j - n) + 1
      BY <1>1, <2>3
    <3>2. RemoveAt(w, n + i)[j] = t[(j + 1) - n]
      BY <1>1, <1>5, <2>3, <3>1
    <3>3. (s \o r)[j] = r[j - n]
      BY <1>3, <3>1
    <3>4. r[j - n] = t[(j - n) + 1]
      BY <1>2, <3>1
    <3> QED   BY <3>1, <3>2, <3>3, <3>4
  <2>4. j \in Int /\ n \in Int /\ i \in Int
    BY <1>1
  <2>5. j <= n \/ (j > n /\ j < n + i) \/ (j > n /\ ~(j < n + i))
    BY <2>4
  <2> QED   BY <2>1, <2>2, <2>3, <2>5, Zenon
<1>7. RemoveAt(w, n + i) = s \o r
  <2>1. n + (m - 1) = n + m - 1
    BY <1>1
  <2> QED   BY <1>3, <1>5, <1>6, <2>1, SeqEqual
<1> QED   BY <1>4, <1>7 DEF w, r, n, m

-----------------------------------------------------------------------------
(* What is left of a sequence after its first elements.                    *)
LEMMA SuffixProperties ==
  ASSUME NEW S, NEW s \in Seq(S), NEW c \in 0..Len(s)
  PROVE  /\ SubSeq(s, c + 1, Len(s)) \in Seq(S)
         /\ Len(SubSeq(s, c + 1, Len(s))) = Len(s) - c
         /\ \A j \in 1..(Len(s) - c) : SubSeq(s, c + 1, Len(s))[j] = s[c + j]
<1>1. Len(s) \in Nat /\ c \in Nat /\ c <= Len(s)
  BY LenProperties
<1>2. \A j \in (c + 1)..Len(s) : s[j] \in S
  BY <1>1, ElementOfSeq
<1>3. /\ SubSeq(s, c + 1, Len(s)) \in Seq(S)
      /\ Len(SubSeq(s, c + 1, Len(s))) = IF c + 1 <= Len(s) THEN Len(s) - (c + 1) + 1 ELSE 0
      /\ \A j \in 1..(Len(s) - (c + 1) + 1) : SubSeq(s, c + 1, Len(s))[j] = s[(c + 1) + j - 1]
  BY <1>1, <1>2, SubSeqProperties
<1> QED   BY <1>1, <1>3

LEMMA SuffixOfConcat ==
  ASSUME NEW S, NEW s \in Seq(S), NEW t \in Seq(S)
  PROVE  SubSeq(s \o t, Len(s) + 1, Len(s \o t)) = t
<1> DEFINE w == s \o t
           u == SubSeq(w, Len(s) + 1, Len(w))
<1>1. /\ w \in Seq(S) /\ Len(w) = Len(s) + Len(t) /\ Len(s) \in Nat /\ Len(t) \in Nat
      /\ \A i \in 1..(Len(s) + Len(t)) : w[i] = IF i <= Len(s) THEN s[i] ELSE t[i - Len(s)]
  BY ConcatProperties, LenProperties
<1> HIDE DEF w
<1>2. u \in Seq(S) /\ Len(u) = Len(t) /\ \A j \in 1..Len(t) : u[j] = w[Len(s) + j]
  BY <1>1, SuffixProperties
<1>3. ASSUME NEW j \in 1..Len(t) PROVE u[j] = t[j]
  <2>1. Len(s) + j \in 1..(Len(s) + Len(t)) /\ ~ (Len(s) + j <= Len(s)) /\ (Len(s) + j) - Len(s) = j
    BY <1>1
  <2> QED   BY <1>1, <1>2, <2>1
<1> HIDE DEF u
<1>4. u = t
  BY <1>2, <1>3, SeqEqual
<1> QED   BY <1>4 DEF u, w

LEMMA SuffixOfAppend ==
  ASSUME NEW S, NEW s \in Seq(S), NEW e \in S, NEW c \in 0..Len(s)
  PROVE  SubSeq(Append(s, e), c + 1, Len(Append(s, e))) = Append(SubSeq(s, c + 1, Len(s)), e)
<1> DEFINE w == Append(s, e)
           u == SubSeq(w, c + 1, Len(w))
           v == SubSeq(s, c + 1, Len(s))
           x == Append(v, e)
<1>1. /\ w \in Seq(S) /\ Len(w) = Len(s) + 1 /\ Len(s) \in Nat /\ c \in 0..Len(w)
      /\ w[Len(s) + 1] = e /\ \A i \in 1..Len(s) : w[i] = s[i]
  BY AppendProperties, LenProperties
<1>2. v \in Seq(S) /\ Len(v) = Len(s) - c /\ \A j \in 1..(Len(s) - c) : v[j] = s[c + j]
  BY SuffixProperties
<1> HIDE DEF w, v
<1>3. u \in Seq(S) /\ Len(u) = Len(w) - c /\ \A j \in 1..(Len(w) - c) : u[j] = w[c + j]
  BY <1>1, SuffixProperties
<1>4. /\ x \in Seq(S) /\ Len(x) = Len(v) + 1 /\ x[Len(v) + 1] = e
      /\ \A j \in 1..Len(v) : x[j] = v[j]
  BY <1>2, AppendProperties
<1> HIDE DEF u, x
<1>5. \A j \in 1..Len(u) : u[j] = x[j]
  <2> SUFFICES ASSUME NEW j \in 1..Len(u) PROVE u[j] = x[j]
    OBVIOUS
  <2>1. Len(v) \in Nat /\ j \in 1..(Len(w) - c) /\ u[j] = w[c + j]
    BY <1>1, <1>2, <1>3
  <2>2. CASE j = Len(v) + 1
    <3>1. c + j = Len(s) + 1
      BY <1>1, <1>2, <2>1, <2>2
    <3> QED   BY <1>1, <1>4, <2>1, <2>2, <3>1
  <2>3. CASE j # Len(v) + 1
    <3>1. j \in 1..Len(v) /\ j \in 1..(Len(s) - c) /\ c + j \in 1..Len(s)
      BY <1>1, <1>2, <2>1, <2>3
    <3> QED   BY <1>1, <1>2, <1>4, <2>1, <3>1
  <2> QED   BY <2>2, <2>3
<1>6. Len(u) = Len(x)
  BY <1>1, <1>2, <1>3, <1>4
<1>7. u = x
  BY <1>3, <1>4, <1>5, <1>6, SeqEqual
<1> QED   BY <1>7 DEF u, v, w, x

LEMMA SuffixOfRemoveAt ==
  ASSUME NEW S, NEW s \in Seq(S), NEW k \in 1..Len(s), NEW c \in 0..Len(s)
  PROVE  LET r == RemoveAt(s, k)
             u == SubSeq(s, c + 1, Len(s))
         IN  /\ c < k => k - c \in 1..Len(u) /\ u[k - c] = s[k] /\ SubSeq(r, c + 1, Len(r)) = RemoveAt(u, k - c)
             /\ k <= c => SubSeq(r, (c - 1) + 1, Len(r)) = u /\ \A j \in 1..Len(u) : u[j] = s[c + j]
<1> DEFINE r == RemoveAt(s, k)
           u == SubSeq(s, c + 1, Len(s))
           n == Len(s)
<1>1. n \in Nat /\ c \in Nat /\ c <= n /\ k \in Nat /\ 1 <= k /\ k <= n
  BY LenProperties
<1>2. r \in Seq(S) /\ Len(r) = n - 1 /\ \A j \in 1..(n - 1) : r[j] = IF j < k THEN s[j] ELSE s[j + 1]
  BY RemoveAtProperties
<1>3. u \in Seq(S) /\ Len(u) = n - c /\ \A j \in 1..(n - c) : u[j] = s[c + j]
  BY SuffixProperties
<1> HIDE DEF r, u, n
<1>4. ASSUME c < k
      PROVE  k - c \in 1..Len(u) /\ u[k - c] = s[k] /\ SubSeq(r, c + 1, Len(r)) = RemoveAt(u, k - c)
  <2> DEFINE x == SubSeq(r, c + 1, Len(r))
             y == RemoveAt(u, k - c)
  <2>1. k - c \in 1..Len(u) /\ u[k - c] = s[k] /\ c \in 0..Len(r)
    <3>1. Len(u) = n - c /\ Len(r) = n - 1
      BY <1>2, <1>3
    <3>2. k - c \in 1..(n - c) /\ c + (k - c) = k /\ c \in 0..(n - 1)
      BY <1>1, <1>4
    <3> QED   BY <1>3, <3>1, <3>2
  <2>2. x \in Seq(S) /\ Len(x) = Len(r) - c /\ \A j \in 1..(Len(r) - c) : x[j] = r[c + j]
    BY <1>2, <2>1, SuffixProperties
  <2>3. y \in Seq(S) /\ Len(y) = Len(u) - 1 /\ \A j \in 1..(Len(u) - 1) : y[j] = IF j < k - c THEN u[j] ELSE u[j + 1]
    BY <1>3, <2>1, RemoveAtProperties
  <2> HIDE DEF x, y
  <2>4. ASSUME NEW j \in 1..Len(x) PROVE x[j] = y[j]
    <3>1. /\ j \in 1..(Len(r) - c) /\ j \in 1..(Len(u) - 1) /\ c + j \in 1..(n - 1)
          /\ j \in 1..(n - c) /\ j + 1 \in 1..(n - c)
      BY <1>1, <1>2, <1>3, <1>4, <2>2
    <3>2. CASE j < k - c
      BY <1>1, <1>2, <1>3, <2>2, <2>3, <3>1, <3>2
    <3>3. CASE ~ (j < k - c)
      <4>1. x[j] = s[(c + j) + 1] /\ y[j] = s[c + (j + 1)]
        BY <1>1, <1>2, <1>3, <2>2, <2>3, <3>1, <3>3
      <4> QED   BY <1>1, <4>1
    <3> QED   BY <3>2, <3>3
  <2>5. Len(x) = Len(y)
    <3>1. Len(x) = (n - 1) - c /\ Len(y) = (n - c) - 1
      BY <1>2, <1>3, <2>2, <2>3
    <3> QED   BY <1>1, <3>1
  <2>6. x = y
    BY <2>2, <2>3, <2>4, <2>5, SeqEqual
  <2> QED   BY <2>1, <2>6 DEF x, y
<1>5. ASSUME k <= c
      PROVE  SubSeq(r, (c - 1) + 1, Len(r)) = u /\ \A j \in 1..Len(u) : u[j] = s[c + j]
  <2> DEFINE x == SubSeq(r, (c - 1) + 1, Len(r))
  <2>1. c - 1 \in 0..Len(r)
    BY <1>1, <1>2, <1>5
  <2>2. x \in Seq(S) /\ Len(x) = Len(r) - (c - 1) /\ \A j \in 1..(Len(r) - (c - 1)) : x[j] = r[(c - 1) + j]
    BY <1>2, <2>1, SuffixProperties
  <2> HIDE DEF x
  <2>3. ASSUME NEW j \in 1..Len(x) PROVE x[j] = u[j]
    <3>1. /\ (c - 1) + j \in 1..(n - 1) /\ ~ ((c - 1) + j < k) /\ j \in 1..(n - c) /\ ((c - 1) + j) + 1 = c + j
      BY <1>1, <1>2, <1>5, <2>2
    <3> QED   BY <1>2, <1>3, <2>2, <3>1
  <2>4. Len(x) = Len(u)
    <3>1. Len(x) = (n - 1) - (c - 1) /\ Len(u) = n - c
      BY <1>2, <1>3, <2>2
    <3> QED   BY <1>1, <3>1
  <2>5. x = u
    BY <1>3, <2>2, <2>3, <2>4, SeqEqual
  <2> QED   BY <1>3, <2>5 DEF x
<1> QED   BY <1>4, <1>5 DEF r, u

LEMMA SuffixStep ==
  ASSUME NEW S, NEW s \in Seq(S), NEW a \in Seq(S), NEW c \in 0..Len(s), c < Len(s)
  PROVE  a \o SubSeq(s, c + 1, Len(s)) = Append(a, s[c + 1]) \o SubSeq(s, (c + 1) + 1, Len(s))
<1> DEFINE u == SubSeq(s, c + 1, Len(s))
           v == SubSeq(s, (c + 1) + 1, Len(s))
           b == Append(a, s[c + 1])
           x == a \o u
           y == b \o v
           n == Len(s)
           m == Len(a)
<1>1. n \in Nat /\ m \in Nat /\ c \in Nat /\ c < n /\ c + 1 \in 0..n /\ s[c + 1] \in S
  BY LenProperties, ElementOfSeq
<1>2. u \in Seq(S) /\ Len(u) = n - c /\ \A j \in 1..(n - c) : u[j] = s[c + j]
  BY SuffixProperties
<1>3. v \in Seq(S) /\ Len(v) = n - (c + 1) /\ \A j \in 1..(n - (c + 1)) : v[j] = s[(c + 1) + j]
  BY <1>1, SuffixProperties
<1>4. b \in Seq(S) /\ Len(b) = m + 1 /\ b[m + 1] = s[c + 1] /\ \A j \in 1..m : b[j] = a[j]
  BY <1>1, AppendProperties
<1> HIDE DEF u, v, b
<1>5. x \in Seq(S) /\ Len(x) = m + Len(u) /\ \A j \in 1..(m + Len(u)) : x[j] = IF j <= m THEN a[j] ELSE u[j - m]
  BY <1>2, ConcatProperties
<1>6. /\ y \in Seq(S) /\ Len(y) = Len(b) + Len(v)
      /\ \A j \in 1..(Len(b) + Len(v)) : y[j] = IF j <= Len(b) THEN b[j] ELSE v[j - Len(b)]
  BY <1>3, <1>4, ConcatProperties
<1> HIDE DEF x, y, n, m
<1>7. ASSUME NEW j \in 1..Len(x) PROVE x[j] = y[j]
  <2>1. CASE j <= m
    <3>1. /\ j \in 1..m /\ j \in 1..(m + Len(u)) /\ j \in 1..(Len(b) + Len(v)) /\ j <= Len(b)
      BY <1>1, <1>2, <1>3, <1>4, <1>5, <2>1
    <3> QED   BY <1>4, <1>5, <1>6, <2>1, <3>1
  <2>2. CASE j = m + 1
    <3>1. x[j] = u[1] /\ u[1] = s[c + 1] /\ y[j] = b[m + 1]
      BY <1>1, <1>2, <1>3, <1>4, <1>5, <1>6, <2>2
    <3> QED   BY <1>4, <3>1
  <2>3. CASE j > m + 1
    <3>1. Len(u) = n - c /\ Len(b) = m + 1 /\ Len(v) = n - (c + 1) /\ Len(x) = m + Len(u)
      BY <1>2, <1>3, <1>4, <1>5
    <3>2. /\ j - m \in 1..(n - c) /\ j - (m + 1) \in 1..(n - (c + 1))
          /\ j \in 1..(m + Len(u)) /\ ~ (j <= m) /\ j \in 1..(Len(b) + Len(v)) /\ ~ (j <= Len(b))
      BY <1>1, <2>3, <3>1
    <3>3. x[j] = u[j - m] /\ y[j] = v[j - (m + 1)]
      BY <1>5, <1>6, <3>1, <3>2
    <3>4. c + (j - m) = (c + 1) + (j - (m + 1))
      BY <1>1, <2>3
    <3> QED   BY <1>2, <1>3, <3>2, <3>3, <3>4
  <2> QED   BY <1>1, <1>5, <2>1, <2>2, <2>3
<1>8. x = y
  <2>1. Len(x) = Len(y)
    <3>1. Len(x) = m + (n - c) /\ Len(y) = (m + 1) + (n - (c + 1))
      BY <1>2, <1>3, <1>4, <1>5, <1>6
    <3> QED   BY <1>1, <3>1
  <2> QED   BY <1>5, <1>6, <1>7, <2>1, SeqEqual
<1> QED   BY <1>8 DEF x, y, u, v, b

(* A sequence with another element after its first c.                      *)
Inserted(s, c, e) == [j \in 1..(Len(s) + 1) |-> IF j <= c THEN s[j] ELSE IF j = c + 1 THEN e ELSE s[j - 1]]

LEMMA InsertedProperties ==
  ASSUME NEW S, NEW s \in Seq(S), NEW c \in 0..Len(s), NEW e \in S
  PROVE  /\ Inserted(s, c, e) \in Seq(S) /\ Len(Inserted(s, c, e)) = Len(s) + 1
         /\ \A j \in 1..(Len(s) + 1) :
              Inserted(s, c, e)[j] = IF j <= c THEN s[j] ELSE IF j = c + 1 THEN e ELSE s[j - 1]
<1> DEFINE n == Len(s)
           w == Inserted(s, c, e)
<1>1. n \in Nat /\ c \in Nat /\ c <= n /\ \A j \in 1..n : s[j] \in S
  BY LenProperties, ElementOfSeq
<1>2. w = [j \in 1..(n + 1) |-> IF j <= c THEN s[j] ELSE IF j = c + 1 THEN e ELSE s[j - 1]]
  BY DEF Inserted
<1> HIDE DEF w, n
<1>3. ASSUME NEW j \in 1..(n + 1) PROVE w[j] \in S
  <2>1. CASE j <= c
    BY <1>1, <1>2, <2>1
  <2>2. CASE j > c /\ j # c + 1
    <3>1. j - 1 \in 1..n /\ ~ (j <= c)
      BY <1>1, <2>2
    <3> QED   BY <1>1, <1>2, <2>2, <3>1
  <2>3. CASE j = c + 1
    BY <1>1, <1>2, <2>3
  <2> QED   BY <1>1, <2>1, <2>2, <2>3
<1>4. w \in [1..(n + 1) -> S] /\ n + 1 \in Nat
  BY <1>1, <1>2, <1>3
<1>5. w \in Seq(S) /\ Len(w) = n + 1
  BY <1>4, IsASeq, LenProperties
<1> QED   BY <1>2, <1>5 DEF w, n

LEMMA InsertedIsASeq ==
  ASSUME NEW S, NEW s \in Seq(S), NEW c \in 0..Len(s), NEW e \in S
  PROVE  Inserted(s, c, e) \in Seq(S) /\ Len(Inserted(s, c, e)) = Len(s) + 1
BY InsertedProperties

LEMMA InsertedAt ==
  ASSUME NEW S, NEW s \in Seq(S), NEW c \in 0..Len(s), NEW e \in S, NEW j \in 1..(Len(s) + 1)
  PROVE  /\ j <= c => Inserted(s, c, e)[j] = s[j]
         /\ j = c + 1 => Inserted(s, c, e)[j] = e
         /\ j > c + 1 => Inserted(s, c, e)[j] = s[j - 1]
<1>1. Inserted(s, c, e)[j] = IF j <= c THEN s[j] ELSE IF j = c + 1 THEN e ELSE s[j - 1]
  BY InsertedProperties
<1>2. c \in Nat /\ Len(s) \in Nat /\ j \in Nat
  BY LenProperties
<1> QED   BY <1>1, <1>2

LEMMA InsertedElements ==
  ASSUME NEW S, NEW s \in Seq(S), NEW c \in 0..Len(s), NEW e \in S, NoRepetition(s), e \notin ElementsOf(s)
  PROVE  /\ NoRepetition(Inserted(s, c, e))
         /\ ElementsOf(Inserted(s, c, e)) = ElementsOf(s) \cup {e}
<1> DEFINE n == Len(s)
           w == Inserted(s, c, e)
           old(j) == IF j <= c THEN j ELSE j - 1
           new(j) == IF j <= c THEN j ELSE j + 1
<1>1. n \in Nat /\ c \in Nat /\ c <= n
  BY LenProperties
<1>2. /\ Len(w) = n + 1
      /\ \A j \in 1..(n + 1) : w[j] = IF j <= c THEN s[j] ELSE IF j = c + 1 THEN e ELSE s[j - 1]
  BY InsertedProperties
<1> HIDE DEF w, n
<1>3. w[c + 1] = e /\ c + 1 \in 1..(n + 1)
  BY <1>1, <1>2
<1>4. \A j \in 1..(n + 1) : j # c + 1 => old(j) \in 1..n /\ w[j] = s[old(j)] /\ j = new(old(j))
  BY <1>1, <1>2
<1>5. \A k \in 1..n : new(k) \in 1..(n + 1) /\ w[new(k)] = s[k]
  <2> SUFFICES ASSUME NEW k \in 1..n PROVE new(k) \in 1..(n + 1) /\ w[new(k)] = s[k]
    OBVIOUS
  <2>1. new(k) \in 1..(n + 1) /\ new(k) # c + 1 /\ old(new(k)) = k
    BY <1>1
  <2> QED   BY <1>4, <2>1
<1> HIDE DEF old, new
<1>6. \A k \in 1..n : s[k] # e
  BY DEF ElementsOf, n
<1>7. NoRepetition(w)
  <2> SUFFICES ASSUME NEW i \in 1..(n + 1), NEW j \in 1..(n + 1), w[i] = w[j] PROVE i = j
    BY <1>2 DEF NoRepetition
  <2>1. CASE i = c + 1
    BY <1>3, <1>4, <1>6, <2>1
  <2>2. CASE j = c + 1
    BY <1>3, <1>4, <1>6, <2>2
  <2>3. CASE i # c + 1 /\ j # c + 1
    <3>1. old(i) = old(j)
      BY <1>4, <2>3 DEF NoRepetition, n
    <3> QED   BY <1>4, <2>3, <3>1
  <2> QED   BY <2>1, <2>2, <2>3
<1>8. ElementsOf(w) = ElementsOf(s) \cup {e}
  <2>1. \A x \in ElementsOf(w) : x \in ElementsOf(s) \cup {e}
    BY <1>2, <1>3, <1>4 DEF ElementsOf, n
  <2>2. \A x \in ElementsOf(s) : x \in ElementsOf(w)
    BY <1>2, <1>5 DEF ElementsOf, n
  <2>3. e \in ElementsOf(w)
    BY <1>2, <1>3 DEF ElementsOf
  <2> QED   BY <2>1, <2>2, <2>3
<1> QED   BY <1>7, <1>8 DEF w

LEMMA RemoveInserted ==
  ASSUME NEW S, NEW s \in Seq(S), NEW c \in 0..Len(s), NEW e \in S
  PROVE  c + 1 \in 1..(Len(s) + 1) /\ RemoveAt(Inserted(s, c, e), c + 1) = s
<1> DEFINE n == Len(s)
           w == Inserted(s, c, e)
           r == RemoveAt(w, c + 1)
<1>1. n \in Nat /\ c \in Nat /\ c <= n
  BY LenProperties
<1>2. /\ w \in Seq(S) /\ Len(w) = n + 1
      /\ \A j \in 1..(n + 1) : w[j] = IF j <= c THEN s[j] ELSE IF j = c + 1 THEN e ELSE s[j - 1]
  <2>1. w \in Seq(S) /\ Len(w) = n + 1
    BY InsertedProperties
  <2>2. \A j \in 1..(n + 1) : w[j] = IF j <= c THEN s[j] ELSE IF j = c + 1 THEN e ELSE s[j - 1]
    BY InsertedProperties
  <2> QED   BY <2>1, <2>2
<1> HIDE DEF w, n
<1>3. c + 1 \in 1..Len(w)
  BY <1>1, <1>2
<1>4. r \in Seq(S) /\ Len(r) = Len(w) - 1 /\ \A j \in 1..(Len(w) - 1) : r[j] = IF j < c + 1 THEN w[j] ELSE w[j + 1]
  BY <1>2, <1>3, RemoveAtProperties
<1> HIDE DEF r
<1>5. Len(r) = n
  BY <1>1, <1>2, <1>4
<1>6. ASSUME NEW j \in 1..n PROVE r[j] = s[j]
  <2>1. j \in 1..(Len(w) - 1) /\ j \in 1..(n + 1) /\ j + 1 \in 1..(n + 1) /\ (j + 1) - 1 = j
    BY <1>1, <1>2
  <2>2. CASE j <= c
    BY <1>1, <1>2, <1>4, <2>1, <2>2
  <2>3. CASE ~ (j <= c)
    BY <1>1, <1>2, <1>4, <2>1, <2>3
  <2> QED   BY <2>2, <2>3
<1>7. r = s
  BY <1>4, <1>5, <1>6, SeqEqual DEF n
<1> QED   BY <1>1, <1>7 DEF r, w, n

LEMMA RemoveFromInserted ==
  ASSUME NEW S, NEW s \in Seq(S), NEW c \in 0..Len(s), NEW e \in S, NEW k \in 1..Len(s)
  PROVE  LET at == IF k <= c THEN k ELSE k + 1
         IN  /\ at \in 1..(Len(s) + 1) /\ Inserted(s, c, e)[at] = s[k]
             /\ RemoveAt(Inserted(s, c, e), at) = Inserted(RemoveAt(s, k), IF k <= c THEN c - 1 ELSE c, e)
<1> DEFINE n == Len(s)
           w == Inserted(s, c, e)
           at == IF k <= c THEN k ELSE k + 1
           d == IF k <= c THEN c - 1 ELSE c
           r == RemoveAt(s, k)
           x == RemoveAt(w, at)
           y == Inserted(r, d, e)
<1>1. n \in Nat /\ c \in Nat /\ c <= n /\ k \in Nat /\ 1 <= k /\ k <= n
  BY LenProperties
<1>2. /\ w \in Seq(S) /\ Len(w) = n + 1
      /\ \A j \in 1..(n + 1) : w[j] = IF j <= c THEN s[j] ELSE IF j = c + 1 THEN e ELSE s[j - 1]
  <2>1. w \in Seq(S) /\ Len(w) = n + 1
    BY InsertedProperties
  <2>2. \A j \in 1..(n + 1) : w[j] = IF j <= c THEN s[j] ELSE IF j = c + 1 THEN e ELSE s[j - 1]
    BY InsertedProperties
  <2> QED   BY <2>1, <2>2
<1>3. r \in Seq(S) /\ Len(r) = n - 1 /\ \A j \in 1..(n - 1) : r[j] = IF j < k THEN s[j] ELSE s[j + 1]
  BY RemoveAtProperties
<1> HIDE DEF w, n, r
<1>4. at \in 1..(n + 1) /\ at \in Nat
  BY <1>1
<1>5. x \in Seq(S) /\ Len(x) = n /\ \A j \in 1..n : x[j] = IF j < at THEN w[j] ELSE w[j + 1]
  <2>1. at \in 1..Len(w)
    BY <1>2, <1>4
  <2>2. x \in Seq(S) /\ Len(x) = Len(w) - 1 /\ \A j \in 1..(Len(w) - 1) : x[j] = IF j < at THEN w[j] ELSE w[j + 1]
    BY <1>2, <2>1, RemoveAtProperties
  <2>3. Len(w) - 1 = n
    BY <1>1, <1>2
  <2> QED   BY <2>2, <2>3
<1>6. d \in 0..(n - 1)
  BY <1>1
<1>7. /\ y \in Seq(S) /\ Len(y) = n
      /\ \A j \in 1..n : y[j] = IF j <= d THEN r[j] ELSE IF j = d + 1 THEN e ELSE r[j - 1]
  <2>1. d \in 0..Len(r) /\ Len(r) + 1 = n /\ r \in Seq(S)
    BY <1>1, <1>3, <1>6
  <2> HIDE DEF d
  <2>2. Inserted(r, d, e) \in Seq(S) /\ Len(Inserted(r, d, e)) = Len(r) + 1
    BY <2>1, InsertedIsASeq
  <2>3. ASSUME NEW j \in 1..(Len(r) + 1)
        PROVE  Inserted(r, d, e)[j] = IF j <= d THEN r[j] ELSE IF j = d + 1 THEN e ELSE r[j - 1]
    <3>1. j <= d => Inserted(r, d, e)[j] = r[j]
      BY <2>1, InsertedAt
    <3>2. j = d + 1 => Inserted(r, d, e)[j] = e
      BY <2>1, InsertedAt
    <3>3. j > d + 1 => Inserted(r, d, e)[j] = r[j - 1]
      BY <2>1, InsertedAt
    <3>4. j \in Nat /\ d \in Nat
      BY <2>1, LenProperties
    <3> QED   BY <3>1, <3>2, <3>3, <3>4
  <2>4. y = Inserted(r, d, e)
    BY DEF d
  <2> HIDE DEF y
  <2> QED   BY <2>1, <2>2, <2>3, <2>4
<1> HIDE DEF x, y
<1>8. ASSUME NEW j \in 1..n PROVE x[j] = y[j]
  <2>1. j \in 1..(n + 1) /\ j + 1 \in 1..(n + 1) /\ j \in Nat /\ (j + 1) - 1 = j /\ (j - 1) + 1 = j
    BY <1>1
  <2>2. CASE k <= c
    <3>1. CASE j < k
      <4>1. x[j] = s[j]
        BY <1>1, <1>2, <1>5, <2>1, <2>2, <3>1
      <4>2. j <= d /\ j \in 1..(n - 1)
        BY <1>1, <2>2, <3>1
      <4> QED   BY <1>3, <1>7, <3>1, <4>1, <4>2
    <3>2. CASE k <= j /\ j < c
      <4>1. x[j] = s[j + 1]
        BY <1>1, <1>2, <1>5, <2>1, <2>2, <3>2
      <4>2. j <= d /\ j \in 1..(n - 1) /\ ~ (j < k)
        BY <1>1, <2>2, <3>2
      <4> QED   BY <1>3, <1>7, <4>1, <4>2
    <3>3. CASE j = c
      BY <1>1, <1>2, <1>5, <1>7, <2>1, <2>2, <3>3
    <3>4. CASE c < j
      <4>1. x[j] = s[j]
        BY <1>1, <1>2, <1>5, <2>1, <2>2, <3>4
      <4>2. ~ (j <= d) /\ j # d + 1 /\ j - 1 \in 1..(n - 1) /\ ~ (j - 1 < k)
        BY <1>1, <2>2, <3>4
      <4>3. y[j] = s[(j - 1) + 1]
        BY <1>3, <1>7, <4>2
      <4> QED   BY <2>1, <4>1, <4>3
    <3> QED   BY <1>1, <2>1, <3>1, <3>2, <3>3, <3>4
  <2>3. CASE ~ (k <= c)
    <3>1. CASE j <= c
      <4>1. x[j] = s[j]
        BY <1>1, <1>2, <1>5, <2>1, <2>3, <3>1
      <4>2. j <= d /\ j \in 1..(n - 1) /\ j < k
        BY <1>1, <2>3, <3>1
      <4> QED   BY <1>3, <1>7, <4>1, <4>2
    <3>2. CASE j = c + 1
      BY <1>1, <1>2, <1>5, <1>7, <2>1, <2>3, <3>2
    <3>3. CASE c + 1 < j /\ j <= k
      <4>1. x[j] = s[j - 1]
        BY <1>1, <1>2, <1>5, <2>1, <2>3, <3>3
      <4>2. ~ (j <= d) /\ j # d + 1 /\ j - 1 \in 1..(n - 1) /\ j - 1 < k
        BY <1>1, <2>3, <3>3
      <4> QED   BY <1>3, <1>7, <4>1, <4>2
    <3>4. CASE k < j
      <4>1. x[j] = s[j]
        BY <1>1, <1>2, <1>5, <2>1, <2>3, <3>4
      <4>2. ~ (j <= d) /\ j # d + 1 /\ j - 1 \in 1..(n - 1) /\ ~ (j - 1 < k)
        BY <1>1, <2>3, <3>4
      <4>3. y[j] = s[(j - 1) + 1]
        BY <1>3, <1>7, <4>2
      <4> QED   BY <2>1, <4>1, <4>3
    <3> QED   BY <1>1, <2>1, <3>1, <3>2, <3>3, <3>4
  <2> QED   BY <2>2, <2>3
<1>9. x = y
  BY <1>5, <1>7, <1>8, SeqEqual
<1>10. w[at] = s[k]
  <2>1. CASE k <= c
    BY <1>1, <1>2, <1>4, <2>1
  <2>2. CASE ~ (k <= c)
    <3>1. ~ (k + 1 <= c) /\ k + 1 # c + 1 /\ (k + 1) - 1 = k
      BY <1>1, <2>2
    <3> QED   BY <1>2, <1>4, <2>2, <3>1
  <2> QED   BY <2>1, <2>2
<1> QED   BY <1>4, <1>9, <1>10 DEF x, y, w, n, r

LEMMA InsertBack ==
  ASSUME NEW S, NEW s \in Seq(S), NEW k \in 1..Len(s)
  PROVE  s = Inserted(RemoveAt(s, k), k - 1, s[k])
<1> DEFINE n == Len(s)
           r == RemoveAt(s, k)
           y == Inserted(r, k - 1, s[k])
<1>1. n \in Nat /\ k \in Nat /\ 1 <= k /\ k <= n /\ s[k] \in S
  BY LenProperties, ElementOfSeq
<1>2. r \in Seq(S) /\ Len(r) = n - 1 /\ \A j \in 1..(n - 1) : r[j] = IF j < k THEN s[j] ELSE s[j + 1]
  BY RemoveAtProperties
<1> HIDE DEF n, r
<1>3. /\ y \in Seq(S) /\ Len(y) = n
      /\ \A j \in 1..n : y[j] = IF j <= k - 1 THEN r[j] ELSE IF j = (k - 1) + 1 THEN s[k] ELSE r[j - 1]
  <2> DEFINE d == k - 1
             e == s[k]
  <2>1. d \in 0..Len(r) /\ Len(r) + 1 = n /\ e \in S /\ r \in Seq(S)
    BY <1>1, <1>2
  <2> HIDE DEF d, e
  <2>2. y = Inserted(r, d, e)
    BY DEF d, e
  <2>3. Inserted(r, d, e) \in Seq(S) /\ Len(Inserted(r, d, e)) = Len(r) + 1
    BY <2>1, InsertedIsASeq
  <2>4. ASSUME NEW j \in 1..(Len(r) + 1)
        PROVE  Inserted(r, d, e)[j] = IF j <= d THEN r[j] ELSE IF j = d + 1 THEN e ELSE r[j - 1]
    <3>1. j <= d => Inserted(r, d, e)[j] = r[j]
      BY <2>1, InsertedAt
    <3>2. j = d + 1 => Inserted(r, d, e)[j] = e
      BY <2>1, InsertedAt
    <3>3. j > d + 1 => Inserted(r, d, e)[j] = r[j - 1]
      BY <2>1, InsertedAt
    <3>4. j \in Nat /\ d \in Nat
      BY <2>1, LenProperties
    <3> QED   BY <3>1, <3>2, <3>3, <3>4
  <2>5. \A j \in 1..n : Inserted(r, d, e)[j] = IF j <= d THEN r[j] ELSE IF j = d + 1 THEN e ELSE r[j - 1]
    BY <2>1, <2>4
  <2> HIDE DEF y
  <2>6. \A j \in 1..n : y[j] = IF j <= d THEN r[j] ELSE IF j = d + 1 THEN e ELSE r[j - 1]
    BY <2>2, <2>5
  <2> QED   BY <2>1, <2>2, <2>3, <2>6 DEF d, e
<1> HIDE DEF y
<1>4. ASSUME NEW j \in 1..n PROVE s[j] = y[j]
  <2>1. CASE j < k
    <3>1. j <= k - 1 /\ j \in 1..(n - 1)
      BY <1>1, <2>1
    <3> QED   BY <1>2, <1>3, <2>1, <3>1
  <2>2. CASE j = k
    BY <1>1, <1>3, <2>2
  <2>3. CASE j > k
    <3>1. ~ (j <= k - 1) /\ j # (k - 1) + 1 /\ j - 1 \in 1..(n - 1) /\ ~ (j - 1 < k) /\ (j - 1) + 1 = j
      BY <1>1, <2>3
    <3> QED   BY <1>2, <1>3, <3>1
  <2> QED   BY <1>1, <2>1, <2>2, <2>3
<1>5. s = y
  BY <1>3, <1>4, SeqEqual DEF n
<1> QED   BY <1>5 DEF y, r

LEMMA AppendInserted ==
  ASSUME NEW S, NEW s \in Seq(S), NEW c \in 0..Len(s), NEW e \in S, NEW f \in S
  PROVE  Append(Inserted(s, c, e), f) = Inserted(Append(s, f), c, e)
<1> DEFINE n == Len(s)
           w == Inserted(s, c, e)
           v == Append(s, f)
           x == Append(w, f)
           y == Inserted(v, c, e)
<1>1. n \in Nat /\ c \in Nat /\ c <= n
  BY LenProperties
<1>2. /\ w \in Seq(S) /\ Len(w) = n + 1
      /\ \A j \in 1..(n + 1) : w[j] = IF j <= c THEN s[j] ELSE IF j = c + 1 THEN e ELSE s[j - 1]
  <2>1. w \in Seq(S) /\ Len(w) = n + 1
    BY InsertedProperties
  <2>2. \A j \in 1..(n + 1) : w[j] = IF j <= c THEN s[j] ELSE IF j = c + 1 THEN e ELSE s[j - 1]
    BY InsertedProperties
  <2> QED   BY <2>1, <2>2
<1>3. v \in Seq(S) /\ Len(v) = n + 1 /\ v[n + 1] = f /\ \A j \in 1..n : v[j] = s[j]
  BY AppendProperties
<1> HIDE DEF n, w, v
<1>4. x \in Seq(S) /\ Len(x) = Len(w) + 1 /\ x[Len(w) + 1] = f /\ \A j \in 1..Len(w) : x[j] = w[j]
  BY <1>2, AppendProperties
<1>5. /\ y \in Seq(S) /\ Len(y) = Len(v) + 1
      /\ \A j \in 1..(Len(v) + 1) : y[j] = IF j <= c THEN v[j] ELSE IF j = c + 1 THEN e ELSE v[j - 1]
  <2>1. c \in 0..Len(v)
    BY <1>1, <1>3
  <2>2. y \in Seq(S) /\ Len(y) = Len(v) + 1
    BY <1>3, <2>1, InsertedIsASeq
  <2>3. ASSUME NEW j \in 1..(Len(v) + 1)
        PROVE  y[j] = IF j <= c THEN v[j] ELSE IF j = c + 1 THEN e ELSE v[j - 1]
    <3>1. j <= c => y[j] = v[j]
      BY <1>3, <2>1, InsertedAt
    <3>2. j = c + 1 => y[j] = e
      BY <1>3, <2>1, InsertedAt
    <3>3. j > c + 1 => y[j] = v[j - 1]
      BY <1>3, <2>1, InsertedAt
    <3>4. j \in Nat /\ c \in Nat
      BY <1>3, <2>1, LenProperties
    <3> QED   BY <3>1, <3>2, <3>3, <3>4
  <2> QED   BY <2>2, <2>3
<1> HIDE DEF x, y
<1>6. ASSUME NEW j \in 1..Len(x) PROVE x[j] = y[j]
  <2>1. Len(x) = n + 2 /\ Len(v) + 1 = n + 2 /\ Len(w) = n + 1
    BY <1>1, <1>2, <1>3, <1>4
  <2>2. CASE j = n + 2
    <3>1. /\ j = Len(w) + 1 /\ j \in 1..(Len(v) + 1) /\ ~ (j <= c) /\ j # c + 1 /\ j - 1 = n + 1
      BY <1>1, <2>1, <2>2
    <3> QED   BY <1>3, <1>4, <1>5, <3>1
  <2>3. CASE j # n + 2
    <3>1. j \in 1..(n + 1) /\ j \in 1..Len(w) /\ j \in 1..(Len(v) + 1)
      BY <1>1, <2>1, <2>3
    <3>2. CASE j <= c
      <4>1. j \in 1..n
        BY <1>1, <3>1, <3>2
      <4> QED   BY <1>2, <1>3, <1>4, <1>5, <3>1, <3>2, <4>1
    <3>3. CASE j = c + 1
      <4>1. ~ (j <= c)
        BY <1>1, <3>3
      <4> QED   BY <1>2, <1>4, <1>5, <3>1, <3>3, <4>1
    <3>4. CASE ~ (j <= c) /\ j # c + 1
      <4>1. j - 1 \in 1..n
        BY <1>1, <3>1, <3>4
      <4> QED   BY <1>2, <1>3, <1>4, <1>5, <3>1, <3>4, <4>1
    <3> QED   BY <3>2, <3>3, <3>4
  <2> QED   BY <2>2, <2>3
<1>7. Len(x) = Len(y)
  BY <1>1, <1>2, <1>3, <1>4, <1>5
<1>8. x = y
  BY <1>4, <1>5, <1>6, <1>7, SeqEqual
<1> QED   BY <1>8 DEF x, y, w, v

(* Stacks without repetitions.                                             *)
LEMMA PushOnStack ==
  ASSUME NEW S, NEW s \in Seq(S), NEW e \in S, IsInjective(s), e \notin ToSet(s)
  PROVE  /\ Append(s, e) \in Seq(S) /\ IsInjective(Append(s, e))
         /\ ToSet(Append(s, e)) = ToSet(s) \cup {e}
<1>1. /\ Append(s, e) \in Seq(S) /\ DOMAIN s = 1..Len(s) /\ DOMAIN Append(s, e) = 1..Len(Append(s, e))
  BY AppendProperties, LenProperties
<1>2. NoRepetition(s) /\ e \notin ElementsOf(s)
  BY <1>1 DEF NoRepetition, ElementsOf, IsInjective, ToSet
<1>3. NoRepetition(Append(s, e)) /\ ElementsOf(Append(s, e)) = ElementsOf(s) \cup {e}
  BY <1>2, AppendElements
<1> QED   BY <1>1, <1>3 DEF NoRepetition, ElementsOf, IsInjective, ToSet

LEMMA PopFromStack ==
  ASSUME NEW S, NEW s \in Seq(S), s # <<>>, IsInjective(s)
  PROVE  /\ Front(s) \in Seq(S) /\ IsInjective(Front(s))
         /\ ToSet(Front(s)) = ToSet(s) \ {Last(s)}
         /\ Last(s) \in ToSet(s)
<1> DEFINE n == Len(s)
           f == Front(s)
<1>1. n \in Nat /\ n > 0 /\ DOMAIN s = 1..n
  BY LenProperties, EmptySeq
<1>2. f \in Seq(S) /\ DOMAIN f = 1..n - 1 /\ \A i \in 1..n - 1 : f[i] = s[i]
  BY <1>1 DEF Front
<1> HIDE DEF n, f
<1>3. \A i \in 1..n - 1 : i \in 1..n /\ i # n
  BY <1>1
<1>4. \A i \in 1..n : i = n \/ i \in 1..n - 1
  BY <1>1
<1>5. Last(s) = s[n] /\ n \in 1..n
  BY <1>1 DEF Last, n
<1>6. IsInjective(f)
  BY <1>1, <1>2, <1>3 DEF IsInjective
<1>7. ToSet(f) = ToSet(s) \ {Last(s)}
  BY <1>1, <1>2, <1>3, <1>4, <1>5 DEF IsInjective, ToSet
<1>8. Last(s) \in ToSet(s)
  BY <1>1, <1>5 DEF ToSet
<1> QED   BY <1>2, <1>6, <1>7, <1>8 DEF f

-----------------------------------------------------------------------------
(* The chain of swaps from position j: it passes positions that are not    *)
(* among Stop, from each to the next, and ends at one that is.             *)
Chains(f, D, Stop, next) ==
  f = [j \in D |-> IF j \in Stop THEN EndsAt(j) ELSE MovesOn(j, next[j], f[next[j]])]

(* The positions of a chain, its end among them.                           *)
Moved(c) == DOMAIN c.moved \cup {c.dest}

(* A chain from j: every position but j is where exactly one other moves,  *)
(* and nothing but the end is among Stop.                                  *)
IsChain(c, D, Stop, next, j) ==
  /\ c.dest \in D /\ c.dest \in Stop /\ DOMAIN c.moved \subseteq D \ Stop
  /\ j \in DOMAIN c.moved \cup {c.dest}
  /\ \A k \in DOMAIN c.moved : c.moved[k] = next[k]
  /\ {next[k] : k \in DOMAIN c.moved} = (DOMAIN c.moved \cup {c.dest}) \ {j}
  /\ \A k, l \in DOMAIN c.moved : next[k] = next[l] => k = l

(* A chain from j goes on to ever lower ranks.                             *)
InOrder(c, rank, j) == \A k \in Moved(c) : rank[c.dest] <= rank[k] /\ rank[k] <= rank[j]

(* The equation of the recursive function has a solution where every step  *)
(* lowers the rank: one for the positions of rank below n, for every n.    *)
LEMMA ChainsExist ==
  ASSUME NEW D, NEW Stop, NEW next, NEW rank \in [D -> Nat], NEW bound \in Nat,
         \A j \in D : rank[j] < bound,
         \A j \in D \ Stop : next[j] \in D /\ rank[next[j]] < rank[j]
  PROVE  \E f : Chains(f, D, Stop, next)
<1> DEFINE Below(n) == {j \in D : rank[j] < n}
           Reached == {n \in Nat : \E f : Chains(f, Below(n), Stop, next)}
<1>1. 0 \in Reached
  <2>1. Below(0) = {}
    OBVIOUS
  <2>2. Chains([j \in {} |-> j], {}, Stop, next)
    BY DEF Chains
  <2> QED   BY <2>1, <2>2
<1>2. ASSUME NEW n \in Nat, n \in Reached PROVE n + 1 \in Reached
  <2>1. PICK g : Chains(g, Below(n), Stop, next)
    BY <1>2
  <2> DEFINE f == [j \in Below(n + 1) |-> IF j \in Stop THEN EndsAt(j) ELSE MovesOn(j, next[j], g[next[j]])]
  <2>2. \A j \in Below(n) : f[j] = g[j] /\ j \in Below(n + 1)
    BY <2>1 DEF Chains
  <2>3. \A j \in Below(n + 1) \ Stop : next[j] \in Below(n)
    OBVIOUS
  <2>4. \A j \in Below(n + 1) \ Stop : f[next[j]] = g[next[j]]
    BY <2>2, <2>3
  <2>5. f = [j \in Below(n + 1) |-> IF j \in Stop THEN EndsAt(j) ELSE MovesOn(j, next[j], f[next[j]])]
    BY <2>4
  <2> HIDE DEF f
  <2>6. Chains(f, Below(n + 1), Stop, next)
    BY <2>5 DEF Chains
  <2> HIDE DEF Below
  <2> QED   BY <2>6
<1> HIDE DEF Reached
<1>3. Nat \subseteq Reached
  BY <1>1, <1>2, InductionOnNumbers
<1>4. Below(bound) = D
  OBVIOUS
<1> QED   BY <1>3, <1>4 DEF Reached

(* Whatever satisfies the equation is a chain from each position.          *)
LEMMA ChainFacts ==
  ASSUME NEW D, NEW Stop, NEW next, NEW rank \in [D -> Nat], NEW f, Chains(f, D, Stop, next),
         \A j \in D \ Stop : next[j] \in D /\ rank[next[j]] < rank[j]
  PROVE  \A j \in D : IsChain(f[j], D, Stop, next, j) /\ InOrder(f[j], rank, j)
<1> DEFINE Right(j) == IsChain(f[j], D, Stop, next, j) /\ InOrder(f[j], rank, j)
           Reached == {n \in Nat : \A j \in D : rank[j] < n => Right(j)}
<1>1. 0 \in Reached
  OBVIOUS
<1>2. ASSUME NEW n \in Nat, n \in Reached PROVE n + 1 \in Reached
  <2> SUFFICES ASSUME NEW j \in D, rank[j] < n + 1 PROVE Right(j)
    OBVIOUS
  <2>1. CASE j \in Stop
    <3>1. f[j] = [dest |-> j, moved |-> <<>>]
      BY <2>1 DEF Chains, EndsAt
    <3>2. DOMAIN f[j].moved = {} /\ f[j].dest = j
      BY <3>1
    <3> QED   BY <2>1, <3>2 DEF IsChain, InOrder, Moved
  <2>2. CASE j \notin Stop
    <3> DEFINE p == next[j]
               c == f[p]
    <3>1. p \in D /\ rank[p] < rank[j] /\ rank[p] < n
      BY <2>2
    <3>2. Right(p)
      BY <1>2, <3>1
    <3>3. f[j] = [dest |-> c.dest, moved |-> [k \in {j} \cup DOMAIN c.moved |-> IF k = j THEN p ELSE c.moved[k]]]
      BY <2>2 DEF Chains, MovesOn
    <3>4. /\ f[j].dest = c.dest /\ DOMAIN f[j].moved = {j} \cup DOMAIN c.moved
          /\ f[j].moved[j] = p /\ \A k \in DOMAIN c.moved : k # j => f[j].moved[k] = c.moved[k]
      BY <3>3
    <3> HIDE DEF p, c
    <3>5. /\ \A k \in DOMAIN c.moved \cup {c.dest} : k \in D /\ rank[c.dest] <= rank[k] /\ rank[k] <= rank[p]
          /\ rank[c.dest] <= rank[p]
      BY <3>2 DEF c, IsChain, InOrder, Moved
    <3>6. j \notin DOMAIN c.moved \cup {c.dest}
      BY <3>1, <3>5
    <3>7. {next[k] : k \in DOMAIN f[j].moved} = (DOMAIN f[j].moved \cup {f[j].dest}) \ {j}
      <4>1. {next[k] : k \in DOMAIN c.moved} = (DOMAIN c.moved \cup {c.dest}) \ {p}
        BY <3>2 DEF c, IsChain
      <4>2. p \in DOMAIN c.moved \cup {c.dest}
        BY <3>2 DEF c, IsChain
      <4>3. {next[k] : k \in DOMAIN f[j].moved} = {next[k] : k \in DOMAIN c.moved} \cup {p}
        BY <3>4 DEF p
      <4> QED   BY <3>4, <3>6, <4>1, <4>2, <4>3
    <3>8. \A k, l \in DOMAIN f[j].moved : next[k] = next[l] => k = l
      <4>1. \A k \in DOMAIN c.moved : next[k] # p
        BY <3>2 DEF c, IsChain
      <4>2. \A k, l \in DOMAIN c.moved : next[k] = next[l] => k = l
        BY <3>2 DEF c, IsChain
      <4> QED   BY <3>4, <4>1, <4>2 DEF p
    <3>9. IsChain(f[j], D, Stop, next, j)
      BY <2>2, <3>2, <3>4, <3>6, <3>7, <3>8 DEF IsChain, c, p
    <3>10. \A k \in DOMAIN f[j].moved \cup {f[j].dest} : rank[f[j].dest] <= rank[k] /\ rank[k] <= rank[j]
      BY <3>1, <3>4, <3>5
    <3> QED   BY <3>9, <3>10 DEF InOrder, Moved
  <2> QED   BY <2>1, <2>2
<1> HIDE DEF Reached
<1>3. Nat \subseteq Reached
  BY <1>1, <1>2, InductionOnNumbers
<1>4. \A j \in D : rank[j] + 1 \in Reached /\ rank[j] < rank[j] + 1
  BY <1>3
<1> QED   BY <1>4 DEF Reached

-----------------------------------------------------------------------------
(* What swapping along a chain does to an array, whose elements it only    *)
(* moves, and to the indices.                                              *)
Shifted(r, S, q, i, next, c) ==
  /\ r.array \in Seq(S) /\ Len(r.array) = Len(q)
  /\ r.notified = Moved(c) /\ Moved(c) \subseteq 1..Len(q) /\ i \in Moved(c)
  /\ r.array[c.dest] = q[i]
  /\ \A k \in DOMAIN c.moved : r.array[k] = q[next[k]]
  /\ \A k \in 1..Len(q) : k \notin Moved(c) => r.array[k] = q[k]
  /\ ElementsOf(r.array) = ElementsOf(q)
  /\ NoRepetition(q) => NoRepetition(r.array)

(* Moving along a chain permutes the array.                                *)
LEMMA ShiftProperties ==
  ASSUME NEW S, NEW q \in Seq(S), NEW i \in 1..Len(q), NEW Stop, NEW next, NEW c,
         IsChain(c, 1..Len(q), Stop, next, i)
  PROVE  Shifted(Shift(q, q[i], c), S, q, i, next, c)
<1> DEFINE n == Len(q)
           r == Shift(q, q[i], c)
           a == r.array
           from == [k \in 1..n |-> IF k = c.dest THEN i ELSE IF k \in DOMAIN c.moved THEN next[k] ELSE k]
<1>1. n \in Nat /\ \A k \in 1..n : q[k] \in S
  OBVIOUS
<1>2. /\ c.dest \in 1..n /\ DOMAIN c.moved \subseteq 1..n /\ c.dest \notin DOMAIN c.moved /\ i \in Moved(c)
      /\ {next[k] : k \in DOMAIN c.moved} = Moved(c) \ {i}
      /\ \A k, l \in DOMAIN c.moved : next[k] = next[l] => k = l
      /\ \A k \in DOMAIN c.moved : c.moved[k] = next[k]
  BY DEF IsChain, Moved
<1>3. \A k \in DOMAIN c.moved : next[k] \in Moved(c) /\ next[k] # i
  BY <1>2
<1>4. from \in [1..n -> 1..n]
  BY <1>2, <1>3 DEF Moved
<1>5. \A k \in 1..n : \E l \in 1..n : from[l] = k
  <2> SUFFICES ASSUME NEW k \in 1..n PROVE \E l \in 1..n : from[l] = k
    OBVIOUS
  <2>1. CASE k = i
    BY <1>2, <2>1
  <2>2. CASE k \notin Moved(c)
    BY <1>2, <2>2 DEF Moved
  <2>3. CASE k \in Moved(c) \ {i}
    <3>1. PICK l \in DOMAIN c.moved : next[l] = k
      BY <1>2, <2>3
    <3> QED   BY <1>2, <3>1
  <2> QED   BY <2>1, <2>2, <2>3
<1>6. \A k, l \in 1..n : from[k] = from[l] => k = l
  <2> SUFFICES ASSUME NEW k \in 1..n, NEW l \in 1..n, from[k] = from[l] PROVE k = l
    OBVIOUS
  <2>1. CASE k \in DOMAIN c.moved /\ l \in DOMAIN c.moved
    BY <1>2, <2>1
  <2>2. CASE k \in DOMAIN c.moved /\ l \notin DOMAIN c.moved
    BY <1>2, <1>3, <2>2 DEF Moved
  <2>3. CASE k \notin DOMAIN c.moved /\ l \in DOMAIN c.moved
    BY <1>2, <1>3, <2>3 DEF Moved
  <2>4. CASE k \notin DOMAIN c.moved /\ l \notin DOMAIN c.moved
    BY <1>2, <2>4 DEF Moved
  <2> QED   BY <2>1, <2>2, <2>3, <2>4
<1>7. a = [k \in 1..n |-> q[from[k]]]
  BY <1>2 DEF Shift
<1>8. a \in Seq(S) /\ Len(a) = n /\ \A k \in 1..n : a[k] = q[from[k]]
  BY <1>1, <1>4, <1>7
<1>9. r.notified = Moved(c)
  BY DEF Shift, Moved
<1>10. /\ a[c.dest] = q[i]
       /\ \A k \in DOMAIN c.moved : a[k] = q[next[k]]
       /\ \A k \in 1..n : k \notin Moved(c) => a[k] = q[k]
  BY <1>2, <1>8 DEF Moved
<1> HIDE DEF from, a, r
<1>11. ElementsOf(a) = ElementsOf(q)
  <2>1. ASSUME NEW x \in ElementsOf(a) PROVE x \in ElementsOf(q)
    <3>1. PICK k \in 1..n : x = a[k]
      BY <1>8 DEF ElementsOf
    <3>2. x = q[from[k]] /\ from[k] \in 1..n
      BY <1>4, <1>8, <3>1
    <3> QED   BY <3>2 DEF ElementsOf
  <2>2. ASSUME NEW x \in ElementsOf(q) PROVE x \in ElementsOf(a)
    <3>1. PICK k \in 1..n : x = q[k]
      BY DEF ElementsOf
    <3>2. PICK l \in 1..n : from[l] = k
      BY <1>5
    <3> QED   BY <1>8, <3>1, <3>2 DEF ElementsOf
  <2> QED   BY <2>1, <2>2
<1>12. ASSUME NoRepetition(q) PROVE NoRepetition(a)
  <2> SUFFICES ASSUME NEW k \in 1..n, NEW l \in 1..n, a[k] = a[l] PROVE k = l
    BY <1>8 DEF NoRepetition
  <2>1. from[k] \in 1..n /\ from[l] \in 1..n /\ q[from[k]] = q[from[l]]
    BY <1>4, <1>8
  <2>2. from[k] = from[l]
    BY <1>12, <2>1 DEF NoRepetition
  <2> QED   BY <1>6, <2>2
<1> QED   BY <1>2, <1>8, <1>9, <1>10, <1>11, <1>12 DEF Moved, r, a, Shifted

(* Whoever was moved was told so.                                          *)
LEMMA NotifiedProperties ==
  ASSUME NEW S, NEW r, r.array \in Seq(S), NoRepetition(r.array), r.notified \subseteq 1..Len(r.array),
         NEW at \in [S -> Nat], \A k \in 1..Len(r.array) : k \in r.notified \/ at[r.array[k]] = k
  PROVE  /\ Notified(at, r) \in [S -> Nat]
         /\ \A k \in 1..Len(r.array) : Notified(at, r)[r.array[k]] = k
<1>1. \A e \in S : Notified(at, r)[e] = IF \E k \in r.notified : r.array[k] = e
                                      THEN CHOOSE k \in r.notified : r.array[k] = e ELSE at[e]
  BY DEF Notified
<1>2. Notified(at, r) \in [S -> Nat]
  <2>1. ASSUME NEW e \in S PROVE Notified(at, r)[e] \in Nat
    <3>1. CASE \E k \in r.notified : r.array[k] = e
      <4> DEFINE l == CHOOSE l \in r.notified : r.array[l] = e
      <4>1. l \in r.notified
        BY <3>1
      <4>2. Notified(at, r)[e] = l
        BY <1>1, <3>1
      <4> HIDE DEF l
      <4> QED   BY <4>1, <4>2
    <3>2. CASE ~ \E k \in r.notified : r.array[k] = e
      BY <1>1, <3>2
    <3> QED   BY <3>1, <3>2
  <2>2. Notified(at, r) = [e \in S |-> Notified(at, r)[e]]
    BY DEF Notified
  <2> QED   BY <2>1, <2>2
<1>3. ASSUME NEW k \in 1..Len(r.array) PROVE Notified(at, r)[r.array[k]] = k
  <2>1. r.array[k] \in S
    OBVIOUS
  <2>2. CASE k \in r.notified
    <3> DEFINE l == CHOOSE l \in r.notified : r.array[l] = r.array[k]
    <3>1. l \in r.notified /\ r.array[l] = r.array[k]
      BY <2>2
    <3>2. l = k
      BY <3>1 DEF NoRepetition
    <3> HIDE DEF l
    <3> QED   BY <1>1, <2>1, <2>2, <3>2 DEF l
  <2>3. CASE k \notin r.notified
    <3>1. ~ \E l \in r.notified : r.array[l] = r.array[k]
      BY <2>3 DEF NoRepetition
    <3> QED   BY <1>1, <2>1, <2>3, <3>1
  <2> QED   BY <2>2, <2>3
<1> QED   BY <1>2, <1>3

-----------------------------------------------------------------------------
(* Positions of the heap.                                                  *)
LEMMA HeapPositions ==
  /\ \A k \in Nat : k >= 2 => Parent(k) \in Nat /\ 1 <= Parent(k) /\ Parent(k) < k
  /\ \A k \in Nat : Parent(2 * k) = k /\ Parent(2 * k + 1) = k
  /\ \A k \in Nat : k = 2 * Parent(k) \/ k = 2 * Parent(k) + 1
BY DEF Parent

(* A heap but for the element at position i: what is below it is not       *)
(* before what is above it.                                                *)
HeapBut(q, key, i) ==
  /\ \A k \in 2..Len(q) : k # i /\ Parent(k) # i => key[q[Parent(k)]] <= key[q[k]]
  /\ i # 1 => \A k \in 2..Len(q) : Parent(k) = i => key[q[Parent(i)]] <= key[q[k]]

(* The element at position i is not after any that is just below it.       *)
OrderedBelow(q, key, i) == \A k \in 2..Len(q) : Parent(k) = i => key[q[i]] <= key[q[k]]

(* What an operation that starts at position i promises.                   *)
Adjusts(r, q, i) ==
  /\ Len(r.array) = Len(q) /\ r.notified \subseteq 1..Len(q) /\ i \in r.notified
  /\ \A k \in 1..Len(q) : k \notin r.notified => r.array[k] = q[k]
  /\ ElementsOf(r.array) = ElementsOf(q)
  /\ NoRepetition(q) => NoRepetition(r.array)

(* Where AdjustUp goes from position i. *)
UpStop(q, key, i) == {j \in 1..Len(q) : j = 1 \/ key[q[Parent(j)]] <= key[q[i]]}
UpNext(q) == [j \in 1..Len(q) |-> Parent(j)]

(* The two facts for the positions of an array.                            *)
LEMMA ChainFrom ==
  ASSUME NEW n \in Nat, NEW Stop, NEW next, NEW rank \in [1..n -> 0..n], NEW i \in 1..n,
         \A j \in (1..n) \ Stop : next[j] \in 1..n /\ rank[next[j]] < rank[j]
  PROVE  /\ \E f : Chains(f, 1..n, Stop, next)
         /\ \A f : Chains(f, 1..n, Stop, next) =>
              /\ IsChain(f[i], 1..n, Stop, next, i)
              /\ Moved(f[i]) \subseteq 1..n
              /\ InOrder(f[i], rank, i)
<1> DEFINE D == 1..n
<1>1. rank \in [D -> Nat] /\ n + 1 \in Nat /\ \A j \in D : rank[j] < n + 1
  OBVIOUS
<1> HIDE DEF D
<1>2. \A j \in D \ Stop : next[j] \in D /\ rank[next[j]] < rank[j]
  BY DEF D
<1>3. \E f : Chains(f, D, Stop, next)
  BY <1>1, <1>2, ChainsExist
<1>4. ASSUME NEW f, Chains(f, D, Stop, next)
      PROVE  /\ IsChain(f[i], D, Stop, next, i)
             /\ Moved(f[i]) \subseteq D
             /\ InOrder(f[i], rank, i)
  <2>1. \A j \in D : IsChain(f[j], D, Stop, next, j) /\ InOrder(f[j], rank, j)
    BY <1>1, <1>2, <1>4, ChainFacts
  <2>2. IsChain(f[i], D, Stop, next, i) /\ InOrder(f[i], rank, i)
    BY <2>1 DEF D
  <2> QED   BY <2>2 DEF Moved, IsChain
<1> QED   BY <1>3, <1>4 DEF D

(* AdjustUp moves along a chain of parents, which ends at or above i.      *)
LEMMA UpChain ==
  ASSUME NEW S, NEW q \in Seq(S), NEW i \in 1..Len(q), NEW key \in [S -> Nat]
  PROVE  \E c : /\ AdjustUp(q, key, i) = Shift(q, q[i], c)
               /\ IsChain(c, 1..Len(q), UpStop(q, key, i), UpNext(q), i)
               /\ Moved(c) \subseteq 1..Len(q)
               /\ \A k \in Moved(c) : c.dest <= k /\ k <= i
<1> DEFINE n == Len(q)
           Stop == UpStop(q, key, i)
           next == UpNext(q)
           rank == [j \in 1..n |-> j]
<1>1. n \in Nat /\ rank \in [1..n -> 0..n]
  OBVIOUS
<1>2. ASSUME NEW j \in (1..n) \ Stop PROVE next[j] \in 1..n /\ rank[next[j]] < rank[j]
  <2>1. j \in Nat /\ j >= 2 /\ j <= n
    BY <1>1 DEF UpStop
  <2>2. Parent(j) \in Nat /\ 1 <= Parent(j) /\ Parent(j) < j
    BY <2>1, HeapPositions
  <2> QED   BY <1>1, <2>1, <2>2 DEF UpNext
<1>3. \A f : Chains(f, 1..n, Stop, next) <=>
             f = [j \in 1..n |-> IF j = 1 \/ key[q[Parent(j)]] <= key[q[i]] THEN EndsAt(j)
                                ELSE MovesOn(j, Parent(j), f[Parent(j)])]
  BY DEF Chains, UpStop, UpNext
<1> HIDE DEF Stop, next, rank
<1>4. /\ \E f : Chains(f, 1..n, Stop, next)
      /\ \A f : Chains(f, 1..n, Stop, next) =>
           /\ IsChain(f[i], 1..n, Stop, next, i)
           /\ Moved(f[i]) \subseteq 1..n
           /\ InOrder(f[i], rank, i)
  BY <1>1, <1>2, ChainFrom
<1>5. PICK f : Chains(f, 1..n, Stop, next) /\ AdjustUp(q, key, i) = Shift(q, q[i], f[i])
  BY <1>3, <1>4 DEF AdjustUp
<1>6. /\ IsChain(f[i], 1..n, Stop, next, i)
      /\ Moved(f[i]) \subseteq 1..n
      /\ InOrder(f[i], rank, i)
  BY <1>4, <1>5
<1>7. \A k \in Moved(f[i]) : f[i].dest <= k /\ k <= i
  <2>1. f[i].dest \in 1..n
    BY <1>6 DEF Moved
  <2> QED   BY <1>6, <2>1 DEF rank, InOrder
<1> QED   BY <1>5, <1>6, <1>7 DEF Stop, next

(* What of the array a such a chain leaves where.                          *)
LEMMA UpPositions ==
  ASSUME NEW S, NEW q \in Seq(S), NEW i \in 1..Len(q), NEW key \in [S -> Nat], NEW c,
         IsChain(c, 1..Len(q), UpStop(q, key, i), UpNext(q), i)
  PROVE  /\ c.dest \in 1..Len(q) /\ (c.dest = 1 \/ key[q[Parent(c.dest)]] <= key[q[i]])
         /\ c.dest # i => \E k \in DOMAIN c.moved : Parent(k) = c.dest
         /\ \A k \in DOMAIN c.moved : /\ k \in 2..Len(q) /\ key[q[i]] < key[q[Parent(k)]]
                                     /\ UpNext(q)[k] = Parent(k) /\ Parent(k) \in Moved(c) /\ Parent(k) # i
<1> DEFINE n == Len(q)
           Stop == UpStop(q, key, i)
           next == UpNext(q)
<1>1. /\ c.dest \in 1..n /\ c.dest \in Stop /\ DOMAIN c.moved \subseteq (1..n) \ Stop
      /\ {next[k] : k \in DOMAIN c.moved} = Moved(c) \ {i}
  BY DEF IsChain, Moved
<1>2. c.dest = 1 \/ key[q[Parent(c.dest)]] <= key[q[i]]
  BY <1>1 DEF UpStop
<1>3. \A k \in 1..n : next[k] = Parent(k)
  BY DEF UpNext
<1> HIDE DEF next
<1>4. c.dest # i => \E k \in DOMAIN c.moved : Parent(k) = c.dest
  <2>1. c.dest # i => c.dest \in {next[k] : k \in DOMAIN c.moved}
    BY <1>1 DEF Moved
  <2> QED   BY <1>1, <1>3, <2>1
<1>5. ASSUME NEW k \in DOMAIN c.moved
      PROVE  /\ k \in 2..n /\ key[q[i]] < key[q[Parent(k)]]
             /\ next[k] = Parent(k) /\ Parent(k) \in Moved(c) /\ Parent(k) # i
  <2>1. k \in 1..n /\ k # 1 /\ ~ (key[q[Parent(k)]] <= key[q[i]])
    BY <1>1 DEF UpStop
  <2>2. n \in Nat /\ k \in Nat /\ k >= 2 /\ k <= n
    BY <2>1
  <2>3. Parent(k) \in 1..n
    <3>1. Parent(k) \in Nat /\ 1 <= Parent(k) /\ Parent(k) < k
      BY <2>2, HeapPositions
    <3> QED   BY <2>2, <3>1
  <2>4. key[q[Parent(k)]] \in Nat /\ key[q[i]] \in Nat
    BY <2>3
  <2>5. next[k] \in {next[l] : l \in DOMAIN c.moved}
    OBVIOUS
  <2>6. next[k] \in Moved(c) /\ next[k] # i
    BY <1>1, <2>5
  <2>7. next[k] = Parent(k)
    BY <1>3, <2>1
  <2>8. k \in 2..n
    BY <2>2
  <2>9. key[q[i]] < key[q[Parent(k)]]
    BY <2>1, <2>4
  <2> QED   BY <2>6, <2>7, <2>8, <2>9
<1> QED   BY <1>1, <1>2, <1>4, <1>5 DEF next

(* What AdjustUp promises: a heap of the same elements.  The root stays if *)
(* it need not yield.                                                      *)
AdjustedUp(r, S, q, key, i) ==
  /\ r.array \in Seq(S) /\ Adjusts(r, q, i) /\ HeapOrdered(r.array, key)
  /\ i # 1 /\ key[q[1]] <= key[q[i]] => r.array[1] = q[1]

(* _adjust_up() makes a heap of an array that is one but for position i,   *)
(* if nothing below i is smaller.                                          *)
LEMMA AdjustUpProperties ==
  ASSUME NEW S, NEW q \in Seq(S), NEW i \in 1..Len(q), NEW key \in [S -> Nat], HeapBut(q, key, i),
         OrderedBelow(q, key, i)
  PROVE  AdjustedUp(AdjustUp(q, key, i), S, q, key, i)
<1> DEFINE n == Len(q)
           e == q[i]
           r == AdjustUp(q, key, i)
           a == r.array
<1>1. n \in Nat /\ \A k \in 1..n : q[k] \in S /\ key[q[k]] \in Nat
  OBVIOUS
<1>2. PICK c : /\ r = Shift(q, e, c)
               /\ IsChain(c, 1..n, UpStop(q, key, i), UpNext(q), i)
               /\ Moved(c) \subseteq 1..n
               /\ \A k \in Moved(c) : c.dest <= k /\ k <= i
  BY UpChain
<1>6. \A k \in Moved(c) : c.dest <= k /\ k <= i
  BY <1>2
<1> HIDE DEF r
<1>3. /\ a \in Seq(S) /\ Len(a) = n
      /\ r.notified = Moved(c) /\ Moved(c) \subseteq 1..n /\ i \in Moved(c)
      /\ a[c.dest] = e
      /\ \A k \in DOMAIN c.moved : a[k] = q[UpNext(q)[k]]
      /\ \A k \in 1..n : k \notin Moved(c) => a[k] = q[k]
      /\ ElementsOf(a) = ElementsOf(q)
      /\ NoRepetition(q) => NoRepetition(a)
  <2>1. Shifted(r, S, q, i, UpNext(q), c)
    BY <1>2, ShiftProperties
  <2> QED   BY <2>1 DEF Shifted
<1>4. /\ c.dest \in 1..n /\ (c.dest = 1 \/ key[q[Parent(c.dest)]] <= key[e])
      /\ c.dest # i => \E k \in DOMAIN c.moved : Parent(k) = c.dest
      /\ \A k \in DOMAIN c.moved : /\ k \in 2..n /\ key[e] < key[q[Parent(k)]]
                                  /\ UpNext(q)[k] = Parent(k) /\ Parent(k) \in Moved(c) /\ Parent(k) # i
  BY <1>2, UpPositions
<1>7. /\ a \in Seq(S) /\ Adjusts(r, q, i) /\ Len(a) = n
      /\ a[c.dest] = e
      /\ \A k \in 1..n : k \notin Moved(c) => a[k] = q[k]
      /\ Moved(c) \subseteq 1..n /\ i \in Moved(c)
  BY <1>3 DEF Adjusts
<1>8. ASSUME NEW k \in DOMAIN c.moved
      PROVE  /\ k \in 2..n /\ key[e] < key[q[Parent(k)]]
             /\ a[k] = q[Parent(k)] /\ Parent(k) \in Moved(c) /\ Parent(k) # i
  BY <1>3, <1>4
<1>9. /\ c.dest \in 1..n /\ (c.dest = 1 \/ key[q[Parent(c.dest)]] <= key[e])
      /\ c.dest # i => \E k \in DOMAIN c.moved : Parent(k) = c.dest
  BY <1>4
<1> HIDE DEF a
<1>10. ASSUME NEW k \in 2..n PROVE key[a[Parent(k)]] <= key[a[k]]
  <2> DEFINE p == Parent(k)
  <2>1. /\ p \in 1..n /\ p < k /\ k \in 1..n /\ q[k] \in S /\ q[p] \in S /\ e \in S
        /\ key[q[k]] \in Nat /\ key[q[p]] \in Nat /\ key[e] \in Nat
    <3>1. k \in Nat /\ k >= 2 /\ k <= n /\ k \in 1..n
      BY <1>1
    <3>2. p \in Nat /\ 1 <= p /\ p < k
      BY <3>1, HeapPositions
    <3>3. p \in 1..n
      BY <1>1, <3>1, <3>2
    <3> QED   BY <1>1, <3>1, <3>2, <3>3
  <2>2. k # i /\ p # i => key[q[p]] <= key[q[k]]
    BY DEF HeapBut
  <2>3. p = i => key[e] <= key[q[k]] /\ (i # 1 => key[q[Parent(i)]] <= key[q[k]])
    BY DEF HeapBut, OrderedBelow
  <2>4. CASE k = c.dest
    <3>1. p \notin Moved(c)
      BY <1>6, <2>1, <2>4
    <3>2. a[p] = q[p] /\ a[k] = e
      BY <1>7, <2>1, <2>4, <3>1
    <3> QED   BY <1>9, <2>1, <2>4, <3>2
  <2>5. CASE k \in DOMAIN c.moved
    <3>1. a[k] = q[p] /\ p \in Moved(c) /\ p # i /\ key[e] < key[q[p]]
      BY <1>8, <2>5
    <3>2. CASE p = c.dest
      <4>1. a[p] = e
        BY <1>7, <3>2
      <4> QED   BY <2>1, <3>1, <4>1
    <3>3. CASE p \in DOMAIN c.moved
      <4>1. a[p] = q[Parent(p)] /\ p \in 2..n /\ Parent(p) # i
        BY <1>8, <3>3
      <4>2. key[q[Parent(p)]] <= key[q[p]]
        BY <3>1, <4>1 DEF HeapBut
      <4> QED   BY <3>1, <4>1, <4>2
    <3> QED   BY <3>1, <3>2, <3>3 DEF Moved
  <2>6. CASE k \notin Moved(c)
    <3>1. a[k] = q[k] /\ k # i
      BY <1>7, <2>1, <2>6
    <3>2. CASE p \notin Moved(c)
      <4>1. a[p] = q[p] /\ p # i
        BY <1>7, <2>1, <3>2
      <4> QED   BY <2>2, <3>1, <4>1
    <3>3. CASE p = c.dest /\ p = i
      BY <1>7, <2>3, <3>1, <3>3
    <3>4. CASE p = c.dest /\ p # i
      <4>1. key[e] < key[q[p]]
        BY <1>8, <1>9, <3>4
      <4>2. a[p] = e
        BY <1>7, <3>4
      <4>3. key[q[p]] <= key[q[k]]
        BY <2>2, <3>1, <3>4
      <4> QED   BY <2>1, <3>1, <4>1, <4>2, <4>3
    <3>5. CASE p \in DOMAIN c.moved
      <4>1. a[p] = q[Parent(p)] /\ p \in 2..n /\ Parent(p) # i /\ p # 1
        BY <1>1, <1>8, <3>5
      <4>2. CASE p = i
        BY <2>3, <3>1, <4>1, <4>2
      <4>3. CASE p # i
        <5>1. key[q[Parent(p)]] <= key[q[p]]
          BY <4>1, <4>3 DEF HeapBut
        <5>2. Parent(p) \in 1..n
          <6>1. p \in Nat /\ p >= 2 /\ p <= n
            BY <1>1, <4>1
          <6>2. Parent(p) \in Nat /\ 1 <= Parent(p) /\ Parent(p) < p
            BY <6>1, HeapPositions
          <6> QED   BY <1>1, <6>1, <6>2
        <5>3. key[q[Parent(p)]] \in Nat
          BY <1>1, <5>2
        <5>4. key[q[p]] <= key[q[k]]
          BY <2>2, <3>1, <4>3
        <5> QED   BY <2>1, <3>1, <4>1, <5>1, <5>3, <5>4
      <4> QED   BY <4>2, <4>3
    <3> QED   BY <3>2, <3>3, <3>4, <3>5 DEF Moved
  <2> QED   BY <2>4, <2>5, <2>6 DEF Moved
<1>11. i # 1 /\ key[q[1]] <= key[e] => a[1] = q[1]
  <2> SUFFICES ASSUME i # 1, key[q[1]] <= key[e] PROVE a[1] = q[1]
    OBVIOUS
  <2>1. 1 \in 1..n /\ key[q[1]] \in Nat /\ key[e] \in Nat
    BY <1>1
  <2>2. 1 \notin Moved(c)
    <3> SUFFICES ASSUME 1 \in Moved(c) PROVE FALSE
      OBVIOUS
    <3>1. c.dest = 1
      <4>1. \A k \in DOMAIN c.moved : k \in 2..n
        BY <1>8
      <4> QED   BY <4>1 DEF Moved
    <3>2. PICK k \in DOMAIN c.moved : Parent(k) = 1
      BY <1>9, <3>1
    <3> QED   BY <1>8, <2>1, <3>2
  <2> QED   BY <1>7, <2>1, <2>2
<1>12. HeapOrdered(a, key)
  BY <1>7, <1>10 DEF HeapOrdered
<1> QED   BY <1>7, <1>11, <1>12 DEF a, r, AdjustedUp

-----------------------------------------------------------------------------
(* The child that AdjustDown compares with is the least one.               *)
LEMMA NextChildProperties ==
  ASSUME NEW S, NEW q \in Seq(S), NEW key \in [S -> Nat], NEW j \in 1..Len(q), ~ (LeftChild(j) > Len(q))
  PROVE  /\ NextChild(q, key, j) \in 2..Len(q) /\ j < NextChild(q, key, j)
         /\ Parent(NextChild(q, key, j)) = j
         /\ \A k \in 2..Len(q) : Parent(k) = j => key[q[NextChild(q, key, j)]] <= key[q[k]]
<1> DEFINE n == Len(q)
           l == LeftChild(j)
           m == NextChild(q, key, j)
<1>1. n \in Nat /\ j \in Nat /\ l \in Nat /\ l <= n /\ j < l /\ l >= 2 /\ l = 2 * j /\ l \in 1..n
  BY DEF LeftChild
<1>2. \A k \in 1..n : key[q[k]] \in Nat
  OBVIOUS
<1>3. \/ m = l + 1 /\ l + 1 <= n /\ key[q[l + 1]] <= key[q[l]]
      \/ m = l /\ ~ (l + 1 <= n /\ key[q[l + 1]] <= key[q[l]])
  BY DEF NextChild
<1>4. Parent(l) = j /\ Parent(l + 1) = j
  BY <1>1, HeapPositions
<1>5. ASSUME NEW k \in 2..n, Parent(k) = j PROVE key[q[m]] <= key[q[k]]
  <2>1. k \in Nat /\ k \in 1..n
    OBVIOUS
  <2>2. k = l \/ k = l + 1
    BY <1>1, <1>5, <2>1, HeapPositions
  <2>3. l + 1 <= n => l + 1 \in 1..n
    BY <1>1
  <2>4. key[q[l]] \in Nat /\ (l + 1 <= n => key[q[l + 1]] \in Nat)
    BY <1>1, <1>2, <2>3
  <2> HIDE DEF l, m
  <2> QED   BY <1>3, <2>2, <2>4
<1> HIDE DEF l, m
<1>6. m \in 2..n /\ j < m /\ Parent(m) = j
  BY <1>1, <1>3, <1>4
<1> QED   BY <1>5, <1>6 DEF m

(* Where AdjustDown goes from position i. *)
DownStop(q, key, i) ==
  {j \in 1..Len(q) : LeftChild(j) > Len(q) \/ key[q[i]] <= key[q[NextChild(q, key, j)]]}
DownNext(q, key) == [j \in 1..Len(q) |-> NextChild(q, key, j)]

(* AdjustDown moves along a chain of children, which ends at or below i.   *)
LEMMA DownChain ==
  ASSUME NEW S, NEW q \in Seq(S), NEW i \in 1..Len(q), NEW key \in [S -> Nat]
  PROVE  \E c : /\ AdjustDown(q, key, i) = Shift(q, q[i], c)
               /\ IsChain(c, 1..Len(q), DownStop(q, key, i), DownNext(q, key), i)
               /\ Moved(c) \subseteq 1..Len(q)
               /\ \A k \in Moved(c) : i <= k /\ k <= c.dest
<1> DEFINE n == Len(q)
           Stop == DownStop(q, key, i)
           next == DownNext(q, key)
           rank == [j \in 1..n |-> n - j]
<1>1. n \in Nat /\ rank \in [1..n -> 0..n]
  OBVIOUS
<1>2. ASSUME NEW j \in (1..n) \ Stop PROVE next[j] \in 1..n /\ rank[next[j]] < rank[j]
  <2>1. j \in 1..n /\ ~ (LeftChild(j) > n)
    BY <1>1 DEF DownStop
  <2>2. NextChild(q, key, j) \in 2..n /\ j < NextChild(q, key, j)
    BY <2>1, NextChildProperties
  <2>3. next[j] = NextChild(q, key, j)
    BY <2>1 DEF DownNext
  <2> HIDE DEF next
  <2>4. next[j] \in 1..n /\ j < next[j]
    BY <1>1, <2>2, <2>3
  <2> QED   BY <1>1, <2>1, <2>4
<1>3. \A f : Chains(f, 1..n, Stop, next) <=>
             f = [j \in 1..n |-> IF LeftChild(j) > n \/ key[q[i]] <= key[q[NextChild(q, key, j)]] THEN EndsAt(j)
                                ELSE MovesOn(j, NextChild(q, key, j), f[NextChild(q, key, j)])]
  BY DEF Chains, DownStop, DownNext
<1> HIDE DEF Stop, next, rank
<1>4. /\ \E f : Chains(f, 1..n, Stop, next)
      /\ \A f : Chains(f, 1..n, Stop, next) =>
           /\ IsChain(f[i], 1..n, Stop, next, i)
           /\ Moved(f[i]) \subseteq 1..n
           /\ InOrder(f[i], rank, i)
  BY <1>1, <1>2, ChainFrom
<1>5. PICK f : Chains(f, 1..n, Stop, next) /\ AdjustDown(q, key, i) = Shift(q, q[i], f[i])
  BY <1>3, <1>4 DEF AdjustDown
<1>6. /\ IsChain(f[i], 1..n, Stop, next, i)
      /\ Moved(f[i]) \subseteq 1..n
      /\ InOrder(f[i], rank, i)
  BY <1>4, <1>5
<1>7. ASSUME NEW k \in Moved(f[i]) PROVE i <= k /\ k <= f[i].dest
  <2>1. f[i].dest \in 1..n /\ k \in 1..n
    BY <1>6 DEF Moved
  <2>2. rank[f[i].dest] = n - f[i].dest /\ rank[k] = n - k /\ rank[i] = n - i
    BY <2>1 DEF rank
  <2>3. rank[f[i].dest] <= rank[k] /\ rank[k] <= rank[i]
    BY <1>6 DEF InOrder
  <2> QED   BY <1>1, <2>1, <2>2, <2>3
<1> QED   BY <1>5, <1>6, <1>7 DEF Stop, next

(* What of the array such a chain leaves where.                            *)
LEMMA DownPositions ==
  ASSUME NEW S, NEW q \in Seq(S), NEW i \in 1..Len(q), NEW key \in [S -> Nat], NEW c,
         IsChain(c, 1..Len(q), DownStop(q, key, i), DownNext(q, key), i)
  PROVE  /\ c.dest \in 1..Len(q) /\ c.dest \notin DOMAIN c.moved
         /\ \A k \in 2..Len(q) : Parent(k) = c.dest => key[q[i]] <= key[q[k]]
         /\ \A k \in Moved(c) : k # i => /\ Parent(k) \in DOMAIN c.moved /\ DownNext(q, key)[Parent(k)] = k
         /\ \A k \in DOMAIN c.moved :
              LET m == DownNext(q, key)[k]
              IN  /\ m \in 2..Len(q) /\ m # i /\ Parent(m) = k /\ m \in Moved(c) /\ key[q[m]] < key[q[i]]
                  /\ \A l \in 2..Len(q) : Parent(l) = k => key[q[m]] <= key[q[l]]
<1> DEFINE n == Len(q)
           Stop == DownStop(q, key, i)
           next == DownNext(q, key)
<1>1. /\ c.dest \in 1..n /\ c.dest \in Stop /\ DOMAIN c.moved \subseteq (1..n) \ Stop
      /\ {next[k] : k \in DOMAIN c.moved} = Moved(c) \ {i}
  BY DEF IsChain, Moved
<1>2. n \in Nat /\ \A k \in 1..n : next[k] = NextChild(q, key, k) /\ key[q[k]] \in Nat
  BY DEF DownNext
<1> HIDE DEF next
<1>3. ASSUME NEW k \in 2..n, Parent(k) = c.dest PROVE key[q[i]] <= key[q[k]]
  <2>1. k \in Nat /\ k \in 1..n /\ (k = 2 * c.dest \/ k = 2 * c.dest + 1)
    <3>1. k \in Nat /\ k \in 1..n
      BY <1>2
    <3>2. k = 2 * Parent(k) \/ k = 2 * Parent(k) + 1
      BY <3>1, HeapPositions
    <3> QED   BY <1>3, <3>1, <3>2
  <2>2. ~ (LeftChild(c.dest) > n)
    BY <1>1, <1>2, <2>1 DEF LeftChild
  <2>3. key[q[i]] <= key[q[NextChild(q, key, c.dest)]]
    BY <1>1, <2>2 DEF DownStop
  <2>4. NextChild(q, key, c.dest) \in 2..n /\ key[q[NextChild(q, key, c.dest)]] <= key[q[k]]
    BY <1>1, <1>3, <2>2, NextChildProperties
  <2>5. NextChild(q, key, c.dest) \in 1..n
    BY <1>2, <2>4
  <2> QED   BY <1>2, <2>1, <2>3, <2>4, <2>5
<1>4. ASSUME NEW k \in DOMAIN c.moved
      PROVE  /\ next[k] \in 2..n /\ next[k] # i /\ Parent(next[k]) = k /\ next[k] \in Moved(c)
             /\ key[q[next[k]]] < key[q[i]]
             /\ \A l \in 2..n : Parent(l) = k => key[q[next[k]]] <= key[q[l]]
  <2>1. k \in 1..n /\ ~ (LeftChild(k) > n) /\ ~ (key[q[i]] <= key[q[NextChild(q, key, k)]])
    BY <1>1 DEF DownStop
  <2>2. /\ next[k] \in 2..n /\ Parent(next[k]) = k
        /\ \A l \in 2..n : Parent(l) = k => key[q[next[k]]] <= key[q[l]]
    BY <1>2, <2>1, NextChildProperties
  <2>3. next[k] \in Moved(c) /\ next[k] # i
    BY <1>1
  <2>4. next[k] \in 1..n
    BY <1>2, <2>2
  <2>5. key[q[next[k]]] < key[q[i]]
    BY <1>2, <2>1, <2>4
  <2> QED   BY <2>2, <2>3, <2>5
<1>5. ASSUME NEW k \in Moved(c), k # i PROVE Parent(k) \in DOMAIN c.moved /\ next[Parent(k)] = k
  <2>1. PICK l \in DOMAIN c.moved : next[l] = k
    BY <1>1, <1>5
  <2> QED   BY <1>4, <2>1
<1>6. c.dest \notin DOMAIN c.moved
  BY <1>1
<1> QED   BY <1>1, <1>3, <1>4, <1>5, <1>6 DEF next

(* It leaves the array as it was only if the element may stay.             *)
AdjustedDown(r, S, q, key, i) ==
  /\ r.array \in Seq(S) /\ Adjusts(r, q, i)
  /\ i # 1 => r.array[1] = q[1]
  /\ i = 1 \/ key[q[Parent(i)]] <= key[q[i]] => HeapOrdered(r.array, key)
  /\ r.array = q => OrderedBelow(q, key, i)
  /\ r.array # q => i = 1 \/ key[q[Parent(i)]] <= key[q[i]]

(* _adjust_down() makes a heap of an array that is one but for position i, *)
(* if nothing above i is larger; otherwise it leaves all as it is.         *)
LEMMA AdjustDownProperties ==
  ASSUME NEW S, NEW q \in Seq(S), NEW i \in 1..Len(q), NEW key \in [S -> Nat], HeapBut(q, key, i)
  PROVE  AdjustedDown(AdjustDown(q, key, i), S, q, key, i)
<1> DEFINE n == Len(q)
           e == q[i]
           r == AdjustDown(q, key, i)
           a == r.array
           next == DownNext(q, key)
<1>1. n \in Nat /\ \A k \in 1..n : q[k] \in S /\ key[q[k]] \in Nat
  OBVIOUS
<1>2. PICK c : /\ r = Shift(q, e, c)
               /\ IsChain(c, 1..n, DownStop(q, key, i), next, i)
               /\ Moved(c) \subseteq 1..n
               /\ \A k \in Moved(c) : i <= k /\ k <= c.dest
  BY DownChain
<1>3. \A k \in Moved(c) : i <= k /\ k <= c.dest
  BY <1>2
<1> HIDE DEF r, next
<1>4. /\ a \in Seq(S) /\ Len(a) = n
      /\ r.notified = Moved(c) /\ Moved(c) \subseteq 1..n /\ i \in Moved(c)
      /\ a[c.dest] = e
      /\ \A k \in DOMAIN c.moved : a[k] = q[next[k]]
      /\ \A k \in 1..n : k \notin Moved(c) => a[k] = q[k]
      /\ ElementsOf(a) = ElementsOf(q)
      /\ NoRepetition(q) => NoRepetition(a)
  <2>1. Shifted(r, S, q, i, next, c)
    BY <1>2, ShiftProperties
  <2> QED   BY <2>1 DEF Shifted
<1>5. /\ c.dest \in 1..n /\ c.dest \notin DOMAIN c.moved
      /\ \A k \in 2..n : Parent(k) = c.dest => key[e] <= key[q[k]]
      /\ \A k \in Moved(c) : k # i => Parent(k) \in DOMAIN c.moved /\ next[Parent(k)] = k
  BY <1>2, DownPositions DEF next
<1>6. ASSUME NEW k \in DOMAIN c.moved
      PROVE  /\ next[k] \in 2..n /\ next[k] # i /\ Parent(next[k]) = k /\ next[k] \in Moved(c)
             /\ key[q[next[k]]] < key[e] /\ a[k] = q[next[k]]
             /\ \A l \in 2..n : Parent(l) = k => key[q[next[k]]] <= key[q[l]]
  <2>1. \A j \in DOMAIN c.moved :
          LET m == DownNext(q, key)[j]
          IN  /\ m \in 2..n /\ m # i /\ Parent(m) = j /\ m \in Moved(c) /\ key[q[m]] < key[e]
              /\ \A l \in 2..n : Parent(l) = j => key[q[m]] <= key[q[l]]
    <3> HIDE DEF a
    <3> QED   BY <1>2, DownPositions DEF next
  <2> QED   BY <1>4, <2>1 DEF next
<1>7. Adjusts(r, q, i)
  BY <1>4 DEF Adjusts
<1> HIDE DEF a
<1>8. i # 1 => a[1] = q[1]
  <2> SUFFICES ASSUME i # 1 PROVE a[1] = q[1]
    OBVIOUS
  <2>1. 1 \in 1..n /\ 1 \notin Moved(c)
    BY <1>1, <1>3
  <2> QED   BY <1>4, <2>1
<1>9. ASSUME NEW k \in 2..n PROVE Parent(k) \in 1..n /\ Parent(k) < k /\ k \in 1..n
  <2>1. k \in Nat /\ k >= 2 /\ k <= n /\ k \in 1..n
    BY <1>1
  <2>2. Parent(k) \in Nat /\ 1 <= Parent(k) /\ Parent(k) < k
    BY <2>1, HeapPositions
  <2> QED   BY <1>1, <2>1, <2>2
<1>10. ASSUME i = 1 \/ key[q[Parent(i)]] <= key[e] PROVE HeapOrdered(a, key)
  <2> SUFFICES ASSUME NEW k \in 2..n PROVE key[a[Parent(k)]] <= key[a[k]]
    BY <1>4 DEF HeapOrdered
  <2> DEFINE p == Parent(k)
  <2>1. p \in 1..n /\ p < k /\ k \in 1..n /\ key[q[k]] \in Nat /\ key[q[p]] \in Nat /\ key[e] \in Nat
    BY <1>1, <1>9
  <2>2. k # i /\ p # i => key[q[p]] <= key[q[k]]
    BY DEF HeapBut
  <2>3. p = i /\ i # 1 => key[q[Parent(i)]] <= key[q[k]]
    BY DEF HeapBut
  <2>4. CASE p \in DOMAIN c.moved
    <3>1. /\ a[p] = q[next[p]] /\ key[q[next[p]]] < key[e] /\ key[q[next[p]]] <= key[q[k]]
          /\ next[p] \in 1..n /\ key[q[next[p]]] \in Nat
      BY <1>1, <1>6, <2>4
    <3>2. CASE k = c.dest
      <4>1. a[k] = e
        BY <1>4, <3>2
      <4> QED   BY <2>1, <3>1, <4>1
    <3>3. CASE k \in DOMAIN c.moved
      <4>1. k # i
        BY <1>3, <2>1, <2>4 DEF Moved
      <4>2. next[p] = k
        BY <1>5, <3>3, <4>1 DEF Moved
      <4>3. next[k] \in 2..n /\ next[k] # i /\ Parent(next[k]) = k /\ a[k] = q[next[k]]
        BY <1>6, <3>3
      <4>4. key[q[k]] <= key[q[next[k]]]
        BY <4>1, <4>3 DEF HeapBut
      <4> QED   BY <3>1, <4>2, <4>3, <4>4
    <3>4. CASE k \notin Moved(c)
      BY <1>4, <2>1, <3>1, <3>4
    <3> QED   BY <3>2, <3>3, <3>4 DEF Moved
  <2>5. CASE p = c.dest
    <3>1. k \notin Moved(c)
      <4> SUFFICES ASSUME k \in Moved(c) PROVE FALSE
        OBVIOUS
      <4>1. k # i
        BY <1>3, <2>1, <2>5 DEF Moved
      <4> QED   BY <1>5, <2>5, <4>1
    <3> QED   BY <1>4, <1>5, <2>1, <2>5, <3>1
  <2>6. CASE p \notin Moved(c)
    <3>1. a[p] = q[p] /\ p # i
      BY <1>4, <2>1, <2>6
    <3>2. CASE k \notin Moved(c)
      BY <1>4, <2>1, <2>2, <3>1, <3>2
    <3>3. CASE k \in Moved(c)
      <4>1. k = i
        BY <1>5, <2>6, <3>3 DEF Moved
      <4>2. i # 1 /\ key[q[p]] <= key[e]
        BY <1>10, <2>1, <4>1
      <4>3. CASE i \in DOMAIN c.moved
        <5>1. a[i] = q[next[i]] /\ next[i] \in 2..n /\ Parent(next[i]) = i
          BY <1>6, <4>3
        <5>2. key[q[Parent(i)]] <= key[q[next[i]]]
          BY <4>2, <5>1 DEF HeapBut
        <5> QED   BY <3>1, <4>1, <5>1, <5>2
      <4>4. CASE i = c.dest
        BY <1>4, <3>1, <4>1, <4>2, <4>4
      <4> QED   BY <1>4, <4>3, <4>4 DEF Moved
    <3> QED   BY <3>2, <3>3
  <2> QED   BY <2>4, <2>5, <2>6 DEF Moved
<1>11. ASSUME a = q PROVE OrderedBelow(q, key, i)
  <2>1. i \notin DOMAIN c.moved
    <3> SUFFICES ASSUME i \in DOMAIN c.moved PROVE FALSE
      OBVIOUS
    <3>1. a[i] = q[next[i]] /\ key[q[next[i]]] < key[e]
      BY <1>6
    <3>2. key[e] < key[e] /\ key[e] \in Nat
      BY <1>1, <1>11, <3>1
    <3> QED   BY <3>2
  <2>2. i = c.dest
    BY <1>4, <2>1 DEF Moved
  <2> QED   BY <1>5, <2>2 DEF OrderedBelow
<1>12. ASSUME a # q PROVE i = 1 \/ key[q[Parent(i)]] <= key[e]
  <2>1. CASE i \in DOMAIN c.moved
    <3>1. next[i] \in 2..n /\ Parent(next[i]) = i /\ key[q[next[i]]] < key[e]
      BY <1>6, <2>1
    <3>2. i # 1 => key[q[Parent(i)]] <= key[q[next[i]]]
      BY <3>1 DEF HeapBut
    <3>3. i # 1 => Parent(i) \in 1..n
      BY <1>1, <1>9
    <3>4. key[q[next[i]]] \in Nat /\ key[e] \in Nat /\ (i # 1 => key[q[Parent(i)]] \in Nat)
      <4>1. next[i] \in 1..n
        BY <1>1, <3>1
      <4> QED   BY <1>1, <3>3, <4>1
    <3> QED   BY <3>1, <3>2, <3>4
  <2>2. CASE i = c.dest
    <3>1. \A k \in Moved(c) : k = i
      BY <1>1, <1>3, <1>4, <2>2
    <3>2. \A k \in 1..n : a[k] = q[k]
      BY <1>4, <2>2, <3>1
    <3>3. a = q
      <4> HIDE DEF n
      <4>1. Len(a) = Len(q) /\ \A k \in 1..Len(q) : a[k] = q[k]
        BY <1>4, <3>2 DEF n
      <4> QED   BY <1>4, <4>1, SeqEqual
    <3> QED   BY <1>12, <3>3
  <2> QED   BY <1>4, <2>1, <2>2 DEF Moved
<1> QED   BY <1>4, <1>7, <1>8, <1>10, <1>11, <1>12 DEF a, r, AdjustedDown

-----------------------------------------------------------------------------
(* The operations of the queue.                                            *)
LEMMA RootIsLeast ==
  ASSUME NEW S, NEW q \in Seq(S), NEW key \in [S -> Nat], HeapOrdered(q, key)
  PROVE  \A k \in 1..Len(q) : key[q[1]] <= key[q[k]]
<1> DEFINE n == Len(q)
           Right(k) == key[q[1]] <= key[q[k]]
           Good == {m \in Nat : \A k \in 1..n : k <= m => Right(k)}
<1>1. n \in Nat /\ \A k \in 1..n : key[q[k]] \in Nat
  OBVIOUS
<1>2. 0 \in Good
  BY <1>1
<1>3. ASSUME NEW m \in Nat, m \in Good PROVE m + 1 \in Good
  <2> SUFFICES ASSUME NEW k \in 1..n, k <= m + 1 PROVE Right(k)
    OBVIOUS
  <2>1. CASE k = 1
    BY <1>1, <2>1
  <2>2. CASE k # 1
    <3>1. k \in Nat /\ k >= 2 /\ k <= n /\ k \in 2..n
      BY <1>1, <2>2
    <3>2. Parent(k) \in Nat /\ 1 <= Parent(k) /\ Parent(k) < k
      BY <3>1, HeapPositions
    <3>3. Parent(k) \in 1..n /\ Parent(k) <= m
      BY <1>1, <3>1, <3>2
    <3>4. Right(Parent(k))
      BY <1>3, <3>3
    <3>5. key[q[Parent(k)]] <= key[q[k]]
      BY <3>1 DEF HeapOrdered
    <3>6. key[q[1]] \in Nat /\ key[q[k]] \in Nat /\ key[q[Parent(k)]] \in Nat
      <4>1. 1 \in 1..n
        BY <1>1, <3>1
      <4> QED   BY <1>1, <3>3, <4>1
    <3> QED   BY <3>4, <3>5, <3>6
  <2> QED   BY <2>1, <2>2
<1> HIDE DEF Good
<1>4. Nat \subseteq Good
  BY <1>2, <1>3, InductionOnNumbers
<1>5. n \in Good
  BY <1>1, <1>4
<1> QED   BY <1>1, <1>5 DEF Good

(* What push() promises: a heap of one element more, everybody who has     *)
(* moved is told, and the root stays if e is not smaller.                  *)
Pushed(r, S, q, key, e) ==
  /\ r.array \in Seq(S) /\ Len(r.array) = Len(q) + 1
  /\ HeapOrdered(r.array, key) /\ NoRepetition(r.array)
  /\ ElementsOf(r.array) = ElementsOf(q) \cup {e}
  /\ r.notified \subseteq 1..(Len(q) + 1)
  /\ \A k \in 1..(Len(q) + 1) : k \in r.notified \/ (k \in 1..Len(q) /\ r.array[k] = q[k])
  /\ q # <<>> /\ key[q[1]] <= key[e] => r.array[1] = q[1]

(* push() keeps that promise.                                              *)
LEMMA PushProperties ==
  ASSUME NEW S, NEW q \in Seq(S), NEW key \in [S -> Nat], HeapOrdered(q, key), NoRepetition(q),
         NEW e \in S, e \notin ElementsOf(q)
  PROVE  Pushed(Push(q, key, e), S, q, key, e)
<1> DEFINE n == Len(q)
           w == Append(q, e)
           i == n + 1
           r == Push(q, key, e)
<1>1. n \in Nat /\ \A k \in 1..n : q[k] \in S
  OBVIOUS
<1>2. w \in Seq(S) /\ Len(w) = i /\ w[i] = e /\ \A k \in 1..n : w[k] = q[k]
  BY AppendProperties
<1>3. NoRepetition(w) /\ ElementsOf(w) = ElementsOf(q) \cup {e}
  BY AppendElements
<1> HIDE DEF w
<1>4. ASSUME NEW k \in 2..i PROVE Parent(k) \in 1..n /\ Parent(k) # i /\ (k # i => k \in 2..n)
  <2>1. k \in Nat /\ k >= 2 /\ k <= n + 1
    BY <1>1
  <2>2. Parent(k) \in Nat /\ 1 <= Parent(k) /\ Parent(k) < k
    BY <2>1, HeapPositions
  <2> QED   BY <1>1, <2>1, <2>2
<1>5. HeapBut(w, key, i)
  <2>1. ASSUME NEW k \in 2..i, k # i PROVE key[w[Parent(k)]] <= key[w[k]]
    <3>1. k \in 2..n /\ k \in 1..n /\ Parent(k) \in 1..n
      BY <1>1, <1>4, <2>1
    <3>2. key[q[Parent(k)]] <= key[q[k]]
      BY <3>1 DEF HeapOrdered
    <3> QED   BY <1>2, <3>1, <3>2
  <2> QED   BY <1>2, <1>4, <2>1 DEF HeapBut
<1>6. i \in 1..Len(w) /\ OrderedBelow(w, key, i)
  BY <1>1, <1>2, <1>4 DEF OrderedBelow
<1>7. r = AdjustUp(w, key, i)
  BY DEF Push, w
<1> HIDE DEF r, i
<1>8. /\ r.array \in Seq(S) /\ Adjusts(r, w, i) /\ HeapOrdered(r.array, key)
      /\ i # 1 /\ key[w[1]] <= key[w[i]] => r.array[1] = w[1]
  <2>1. AdjustedUp(r, S, w, key, i)
    BY <1>2, <1>5, <1>6, <1>7, AdjustUpProperties
  <2> QED   BY <2>1 DEF AdjustedUp
<1>9. /\ Len(r.array) = i /\ NoRepetition(r.array) /\ ElementsOf(r.array) = ElementsOf(q) \cup {e}
      /\ r.notified \subseteq 1..i
  BY <1>2, <1>3, <1>8 DEF Adjusts
<1>10. ASSUME NEW k \in 1..i, k \notin r.notified PROVE k \in 1..n /\ r.array[k] = q[k]
  <2>1. k # i /\ r.array[k] = w[k]
    BY <1>2, <1>8, <1>10 DEF Adjusts
  <2>2. k \in 1..n
    BY <1>1, <2>1 DEF i
  <2> QED   BY <1>2, <2>1, <2>2
<1>11. ASSUME q # <<>>, key[q[1]] <= key[e] PROVE r.array[1] = q[1]
  <2>1. n # 0
    BY <1>11, EmptySeq
  <2>2. 1 \in 1..n /\ i # 1
    BY <1>1, <2>1 DEF i
  <2> QED   BY <1>2, <1>8, <1>11, <2>2
<1> QED   BY <1>8, <1>9, <1>10, <1>11 DEF r, i, Pushed

(* What erase() promises: a heap without the element at i, and everybody   *)
(* who has moved is told.                                                  *)
Erased(r, S, q, key, i) ==
  /\ r.array \in Seq(S) /\ Len(r.array) = Len(q) - 1
  /\ HeapOrdered(r.array, key) /\ NoRepetition(r.array)
  /\ ElementsOf(r.array) = ElementsOf(q) \ {q[i]}
  /\ r.notified \subseteq 1..(Len(q) - 1)
  /\ \A k \in 1..(Len(q) - 1) : k \in r.notified \/ r.array[k] = q[k]
  /\ i # 1 => r.array[1] = q[1]

(* erase() keeps that promise.                                             *)
LEMMA EraseProperties ==
  ASSUME NEW S, NEW q \in Seq(S), NEW key \in [S -> Nat], HeapOrdered(q, key), NoRepetition(q), NEW i \in 1..Len(q)
  PROVE  Erased(EraseAt(q, key, i), S, q, key, i)
<1> DEFINE n == Len(q)
           m == n - 1
           cut == SubSeq([q EXCEPT ![i] = q[n]], 1, n - 1)
           r == EraseAt(q, key, i)
<1>1. n \in Nat /\ i \in Nat /\ 1 <= i /\ i <= n /\ m \in Nat /\ m = n - 1 /\ n \in 1..n
      /\ \A k \in 1..n : q[k] \in S /\ key[q[k]] \in Nat
  OBVIOUS
<1>2. cut \in Seq(S) /\ Len(cut) = m /\ \A k \in 1..m : cut[k] = IF k = i THEN q[n] ELSE q[k]
  <2> DEFINE w == [q EXCEPT ![i] = q[n]]
  <2>1. w \in Seq(S) /\ Len(w) = n /\ \A k \in 1..n : w[k] = IF k = i THEN q[n] ELSE q[k]
    BY <1>1
  <2> HIDE DEF w
  <2>2. 1 \in Int /\ m \in Int /\ \A k \in 1..m : w[k] \in S
    BY <1>1, <2>1
  <2>3. SubSeq(w, 1, m) \in Seq(S) /\ Len(SubSeq(w, 1, m)) = m /\ \A k \in 1..m : SubSeq(w, 1, m)[k] = w[k]
    <3>1. /\ SubSeq(w, 1, m) \in Seq(S)
          /\ Len(SubSeq(w, 1, m)) = IF 1 <= m THEN m - 1 + 1 ELSE 0
          /\ \A k \in 1..(m - 1 + 1) : SubSeq(w, 1, m)[k] = w[1 + k - 1]
      <4> HIDE DEF m
      <4> QED   BY <2>2, SubSeqProperties
    <3> HIDE DEF m
    <3>2. (m - 1) + 1 = m /\ \A k \in 1..m : 1 + k - 1 = k
      BY <1>1
    <3>3. ~ (1 <= m) => m = 0
      BY <1>1
    <3> QED   BY <3>1, <3>2, <3>3
  <2> QED   BY <1>1, <2>1, <2>3 DEF w
<1>3. /\ i = n => r = [array |-> cut, notified |-> {}]
      /\ i # n => IF AdjustDown(cut, key, i).array = cut THEN r = AdjustUp(cut, key, i) ELSE r = AdjustDown(cut, key, i)
  BY DEF EraseAt
<1> HIDE DEF cut, r, m
<1>4. NoRepetition(cut)
  <2> SUFFICES ASSUME NEW k \in 1..m, NEW l \in 1..m, cut[k] = cut[l] PROVE k = l
    BY <1>2 DEF NoRepetition
  <2>1. k \in 1..n /\ l \in 1..n /\ k # n /\ l # n
    BY <1>1
  <2>2. \A x, y \in 1..n : q[x] = q[y] => x = y
    BY DEF NoRepetition
  <2> QED   BY <1>1, <1>2, <2>1, <2>2
<1>5. ElementsOf(cut) = ElementsOf(q) \ {q[i]}
  <2>1. ElementsOf(cut) = {cut[k] : k \in 1..m} /\ ElementsOf(q) = {q[k] : k \in 1..n}
    BY <1>2 DEF ElementsOf
  <2>2. \A x, y \in 1..n : q[x] = q[y] => x = y
    BY DEF NoRepetition
  <2>3. ASSUME NEW k \in 1..m PROVE cut[k] \in ElementsOf(q) /\ cut[k] # q[i]
    <3>1. k \in 1..n /\ k # n
      BY <1>1
    <3>2. CASE k = i
      BY <1>1, <1>2, <2>1, <2>2, <3>1, <3>2
    <3>3. CASE k # i
      BY <1>2, <2>1, <2>2, <3>1, <3>3
    <3> QED   BY <3>2, <3>3
  <2>4. ASSUME NEW k \in 1..n, q[k] # q[i] PROVE q[k] \in ElementsOf(cut)
    <3>1. CASE k = n
      <4>1. i \in 1..m
        BY <1>1, <2>4, <3>1
      <4>2. cut[i] = q[k]
        BY <1>2, <3>1, <4>1
      <4> QED   BY <2>1, <4>1, <4>2
    <3>2. CASE k # n
      <4>1. k \in 1..m /\ k # i
        BY <1>1, <2>4, <3>2
      <4>2. cut[k] = q[k]
        BY <1>2, <4>1
      <4> QED   BY <2>1, <4>1, <4>2
    <3> QED   BY <3>1, <3>2
  <2> QED   BY <2>1, <2>3, <2>4
<1>6. ASSUME NEW k \in 2..m
      PROVE  /\ k \in 2..n /\ k \in 1..m /\ Parent(k) \in 1..m /\ Parent(k) < k
             /\ key[q[Parent(k)]] <= key[q[k]]
  <2>1. k \in Nat /\ k >= 2 /\ k <= m /\ k \in 2..n /\ k \in 1..m
    BY <1>1
  <2>2. Parent(k) \in Nat /\ 1 <= Parent(k) /\ Parent(k) < k
    BY <2>1, HeapPositions
  <2>3. Parent(k) \in 1..m
    BY <1>1, <2>1, <2>2
  <2> QED   BY <2>1, <2>2, <2>3 DEF HeapOrdered
<1>7. CASE i = n
  <2>1. r.array = cut /\ r.notified = {}
    BY <1>3, <1>7
  <2>2. \A k \in 1..m : cut[k] = q[k]
    BY <1>1, <1>2, <1>7
  <2>3. HeapOrdered(cut, key)
    BY <1>2, <1>6, <2>2 DEF HeapOrdered
  <2>4. i # 1 => cut[1] = q[1]
    BY <1>1, <1>7, <2>2
  <2> QED   BY <1>2, <1>4, <1>5, <2>1, <2>2, <2>3, <2>4 DEF r, m, Erased
<1>8. CASE i # n
  <2>1. i \in 1..m /\ cut[i] = q[n] /\ \A k \in 1..m : k # i => cut[k] = q[k]
    <3>1. i \in 1..m
      BY <1>1, <1>8
    <3> QED   BY <1>2, <3>1
  <2>2. HeapBut(cut, key, i)
    <3>1. ASSUME NEW k \in 2..m, k # i, Parent(k) # i PROVE key[cut[Parent(k)]] <= key[cut[k]]
      BY <1>6, <2>1, <3>1
    <3>2. ASSUME i # 1, NEW k \in 2..m, Parent(k) = i PROVE key[cut[Parent(i)]] <= key[cut[k]]
      <4>1. i \in 2..m
        BY <1>1, <2>1, <3>2
      <4>2. /\ Parent(i) \in 1..m /\ Parent(i) # i /\ key[q[Parent(i)]] <= key[q[i]]
            /\ k \in 1..m /\ k # i /\ key[q[i]] <= key[q[k]]
        BY <1>6, <3>2, <4>1
      <4>3. cut[Parent(i)] = q[Parent(i)] /\ cut[k] = q[k]
        BY <2>1, <4>2
      <4>4. key[q[Parent(i)]] \in Nat /\ key[q[i]] \in Nat /\ key[q[k]] \in Nat
        BY <1>1, <4>2
      <4> QED   BY <4>2, <4>3, <4>4
    <3> QED   BY <1>2, <3>1, <3>2 DEF HeapBut
  <2>3. i \in 1..Len(cut)
    BY <1>2, <2>1
  <2>4. /\ Adjusts(r, cut, i) /\ r.array \in Seq(S) /\ HeapOrdered(r.array, key)
        /\ i # 1 => r.array[1] = q[1]
    <3> DEFINE d == AdjustDown(cut, key, i)
    <3>1. /\ d.array \in Seq(S) /\ Adjusts(d, cut, i)
          /\ i # 1 => d.array[1] = cut[1]
          /\ i = 1 \/ key[cut[Parent(i)]] <= key[cut[i]] => HeapOrdered(d.array, key)
          /\ d.array = cut => OrderedBelow(cut, key, i)
          /\ d.array # cut => i = 1 \/ key[cut[Parent(i)]] <= key[cut[i]]
      <4>1. AdjustedDown(d, S, cut, key, i)
        BY <1>2, <2>2, <2>3, AdjustDownProperties
      <4> QED   BY <4>1 DEF AdjustedDown
    <3>2. i # 1 => cut[1] = q[1] /\ key[q[1]] <= key[q[n]]
      <4>1. 1 \in 1..m
        BY <1>1, <2>1
      <4> QED   BY <1>1, <2>1, <4>1, RootIsLeast
    <3> HIDE DEF d
    <3>3. CASE d.array = cut
      <4>1. r = AdjustUp(cut, key, i)
        BY <1>3, <1>8, <3>3 DEF d
      <4>2. OrderedBelow(cut, key, i)
        BY <3>1, <3>3
      <4>3. /\ r.array \in Seq(S) /\ Adjusts(r, cut, i) /\ HeapOrdered(r.array, key)
            /\ i # 1 /\ key[cut[1]] <= key[cut[i]] => r.array[1] = cut[1]
        <5>1. AdjustedUp(r, S, cut, key, i)
          BY <1>2, <2>2, <2>3, <4>1, <4>2, AdjustUpProperties
        <5> QED   BY <5>1 DEF AdjustedUp
      <4> QED   BY <2>1, <3>2, <4>3
    <3>4. CASE d.array # cut
      <4>1. r = d
        BY <1>3, <1>8, <3>4 DEF d
      <4> QED   BY <3>1, <3>2, <3>4, <4>1
    <3> QED   BY <3>3, <3>4
  <2>5. /\ Len(r.array) = m /\ NoRepetition(r.array) /\ ElementsOf(r.array) = ElementsOf(q) \ {q[i]}
        /\ r.notified \subseteq 1..m
    BY <1>2, <1>4, <1>5, <2>4 DEF Adjusts
  <2>6. ASSUME NEW k \in 1..m, k \notin r.notified PROVE r.array[k] = q[k]
    <3>1. r.array[k] = cut[k] /\ k # i
      BY <1>2, <2>4, <2>6 DEF Adjusts
    <3> QED   BY <2>1, <3>1
  <2> QED   BY <2>4, <2>5, <2>6 DEF r, m, Erased
<1> QED   BY <1>7, <1>8

(* The indices are the positions. *)
Placed(q, at) == \A k \in 1..Len(q) : at[q[k]] = k

(* As who has moved is told, the indices are still the positions: after    *)
(* push(), after erase() and after an adjustment.                          *)
LEMMA PlacedAfterPush ==
  ASSUME NEW S, NEW q \in Seq(S), NEW key, NEW e, NEW r, Pushed(r, S, q, key, e),
         NEW at \in [S -> Nat], Placed(q, at)
  PROVE  Notified(at, r) \in [S -> Nat] /\ Placed(r.array, Notified(at, r))
<1>1. \A k \in 1..Len(r.array) : k \in r.notified \/ at[r.array[k]] = k
  BY DEF Pushed, Placed
<1>2. r.array \in Seq(S) /\ NoRepetition(r.array) /\ r.notified \subseteq 1..Len(r.array)
  BY DEF Pushed
<1>3. Notified(at, r) \in [S -> Nat] /\ \A k \in 1..Len(r.array) : Notified(at, r)[r.array[k]] = k
  BY <1>1, <1>2, NotifiedProperties
<1> QED   BY <1>3 DEF Placed

LEMMA PlacedAfterErase ==
  ASSUME NEW S, NEW q \in Seq(S), NEW key, NEW i \in 1..Len(q), NEW r, Erased(r, S, q, key, i),
         NEW at \in [S -> Nat], Placed(q, at)
  PROVE  Notified(at, r) \in [S -> Nat] /\ Placed(r.array, Notified(at, r))
<1>1. ASSUME NEW k \in 1..Len(r.array) PROVE k \in r.notified \/ at[r.array[k]] = k
  <2>1. k \in 1..Len(q) /\ k \in 1..(Len(q) - 1)
    BY DEF Erased
  <2> QED   BY <2>1 DEF Erased, Placed
<1>2. r.array \in Seq(S) /\ NoRepetition(r.array) /\ r.notified \subseteq 1..Len(r.array)
  BY DEF Erased
<1>3. Notified(at, r) \in [S -> Nat] /\ \A k \in 1..Len(r.array) : Notified(at, r)[r.array[k]] = k
  BY <1>1, <1>2, NotifiedProperties
<1> QED   BY <1>3 DEF Placed

LEMMA PlacedAfterAdjust ==
  ASSUME NEW S, NEW q \in Seq(S), NoRepetition(q), NEW i, NEW r, r.array \in Seq(S), Adjusts(r, q, i),
         NEW at \in [S -> Nat], Placed(q, at)
  PROVE  Notified(at, r) \in [S -> Nat] /\ Placed(r.array, Notified(at, r))
<1>1. \A k \in 1..Len(r.array) : k \in r.notified \/ at[r.array[k]] = k
  BY DEF Adjusts, Placed
<1>2. r.array \in Seq(S) /\ NoRepetition(r.array) /\ r.notified \subseteq 1..Len(r.array)
  BY DEF Adjusts
<1>3. Notified(at, r) \in [S -> Nat] /\ \A k \in 1..Len(r.array) : Notified(at, r)[r.array[k]] = k
  BY <1>1, <1>2, NotifiedProperties
<1> QED   BY <1>3 DEF Placed
=============================================================================
