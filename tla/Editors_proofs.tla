--------------------------- MODULE Editors_proofs ---------------------------
(***************************************************************************)
(* Proofs about the editors.  The buffer, for any texts, edits, carets and *)
(* word size: undo and redo move between the versions that the edits have  *)
(* made, and positions stay in the text, in order and with their bytes.    *)
(* The search panel, for any number of tasks, workers and changes: no task *)
(* or callback outlives the panel it refers to, the unsynchronized token   *)
(* is never used by two threads, and the matches that are shown are those  *)
(* of the current pattern and text.                                        *)
(***************************************************************************)
EXTENDS Buffer, MCSearchPanel, QueueLemmas

-----------------------------------------------------------------------------
(* Pieces of texts.                                                        *)
(* The bytes from position i to position j.                                *)
Slice(x, i, j) == SubSeq(x, i + 1, j)

(* The beginning of one text, and the end of another.                      *)
Half(x, i, y, j) == UpTo(x, i) \o SubSeq(y, j + 1, Len(y))

IsSlice(s, S, x, i, j) == s \in Seq(S) /\ Len(s) = j - i /\ \A k \in 1..j - i : s[k] = x[i + k]

(* A piece of a text has its bytes.                                         *)
LEMMA SliceProperties ==
  ASSUME NEW S, NEW x \in Seq(S), NEW i \in Nat, NEW j \in Nat, i <= j, j <= Len(x)
  PROVE  IsSlice(Slice(x, i, j), S, x, i, j)
<1>1. Len(x) \in Nat /\ \A k \in 1..Len(x) : x[k] \in S
  BY LenProperties, ElementOfSeq
<1>2. i + 1 \in Int /\ j \in Int /\ \A k \in i + 1..j : x[k] \in S
  BY <1>1
<1> DEFINE s == SubSeq(x, i + 1, j)
<1>3. s \in Seq(S) /\ Len(s) = (IF i + 1 <= j THEN j - (i + 1) + 1 ELSE 0)
      /\ \A k \in 1..j - (i + 1) + 1 : s[k] = x[i + 1 + k - 1]
  BY <1>2, SubSeqProperties
<1>4. Len(s) = j - i
  BY <1>1, <1>3
<1>5. ASSUME NEW k \in 1..j - i PROVE s[k] = x[i + k]
  BY <1>1, <1>3
<1> QED   BY <1>3, <1>4, <1>5 DEF Slice, IsSlice

IsHalf(h, S, x, i, y, j) ==
  /\ h \in Seq(S) /\ Len(h) = i + (Len(y) - j)
  /\ \A k \in 1..i : h[k] = x[k]
  /\ \A k \in 1..Len(y) - j : h[i + k] = y[j + k]

(* Half a text and half of another have the bytes of both.                  *)
LEMMA HalfProperties ==
  ASSUME NEW S, NEW x \in Seq(S), NEW y \in Seq(S), NEW i \in 0..Len(x), NEW j \in 0..Len(y)
  PROVE  IsHalf(Half(x, i, y, j), S, x, i, y, j)
<1> DEFINE u == Slice(x, 0, i)
           v == Slice(y, j, Len(y))
<1>1. Len(x) \in Nat /\ Len(y) \in Nat
  BY LenProperties
<1>0. i \in Nat /\ j \in Nat /\ i <= Len(x) /\ j <= Len(y)
  BY <1>1
<1>2. u \in Seq(S) /\ Len(u) = i /\ \A k \in 1..i : u[k] = x[k]
  <2>1. IsSlice(u, S, x, 0, i)
    BY <1>0, SliceProperties
  <2> QED   BY <2>1, <1>0 DEF IsSlice
<1>3. v \in Seq(S) /\ Len(v) = Len(y) - j /\ \A k \in 1..Len(y) - j : v[k] = y[j + k]
  <2>1. IsSlice(v, S, y, j, Len(y))
    BY <1>0, <1>1, SliceProperties
  <2> QED   BY <2>1 DEF IsSlice
<1> HIDE DEF u, v
<1>4. u \o v \in Seq(S) /\ Len(u \o v) = i + (Len(y) - j)
      /\ \A k \in 1..i + (Len(y) - j) : (u \o v)[k] = IF k <= i THEN u[k] ELSE v[k - i]
  <2>1. u \in Seq(S) /\ v \in Seq(S)
    BY <1>2, <1>3
  <2>2. /\ u \o v \in Seq(S) /\ Len(u \o v) = Len(u) + Len(v)
        /\ \A k \in 1..Len(u) + Len(v) : (u \o v)[k] = IF k <= Len(u) THEN u[k] ELSE v[k - Len(u)]
    BY <2>1, ConcatProperties
  <2> QED   BY <1>2, <1>3, <2>2, Zenon
<1>5. Half(x, i, y, j) = u \o v
  BY DEF Half, UpTo, Slice, u, v
<1>6. ASSUME NEW k \in 1..i PROVE (u \o v)[k] = x[k]
  BY <1>1, <1>2, <1>4
<1>7. ASSUME NEW k \in 1..Len(y) - j PROVE (u \o v)[i + k] = y[j + k]
  <2>1. i + k \in 1..i + (Len(y) - j) /\ ~ i + k <= i /\ (i + k) - i = k
    BY <1>1
  <2> QED   BY <2>1, <1>3, <1>4
<1> QED   BY <1>4, <1>5, <1>6, <1>7 DEF IsHalf

IsSplice(r, S, t, pos, len, b) ==
  /\ r \in Seq(S) /\ Len(r) = Len(t) - len + Len(b)
  /\ \A k \in 1..pos : r[k] = t[k]
  /\ \A k \in 1..Len(b) : r[pos + k] = b[k]
  /\ \A k \in 1..Len(t) - (pos + len) : r[pos + Len(b) + k] = t[pos + len + k]

(* What a modification leaves as it is and what it inserts.                 *)
LEMMA SpliceProperties ==
  ASSUME NEW S, NEW t \in Seq(S), NEW b \in Seq(S), NEW pos \in Nat, NEW len \in Nat, pos + len <= Len(t)
  PROVE  IsSplice(Splice(t, pos, len, b), S, t, pos, len, b)
<1> DEFINE u == Slice(t, 0, pos)
           v == Slice(t, pos + len, Len(t))
           n == Len(t)
           m == Len(b)
<1>1. n \in Nat /\ m \in Nat
  BY LenProperties
<1>2. u \in Seq(S) /\ Len(u) = pos /\ \A k \in 1..pos : u[k] = t[k]
  <2>1. IsSlice(u, S, t, 0, pos)
    BY <1>1, SliceProperties
  <2> QED   BY <2>1 DEF IsSlice
<1>3. v \in Seq(S) /\ Len(v) = n - (pos + len) /\ \A k \in 1..n - (pos + len) : v[k] = t[(pos + len) + k]
  <2>1. IsSlice(v, S, t, pos + len, n)
    BY <1>1, SliceProperties
  <2> QED   BY <2>1 DEF IsSlice
<1>5. Splice(t, pos, len, b) = (u \o b) \o v
  BY DEF Splice, UpTo, Slice
<1> DEFINE w == u \o b
<1> HIDE DEF u, v
<1>4. w \in Seq(S) /\ Len(w) = pos + m /\ \A k \in 1..pos + m : w[k] = IF k <= pos THEN u[k] ELSE b[k - pos]
  BY <1>2, ConcatProperties
<1> HIDE DEF w
<1>6. w \o v \in Seq(S) /\ Len(w \o v) = (pos + m) + (n - (pos + len))
      /\ \A k \in 1..(pos + m) + (n - (pos + len)) : (w \o v)[k] = IF k <= pos + m THEN w[k] ELSE v[k - (pos + m)]
  <2>1. w \in Seq(S) /\ v \in Seq(S)
    BY <1>3, <1>4
  <2>2. /\ w \o v \in Seq(S) /\ Len(w \o v) = Len(w) + Len(v)
        /\ \A k \in 1..Len(w) + Len(v) : (w \o v)[k] = IF k <= Len(w) THEN w[k] ELSE v[k - Len(w)]
    BY <2>1, ConcatProperties
  <2> QED   BY <1>3, <1>4, <2>2, Zenon
<1> DEFINE r == w \o v
<1> HIDE DEF r
<1>7. r \in Seq(S) /\ Len(r) = n - len + m
  BY <1>1, <1>6 DEF r
<1>8. ASSUME NEW k \in 1..pos PROVE r[k] = t[k]
  BY <1>1, <1>2, <1>4, <1>6 DEF r
<1>9. ASSUME NEW k \in 1..m PROVE r[pos + k] = b[k]
  <2>1. pos + k \in 1..pos + m /\ ~ pos + k <= pos /\ (pos + k) - pos = k
        /\ pos + k \in 1..(pos + m) + (n - (pos + len)) /\ pos + k <= pos + m
    BY <1>1
  <2> QED   BY <2>1, <1>4, <1>6 DEF r
<1>10. ASSUME NEW k \in 1..n - (pos + len) PROVE r[pos + m + k] = t[pos + len + k]
  <2>1. ~ pos + m + k <= pos + m /\ (pos + m + k) - (pos + m) = k
        /\ pos + m + k \in 1..(pos + m) + (n - (pos + len))
    BY <1>1
  <2> QED   BY <2>1, <1>3, <1>6 DEF r
<1>11. Splice(t, pos, len, b) = r
  BY <1>5 DEF r, w
<1> QED   BY <1>7, <1>8, <1>9, <1>10, <1>11 DEF IsSplice

(* n bytes of x after position i are those of y after position j.          *)
Same(x, i, y, j, n) == \A k \in 1..n : x[i + k] = y[j + k]

(* A piece that is the same in x and y, and one that is not.               *)
Pieces(x, i, i1, i2, y, j, j1, j2) ==
  /\ i \in Nat /\ i1 \in Nat /\ i2 \in Nat /\ i <= i1 /\ i1 <= i2 /\ i2 <= Len(x)
  /\ j \in Nat /\ j1 \in Nat /\ j2 \in Nat /\ j <= j1 /\ j1 <= j2 /\ j2 <= Len(y)
  /\ i1 - i = j1 - j /\ Same(x, i, y, j, i1 - i)

(* x and y end with the same bytes.                                        *)
SameEnd(x, i, y, j) ==
  /\ i \in Nat /\ j \in Nat /\ i <= Len(x) /\ j <= Len(y) /\ Len(x) - i = Len(y) - j
  /\ Same(x, i, y, j, Len(x) - i)

(* Changing what follows the beginning of x takes it one piece further,    *)
(* if the texts are the same up to there.                                  *)
LEMMA HalfForward ==
  ASSUME NEW S, NEW x \in Seq(S), NEW y \in Seq(S),
         NEW i, NEW i1, NEW i2, NEW j, NEW j1, NEW j2, Pieces(x, i, i1, i2, y, j, j1, j2)
  PROVE  /\ Splice(Half(x, i, y, j), i1, j2 - j1, Slice(x, i1, i2)) = Half(x, i2, y, j2)
         /\ Slice(Half(x, i, y, j), i1, i1 + (j2 - j1)) = Slice(y, j1, j2)
<1> DEFINE t == Half(x, i, y, j)
           b == Slice(x, i1, i2)
           u == Half(x, i2, y, j2)
           len == j2 - j1
           r == Splice(t, i1, len, b)
<1> i \in Nat /\ i1 \in Nat /\ i2 \in Nat /\ j \in Nat /\ j1 \in Nat /\ j2 \in Nat
  BY DEF Pieces
<1>1. /\ Len(x) \in Nat /\ Len(y) \in Nat
      /\ i \in Nat /\ i1 \in Nat /\ i2 \in Nat /\ j \in Nat /\ j1 \in Nat /\ j2 \in Nat
      /\ i <= i1 /\ i1 <= i2 /\ i2 <= Len(x) /\ j <= j1 /\ j1 <= j2 /\ j2 <= Len(y)
      /\ len \in Nat /\ len = j2 - j1 /\ i1 - i = j1 - j
  BY LenProperties DEF Pieces
<1>2. \A k \in 1..i1 - i : x[i + k] = y[j + k]
  BY DEF Pieces, Same
<1>16. i \in 0..Len(x) /\ j \in 0..Len(y)
  BY <1>1
<1>3. IsHalf(t, S, x, i, y, j)
  BY <1>16, HalfProperties
<1>4. i2 \in 0..Len(x) /\ j2 \in 0..Len(y) /\ i1 \in 0..Len(x) /\ j1 \in 0..Len(y)
  BY <1>1
<1>5. IsHalf(u, S, x, i2, y, j2)
  BY <1>4, HalfProperties
<1>6. b \in Seq(S) /\ Len(b) = i2 - i1 /\ \A k \in 1..i2 - i1 : b[k] = x[i1 + k]
  <2>1. IsSlice(b, S, x, i1, i2)
    BY <1>1, SliceProperties
  <2> QED   BY <2>1 DEF IsSlice
<1> HIDE DEF t, u, b, len
<1>7. t \in Seq(S) /\ Len(t) = i + (Len(y) - j)
  BY <1>3 DEF IsHalf
<1>8. i1 + len <= Len(t)
  BY <1>1, <1>7
<1>9. IsSplice(r, S, t, i1, len, b)
  BY <1>1, <1>6, <1>7, <1>8, SpliceProperties
<1> HIDE DEF r
<1>10. r \in Seq(S) /\ u \in Seq(S) /\ Len(r) = i2 + (Len(y) - j2) /\ Len(u) = i2 + (Len(y) - j2)
  <2>1. Len(r) = Len(t) - len + Len(b) /\ r \in Seq(S)
    BY <1>9 DEF IsSplice
  <2>2. u \in Seq(S) /\ Len(u) = i2 + (Len(y) - j2)
    BY <1>5 DEF IsHalf
  <2>3. Len(t) = i + (Len(y) - j) /\ Len(b) = i2 - i1
    BY <1>6, <1>7
  <2>4. Len(r) = i2 + (Len(y) - j2)
    <3>1. Len(r) = Len(t) - len + Len(b)
      BY <2>1
    <3>2. Len(r) = (i + (Len(y) - j)) - (j2 - j1) + (i2 - i1)
      BY <1>1, <2>3, <3>1
    <3> QED   BY <1>1, <3>2
  <2> QED   BY <2>1, <2>2, <2>4
<1>11. ASSUME NEW k \in 1..i1 PROVE r[k] = u[k]
  <2>1. r[k] = t[k]
    BY <1>9 DEF IsSplice
  <2>2. k \in 1..i2 /\ u[k] = x[k]
    BY <1>1, <1>5 DEF IsHalf
  <2>3. CASE k <= i
    BY <2>1, <2>2, <2>3, <1>3 DEF IsHalf
  <2>4. CASE k > i
    <3>1. k - i \in 1..Len(y) - j /\ k - i \in 1..i1 - i /\ i + (k - i) = k
      BY <1>1, <2>4
    <3>2. t[i + (k - i)] = y[j + (k - i)]
      BY <1>3, <3>1 DEF IsHalf
    <3>3. x[i + (k - i)] = y[j + (k - i)]
      BY <1>2, <3>1
    <3> QED   BY <2>1, <2>2, <3>1, <3>2, <3>3
  <2> QED   BY <1>1, <2>3, <2>4
<1>12. ASSUME NEW k \in 1..i2 - i1 PROVE r[i1 + k] = u[i1 + k]
  <2>1. r[i1 + k] = b[k]
    BY <1>6, <1>9 DEF IsSplice
  <2>2. i1 + k \in 1..i2 /\ u[i1 + k] = x[i1 + k]
    BY <1>1, <1>5 DEF IsHalf
  <2> QED   BY <1>6, <2>1, <2>2
<1>13. ASSUME NEW k \in 1..Len(y) - j2 PROVE r[i2 + k] = u[i2 + k]
  <2>1. u[i2 + k] = y[j2 + k]
    BY <1>5 DEF IsHalf
  <2>2. k \in 1..Len(t) - (i1 + len) /\ i1 + Len(b) + k = i2 + k
    <3>1. Len(t) = i + (Len(y) - j) /\ Len(b) = i2 - i1 /\ k \in 1..Len(y) - j2
      BY <1>6, <1>7
    <3> QED   BY <1>1, <3>1
  <2>3. r[i1 + Len(b) + k] = t[i1 + len + k]
    BY <1>9, <2>2 DEF IsSplice
  <2>4. (i1 + len + k) - i \in 1..Len(y) - j /\ i + ((i1 + len + k) - i) = i1 + len + k
        /\ j + ((i1 + len + k) - i) = j2 + k
    BY <1>1
  <2>5. t[i + ((i1 + len + k) - i)] = y[j + ((i1 + len + k) - i)]
    BY <1>3, <2>4 DEF IsHalf
  <2> QED   BY <2>1, <2>2, <2>3, <2>4, <2>5
<1>14. r = u
  <2>1. ASSUME NEW k \in 1..Len(r) PROVE r[k] = u[k]
    <3>1. CASE k <= i1
      BY <1>11, <3>1
    <3>2. CASE k > i1 /\ k <= i2
      <4>1. k - i1 \in 1..i2 - i1 /\ i1 + (k - i1) = k
        BY <1>1, <3>2
      <4>2. r[i1 + (k - i1)] = u[i1 + (k - i1)]
        BY <4>1, <1>12
      <4> QED   BY <4>1, <4>2
    <3>3. CASE k > i2
      <4>1. k - i2 \in 1..Len(y) - j2 /\ i2 + (k - i2) = k
        BY <1>1, <1>10, <3>3
      <4>2. r[i2 + (k - i2)] = u[i2 + (k - i2)]
        BY <4>1, <1>13
      <4> QED   BY <4>1, <4>2
    <3> QED   BY <1>1, <3>1, <3>2, <3>3
  <2> QED   BY <1>10, <2>1, SeqEqual
<1>15. Slice(t, i1, i1 + len) = Slice(y, j1, j2)
  <2>1. i1 \in 0..Len(t) /\ i1 + len \in i1..Len(t) /\ (i1 + len) - i1 = j2 - j1 /\ (i1 + len) - i1 = len
    BY <1>1, <1>7
  <2>2. ASSUME NEW k \in 1..(i1 + len) - i1 PROVE t[i1 + k] = y[j1 + k]
    <3>1. (i1 + k) - i \in 1..Len(y) - j /\ i + ((i1 + k) - i) = i1 + k /\ j + ((i1 + k) - i) = j1 + k
      BY <1>1
    <3>2. t[i + ((i1 + k) - i)] = y[j + ((i1 + k) - i)]
      BY <1>3, <3>1 DEF IsHalf
    <3> QED   BY <3>1, <3>2
  <2>4. IsSlice(Slice(y, j1, j2), S, y, j1, j2)
    BY <1>1, SliceProperties
  <2> DEFINE e == i1 + len
             v == Slice(t, i1, e)
             w == Slice(y, j1, j2)
  <2>5. e \in Nat /\ i1 <= e /\ e <= Len(t) /\ e - i1 = j2 - j1
    BY <1>1, <2>1
  <2>6. \A k \in 1..e - i1 : t[i1 + k] = y[j1 + k]
    BY <2>2
  <2> HIDE DEF e
  <2>7. IsSlice(v, S, t, i1, e)
    BY <1>1, <1>7, <2>5, SliceProperties
  <2> HIDE DEF v, w
  <2>8. v \in Seq(S) /\ w \in Seq(S) /\ Len(v) = j2 - j1 /\ Len(w) = j2 - j1
    BY <2>4, <2>5, <2>7 DEF IsSlice, w
  <2>9. \A k \in 1..Len(v) : v[k] = w[k]
    BY <2>4, <2>5, <2>6, <2>7, <2>8 DEF IsSlice, w
  <2>10. v = w
    BY <2>8, <2>9, SeqEqual
  <2> QED   BY <2>10 DEF e, v, w
<1> QED   BY <1>14, <1>15 DEF t, u, r, b, len

(* Changing back what precedes the end of y takes it one piece back.       *)
LEMMA HalfBack ==
  ASSUME NEW S, NEW x \in Seq(S), NEW y \in Seq(S),
         NEW i, NEW i1, NEW i2, NEW j, NEW j1, NEW j2, Pieces(x, i, i1, i2, y, j, j1, j2)
  PROVE  Splice(Half(x, i2, y, j2), i1, i2 - i1, Slice(y, j1, j2)) = Half(x, i, y, j)
<1> DEFINE t == Half(x, i2, y, j2)
           b == Slice(y, j1, j2)
           u == Half(x, i, y, j)
           len == i2 - i1
           r == Splice(t, i1, len, b)
<1> i \in Nat /\ i1 \in Nat /\ i2 \in Nat /\ j \in Nat /\ j1 \in Nat /\ j2 \in Nat
  BY DEF Pieces
<1>1. /\ Len(x) \in Nat /\ Len(y) \in Nat
      /\ i \in Nat /\ i1 \in Nat /\ i2 \in Nat /\ j \in Nat /\ j1 \in Nat /\ j2 \in Nat
      /\ i <= i1 /\ i1 <= i2 /\ i2 <= Len(x) /\ j <= j1 /\ j1 <= j2 /\ j2 <= Len(y)
      /\ len \in Nat /\ len = i2 - i1 /\ i1 - i = j1 - j
  BY LenProperties DEF Pieces
<1>2. \A k \in 1..i1 - i : x[i + k] = y[j + k]
  BY DEF Pieces, Same
<1>15. i \in 0..Len(x) /\ j \in 0..Len(y)
  BY <1>1
<1>3. IsHalf(u, S, x, i, y, j)
  BY <1>15, HalfProperties
<1>4. i2 \in 0..Len(x) /\ j2 \in 0..Len(y) /\ i1 \in 0..Len(x) /\ j1 \in 0..Len(y)
  BY <1>1
<1>5. IsHalf(t, S, x, i2, y, j2)
  BY <1>4, HalfProperties
<1>6. b \in Seq(S) /\ Len(b) = j2 - j1 /\ \A k \in 1..j2 - j1 : b[k] = y[j1 + k]
  <2>1. IsSlice(b, S, y, j1, j2)
    BY <1>1, SliceProperties
  <2> QED   BY <2>1 DEF IsSlice
<1> HIDE DEF t, u, b, len
<1>7. t \in Seq(S) /\ Len(t) = i2 + (Len(y) - j2)
  BY <1>5 DEF IsHalf
<1>8. i1 + len <= Len(t)
  BY <1>1, <1>7
<1>9. IsSplice(r, S, t, i1, len, b)
  BY <1>1, <1>6, <1>7, <1>8, SpliceProperties
<1> HIDE DEF r
<1>10. r \in Seq(S) /\ u \in Seq(S) /\ Len(r) = i + (Len(y) - j) /\ Len(u) = i + (Len(y) - j)
  <2>1. Len(r) = Len(t) - len + Len(b) /\ r \in Seq(S)
    BY <1>9 DEF IsSplice
  <2>2. u \in Seq(S) /\ Len(u) = i + (Len(y) - j)
    BY <1>3 DEF IsHalf
  <2>3. Len(t) = i2 + (Len(y) - j2) /\ Len(b) = j2 - j1
    BY <1>6, <1>7
  <2>4. Len(r) = i + (Len(y) - j)
    <3>1. Len(r) = Len(t) - len + Len(b)
      BY <2>1
    <3>2. Len(r) = (i2 + (Len(y) - j2)) - (i2 - i1) + (j2 - j1)
      BY <1>1, <2>3, <3>1
    <3> QED   BY <1>1, <3>2
  <2> QED   BY <2>1, <2>2, <2>4
<1>11. ASSUME NEW k \in 1..i1 PROVE r[k] = x[k] /\ u[k] = x[k]
  <2>1. r[k] = t[k]
    BY <1>9 DEF IsSplice
  <2>2. k \in 1..i2
    BY <1>1
  <2>5. t[k] = x[k]
    BY <2>2, <1>5 DEF IsHalf
  <2>3. CASE k <= i
    BY <2>1, <2>5, <2>3, <1>3 DEF IsHalf
  <2>4. CASE k > i
    <3>1. k - i \in 1..Len(y) - j /\ k - i \in 1..i1 - i /\ i + (k - i) = k
      BY <1>1, <2>4
    <3>2. u[i + (k - i)] = y[j + (k - i)]
      BY <1>3, <3>1 DEF IsHalf
    <3>3. x[i + (k - i)] = y[j + (k - i)]
      BY <1>2, <3>1
    <3> QED   BY <2>1, <2>5, <3>1, <3>2, <3>3
  <2> QED   BY <1>1, <2>3, <2>4
<1>12. ASSUME NEW k \in 1..j2 - j1 PROVE r[i1 + k] = u[i1 + k]
  <2>1. r[i1 + k] = y[j1 + k]
    BY <1>6, <1>9 DEF IsSplice
  <2>2. (i1 + k) - i \in 1..Len(y) - j /\ i + ((i1 + k) - i) = i1 + k /\ j + ((i1 + k) - i) = j1 + k
    BY <1>1
  <2>3. u[i + ((i1 + k) - i)] = y[j + ((i1 + k) - i)]
    BY <1>3, <2>2 DEF IsHalf
  <2> QED   BY <2>1, <2>2, <2>3
<1>13. ASSUME NEW k \in 1..Len(y) - j2 PROVE r[i1 + Len(b) + k] = u[i1 + Len(b) + k]
  <2>1. t[i2 + k] = y[j2 + k]
    BY <1>5 DEF IsHalf
  <2>2. k \in 1..Len(t) - (i1 + len) /\ i1 + len + k = i2 + k
    <3>1. Len(t) = i2 + (Len(y) - j2) /\ k \in 1..Len(y) - j2
      BY <1>7
    <3> QED   BY <1>1, <3>1
  <2>3. r[i1 + Len(b) + k] = t[i1 + len + k]
    BY <1>9, <2>2 DEF IsSplice
  <2>4. (i1 + Len(b) + k) - i \in 1..Len(y) - j /\ i + ((i1 + Len(b) + k) - i) = i1 + Len(b) + k
        /\ j + ((i1 + Len(b) + k) - i) = j2 + k
    BY <1>1, <1>6
  <2>5. u[i + ((i1 + Len(b) + k) - i)] = y[j + ((i1 + Len(b) + k) - i)]
    BY <1>3, <2>4 DEF IsHalf
  <2> QED   BY <2>1, <2>2, <2>3, <2>4, <2>5
<1>14. r = u
  <2>1. ASSUME NEW k \in 1..Len(r) PROVE r[k] = u[k]
    <3>1. CASE k <= i1
      BY <1>11, <3>1
    <3>2. CASE k > i1 /\ k <= i1 + Len(b)
      <4>1. k - i1 \in 1..j2 - j1 /\ i1 + (k - i1) = k
        BY <1>1, <1>6, <3>2
      <4>2. r[i1 + (k - i1)] = u[i1 + (k - i1)]
        BY <4>1, <1>12
      <4> QED   BY <4>1, <4>2
    <3>3. CASE k > i1 + Len(b)
      <4>1. k - (i1 + Len(b)) \in 1..Len(y) - j2 /\ i1 + Len(b) + (k - (i1 + Len(b))) = k
        BY <1>1, <1>6, <1>10, <3>3
      <4>2. r[i1 + Len(b) + (k - (i1 + Len(b)))] = u[i1 + Len(b) + (k - (i1 + Len(b)))]
        BY <4>1, <1>13
      <4> QED   BY <4>1, <4>2
    <3> QED
      <4>1. Len(b) = j2 - j1 /\ k \in Nat
        BY <1>6
      <4>2. k <= i1 \/ (k > i1 /\ k <= i1 + Len(b)) \/ k > i1 + Len(b)
        BY <1>1, <4>1
      <4> QED   BY <4>2, <3>1, <3>2, <3>3
  <2> QED   BY <1>10, <2>1, SeqEqual
<1> QED   BY <1>14 DEF t, u, r, b, len

(* Nothing of one text and all of the other.                                *)
LEMMA HalfFromStart ==
  ASSUME NEW S, NEW x \in Seq(S), NEW y \in Seq(S)
  PROVE  Half(x, 0, y, 0) = y
<1>0. Len(x) \in Nat /\ Len(y) \in Nat
  BY LenProperties
<1> DEFINE h == Half(x, 0, y, 0)
<1>1. 0 \in 0..Len(x) /\ 0 \in 0..Len(y)
  BY <1>0
<1>2. IsHalf(h, S, x, 0, y, 0)
  BY <1>1, HalfProperties
<1> HIDE DEF h
<1>3. h \in Seq(S) /\ Len(h) = Len(y)
  BY <1>0, <1>2 DEF IsHalf
<1>4. \A k \in 1..Len(y) : h[k] = y[k]
  BY <1>0, <1>2 DEF IsHalf
<1>5. h = y
  BY <1>3, <1>4, SeqEqual
<1> QED   BY <1>5 DEF h

(* If the texts end alike the beginning of one is followed by its own       *)
(* end.                                                                     *)
LEMMA HalfToEnd ==
  ASSUME NEW S, NEW x \in Seq(S), NEW y \in Seq(S), NEW i, NEW j, SameEnd(x, i, y, j)
  PROVE  Half(x, i, y, j) = x
<1>0. Len(x) \in Nat /\ Len(y) \in Nat
  BY LenProperties
<1> i \in 0..Len(x) /\ j \in 0..Len(y) /\ Len(x) - i = Len(y) - j
  BY <1>0 DEF SameEnd
<1> DEFINE h == Half(x, i, y, j)
<1>2. IsHalf(h, S, x, i, y, j)
  BY HalfProperties
<1> HIDE DEF h
<1>3. \A k \in 1..Len(x) - i : x[i + k] = y[j + k]
  BY DEF SameEnd, Same
<1>4. h \in Seq(S) /\ Len(h) = Len(x)
  BY <1>0, <1>2 DEF IsHalf
<1>5. ASSUME NEW k \in 1..Len(h) PROVE h[k] = x[k]
  <2>1. CASE k <= i
    BY <2>1, <1>2 DEF IsHalf
  <2>2. CASE k > i
    <3>1. k - i \in 1..Len(x) - i /\ i + (k - i) = k /\ k - i \in 1..Len(y) - j
      BY <1>0, <1>4, <2>2
    <3>2. h[i + (k - i)] = y[j + (k - i)] /\ x[i + (k - i)] = y[j + (k - i)]
      BY <3>1, <1>2, <1>3 DEF IsHalf
    <3> QED   BY <3>1, <3>2
  <2> QED   BY <2>1, <2>2
<1>6. h = x
  BY <1>4, <1>5, SeqEqual
<1> QED   BY <1>6 DEF h

-----------------------------------------------------------------------------
(* How an edit divides the old and the new text: modification j has        *)
(* replaced the bytes from o to r in the old text by those from p to a in  *)
(* the new one, and has left as they are those since modification j - 1.   *)
Cuts == [p : Nat, a : Nat, o : Nat, r : Nat]
Follows(c, d) ==
  /\ d.p <= d.a /\ d.o <= d.r
  /\ c.a <= d.p /\ c.r <= d.o /\ d.p - c.a = d.o - c.r
IsLayout(L, n) ==
  /\ L \in [0..n -> Cuts]
  /\ L[0].a = 0 /\ L[0].r = 0 /\ L[0].p = 0 /\ L[0].o = 0
  /\ \A j \in 1..n : Follows(L[j - 1], L[j])

(* x becomes y by the modifications of L, whatever they insert.            *)
Edited(L, n, x, y) ==
  /\ L[n].a <= Len(y) /\ L[n].r <= Len(x) /\ Len(y) - L[n].a = Len(x) - L[n].r
  /\ \A j \in 1..n : Same(y, L[j - 1].a, x, L[j - 1].r, L[j].p - L[j - 1].a)
  /\ Same(y, L[n].a, x, L[n].r, Len(y) - L[n].a)

Extended(L, n, c) == [j \in 0..n + 1 |-> IF j = n + 1 THEN c ELSE L[j]]

(* The modifications of a layout are in order in both texts.               *)
LEMMA LayoutInOrder ==
  ASSUME NEW n \in Nat, NEW L, IsLayout(L, n), NEW j \in 0..n, NEW i \in 0..j
  PROVE  L[i].a <= L[j].a /\ L[i].r <= L[j].r
<1> DEFINE P == {k \in Nat : k <= n => \A h \in 0..k : L[h].a <= L[k].a /\ L[h].r <= L[k].r}
<1>1. \A k \in 0..n : L[k].p \in Nat /\ L[k].a \in Nat /\ L[k].o \in Nat /\ L[k].r \in Nat
  BY DEF IsLayout, Cuts
<1>2. 0 \in P
  BY <1>1
<1>3. ASSUME NEW k \in Nat, k \in P PROVE k + 1 \in P
  <2> SUFFICES ASSUME k + 1 <= n, NEW h \in 0..k + 1
               PROVE  L[h].a <= L[k + 1].a /\ L[h].r <= L[k + 1].r
    OBVIOUS
  <2>1. k + 1 \in 1..n /\ (k + 1) - 1 = k /\ k \in 0..n /\ k + 1 \in 0..n /\ h \in 0..n
    OBVIOUS
  <2>2. Follows(L[(k + 1) - 1], L[k + 1])
    BY <2>1 DEF IsLayout
  <2>3. L[k].a <= L[k + 1].a /\ L[k].r <= L[k + 1].r
    BY <1>1, <2>1, <2>2 DEF Follows
  <2>4. CASE h = k + 1
    BY <1>1, <2>1, <2>4
  <2>5. CASE h \in 0..k
    <3>1. L[h].a <= L[k].a /\ L[h].r <= L[k].r
      BY <1>3, <2>1, <2>5
    <3> QED   BY <1>1, <2>1, <2>3, <3>1
  <2> QED   BY <2>4, <2>5
<1> HIDE DEF P
<1>4. Nat \subseteq P
  BY <1>2, <1>3, InductionOnNumbers
<1>5. j \in P /\ j <= n
  BY <1>4
<1> QED   BY <1>5 DEF P

(* The places of a modification are in order in each of the texts.          *)
LEMMA LayoutNumbers ==
  ASSUME NEW n \in Nat, NEW L, IsLayout(L, n), NEW j \in 0..n
  PROVE  /\ L[j].p \in Nat /\ L[j].a \in Nat /\ L[j].o \in Nat /\ L[j].r \in Nat
         /\ L[j].p <= L[j].a /\ L[j].o <= L[j].r
BY DEF IsLayout, Cuts, Follows

(* Modifications do not overlap, and what is between two of them has the    *)
(* same length in both texts.                                               *)
LEMMA LayoutApart ==
  ASSUME NEW n \in Nat, NEW L, IsLayout(L, n), NEW j \in 1..n, NEW i \in 0..j - 1
  PROVE  /\ L[i].a <= L[j - 1].a /\ L[i].r <= L[j - 1].r
         /\ L[j - 1].a <= L[j].p /\ L[j - 1].r <= L[j].o /\ L[j].p - L[j - 1].a = L[j].o - L[j - 1].r
<1>1. j - 1 \in 0..n /\ i \in 0..(j - 1)
  OBVIOUS
<1>2. L[i].a <= L[j - 1].a /\ L[i].r <= L[j - 1].r
  BY <1>1, LayoutInOrder
<1> QED   BY <1>2 DEF IsLayout, Follows

(* A modification behind the last one makes a longer layout.                *)
LEMMA LayoutExtended ==
  ASSUME NEW n \in Nat, NEW L, IsLayout(L, n), NEW c \in Cuts, Follows(L[n], c)
  PROVE  /\ IsLayout(Extended(L, n, c), n + 1)
         /\ Extended(L, n, c)[n + 1] = c
         /\ \A j \in 0..n : Extended(L, n, c)[j] = L[j]
<1> DEFINE M == Extended(L, n, c)
<1>1. \A j \in 0..n + 1 : M[j] = IF j = n + 1 THEN c ELSE L[j]
  BY DEF Extended
<1>2. M \in [0..n + 1 -> Cuts]
  <2>1. \A j \in 0..n + 1 : M[j] \in Cuts
    BY <1>1 DEF IsLayout
  <2> QED   BY <2>1 DEF Extended
<1> HIDE DEF M
<1>3. M[n + 1] = c /\ \A j \in 0..n : M[j] = L[j]
  BY <1>1
<1>4. ASSUME NEW j \in 1..n + 1 PROVE Follows(M[j - 1], M[j])
  <2>1. CASE j = n + 1
    <3>1. j - 1 = n /\ n \in 0..n
      BY <2>1
    <3> QED   BY <1>3, <2>1, <3>1
  <2>2. CASE j \in 1..n
    <3>1. j - 1 \in 0..n /\ j \in 0..n
      BY <2>2
    <3>2. Follows(L[j - 1], L[j])
      BY <2>2 DEF IsLayout
    <3> QED   BY <1>3, <3>1, <3>2
  <2> QED   BY <2>1, <2>2
<1>5. 0 \in 0..n /\ M[0] = L[0]
  BY <1>3
<1>6. IsLayout(M, n + 1)
  BY <1>2, <1>4, <1>5 DEF IsLayout
<1> QED   BY <1>3, <1>6 DEF M

(* y with one more modification c, which inserts b.                        *)
WithChange(y, c, b) == Splice(y, c.p, c.r - c.o, b)
EditedFurther(L, n, c, S, x, y, b) ==
  /\ Edited(Extended(L, n, c), n + 1, x, WithChange(y, c, b))
  /\ IsSplice(WithChange(y, c, b), S, y, c.p, c.r - c.o, b)
  /\ c.p + (c.r - c.o) <= Len(y)
  /\ Len(WithChange(y, c, b)) = c.a + (Len(x) - c.r)

(* A modification behind the last one leaves the texts alike up to it and   *)
(* behind it.                                                               *)
LEMMA EditedMore ==
  ASSUME NEW S, NEW x \in Seq(S), NEW y \in Seq(S), NEW n \in Nat, NEW L, IsLayout(L, n), Edited(L, n, x, y),
         NEW c \in Cuts, Follows(L[n], c), c.r <= Len(x), NEW b \in Seq(S), Len(b) = c.a - c.p
  PROVE  EditedFurther(L, n, c, S, x, y, b)
<1> DEFINE M == Extended(L, n, c)
           len == c.r - c.o
           z == Splice(y, c.p, len, b)
           pos == c.p
           la == L[n].a
           lr == L[n].r
           ca == c.a
           co == c.o
           cr == c.r
           m == Len(x)
           l == Len(y)
<1>1. M[n + 1] = c /\ \A j \in 0..n : M[j] = L[j]
  BY LayoutExtended
<1>2. pos \in Nat /\ ca \in Nat /\ co \in Nat /\ cr \in Nat
      /\ pos <= ca /\ co <= cr /\ la <= pos /\ lr <= co /\ pos - la = co - lr
  BY DEF Cuts, Follows
<1>3. m \in Nat /\ l \in Nat /\ Len(b) \in Nat /\ n \in 0..n
  BY LenProperties
<1>4. la \in Nat /\ lr \in Nat
  BY <1>3, LayoutNumbers
<1>5. la <= l /\ lr <= m /\ l - la = m - lr
  BY DEF Edited
<1>14. cr <= m /\ Len(b) = ca - pos /\ len = cr - co
  OBVIOUS
<1> HIDE DEF len, z, M, la, lr, ca, co, cr, pos, m, l
<1>6. len \in Nat /\ pos + len <= l
  BY <1>2, <1>3, <1>4, <1>5, <1>14
<1>7. IsSplice(z, S, y, pos, len, b)
  BY <1>2, <1>6, SpliceProperties DEF z, pos, l
<1>8. Len(z) = ca + (m - cr)
  <2>1. Len(z) = l - len + Len(b)
    BY <1>7 DEF IsSplice, l
  <2>2. Len(z) = l - (cr - co) + (ca - pos)
    BY <2>1, <1>14
  <2> QED   BY <1>2, <1>3, <1>4, <1>5, <2>2
<1>9. ASSUME NEW k \in 1..pos PROVE z[k] = y[k]
  BY <1>7 DEF IsSplice
<1>10. ASSUME NEW j \in 1..n + 1 PROVE Same(z, M[j - 1].a, x, M[j - 1].r, M[j].p - M[j - 1].a)
  <2>1. CASE j \in 1..n
    <3>1. j - 1 \in 0..n /\ j \in 0..n /\ j \in 0..n /\ n \in 0..n
      BY <2>1
    <3>2. M[j - 1] = L[j - 1] /\ M[j] = L[j]
      BY <1>1, <3>1
    <3>3. Same(y, L[j - 1].a, x, L[j - 1].r, L[j].p - L[j - 1].a)
      BY <2>1 DEF Edited
    <3>4. L[j].a <= la
      BY <3>1, LayoutInOrder DEF la
    <3>5. L[j].p \in Nat /\ L[j].a \in Nat /\ L[j].p <= L[j].a
      BY <3>1, LayoutNumbers
    <3>6. L[j - 1].a \in Nat
      BY <3>1, LayoutNumbers
    <3> SUFFICES ASSUME NEW k \in 1..L[j].p - L[j - 1].a
                 PROVE  z[L[j - 1].a + k] = x[L[j - 1].r + k]
      BY <3>2 DEF Same
    <3>7. y[L[j - 1].a + k] = x[L[j - 1].r + k]
      BY <3>3 DEF Same
    <3>8. L[j - 1].a + k \in 1..pos
      <4>1. \A a1, pj, aj \in Nat : pj <= aj /\ aj <= la /\ k \in 1..pj - a1 => a1 + k \in 1..pos
        BY <1>2, <1>4
      <4> QED   BY <3>4, <3>5, <3>6, <4>1
    <3> QED   BY <1>9, <3>7, <3>8
  <2>2. CASE j = n + 1
    <3>1. j - 1 = n /\ M[j - 1].a = la /\ M[j - 1].r = lr /\ M[j].p = pos
      BY <1>1, <1>3, <2>2 DEF la, lr, pos
    <3> SUFFICES ASSUME NEW k \in 1..pos - la
                 PROVE  z[la + k] = x[lr + k]
      BY <3>1 DEF Same
    <3>2. k \in 1..l - la /\ la + k \in 1..pos
      BY <1>2, <1>3, <1>4, <1>6
    <3>3. y[la + k] = x[lr + k]
      BY <3>2 DEF Edited, Same, la, lr, l
    <3> QED   BY <1>9, <3>2, <3>3
  <2> QED   BY <2>1, <2>2
<1>11. Same(z, ca, x, cr, Len(z) - ca)
  <2> SUFFICES ASSUME NEW k \in 1..Len(z) - ca PROVE z[ca + k] = x[cr + k]
    BY DEF Same
  <2>1. k \in 1..m - cr
    BY <1>2, <1>3, <1>8
  <2>2. k \in 1..l - (pos + len) /\ pos + Len(b) + k = ca + k
    BY <1>2, <1>3, <1>4, <1>5, <2>1, <1>14
  <2>3. z[ca + k] = y[pos + len + k]
    BY <1>7, <2>2 DEF IsSplice, l
  <2>4. (pos + len + k) - la \in 1..l - la /\ la + ((pos + len + k) - la) = pos + len + k
        /\ lr + ((pos + len + k) - la) = cr + k
    BY <1>2, <1>3, <1>4, <1>5, <2>1, <1>14
  <2>5. y[la + ((pos + len + k) - la)] = x[lr + ((pos + len + k) - la)]
    BY <2>4 DEF Edited, Same, la, lr, l
  <2> QED   BY <2>3, <2>4, <2>5
<1>12. ca <= Len(z) /\ Len(z) - ca = m - cr
  BY <1>2, <1>3, <1>8, <1>14
<1>13. Edited(M, n + 1, x, z)
  <2>1. M[n + 1].a = ca /\ M[n + 1].r = cr /\ cr <= m /\ (n + 1) - 1 = n
    BY <1>1, <1>14 DEF ca, cr
  <2> QED   BY <2>1, <1>10, <1>11, <1>12 DEF Edited, m
<1> QED   BY <1>6, <1>7, <1>8, <1>13 DEF EditedFurther, WithChange, z, len, M, pos, ca, cr, m, l

(* The modifications of an edit are those of the layout L.                 *)
Describes(L, e, old, new) ==
  /\ Edited(L, Len(e), old, new)
  /\ \A j \in 1..Len(e) :
       e[j] = [position |-> L[j].p, removed |-> Slice(old, L[j].o, L[j].r), added |-> Slice(new, L[j].p, L[j].a)]
Made(e, old, new) == \E L : IsLayout(L, Len(e)) /\ Describes(L, e, old, new)

(* The edit that takes an edit back.                                       *)
TakenBack(L, n) == [j \in 0..n |-> [p |-> L[j].o, a |-> L[j].r, o |-> L[j].p, r |-> L[j].a]]

(* Taking an edit back is an edit, with the texts in each other's place.    *)
LEMMA TakenBackLayout ==
  ASSUME NEW n \in Nat, NEW L, IsLayout(L, n), NEW x, NEW y, Edited(L, n, x, y), Len(x) \in Nat, Len(y) \in Nat
  PROVE  IsLayout(TakenBack(L, n), n) /\ Edited(TakenBack(L, n), n, y, x)
<1> DEFINE M == TakenBack(L, n)
<1>1. M \in [0..n -> Cuts]
  BY DEF TakenBack, IsLayout, Cuts
<1>2. \A j \in 0..n : M[j].p = L[j].o /\ M[j].a = L[j].r /\ M[j].o = L[j].p /\ M[j].r = L[j].a
  BY DEF TakenBack
<1> HIDE DEF M
<1>3. \A j \in 1..n : j - 1 \in 0..n /\ j \in 0..n
  OBVIOUS
<1>4. 0 \in 0..n /\ n \in 0..n
  OBVIOUS
<1>5. ASSUME NEW j \in 1..n PROVE Follows(M[j - 1], M[j])
  BY <1>2, <1>3 DEF IsLayout, Follows
<1>6. IsLayout(M, n)
  BY <1>1, <1>2, <1>4, <1>5 DEF IsLayout
<1>7. ASSUME NEW j \in 1..n PROVE Same(x, M[j - 1].a, y, M[j - 1].r, M[j].p - M[j - 1].a)
  <2>1. Follows(L[j - 1], L[j]) /\ Same(y, L[j - 1].a, x, L[j - 1].r, L[j].p - L[j - 1].a)
    BY DEF IsLayout, Edited
  <2>2. L[j].p - L[j - 1].a = L[j].o - L[j - 1].r
    BY <2>1 DEF Follows
  <2>3. M[j - 1].a = L[j - 1].r /\ M[j - 1].r = L[j - 1].a /\ M[j].p = L[j].o
    BY <1>2, <1>3
  <2> QED   BY <2>1, <2>2, <2>3 DEF Same
<1>8. Same(x, M[n].a, y, M[n].r, Len(x) - M[n].a)
  <2>1. Same(y, L[n].a, x, L[n].r, Len(y) - L[n].a) /\ Len(y) - L[n].a = Len(x) - L[n].r
    BY DEF Edited
  <2>2. M[n].a = L[n].r /\ M[n].r = L[n].a
    BY <1>2, <1>4
  <2> QED   BY <2>1, <2>2 DEF Same
<1>9. M[n].a <= Len(x) /\ M[n].r <= Len(y) /\ Len(x) - M[n].a = Len(y) - M[n].r
  BY <1>2, <1>4 DEF Edited
<1>10. Edited(M, n, y, x)
  BY <1>7, <1>8, <1>9 DEF Edited
<1> QED   BY <1>6, <1>10 DEF M

(* The bounds of a modification in both texts.                             *)
LEMMA WithinTexts ==
  ASSUME NEW n \in Nat, NEW L, IsLayout(L, n), NEW x, NEW y, Edited(L, n, x, y), Len(x) \in Nat, Len(y) \in Nat,
         NEW j \in 0..n
  PROVE  L[j].a <= Len(y) /\ L[j].r <= Len(x)
<1>1. L[j].a <= L[n].a /\ L[j].r <= L[n].r
  BY LayoutInOrder
<1>2. L[n].a <= Len(y) /\ L[n].r <= Len(x)
  BY DEF Edited
<1>3. n \in 0..n
  OBVIOUS
<1>4. L[n].a \in Nat /\ L[n].r \in Nat /\ L[j].a \in Nat /\ L[j].r \in Nat
  BY <1>3, LayoutNumbers
<1> QED
  <2>1. \A a, b, c \in Nat : a <= b /\ b <= c => a <= c
    OBVIOUS
  <2> QED   BY <1>1, <1>2, <1>4, <2>1

(* One modification made: the beginning that has become that of y ends     *)
(* after it.  It replaces the bytes of x that it says.                     *)
LEMMA OneForward ==
  ASSUME NEW S, NEW x \in Seq(S), NEW y \in Seq(S), NEW n \in Nat, NEW L, IsLayout(L, n), Edited(L, n, x, y),
         NEW j \in 1..n
  PROVE  LET h == Half(y, L[j - 1].a, x, L[j - 1].r)
             len == L[j].r - L[j].o
         IN  /\ Splice(h, L[j].p, len, Slice(y, L[j].p, L[j].a)) = Half(y, L[j].a, x, L[j].r)
             /\ Slice(h, L[j].p, L[j].p + len) = Slice(x, L[j].o, L[j].r)
             /\ Splice(Half(y, L[j].a, x, L[j].r), L[j].p, L[j].a - L[j].p, Slice(x, L[j].o, L[j].r)) = h
<1>1. j - 1 \in 0..n /\ j \in 0..n /\ Len(x) \in Nat /\ Len(y) \in Nat
  BY LenProperties
<1> DEFINE i == L[j - 1].a
           i1 == L[j].p
           i2 == L[j].a
           k == L[j - 1].r
           k1 == L[j].o
           k2 == L[j].r
<1>2. i \in Nat /\ k \in Nat /\ i1 \in Nat /\ i2 \in Nat /\ k1 \in Nat /\ k2 \in Nat
      /\ i1 <= i2 /\ k1 <= k2
  BY <1>1, LayoutNumbers
<1>3. i <= i1 /\ k <= k1 /\ i1 - i = k1 - k
  BY DEF IsLayout, Follows
<1>4. i2 <= Len(y) /\ k2 <= Len(x)
  BY <1>1, WithinTexts
<1>5. Same(y, i, x, k, i1 - i)
  BY DEF Edited
<1> HIDE DEF i, i1, i2, k, k1, k2
<1>8. Pieces(y, i, i1, i2, x, k, k1, k2)
  BY <1>2, <1>3, <1>4, <1>5 DEF Pieces
<1>6. /\ Splice(Half(y, i, x, k), i1, k2 - k1, Slice(y, i1, i2)) = Half(y, i2, x, k2)
      /\ Slice(Half(y, i, x, k), i1, i1 + (k2 - k1)) = Slice(x, k1, k2)
  BY <1>8, HalfForward
<1>7. Splice(Half(y, i2, x, k2), i1, i2 - i1, Slice(x, k1, k2)) = Half(y, i, x, k)
  BY <1>8, HalfBack
<1> QED   BY <1>6, <1>7 DEF i, i1, i2, k, k1, k2

(* Before the first modification the text is the old one, after the last    *)
(* the new one.                                                             *)
LEMMA BothEnds ==
  ASSUME NEW S, NEW x \in Seq(S), NEW y \in Seq(S), NEW n \in Nat, NEW L, IsLayout(L, n), Edited(L, n, x, y)
  PROVE  Half(y, L[0].a, x, L[0].r) = x /\ Half(y, L[n].a, x, L[n].r) = y
<1>1. L[0].a = 0 /\ L[0].r = 0
  BY DEF IsLayout
<1>2. Half(y, 0, x, 0) = x
  BY HalfFromStart
<1>3. n \in 0..n /\ Len(x) \in Nat /\ Len(y) \in Nat
  BY LenProperties
<1>4. L[n].a \in Nat /\ L[n].r \in Nat /\ L[n].a <= Len(y) /\ L[n].r <= Len(x)
  BY <1>3, LayoutNumbers, WithinTexts
<1>5. Len(y) - L[n].a = Len(x) - L[n].r /\ Same(y, L[n].a, x, L[n].r, Len(y) - L[n].a)
  BY DEF Edited
<1>7. SameEnd(y, L[n].a, x, L[n].r)
  BY <1>4, <1>5 DEF SameEnd
<1>6. Half(y, L[n].a, x, L[n].r) = y
  BY <1>7, HalfToEnd
<1> QED   BY <1>1, <1>2, <1>6

(* Every text on the way from one to the other is no longer than both.     *)
LEMMA HalfFits ==
  ASSUME NEW S, NEW x \in Seq(S), NEW y \in Seq(S), NEW n \in Nat, NEW L, IsLayout(L, n), Edited(L, n, x, y),
         NEW j \in 0..n
  PROVE  /\ Half(y, L[j].a, x, L[j].r) \in Seq(S)
         /\ Len(Half(y, L[j].a, x, L[j].r)) = L[j].a + (Len(x) - L[j].r)
         /\ L[j].a + (Len(x) - L[j].r) <= Len(x) + Len(y)
<1>1. L[j].a \in Nat /\ L[j].r \in Nat /\ Len(x) \in Nat /\ Len(y) \in Nat
  BY LayoutNumbers, LenProperties
<1>2. L[j].a <= Len(y) /\ L[j].r <= Len(x)
  BY <1>1, WithinTexts
<1>3. L[j].a \in 0..Len(y) /\ L[j].r \in 0..Len(x)
  BY <1>1, <1>2
<1>4. IsHalf(Half(y, L[j].a, x, L[j].r), S, y, L[j].a, x, L[j].r)
  BY <1>3, HalfProperties
<1>5. L[j].a + (Len(x) - L[j].r) <= Len(x) + Len(y)
  <2>1. \A a, b, c, d \in Nat : a <= d => a + (c - b) <= c + d
    OBVIOUS
  <2> QED   BY <1>1, <1>2, <2>1
<1> QED   BY <1>4, <1>5 DEF IsHalf

(* What a modification of an edit says, and how much that is.              *)
LEMMA Described ==
  ASSUME NEW S, NEW old \in Seq(S), NEW new \in Seq(S), NEW e, Len(e) \in Nat, NEW L, IsLayout(L, Len(e)),
         Describes(L, e, old, new), NEW j \in 1..Len(e)
  PROVE  /\ e[j].position = L[j].p
         /\ e[j].removed = Slice(old, L[j].o, L[j].r) /\ Len(e[j].removed) = L[j].r - L[j].o
         /\ e[j].added = Slice(new, L[j].p, L[j].a) /\ Len(e[j].added) = L[j].a - L[j].p
         /\ e[j].removed \in Seq(S) /\ e[j].added \in Seq(S)
<1>1. j \in 0..Len(e) /\ Len(old) \in Nat /\ Len(new) \in Nat
  BY LenProperties
<1>2. Edited(L, Len(e), old, new)
        /\ e[j] = [position |-> L[j].p, removed |-> Slice(old, L[j].o, L[j].r), added |-> Slice(new, L[j].p, L[j].a)]
  BY DEF Describes
<1>3. L[j].a <= Len(new) /\ L[j].r <= Len(old)
  BY <1>1, <1>2, WithinTexts
<1>4. /\ L[j].p \in Nat /\ L[j].a \in Nat /\ L[j].o \in Nat /\ L[j].r \in Nat
      /\ L[j].p <= L[j].a /\ L[j].o <= L[j].r
  BY <1>1, LayoutNumbers
<1>5. IsSlice(Slice(old, L[j].o, L[j].r), S, old, L[j].o, L[j].r)
  BY <1>3, <1>4, SliceProperties
<1>6. IsSlice(Slice(new, L[j].p, L[j].a), S, new, L[j].p, L[j].a)
  BY <1>3, <1>4, SliceProperties
<1> QED   BY <1>2, <1>5, <1>6 DEF IsSlice

(* The text after k modifications of an edit.                              *)
Midway(L, k, old, new) == Half(new, L[k].a, old, L[k].r)

(* Each modification takes the text one step further, and back.            *)
LEMMA OneModification ==
  ASSUME NEW S, NEW old \in Seq(S), NEW new \in Seq(S), NEW e, Len(e) \in Nat, NEW L, IsLayout(L, Len(e)),
         Describes(L, e, old, new), NEW j \in 1..Len(e)
  PROVE  /\ Splice(Midway(L, j - 1, old, new), e[j].position, Len(e[j].removed), e[j].added) = Midway(L, j, old, new)
         /\ Splice(Midway(L, j, old, new), e[j].position, Len(e[j].added), e[j].removed) = Midway(L, j - 1, old, new)
         /\ Slice(Midway(L, j - 1, old, new), e[j].position, e[j].position + Len(e[j].removed)) = e[j].removed
<1>1. Edited(L, Len(e), old, new)
  BY DEF Describes
<1>2. LET h == Half(new, L[j - 1].a, old, L[j - 1].r)
          len == L[j].r - L[j].o
      IN  /\ Splice(h, L[j].p, len, Slice(new, L[j].p, L[j].a)) = Half(new, L[j].a, old, L[j].r)
          /\ Slice(h, L[j].p, L[j].p + len) = Slice(old, L[j].o, L[j].r)
          /\ Splice(Half(new, L[j].a, old, L[j].r), L[j].p, L[j].a - L[j].p, Slice(old, L[j].o, L[j].r)) = h
  BY <1>1, OneForward
<1>3. /\ e[j].position = L[j].p
      /\ e[j].removed = Slice(old, L[j].o, L[j].r) /\ Len(e[j].removed) = L[j].r - L[j].o
      /\ e[j].added = Slice(new, L[j].p, L[j].a) /\ Len(e[j].added) = L[j].a - L[j].p
  BY Described
<1> QED   BY <1>2, <1>3, Zenon DEF Midway

(* An edit made again from the old text yields the new one.                *)
LEMMA AppliedIs ==
  ASSUME NEW S, NEW old \in Seq(S), NEW new \in Seq(S), NEW e, Len(e) \in Nat, Made(e, old, new)
  PROVE  Applied(e, old) = new
<1> DEFINE n == Len(e)
<1>1. PICK L : IsLayout(L, n) /\ Describes(L, e, old, new)
  BY DEF Made
<1> DEFINE H == [k \in 0..n |-> Midway(L, k, old, new)]
           r == CHOOSE f : f = [k \in 0..n |-> IF k = 0 THEN old
                                               ELSE Splice(f[k - 1], e[k].position, Len(e[k].removed), e[k].added)]
<1>2. H[0] = old /\ H[n] = new
  <2>1. Midway(L, 0, old, new) = old /\ Midway(L, n, old, new) = new
    BY <1>1, BothEnds DEF Describes, Midway
  <2> QED   BY <2>1
<1>3. ASSUME NEW k \in 1..n
      PROVE  Splice(H[k - 1], e[k].position, Len(e[k].removed), e[k].added) = H[k]
  <2>1. k - 1 \in 0..n /\ k \in 0..n
    OBVIOUS
  <2>2. H[k - 1] = Midway(L, k - 1, old, new) /\ H[k] = Midway(L, k, old, new)
    BY <2>1
  <2>3. Splice(Midway(L, k - 1, old, new), e[k].position, Len(e[k].removed), e[k].added) = Midway(L, k, old, new)
    BY <1>1, OneModification
  <2> QED   BY <2>2, <2>3
<1>4. H = [k \in 0..n |-> IF k = 0 THEN old ELSE Splice(H[k - 1], e[k].position, Len(e[k].removed), e[k].added)]
  <2> SUFFICES ASSUME NEW k \in 0..n
               PROVE  H[k] = IF k = 0 THEN old ELSE Splice(H[k - 1], e[k].position, Len(e[k].removed), e[k].added)
    OBVIOUS
  <2> HIDE DEF H
  <2>1. k = 0 \/ k \in 1..n
    OBVIOUS
  <2> QED   BY <1>2, <1>3, <2>1
<1> HIDE DEF H
<1>5. r = [k \in 0..n |-> IF k = 0 THEN old ELSE Splice(r[k - 1], e[k].position, Len(e[k].removed), e[k].added)]
  BY <1>4
<1>6. Applied(e, old) = r[n]
  BY DEF Applied
<1> HIDE DEF r
<1>7. r[0] = old /\ \A k \in 1..n : r[k] = Splice(r[k - 1], e[k].position, Len(e[k].removed), e[k].added)
  BY <1>5
<1> DEFINE P == {k \in Nat : k <= n => r[k] = H[k]}
<1>8. 0 \in P
  BY <1>2, <1>7
<1>9. ASSUME NEW k \in Nat, k \in P PROVE k + 1 \in P
  <2> SUFFICES ASSUME k + 1 <= n PROVE r[k + 1] = H[k + 1]
    OBVIOUS
  <2>1. k + 1 \in 1..n /\ (k + 1) - 1 = k /\ k <= n
    OBVIOUS
  <2>2. r[k] = H[k]
    BY <1>9, <2>1
  <2>3. r[k + 1] = Splice(r[k], e[k + 1].position, Len(e[k + 1].removed), e[k + 1].added)
    BY <1>7, <2>1
  <2>4. H[k + 1] = Splice(H[k], e[k + 1].position, Len(e[k + 1].removed), e[k + 1].added)
    BY <1>3, <2>1
  <2> QED   BY <2>2, <2>3, <2>4
<1> HIDE DEF P
<1>10. n \in P
  BY <1>8, <1>9, InductionOnNumbers
<1> QED   BY <1>2, <1>6, <1>10 DEF P

(* An edit taken back from the new text yields the old one.                *)
LEMMA RevertedIs ==
  ASSUME NEW S, NEW old \in Seq(S), NEW new \in Seq(S), NEW e, Len(e) \in Nat, Made(e, old, new)
  PROVE  Reverted(e, new) = old
<1> DEFINE n == Len(e)
<1>1. PICK L : IsLayout(L, n) /\ Describes(L, e, old, new)
  BY DEF Made
<1> DEFINE H == [k \in 0..n |-> Midway(L, k, old, new)]
           r == CHOOSE f : f = [k \in 0..n |-> IF k = n THEN new
                                  ELSE Splice(f[k + 1], e[k + 1].position, Len(e[k + 1].added), e[k + 1].removed)]
<1>2. H[0] = old /\ H[n] = new
  <2>1. Midway(L, 0, old, new) = old /\ Midway(L, n, old, new) = new
    BY <1>1, BothEnds DEF Describes, Midway
  <2> QED   BY <2>1
<1>3. ASSUME NEW k \in 0..n, k # n
      PROVE  Splice(H[k + 1], e[k + 1].position, Len(e[k + 1].added), e[k + 1].removed) = H[k]
  <2>1. k + 1 \in 1..n /\ k + 1 \in 0..n /\ (k + 1) - 1 = k
    BY <1>3
  <2>2. H[k + 1] = Midway(L, k + 1, old, new) /\ H[k] = Midway(L, k, old, new)
    BY <2>1
  <2> DEFINE j == k + 1
  <2> HIDE DEF j
  <2>3. Splice(Midway(L, j, old, new), e[j].position, Len(e[j].added), e[j].removed) = Midway(L, j - 1, old, new)
    BY <1>1, <2>1, OneModification DEF j
  <2> QED   BY <2>1, <2>2, <2>3 DEF j
<1>4. H = [k \in 0..n |-> IF k = n THEN new
                          ELSE Splice(H[k + 1], e[k + 1].position, Len(e[k + 1].added), e[k + 1].removed)]
  <2> SUFFICES ASSUME NEW k \in 0..n
               PROVE  H[k] = IF k = n THEN new
                             ELSE Splice(H[k + 1], e[k + 1].position, Len(e[k + 1].added), e[k + 1].removed)
    OBVIOUS
  <2> HIDE DEF H
  <2> QED   BY <1>2, <1>3
<1> HIDE DEF H
<1>5. r = [k \in 0..n |-> IF k = n THEN new
                          ELSE Splice(r[k + 1], e[k + 1].position, Len(e[k + 1].added), e[k + 1].removed)]
  BY <1>4
<1>6. Reverted(e, new) = r[0]
  BY DEF Reverted
<1> HIDE DEF r
<1>7. r[n] = new /\ \A k \in 0..n : k # n =>
        r[k] = Splice(r[k + 1], e[k + 1].position, Len(e[k + 1].added), e[k + 1].removed)
  BY <1>5
<1> DEFINE P == {k \in Nat : k <= n => r[n - k] = H[n - k]}
<1>8. 0 \in P
  BY <1>2, <1>7
<1>9. ASSUME NEW k \in Nat, k \in P PROVE k + 1 \in P
  <2> SUFFICES ASSUME k + 1 <= n PROVE r[n - (k + 1)] = H[n - (k + 1)]
    OBVIOUS
  <2> DEFINE j == n - (k + 1)
  <2>1. j \in 0..n /\ j # n /\ j + 1 = n - k /\ k <= n
    OBVIOUS
  <2>2. r[j + 1] = H[j + 1]
    BY <1>9, <2>1
  <2> HIDE DEF j
  <2>3. r[j] = Splice(r[j + 1], e[j + 1].position, Len(e[j + 1].added), e[j + 1].removed)
    BY <1>7, <2>1
  <2>4. H[j] = Splice(H[j + 1], e[j + 1].position, Len(e[j + 1].added), e[j + 1].removed)
    BY <1>3, <2>1
  <2> QED   BY <2>2, <2>3, <2>4 DEF j
<1> HIDE DEF P
<1>10. n \in P
  BY <1>8, <1>9, InductionOnNumbers
<1>11. r[0] = H[0]
  <2>1. r[n - n] = H[n - n]
    BY <1>10 DEF P
  <2> QED   BY <2>1
<1> QED   BY <1>2, <1>6, <1>11

(* What Versions computes, of any history.                                 *)
Older(h, c, b) == CHOOSE f : f = [k \in 0..c |-> IF k = c THEN b ELSE Reverted(h[k + 1], f[k + 1])]
Newer(h, c, b) == CHOOSE f : f = [k \in c..Len(h) |-> IF k = c THEN b ELSE Applied(h[k], f[k - 1])]
VersionsOf(h, c, b) ==
  [k \in 1..Len(h) + 1 |-> IF k - 1 <= c THEN Older(h, c, b)[k - 1] ELSE Newer(h, c, b)[k - 1]]

(* The versions of the model, with the functions it defines locally given   *)
(* names.                                                                   *)
LEMMA VersionsAreThose == Versions = VersionsOf(history, Current, base)
BY Zenon DEF Versions, Older, Newer, VersionsOf

(* The edits of a history lead from each version to the next.              *)
Chained(V, S, h) ==
  /\ V \in [1..Len(h) + 1 -> Seq(S)]
  /\ \A k \in 1..Len(h) : Len(h[k]) \in Nat /\ Made(h[k], V[k], V[k + 1])

ChainedAt(V, S, h, c, k) ==
  Chained(V, S, h) /\ Len(h) \in Nat /\ c \in 0..Len(h) /\ k \in Nat /\ k <= Len(h)

(* Taking back the edits before the current version yields the older        *)
(* versions.                                                                *)
LEMMA OlderAre ==
  ASSUME NEW S, NEW h, NEW c, NEW V, NEW k, ChainedAt(V, S, h, c, k), k <= c
  PROVE  Older(h, c, V[c + 1])[k] = V[k + 1]
<1> Chained(V, S, h) /\ Len(h) \in Nat /\ c \in 0..Len(h) /\ k \in Nat /\ k <= Len(h)
  BY DEF ChainedAt
<1> DEFINE b == V[c + 1]
           W == [i \in 0..c |-> V[i + 1]]
           r == Older(h, c, b)
<1>1. ASSUME NEW i \in 0..c, i # c PROVE Reverted(h[i + 1], V[i + 2]) = V[i + 1]
  <2>1. i + 1 \in 1..Len(h) /\ i + 1 \in 1..Len(h) + 1 /\ i + 2 \in 1..Len(h) + 1 /\ (i + 1) + 1 = i + 2
    BY <1>1
  <2>2. Len(h[i + 1]) \in Nat /\ Made(h[i + 1], V[i + 1], V[i + 2])
    BY <2>1 DEF Chained
  <2>3. V[i + 1] \in Seq(S) /\ V[i + 2] \in Seq(S)
    BY <2>1 DEF Chained
  <2> QED   BY <2>2, <2>3, RevertedIs
<1>2. W = [i \in 0..c |-> IF i = c THEN b ELSE Reverted(h[i + 1], W[i + 1])]
  <2> SUFFICES ASSUME NEW i \in 0..c PROVE W[i] = IF i = c THEN b ELSE Reverted(h[i + 1], W[i + 1])
    BY Zenon
  <2>1. CASE i = c
    BY <2>1
  <2>2. CASE i # c
    <3>1. i + 1 \in 0..c /\ (i + 1) + 1 = i + 2
      BY <2>2
    <3>2. W[i + 1] = V[i + 2] /\ W[i] = V[i + 1]
      BY <3>1
    <3> QED   BY <1>1, <2>2, <3>2
  <2> QED   BY <2>1, <2>2
<1> HIDE DEF W, b
<1>3. r = [i \in 0..c |-> IF i = c THEN b ELSE Reverted(h[i + 1], r[i + 1])]
  BY <1>2 DEF Older
<1> HIDE DEF r
<1>4. r[c] = b /\ \A i \in 0..c : i # c => r[i] = Reverted(h[i + 1], r[i + 1])
  BY <1>3
<1> DEFINE P == {i \in Nat : i <= c => r[c - i] = V[c - i + 1]}
<1>5. 0 \in P
  BY <1>4 DEF b
<1>6. ASSUME NEW i \in Nat, i \in P PROVE i + 1 \in P
  <2> SUFFICES ASSUME i + 1 <= c PROVE r[c - (i + 1)] = V[c - (i + 1) + 1]
    OBVIOUS
  <2> DEFINE j == c - (i + 1)
  <2>1. j \in 0..c /\ j # c /\ j + 1 = c - i /\ j + 2 = c - i + 1 /\ i <= c
    OBVIOUS
  <2>2. r[j + 1] = V[j + 2]
    BY <1>6, <2>1
  <2> HIDE DEF j
  <2>3. r[j] = Reverted(h[j + 1], r[j + 1])
    BY <1>4, <2>1
  <2>4. r[j] = V[j + 1]
    BY <1>1, <2>1, <2>2, <2>3
  <2> QED   BY <2>4 DEF j
<1> HIDE DEF P
<1>7. Nat \subseteq P
  BY <1>5, <1>6, InductionOnNumbers
<1>8. c - k \in P /\ c - k <= c /\ c - (c - k) = k
  BY <1>7
<1>9. r[c - (c - k)] = V[c - (c - k) + 1]
  BY <1>8 DEF P
<1> QED   BY <1>8, <1>9 DEF r, b

(* Making the edits after the current version again yields the newer        *)
(* versions.                                                                *)
LEMMA NewerAre ==
  ASSUME NEW S, NEW h, NEW c, NEW V, NEW k, ChainedAt(V, S, h, c, k), c <= k
  PROVE  Newer(h, c, V[c + 1])[k] = V[k + 1]
<1> Chained(V, S, h) /\ Len(h) \in Nat /\ c \in 0..Len(h) /\ k \in Nat /\ k <= Len(h)
  BY DEF ChainedAt
<1> DEFINE b == V[c + 1]
           W == [i \in c..Len(h) |-> V[i + 1]]
           r == Newer(h, c, b)
<1>1. ASSUME NEW i \in c..Len(h), i # c PROVE Applied(h[i], V[i]) = V[i + 1]
  <2>1. i \in 1..Len(h) /\ i \in 1..Len(h) + 1 /\ i + 1 \in 1..Len(h) + 1
    BY <1>1
  <2>2. Len(h[i]) \in Nat /\ Made(h[i], V[i], V[i + 1])
    BY <2>1 DEF Chained
  <2>3. V[i] \in Seq(S) /\ V[i + 1] \in Seq(S)
    BY <2>1 DEF Chained
  <2> QED   BY <2>2, <2>3, AppliedIs
<1>2. W = [i \in c..Len(h) |-> IF i = c THEN b ELSE Applied(h[i], W[i - 1])]
  <2> SUFFICES ASSUME NEW i \in c..Len(h) PROVE W[i] = IF i = c THEN b ELSE Applied(h[i], W[i - 1])
    BY Zenon
  <2>1. CASE i = c
    BY <2>1
  <2>2. CASE i # c
    <3>1. i - 1 \in c..Len(h) /\ (i - 1) + 1 = i
      BY <2>2
    <3>2. W[i - 1] = V[i] /\ W[i] = V[i + 1]
      BY <3>1
    <3> QED   BY <1>1, <2>2, <3>2
  <2> QED   BY <2>1, <2>2
<1> HIDE DEF W, b
<1>3. r = [i \in c..Len(h) |-> IF i = c THEN b ELSE Applied(h[i], r[i - 1])]
  BY <1>2 DEF Newer
<1> HIDE DEF r
<1>4. r[c] = b /\ \A i \in c..Len(h) : i # c => r[i] = Applied(h[i], r[i - 1])
  BY <1>3
<1> DEFINE P == {i \in Nat : c + i <= Len(h) => r[c + i] = V[c + i + 1]}
<1>5. 0 \in P
  BY <1>4 DEF b
<1>6. ASSUME NEW i \in Nat, i \in P PROVE i + 1 \in P
  <2> SUFFICES ASSUME c + (i + 1) <= Len(h) PROVE r[c + (i + 1)] = V[c + (i + 1) + 1]
    OBVIOUS
  <2> DEFINE j == c + (i + 1)
  <2>1. j \in c..Len(h) /\ j # c /\ j - 1 = c + i /\ j = c + i + 1 /\ c + i <= Len(h)
    OBVIOUS
  <2>2. r[j - 1] = V[j]
    BY <1>6, <2>1
  <2> HIDE DEF j
  <2>3. r[j] = Applied(h[j], r[j - 1])
    BY <1>4, <2>1
  <2>4. r[j] = V[j + 1]
    BY <1>1, <2>1, <2>2, <2>3
  <2> QED   BY <2>4 DEF j
<1> HIDE DEF P
<1>7. Nat \subseteq P
  BY <1>5, <1>6, InductionOnNumbers
<1>8. k - c \in P /\ c + (k - c) <= Len(h) /\ c + (k - c) = k
  BY <1>7
<1>9. r[c + (k - c)] = V[c + (k - c) + 1]
  BY <1>8 DEF P
<1> QED   BY <1>8, <1>9 DEF r, b

(* The history describes the versions from any of them.                    *)
LEMMA VersionsAre ==
  ASSUME NEW S, NEW h, Len(h) \in Nat, NEW c \in 0..Len(h), NEW V, Chained(V, S, h)
  PROVE  VersionsOf(h, c, V[c + 1]) = V
<1> DEFINE b == V[c + 1]
           f == VersionsOf(h, c, b)
<1> SUFFICES ASSUME NEW k \in 1..Len(h) + 1
             PROVE  (IF k - 1 <= c THEN Older(h, c, b)[k - 1] ELSE Newer(h, c, b)[k - 1]) = V[k]
  BY DEF VersionsOf, Chained
<1> DEFINE i == k - 1
<1>1. k = i + 1 /\ i \in Nat /\ i <= Len(h)
  OBVIOUS
<1> HIDE DEF i
<1>2. ASSUME i <= c PROVE Older(h, c, b)[i] = V[i + 1]
  <2>1. ChainedAt(V, S, h, c, i)
    BY <1>1 DEF ChainedAt
  <2> QED   BY <1>2, <2>1, OlderAre
<1>3. ASSUME ~ i <= c PROVE Newer(h, c, b)[i] = V[i + 1]
  <2>1. c <= i
    BY <1>1, <1>3
  <2>2. ChainedAt(V, S, h, c, i)
    BY <1>1 DEF ChainedAt
  <2> QED   BY <2>1, <2>2, NewerAre
<1>4. (IF i <= c THEN Older(h, c, b)[i] ELSE Newer(h, c, b)[i]) = V[i + 1]
  BY <1>2, <1>3
<1> QED   BY <1>1, <1>4 DEF i

-----------------------------------------------------------------------------
(* Words of memory: what a difference wraps to and back.                   *)
LEMMA WrappedValues ==
  /\ \A x \in 0..WordSize - 1 : Wrapped(x) = x /\ Wrapped(x + WordSize) = x
  /\ \A x \in Int : x < 0 /\ x + WordSize >= 0 => Wrapped(x) = x + WordSize
  /\ \A x \in Int : WordSize > 0 => Wrapped(x) \in 0..WordSize - 1
<1>1. WordSize \in Nat
  BY BufferAssumption
<1>2. \A x \in 0..WordSize - 1 : Wrapped(x) = x /\ Wrapped(x + WordSize) = x
  BY <1>1 DEF Wrapped
<1>3. \A x \in Int : x < 0 /\ x + WordSize >= 0 => Wrapped(x) = x + WordSize
  BY <1>1 DEF Wrapped
<1>4. \A x \in Int : WordSize > 0 => Wrapped(x) \in 0..WordSize - 1
  BY <1>1 DEF Wrapped
<1> QED   BY <1>2, <1>3, <1>4

(* A place that was pos and is v, and the place d after it.                *)
Carried(v, pos, d) == Wrapped((pos + d) + Wrapped(v - pos))

(* The difference that the loop carries gives the position back.            *)
LEMMA WrappedDifference ==
  ASSUME NEW v \in Nat, NEW pos \in Nat, NEW d \in Nat, v + d < WordSize, pos < WordSize
  PROVE  Carried(v, pos, d) = v + d
<1>1. WordSize \in Nat /\ v + d \in 0..WordSize - 1
  BY BufferAssumption
<1>2. Wrapped(v + d) = v + d /\ Wrapped((v + d) + WordSize) = v + d
  BY <1>1, WrappedValues
<1> USE DEF Carried
<1>3. CASE v >= pos
  <2>1. v - pos \in 0..WordSize - 1
    BY <1>1, <1>3
  <2>2. Wrapped(v - pos) = v - pos
    BY <2>1, WrappedValues
  <2>3. (pos + d) + (v - pos) = v + d
    OBVIOUS
  <2> QED   BY <1>2, <2>2, <2>3
<1>4. CASE v < pos
  <2>1. v - pos \in Int /\ v - pos < 0 /\ v - pos + WordSize >= 0
    BY <1>1, <1>4
  <2>2. Wrapped(v - pos) = v - pos + WordSize
    BY <2>1, WrappedValues
  <2>3. (pos + d) + (v - pos + WordSize) = (v + d) + WordSize
    BY <1>1
  <2> QED   BY <1>2, <2>2, <2>3
<1> QED   BY <1>3, <1>4

-----------------------------------------------------------------------------
(* What the loop of Behind computes, if it returns `later' for the         *)
(* modifications after k.                                                  *)
Passed(ps, pos, k, later) ==
  [p \in 0..WordSize - 1 |->
     IF k <= Len(ps) /\ p >= ps[k].position + AtLeastOne(ps[k].removed)
       THEN later[Wrapped(p + ps[k].added - ps[k].removed)]
       ELSE [next |-> k, diff |-> Wrapped(p - pos), pos |-> p]]
BehindFrom(ps, pos) == CHOOSE f : f = [k \in 1..Len(ps) + 1 |-> Passed(ps, pos, k, f[k + 1])]

(* Behind, with the function that it defines locally given a name.          *)
LEMMA BehindIs ==
  ASSUME NEW ps, NEW state, NEW pos
  PROVE  Behind(ps, state, pos) = BehindFrom(ps, pos)[state.next][Wrapped(pos + state.diff)]
BY Zenon DEF Behind, BehindFrom, Passed

(* There is such a function, defined from the last modification on.        *)
LEMMA BehindDefined ==
  ASSUME NEW ps, Len(ps) \in Nat, NEW pos
  PROVE  \A k \in 1..Len(ps) + 1 : BehindFrom(ps, pos)[k] = Passed(ps, pos, k, BehindFrom(ps, pos)[k + 1])
<1> DEFINE n == Len(ps)
           Right(f, k) == f[k] = Passed(ps, pos, k, f[k + 1])
           P == {i \in Nat : i <= n => \E f : \A k \in (n + 1) - i..n + 1 : Right(f, k)}
<1>1. 0 \in P
  <2> DEFINE f == [k \in {n + 1} |-> Passed(ps, pos, n + 1, <<>>)]
  <2>1. Passed(ps, pos, n + 1, <<>>) = Passed(ps, pos, n + 1, f[(n + 1) + 1])
    BY DEF Passed
  <2>2. Right(f, n + 1)
    BY <2>1
  <2>3. \A k \in (n + 1) - 0..n + 1 : k = n + 1
    OBVIOUS
  <2> HIDE DEF f, Right
  <2>4. \A k \in (n + 1) - 0..n + 1 : Right(f, k)
    BY <2>2, <2>3
  <2> QED   BY <2>4
<1>2. ASSUME NEW i \in Nat, i \in P PROVE i + 1 \in P
  <2> SUFFICES ASSUME i + 1 <= n PROVE \E g : \A k \in (n + 1) - (i + 1)..n + 1 : Right(g, k)
    OBVIOUS
  <2>1. PICK f : \A k \in (n + 1) - i..n + 1 : Right(f, k)
    BY <1>2
  <2> DEFINE j == n - i
             D == j..(n + 1) + 1
             g == [k \in D |-> IF k = j THEN Passed(ps, pos, j, f[j + 1]) ELSE f[k]]
  <2>2. /\ j \in D /\ j + 1 \in D /\ j + 1 # j
        /\ \A k \in (n + 1) - (i + 1)..n + 1 :
              k = j \/ (k \in (n + 1) - i..n + 1 /\ k # j /\ k + 1 # j /\ k \in D /\ k + 1 \in D)
    OBVIOUS
  <2> HIDE DEF j, D, P
  <2>3. \A k \in D : g[k] = IF k = j THEN Passed(ps, pos, j, f[j + 1]) ELSE f[k]
    BY DEF g
  <2> HIDE DEF g
  <2>4. Right(g, j)
    BY <2>2, <2>3
  <2>5. ASSUME NEW k \in (n + 1) - i..n + 1, k # j, k + 1 # j, k \in D, k + 1 \in D PROVE Right(g, k)
    <3>1. g[k] = f[k] /\ g[k + 1] = f[k + 1]
      BY <2>3, <2>5
    <3>2. Right(f, k)
      BY <2>1
    <3> QED   BY <3>1, <3>2
  <2>6. \A k \in (n + 1) - (i + 1)..n + 1 : Right(g, k)
    BY <2>2, <2>4, <2>5
  <2> QED   BY <2>6
<1> HIDE DEF P
<1>3. n \in P
  BY <1>1, <1>2, InductionOnNumbers
<1>4. PICK f : \A k \in 1..n + 1 : Right(f, k)
  <2>1. (n + 1) - n = 1 /\ n <= n
    OBVIOUS
  <2> HIDE DEF Right
  <2> QED   BY <1>3, <2>1 DEF P
<1> DEFINE g == [k \in 1..n + 1 |-> f[k]]
           r == BehindFrom(ps, pos)
<1>5. g = [k \in 1..n + 1 |-> Passed(ps, pos, k, g[k + 1])]
  <2> SUFFICES ASSUME NEW k \in 1..n + 1 PROVE f[k] = Passed(ps, pos, k, g[k + 1])
    BY Zenon
  <2>1. f[k] = Passed(ps, pos, k, f[k + 1])
    BY <1>4
  <2>2. CASE k + 1 \in 1..n + 1
    BY <2>1, <2>2
  <2>3. CASE ~ k <= n
    <3>1. Passed(ps, pos, k, f[k + 1]) = Passed(ps, pos, k, g[k + 1])
      BY <2>3 DEF Passed
    <3> QED   BY <2>1, <3>1
  <2> QED   BY <2>2, <2>3
<1> HIDE DEF g
<1>6. r = [k \in 1..n + 1 |-> Passed(ps, pos, k, r[k + 1])]
  BY <1>5 DEF BehindFrom
<1> HIDE DEF r
<1>7. \A k \in 1..n + 1 : r[k] = Passed(ps, pos, k, r[k + 1])
  BY <1>6
<1> QED   BY <1>7 DEF r

(* What is reported of an edit are the modifications of the layout K; l is *)
(* the length of the old text.                                             *)
Reports(K, n, ps, l) ==
  /\ Len(ps) = n
  /\ \A j \in 1..n : ps[j] = [position |-> K[j].p, removed |-> K[j].r - K[j].o, added |-> K[j].a - K[j].p]
  /\ l \in Nat /\ \A j \in 0..n : K[j].r <= l /\ K[j].a + (l - K[j].r) < WordSize

(* Where a position that is not before modification k - 1 is now, and the  *)
(* first position that is behind modification k.                           *)
Place(K, k, pos) == pos - K[k - 1].r + K[k - 1].a
FirstBehind(K, k) == K[k].o + AtLeastOne(K[k].r - K[k].o)

(* The loop that starts at modification i stops at k.                      *)
Stops(K, n, i, k, pos) ==
  /\ k \in i..n + 1
  /\ \A j \in i..k - 1 : FirstBehind(K, j) <= pos
  /\ k <= n => pos < FirstBehind(K, k)

(* The first position behind a modification is its end, or one more if it   *)
(* removes nothing.                                                         *)
LEMMA BehindAt ==
  ASSUME NEW n \in Nat, NEW K, IsLayout(K, n), NEW k \in 1..n
  PROVE  /\ FirstBehind(K, k) \in Nat
         /\ K[k].r <= FirstBehind(K, k) /\ K[k].o < FirstBehind(K, k)
         /\ FirstBehind(K, k) <= K[k].r \/ (K[k].r = K[k].o /\ FirstBehind(K, k) = K[k].r + 1)
         /\ AtLeastOne(K[k].r - K[k].o) = FirstBehind(K, k) - K[k].o
<1> DEFINE o == K[k].o
           r == K[k].r
<1>1. o \in Nat /\ r \in Nat /\ o <= r
  BY LayoutNumbers
<1>2. FirstBehind(K, k) = o + (IF r - o = 0 THEN 1 ELSE r - o)
  BY DEF FirstBehind, AtLeastOne
<1>3. AtLeastOne(r - o) = IF r - o = 0 THEN 1 ELSE r - o
  BY DEF AtLeastOne
<1> HIDE DEF o, r
<1>4. CASE r = o
  <2>1. r - o = 0
    BY <1>1, <1>4
  <2>2. FirstBehind(K, k) = o + 1 /\ AtLeastOne(r - o) = 1
    BY <1>2, <1>3, <2>1
  <2>3. FirstBehind(K, k) \in Nat /\ r <= FirstBehind(K, k) /\ o < FirstBehind(K, k)
    BY <1>1, <1>4, <2>2
  <2>4. r = o /\ FirstBehind(K, k) = r + 1 /\ AtLeastOne(r - o) = FirstBehind(K, k) - o
    BY <1>1, <1>4, <2>2
  <2> QED   BY <2>3, <2>4 DEF r, o
<1>5. CASE r # o
  <2>1. r - o # 0
    BY <1>1, <1>5
  <2>2. FirstBehind(K, k) = o + (r - o) /\ AtLeastOne(r - o) = r - o
    BY <1>2, <1>3, <2>1
  <2>3. FirstBehind(K, k) = r
    BY <1>1, <2>2
  <2>4. r - o = FirstBehind(K, k) - o /\ o < r /\ r <= r
    BY <1>1, <1>5, <2>3
  <2> QED   BY <1>1, <2>2, <2>3, <2>4 DEF r, o
<1> QED   BY <1>4, <1>5

(* Places are words.                                                       *)
LEMMA PlaceIsWord ==
  ASSUME NEW n \in Nat, NEW K, IsLayout(K, n), NEW ps, NEW l, Reports(K, n, ps, l),
         NEW k \in Nat, 1 <= k, k <= n + 1, NEW pos \in Nat, pos <= l, K[k - 1].r <= pos
  PROVE  /\ Place(K, k, pos) \in Nat /\ Place(K, k, pos) \in 0..WordSize - 1 /\ K[k - 1].a <= Place(K, k, pos)
         /\ Place(K, k, pos) - K[k - 1].a = pos - K[k - 1].r
<1> DEFINE a == K[k - 1].a
           r == K[k - 1].r
<1>1. k - 1 \in 0..n
  OBVIOUS
<1>2. a \in Nat /\ r \in Nat
  BY <1>1, LayoutNumbers
<1>3. a + (l - r) < WordSize /\ r <= pos /\ l \in Nat
  BY <1>1 DEF Reports
<1>4. WordSize \in Nat
  BY BufferAssumption
<1>5. Place(K, k, pos) = pos - r + a
  BY DEF Place
<1> HIDE DEF a, r
<1>6. pos - r + a \in Nat /\ pos - r + a \in 0..WordSize - 1 /\ a <= pos - r + a /\ (pos - r + a) - a = pos - r
  BY <1>2, <1>3, <1>4
<1> QED   BY <1>5, <1>6 DEF a, r

StoppedAt(K, k, pos) == [next |-> k, diff |-> Wrapped(Place(K, k, pos) - pos), pos |-> Place(K, k, pos)]

(* One turn of the loop.                                                   *)
LEMMA OneTurn ==
  ASSUME NEW n \in Nat, NEW K, IsLayout(K, n), NEW ps, NEW l, Reports(K, n, ps, l),
         NEW k \in Nat, 1 <= k, k <= n + 1, NEW pos \in Nat, pos <= l, K[k - 1].r <= pos
  PROVE  /\ k <= n /\ FirstBehind(K, k) <= pos =>
              /\ K[k].r <= pos
              /\ BehindFrom(ps, pos)[k][Place(K, k, pos)] = BehindFrom(ps, pos)[k + 1][Place(K, k + 1, pos)]
         /\ ~ (k <= n /\ FirstBehind(K, k) <= pos) =>
              BehindFrom(ps, pos)[k][Place(K, k, pos)] = StoppedAt(K, k, pos)
<1> DEFINE v == Place(K, k, pos)
           f == BehindFrom(ps, pos)
           a == K[k - 1].a
           r == K[k - 1].r
<1>1. v \in 0..WordSize - 1 /\ v - a = pos - r
  BY PlaceIsWord
<1>2. a \in Nat /\ r \in Nat /\ k - 1 \in 0..n
  <2>1. k - 1 \in 0..n
    OBVIOUS
  <2> QED   BY <2>1, LayoutNumbers
<1>3. f[k] = Passed(ps, pos, k, f[k + 1])
  <2>1. Len(ps) = n /\ Len(ps) \in Nat /\ k \in 1..Len(ps) + 1
    BY DEF Reports
  <2> QED   BY <2>1, BehindDefined
<1>9. Len(ps) = n
  BY DEF Reports
<1>4. f[k][v] = IF k <= n /\ v >= ps[k].position + AtLeastOne(ps[k].removed)
                THEN f[k + 1][Wrapped(v + ps[k].added - ps[k].removed)]
                ELSE [next |-> k, diff |-> Wrapped(v - pos), pos |-> v]
  BY <1>1, <1>3, <1>9, Zenon DEF Passed
<1>5. v \in Int /\ WordSize \in Nat
  BY <1>1, BufferAssumption
<1> HIDE DEF v, f, a, r
<1>6. ASSUME k <= n
      PROVE  /\ v >= ps[k].position + AtLeastOne(ps[k].removed) <=> FirstBehind(K, k) <= pos
             /\ FirstBehind(K, k) <= pos =>
                  K[k].r <= pos /\ Wrapped(v + ps[k].added - ps[k].removed) = Place(K, k + 1, pos)
  <2> DEFINE kp == K[k].p
             ka == K[k].a
             ko == K[k].o
             kr == K[k].r
             bh == FirstBehind(K, k)
  <2>1. k \in 1..n /\ k \in 0..n /\ (k + 1) - 1 = k /\ 1 <= k + 1 /\ k + 1 <= n + 1
    BY <1>6
  <2>2. kp \in Nat /\ ka \in Nat /\ ko \in Nat /\ kr \in Nat
    BY <2>1, LayoutNumbers
  <2>3. kp - a = ko - r
    BY <2>1 DEF IsLayout, Follows, a, r
  <2>4. ps[k].position = kp /\ ps[k].added = ka - kp /\ ps[k].removed = kr - ko
    BY <2>1 DEF Reports
  <2>5. bh \in Nat /\ kr <= bh /\ AtLeastOne(kr - ko) = bh - ko
    BY <2>1, BehindAt
  <2>6. Place(K, k + 1, pos) = pos - kr + ka
    BY <2>1 DEF Place
  <2> HIDE DEF kp, ka, ko, kr, bh
  <2>7. v >= kp + (bh - ko) <=> bh <= pos
    BY <1>1, <1>2, <1>5, <2>2, <2>3, <2>5
  <2>8. bh <= pos => kr <= pos
    BY <2>2, <2>5
  <2>9. v + (ka - kp) - (kr - ko) = pos - kr + ka
    BY <1>1, <1>2, <1>5, <2>2, <2>3
  <2>10. ASSUME bh <= pos PROVE Wrapped(v + (ka - kp) - (kr - ko)) = pos - kr + ka
    <3>1. K[(k + 1) - 1].r <= pos /\ k + 1 \in Nat
      BY <2>1, <2>8, <2>10 DEF kr
    <3> DEFINE k1 == k + 1
    <3>2. k1 \in Nat /\ 1 <= k1 /\ k1 <= n + 1 /\ K[k1 - 1].r <= pos
      BY <2>1, <3>1
    <3> HIDE DEF k1
    <3>3. Place(K, k1, pos) \in 0..WordSize - 1
      BY <3>2, PlaceIsWord
    <3>4. pos - kr + ka \in 0..WordSize - 1
      BY <2>6, <3>3 DEF k1
    <3> QED   BY <2>9, <3>4, WrappedValues
  <2>11. v >= ps[k].position + AtLeastOne(ps[k].removed) <=> bh <= pos
    BY <2>4, <2>5, <2>7
  <2>12. Wrapped(v + ps[k].added - ps[k].removed) = Wrapped(v + (ka - kp) - (kr - ko))
    BY <2>4
  <2> QED   BY <2>6, <2>8, <2>10, <2>11, <2>12 DEF bh, kr
<1>7. ASSUME k <= n, FirstBehind(K, k) <= pos
      PROVE  K[k].r <= pos /\ f[k][v] = f[k + 1][Place(K, k + 1, pos)]
  BY <1>4, <1>6, <1>7
<1>8. ASSUME ~ (k <= n /\ FirstBehind(K, k) <= pos) PROVE f[k][v] = StoppedAt(K, k, pos)
  <2>1. ~ (k <= n /\ v >= ps[k].position + AtLeastOne(ps[k].removed))
    BY <1>6, <1>8
  <2> QED   BY <1>4, <2>1, Zenon DEF StoppedAt, v
<1> QED   BY <1>7, <1>8 DEF f, v

(* The loop stops, at a place that is given by the modification alone.     *)
LEMMA LoopStops ==
  ASSUME NEW n \in Nat, NEW K, IsLayout(K, n), NEW ps, NEW l, Reports(K, n, ps, l),
         NEW pos \in Nat, pos <= l, NEW i \in Nat, 1 <= i, i <= n + 1, K[i - 1].r <= pos
  PROVE  \E k \in Nat : /\ Stops(K, n, i, k, pos) /\ K[k - 1].r <= pos
                        /\ BehindFrom(ps, pos)[i][Place(K, i, pos)] = StoppedAt(K, k, pos)
<1> DEFINE f == BehindFrom(ps, pos)
           Good(h) == \E k \in Nat : /\ Stops(K, n, h, k, pos) /\ K[k - 1].r <= pos
                                     /\ f[h][Place(K, h, pos)] = StoppedAt(K, k, pos)
           P == {m \in Nat : m <= n => (K[((n + 1) - m) - 1].r <= pos => Good((n + 1) - m))}
<1>1. ASSUME NEW h \in Nat, 1 <= h, h <= n + 1, K[h - 1].r <= pos, ~ (h <= n /\ FirstBehind(K, h) <= pos)
      PROVE  Good(h)
  <2>1. f[h][Place(K, h, pos)] = StoppedAt(K, h, pos)
    BY <1>1, OneTurn
  <2>2. h <= n => pos < FirstBehind(K, h)
    <3> SUFFICES ASSUME h <= n PROVE pos < FirstBehind(K, h)
      OBVIOUS
    <3>1. h \in 1..n
      BY <1>1
    <3>2. FirstBehind(K, h) \in Nat
      BY <3>1, BehindAt
    <3> QED   BY <1>1, <3>2
  <2>3. Stops(K, n, h, h, pos)
    BY <1>1, <2>2 DEF Stops
  <2> QED   BY <1>1, <2>1, <2>3
<1>2. ASSUME NEW h \in Nat, 1 <= h, h <= n, K[h - 1].r <= pos, FirstBehind(K, h) <= pos, K[h].r <= pos => Good(h + 1)
      PROVE  Good(h)
  <2>1. K[h].r <= pos /\ f[h][Place(K, h, pos)] = f[h + 1][Place(K, h + 1, pos)]
    <3>1. h <= n + 1
      BY <1>2
    <3> QED   BY <1>2, <3>1, OneTurn
  <2>2. PICK k \in Nat : /\ Stops(K, n, h + 1, k, pos) /\ K[k - 1].r <= pos
                         /\ f[h + 1][Place(K, h + 1, pos)] = StoppedAt(K, k, pos)
    BY <1>2, <2>1
  <2>3. Stops(K, n, h, k, pos)
    <3>1. k \in h + 1..n + 1 /\ (\A j \in h + 1..k - 1 : FirstBehind(K, j) <= pos) /\ (k <= n => pos < FirstBehind(K, k))
      BY <2>2 DEF Stops
    <3>2. k \in h..n + 1
      BY <3>1
    <3>3. \A j \in h..k - 1 : j = h \/ j \in h + 1..k - 1
      OBVIOUS
    <3>4. \A j \in h..k - 1 : FirstBehind(K, j) <= pos
      BY <1>2, <3>1, <3>3
    <3> QED   BY <3>1, <3>2, <3>4 DEF Stops
  <2> QED   BY <2>1, <2>2, <2>3
<1> HIDE DEF Good, f
<1>3. 0 \in P
  <2> DEFINE h == n + 1
  <2>1. h \in Nat /\ 1 <= h /\ h <= n + 1 /\ ~ h <= n /\ (n + 1) - 0 = h
    OBVIOUS
  <2> HIDE DEF h
  <2>2. K[h - 1].r <= pos => Good(h)
    BY <1>1, <2>1
  <2> QED   BY <2>1, <2>2
<1>4. ASSUME NEW m \in Nat, m \in P PROVE m + 1 \in P
  <2> SUFFICES ASSUME m + 1 <= n, K[((n + 1) - (m + 1)) - 1].r <= pos PROVE Good((n + 1) - (m + 1))
    OBVIOUS
  <2> DEFINE h == (n + 1) - (m + 1)
  <2>1. h \in Nat /\ 1 <= h /\ h <= n /\ h <= n + 1 /\ (n + 1) - m = h + 1 /\ ((n + 1) - m) - 1 = h /\ m <= n
    OBVIOUS
  <2>2. K[h].r <= pos => Good(h + 1)
    BY <1>4, <2>1
  <2>3. K[h - 1].r <= pos
    OBVIOUS
  <2> HIDE DEF h
  <2>4. ASSUME FirstBehind(K, h) <= pos PROVE Good(h)
    BY <1>2, <2>1, <2>2, <2>3, <2>4
  <2>5. ASSUME ~ FirstBehind(K, h) <= pos PROVE Good(h)
    BY <1>1, <2>1, <2>3, <2>5
  <2> HIDE DEF P
  <2>6. Good(h)
    BY <2>4, <2>5, Zenon
  <2> QED   BY <2>6 DEF h
<1> HIDE DEF P
<1>5. Nat \subseteq P
  BY <1>3, <1>4, InductionOnNumbers
<1> DEFINE m == (n + 1) - i
<1>6. m \in Nat /\ m <= n /\ (n + 1) - m = i
  OBVIOUS
<1> HIDE DEF m
<1>7. m \in P
  BY <1>5, <1>6
<1>8. Good(i)
  BY <1>6, <1>7 DEF P
<1> QED   BY <1>8 DEF Good, f

(* The loop stops at one modification only.                                 *)
LEMMA StopsOnce ==
  ASSUME NEW n \in Nat, NEW K, IsLayout(K, n), NEW pos \in Nat, NEW k \in Nat, Stops(K, n, 1, k, pos),
         NEW m \in Nat, Stops(K, n, 1, m, pos)
  PROVE  k = m
<1>1. ASSUME NEW h \in Nat, NEW g \in Nat, Stops(K, n, 1, h, pos), Stops(K, n, 1, g, pos), h < g PROVE FALSE
  <2>1. h \in 1..n /\ h \in 1..g - 1
    BY <1>1 DEF Stops
  <2>2. FirstBehind(K, h) <= pos /\ pos < FirstBehind(K, h)
    BY <1>1, <2>1 DEF Stops
  <2>3. FirstBehind(K, h) \in Nat
    BY <2>1, BehindAt
  <2> QED   BY <2>2, <2>3
<1> QED   BY <1>1

-----------------------------------------------------------------------------
(* The modification at which the loop stops, from the first.               *)
StopOf(K, n, pos) == CHOOSE k \in Nat : Stops(K, n, 1, k, pos)

StateFrom(ps, b) ==
  CHOOSE f : f = [p \in 0..Len(b) |-> Behind(ps, IF p = 0 THEN [next |-> 1, diff |-> 0, pos |-> 0] ELSE f[p - 1], p)]

(* Patched, with the function that it defines locally given a name.         *)
LEMMA PatchedIs ==
  ASSUME NEW ps, NEW strategy
  PROVE  Patched(ps, strategy) = [p \in 0..Len(base) |-> Settled(ps, StateFrom(ps, base)[p], strategy)]
BY Zenon DEF Patched, StateFrom

(* There is a modification where the loop stops.                            *)
LEMMA StopOfStops ==
  ASSUME NEW n \in Nat, NEW K, IsLayout(K, n), NEW ps, NEW l, Reports(K, n, ps, l), NEW pos \in Nat, pos <= l
  PROVE  /\ StopOf(K, n, pos) \in Nat /\ Stops(K, n, 1, StopOf(K, n, pos), pos)
         /\ StopOf(K, n, pos) \in 1..n + 1 /\ K[StopOf(K, n, pos) - 1].r <= pos
<1>1. 1 \in Nat /\ 1 <= 1 /\ 1 <= n + 1 /\ K[1 - 1].r <= pos
  <2>1. K[0].r = 0
    BY DEF IsLayout
  <2> QED   BY <2>1
<1>2. \E k \in Nat : /\ Stops(K, n, 1, k, pos) /\ K[k - 1].r <= pos
                     /\ BehindFrom(ps, pos)[1][Place(K, 1, pos)] = StoppedAt(K, k, pos)
  BY <1>1, LoopStops
<1>3. PICK k \in Nat : Stops(K, n, 1, k, pos) /\ K[k - 1].r <= pos
  BY <1>2
<1>4. StopOf(K, n, pos) \in Nat /\ Stops(K, n, 1, StopOf(K, n, pos), pos)
  BY <1>3 DEF StopOf
<1> DEFINE s == StopOf(K, n, pos)
<1> HIDE DEF s
<1>5. s \in Nat /\ Stops(K, n, 1, s, pos)
  BY <1>4 DEF s
<1>6. s = k
  BY <1>3, <1>5, StopsOnce
<1>7. s \in 1..n + 1 /\ K[s - 1].r <= pos
  BY <1>3, <1>5, <1>6 DEF Stops
<1> QED   BY <1>5, <1>7 DEF s

(* The state after the first position.                                      *)
LEMMA FirstState ==
  ASSUME NEW n \in Nat, NEW K, IsLayout(K, n), NEW ps, NEW l, Reports(K, n, ps, l)
  PROVE  Behind(ps, [next |-> 1, diff |-> 0, pos |-> 0], 0) = StoppedAt(K, StopOf(K, n, 0), 0)
<1>1. K[0].r = 0 /\ K[0].a = 0 /\ l \in Nat
  BY DEF IsLayout, Reports
<1>2. 1 \in Nat /\ 1 <= 1 /\ 1 <= n + 1 /\ K[1 - 1].r <= 0 /\ 0 \in Nat /\ 0 <= l
  BY <1>1
<1>3. PICK k \in Nat : Stops(K, n, 1, k, 0) /\ BehindFrom(ps, 0)[1][Place(K, 1, 0)] = StoppedAt(K, k, 0)
  BY <1>2, LoopStops
<1>4. Place(K, 1, 0) = 0
  BY <1>1 DEF Place
<1>5. Wrapped(0 + 0) = 0
  <2>1. WordSize \in Nat /\ WordSize > 0
    <3>1. WordSize \in Nat /\ MaxLength \in Nat /\ WordSize > 2 * MaxLength
      BY BufferAssumption
    <3> QED   BY <3>1
  <2>2. 0 \in 0..WordSize - 1 /\ 0 + 0 = 0
    BY <2>1
  <2> QED   BY <2>2, WrappedValues
<1>6. StopOf(K, n, 0) = k
  <2> DEFINE s == StopOf(K, n, 0)
  <2>1. s \in Nat /\ Stops(K, n, 1, s, 0)
    BY <1>2, StopOfStops
  <2> HIDE DEF s
  <2>2. s = k
    BY <1>3, <2>1, StopsOnce
  <2> QED   BY <2>2 DEF s
<1>7. Behind(ps, [next |-> 1, diff |-> 0, pos |-> 0], 0) = BehindFrom(ps, 0)[1][Wrapped(0 + 0)]
  BY BehindIs
<1> QED   BY <1>3, <1>4, <1>5, <1>6, <1>7

(* The state after a position, from that after the one before.              *)
LEMMA NextState ==
  ASSUME NEW n \in Nat, NEW K, IsLayout(K, n), NEW ps, NEW l, Reports(K, n, ps, l), NEW q \in Nat, q < l
  PROVE  Behind(ps, StoppedAt(K, StopOf(K, n, q), q), q + 1) = StoppedAt(K, StopOf(K, n, q + 1), q + 1)
<1> DEFINE i == StopOf(K, n, q)
           p == q + 1
           s == StopOf(K, n, p)
<1>1. l \in Nat /\ q <= l /\ p \in Nat /\ p <= l
  BY DEF Reports
<1>2. i \in Nat /\ 1 <= i /\ i <= n + 1 /\ Stops(K, n, 1, i, q) /\ K[i - 1].r <= q
  BY <1>1, StopOfStops
<1>3. p = q + 1
  OBVIOUS
<1> HIDE DEF i, p
<1>4. s \in Nat /\ Stops(K, n, 1, s, p)
  BY <1>1, StopOfStops
<1> HIDE DEF s
<1>5. K[i - 1].r \in Nat /\ K[i - 1].r <= p
  <2>1. i - 1 \in 0..n
    BY <1>2
  <2>2. K[i - 1].r \in Nat
    BY <2>1, LayoutNumbers
  <2> QED   BY <1>2, <1>3, <2>2
<1>6. PICK k \in Nat : Stops(K, n, i, k, p) /\ BehindFrom(ps, p)[i][Place(K, i, p)] = StoppedAt(K, k, p)
  BY <1>1, <1>2, <1>5, LoopStops
<1>7. Stops(K, n, 1, k, p)
  <2>1. k \in i..n + 1 /\ (\A j \in i..k - 1 : FirstBehind(K, j) <= p) /\ (k <= n => p < FirstBehind(K, k))
    BY <1>6 DEF Stops
  <2>2. \A j \in 1..i - 1 : FirstBehind(K, j) <= q
    BY <1>2 DEF Stops
  <2>3. ASSUME NEW j \in 1..k - 1 PROVE FirstBehind(K, j) <= p
    <3>1. j \in i..k - 1 \/ j \in 1..i - 1
      BY <1>2, <2>1
    <3>2. CASE j \in 1..i - 1
      <4>1. j \in 1..n
        BY <1>2, <3>2
      <4>2. FirstBehind(K, j) \in Nat
        BY <4>1, BehindAt
      <4> QED   BY <1>3, <2>2, <3>2, <4>2
    <3> QED   BY <2>1, <3>1, <3>2
  <2>4. k \in 1..n + 1
    BY <1>2, <2>1
  <2> QED   BY <2>1, <2>3, <2>4 DEF Stops
<1>8. k = s
  BY <1>1, <1>4, <1>7, StopsOnce
<1> DEFINE v == Place(K, i, q)
<1>9. v \in Nat /\ v \in 0..WordSize - 1
  BY <1>1, <1>2, PlaceIsWord
<1>10. Place(K, i, p) = v + 1 /\ v + 1 \in 0..WordSize - 1
  <2>1. Place(K, i, p) \in 0..WordSize - 1
    BY <1>1, <1>2, <1>5, PlaceIsWord
  <2>2. K[i - 1].a \in Nat
    <3>1. i - 1 \in 0..n
      BY <1>2
    <3> QED   BY <3>1, LayoutNumbers
  <2>3. Place(K, i, p) = v + 1
    BY <1>3, <1>5, <2>2 DEF Place
  <2> QED   BY <2>1, <2>3
<1>11. Wrapped(p + Wrapped(v - q)) = Place(K, i, p)
  <2>1. q < WordSize
    <3>1. K[0].a = 0 /\ K[0].r = 0 /\ K[0].a + (l - K[0].r) < WordSize
      BY DEF IsLayout, Reports
    <3>2. WordSize \in Nat
      BY BufferAssumption
    <3> QED   BY <1>1, <3>1, <3>2
  <2>2. 1 \in Nat /\ v + 1 < WordSize
    <3>1. WordSize \in Nat
      BY BufferAssumption
    <3> QED   BY <1>9, <1>10, <3>1
  <2> HIDE DEF v
  <2>3. Carried(v, q, 1) = v + 1
    BY <1>9, <2>1, <2>2, WrappedDifference
  <2> QED   BY <1>3, <1>10, <2>3 DEF Carried
<1>12. Behind(ps, StoppedAt(K, i, q), p) = BehindFrom(ps, p)[i][Wrapped(p + Wrapped(v - q))]
  <2> DEFINE st == StoppedAt(K, i, q)
  <2>1. st.next = i /\ st.diff = Wrapped(v - q)
    BY DEF StoppedAt
  <2> HIDE DEF st
  <2>2. Behind(ps, st, p) = BehindFrom(ps, p)[st.next][Wrapped(p + st.diff)]
    BY BehindIs
  <2> QED   BY <2>1, <2>2 DEF st
<1>13. Behind(ps, StoppedAt(K, i, q), p) = StoppedAt(K, s, p)
  BY <1>6, <1>8, <1>11, <1>12
<1> QED   BY <1>13 DEF i, p, s

(* The patcher stops at the right modification for every position.         *)
LEMMA StatesAre ==
  ASSUME NEW n \in Nat, NEW K, IsLayout(K, n), NEW ps, NEW b, Reports(K, n, ps, Len(b)), NEW p \in 0..Len(b)
  PROVE  StateFrom(ps, b)[p] = StoppedAt(K, StopOf(K, n, p), p)
<1> DEFINE l == Len(b)
           first == [next |-> 1, diff |-> 0, pos |-> 0]
           W == [q \in 0..l |-> StoppedAt(K, StopOf(K, n, q), q)]
           r == StateFrom(ps, b)
<1>1. l \in Nat
  BY DEF Reports
<1>2. W = [q \in 0..l |-> Behind(ps, IF q = 0 THEN first ELSE W[q - 1], q)]
  <2> SUFFICES ASSUME NEW q \in 0..l
               PROVE  StoppedAt(K, StopOf(K, n, q), q) = Behind(ps, IF q = 0 THEN first ELSE W[q - 1], q)
    BY Zenon
  <2>1. CASE q = 0
    BY <2>1, FirstState
  <2>2. CASE q # 0
    <3> DEFINE u == q - 1
    <3>1. u \in Nat /\ u < l /\ u \in 0..l /\ q = u + 1
      BY <1>1, <2>2
    <3>2. W[q - 1] = StoppedAt(K, StopOf(K, n, u), u)
      BY <3>1
    <3> HIDE DEF u, W
    <3>3. Behind(ps, StoppedAt(K, StopOf(K, n, u), u), u + 1) = StoppedAt(K, StopOf(K, n, u + 1), u + 1)
      BY <3>1, NextState
    <3> QED   BY <2>2, <3>1, <3>2, <3>3
  <2> QED   BY <2>1, <2>2
<1>4. \A q \in 0..l : W[q] = StoppedAt(K, StopOf(K, n, q), q)
  OBVIOUS
<1> HIDE DEF W
<1>3. W[0] = Behind(ps, first, 0) /\ \A q \in 0..l : q # 0 => W[q] = Behind(ps, W[q - 1], q)
  <2>1. 0 \in 0..l
    BY <1>1
  <2>2. W[0] = Behind(ps, first, 0)
    BY <1>2, <2>1
  <2>3. ASSUME NEW q \in 0..l, q # 0 PROVE W[q] = Behind(ps, W[q - 1], q)
    BY <1>2, <2>3
  <2> QED   BY <2>2, <2>3
<1>5. r = [q \in 0..l |-> Behind(ps, IF q = 0 THEN first ELSE r[q - 1], q)]
  BY <1>2 DEF StateFrom
<1> HIDE DEF r
<1>6. r[0] = Behind(ps, first, 0) /\ \A q \in 0..l : q # 0 => r[q] = Behind(ps, r[q - 1], q)
  BY <1>1, <1>5
<1> DEFINE P == {q \in Nat : q <= l => r[q] = W[q]}
<1>7. 0 \in P
  BY <1>3, <1>6
<1>8. ASSUME NEW q \in Nat, q \in P PROVE q + 1 \in P
  <2> SUFFICES ASSUME q + 1 <= l PROVE r[q + 1] = W[q + 1]
    OBVIOUS
  <2>1. q + 1 \in 0..l /\ q + 1 # 0 /\ (q + 1) - 1 = q /\ q <= l
    BY <1>1
  <2>2. r[q] = W[q]
    BY <1>8, <2>1
  <2>3. r[q + 1] = Behind(ps, r[q], q + 1) /\ W[q + 1] = Behind(ps, W[q], q + 1)
    BY <1>3, <1>6, <2>1
  <2> QED   BY <2>2, <2>3
<1> HIDE DEF P
<1>9. p \in P
  <2>1. Nat \subseteq P
    BY <1>7, <1>8, InductionOnNumbers
  <2> QED   BY <2>1
<1>10. r[p] = W[p]
  BY <1>1, <1>9 DEF P
<1> QED   BY <1>4, <1>10 DEF r

(* Where a place v goes that is before the end of a modification.          *)
SettledBy(p, a, z, v, strategy) ==
  IF v >= p + z
    THEN IF strategy = "front" THEN p ELSE IF strategy = "back" THEN a ELSE IF v <= a THEN v ELSE a
    ELSE v
ZeroOrOne(K, k) == IF K[k].r - K[k].o = 0 THEN 0 ELSE 1

(* Settling keeps a position in the range that was inserted, and            *)
(* positions in order.                                                      *)
LEMMA SettledNumbers ==
  ASSUME NEW p \in Nat, NEW a \in Nat, p <= a, NEW z \in {0, 1}, NEW v \in Nat, NEW strategy
  PROVE  /\ SettledBy(p, a, z, v, strategy) \in Nat /\ SettledBy(p, a, z, v, strategy) <= a
         /\ v < p => SettledBy(p, a, z, v, strategy) = v
         /\ v = p => SettledBy(p, a, z, v, strategy) \in {p, a}
         /\ \A e \in Nat : e <= p /\ e <= v => e <= SettledBy(p, a, z, v, strategy)
         /\ SettledBy(p, a, z, v, strategy) <= SettledBy(p, a, z, v + 1, strategy)
<1> DEFINE s == SettledBy(p, a, z, v, strategy)
           u == SettledBy(p, a, z, v + 1, strategy)
<1>1. v < p + z => s = v
  BY DEF SettledBy
<1>2. v >= p + z => s = p \/ s = a \/ (s = v /\ v <= a)
  BY DEF SettledBy
<1>3. v >= p + z => (strategy = "front" => s = p /\ u = p)
                    /\ (strategy # "front" /\ strategy = "back" => s = a /\ u = a)
                    /\ (strategy # "front" /\ strategy # "back" =>
                          s = (IF v <= a THEN v ELSE a) /\ u = (IF v + 1 <= a THEN v + 1 ELSE a))
  BY DEF SettledBy
<1>4. u = v + 1 \/ u = p \/ u = a
  BY DEF SettledBy
<1> HIDE DEF s, u
<1>5. s \in Nat /\ s <= a
  <2>1. CASE v < p + z
    BY <1>1, <2>1
  <2>2. CASE v >= p + z
    BY <1>2, <2>2
  <2> QED   BY <2>1, <2>2
<1>6. v < p => s = v
  BY <1>1
<1>7. v = p => s \in {p, a}
  BY <1>1, <1>2
<1>8. ASSUME NEW e \in Nat, e <= p, e <= v PROVE e <= s
  <2>1. CASE v < p + z
    BY <1>1, <1>8, <2>1
  <2>2. CASE v >= p + z
    BY <1>2, <1>8, <2>2
  <2> QED   BY <2>1, <2>2
<1>9. s <= u
  <2>1. CASE v < p + z
    <3>1. s = v /\ v <= p
      BY <1>1, <2>1
    <3> QED   BY <1>4, <3>1
  <2>2. CASE v >= p + z
    <3>1. CASE strategy = "front" \/ strategy = "back"
      BY <1>3, <2>2, <3>1
    <3>2. CASE strategy # "front" /\ strategy # "back"
      <4>1. s = (IF v <= a THEN v ELSE a) /\ u = (IF v + 1 <= a THEN v + 1 ELSE a)
        BY <1>3, <2>2, <3>2
      <4> QED   BY <4>1
    <3> QED   BY <3>1, <3>2
  <2> QED   BY <2>1, <2>2
<1> QED   BY <1>5, <1>6, <1>7, <1>8, <1>9 DEF s, u

(* Settling, in terms of the layout.                                        *)
LEMMA SettledIs ==
  ASSUME NEW n \in Nat, NEW K, IsLayout(K, n), NEW ps, NEW l, Reports(K, n, ps, l), NEW k \in 1..n + 1,
         NEW pos, NEW strategy
  PROVE  Settled(ps, StoppedAt(K, k, pos), strategy) =
           IF k <= n THEN SettledBy(K[k].p, K[k].a, ZeroOrOne(K, k), Place(K, k, pos), strategy) ELSE Place(K, k, pos)
<1> DEFINE st == StoppedAt(K, k, pos)
           v == Place(K, k, pos)
<1>1. st.next = k /\ st.pos = v
  BY DEF StoppedAt
<1> HIDE DEF st, v
<1>2. Len(ps) = n
  BY DEF Reports
<1>3. CASE ~ k <= n
  <2>1. Settled(ps, st, strategy) = v
    BY <1>1, <1>2, <1>3 DEF Settled
  <2> QED   BY <1>3, <2>1 DEF st, v
<1>4. CASE k <= n
  <2>1. k \in 1..n /\ k \in 0..n
    BY <1>4
  <2>2. ps[k].position = K[k].p /\ ps[k].added = K[k].a - K[k].p /\ ps[k].removed = K[k].r - K[k].o
    BY <2>1 DEF Reports
  <2>3. K[k].p + (K[k].a - K[k].p) = K[k].a
    <3>1. K[k].p \in Nat /\ K[k].a \in Nat
      BY <2>1, LayoutNumbers
    <3>2. \A x, y \in Nat : x + (y - x) = y
      OBVIOUS
    <3> QED   BY <3>1, <3>2
  <2>4. Settled(ps, st, strategy) =
          IF v >= ps[k].position + (IF ps[k].removed = 0 THEN 0 ELSE 1)
            THEN IF strategy = "front" THEN ps[k].position
                 ELSE IF strategy = "back" THEN ps[k].position + ps[k].added
                 ELSE IF v <= ps[k].position + ps[k].added THEN v ELSE ps[k].position + ps[k].added
            ELSE v
    BY <1>1, <1>2, <1>4, Zenon DEF Settled
  <2>5. Settled(ps, st, strategy) = SettledBy(K[k].p, K[k].a, ZeroOrOne(K, k), v, strategy)
    BY <2>2, <2>3, <2>4, Zenon DEF SettledBy, ZeroOrOne
  <2> QED   BY <1>4, <2>5 DEF st, v
<1> QED   BY <1>3, <1>4

(* Where the patcher puts a position of the old text.                      *)
PutAt(K, n, pos, strategy) ==
  LET k == StopOf(K, n, pos)
  IN  IF k <= n THEN SettledBy(K[k].p, K[k].a, ZeroOrOne(K, k), Place(K, k, pos), strategy) ELSE Place(K, k, pos)

(* A patcher puts every position where the layout says.                     *)
LEMMA PatchedPuts ==
  ASSUME NEW n \in Nat, NEW K, IsLayout(K, n), NEW ps, Reports(K, n, ps, Len(base)), NEW strategy,
         NEW p \in 0..Len(base)
  PROVE  Patched(ps, strategy)[p] = PutAt(K, n, p, strategy)
<1> DEFINE k == StopOf(K, n, p)
<1>1. Len(base) \in Nat
  BY DEF Reports
<1>2. p \in Nat /\ p <= Len(base)
  BY <1>1
<1>3. k \in 1..n + 1
  BY <1>2, StopOfStops
<1>4. StateFrom(ps, base)[p] = StoppedAt(K, k, p)
  BY StatesAre
<1>5. Patched(ps, strategy)[p] = Settled(ps, StateFrom(ps, base)[p], strategy)
  BY PatchedIs
<1> HIDE DEF k
<1>6. Settled(ps, StoppedAt(K, k, p), strategy) =
        IF k <= n THEN SettledBy(K[k].p, K[k].a, ZeroOrOne(K, k), Place(K, k, p), strategy) ELSE Place(K, k, p)
  BY <1>3, SettledIs
<1> QED   BY <1>4, <1>5, <1>6 DEF PutAt, k

(* A position stays between the modifications around it.                   *)
LEMMA PutBetween ==
  ASSUME NEW n \in Nat, NEW K, IsLayout(K, n), NEW ps, NEW l, Reports(K, n, ps, l), NEW strategy,
         NEW p \in Nat, p <= l, NEW k, k = StopOf(K, n, p)
  PROVE  /\ k \in 1..n + 1 /\ PutAt(K, n, p, strategy) \in Nat /\ K[k - 1].a <= PutAt(K, n, p, strategy)
         /\ k <= n => /\ PutAt(K, n, p, strategy) <= K[k].a
                      /\ PutAt(K, n, p, strategy) =
                            SettledBy(K[k].p, K[k].a, ZeroOrOne(K, k), Place(K, k, p), strategy)
         /\ ~ k <= n => PutAt(K, n, p, strategy) = Place(K, k, p)
<1>1. k \in 1..n + 1 /\ k \in Nat /\ 1 <= k /\ k <= n + 1 /\ K[k - 1].r <= p
  BY StopOfStops
<1>2. Place(K, k, p) \in Nat /\ K[k - 1].a <= Place(K, k, p)
  BY <1>1, PlaceIsWord
<1>3. CASE ~ k <= n
  BY <1>1, <1>2, <1>3 DEF PutAt
<1>4. CASE k <= n
  <2>1. k \in 1..n /\ k \in 0..n /\ k - 1 \in 0..n
    BY <1>1, <1>4
  <2>2. K[k].p \in Nat /\ K[k].a \in Nat /\ K[k].p <= K[k].a /\ K[k - 1].a \in Nat
    BY <2>1, LayoutNumbers
  <2>3. K[k - 1].a <= K[k].p
    BY <2>1 DEF IsLayout, Follows
  <2>4. ZeroOrOne(K, k) \in {0, 1}
    BY DEF ZeroOrOne
  <2> DEFINE s == SettledBy(K[k].p, K[k].a, ZeroOrOne(K, k), Place(K, k, p), strategy)
             e == K[k - 1].a
  <2>5. e \in Nat /\ e <= K[k].p /\ e <= Place(K, k, p)
    BY <1>2, <2>2, <2>3
  <2> HIDE DEF e
  <2>6. s \in Nat /\ s <= K[k].a /\ e <= s
    BY <1>2, <2>2, <2>4, <2>5, SettledNumbers
  <2>7. PutAt(K, n, p, strategy) = s
    BY <1>4 DEF PutAt
  <2> QED   BY <1>1, <1>4, <2>6, <2>7 DEF e
<1> QED   BY <1>3, <1>4

(* Positions keep their order, and stay in the text.                       *)
LEMMA PutInOrder ==
  ASSUME NEW n \in Nat, NEW K, IsLayout(K, n), NEW ps, NEW l, Reports(K, n, ps, l), NEW strategy,
         NEW q \in Nat, q + 1 <= l
  PROVE  PutAt(K, n, q, strategy) <= PutAt(K, n, q + 1, strategy)
<1> DEFINE p == q + 1
           k == StopOf(K, n, q)
           m == StopOf(K, n, p)
           s == PutAt(K, n, q, strategy)
           t == PutAt(K, n, p, strategy)
<1>1. l \in Nat /\ p = q + 1 /\ p \in Nat /\ p <= l /\ q <= l
  BY DEF Reports
<1> HIDE DEF p
<1>2. k \in Nat /\ Stops(K, n, 1, k, q) /\ k \in 1..n + 1 /\ K[k - 1].r <= q
  BY <1>1, StopOfStops
<1>3. m \in Nat /\ Stops(K, n, 1, m, p) /\ m \in 1..n + 1 /\ K[m - 1].r <= p
  BY <1>1, StopOfStops
<1> HIDE DEF k, m
<1>4. /\ s \in Nat
      /\ k <= n => /\ s <= K[k].a
                   /\ s = SettledBy(K[k].p, K[k].a, ZeroOrOne(K, k), Place(K, k, q), strategy)
      /\ ~ k <= n => s = Place(K, k, q)
  BY <1>1, PutBetween DEF k
<1>5. /\ t \in Nat /\ K[m - 1].a <= t
      /\ m <= n => t = SettledBy(K[m].p, K[m].a, ZeroOrOne(K, m), Place(K, m, p), strategy)
      /\ ~ m <= n => t = Place(K, m, p)
  BY <1>1, PutBetween DEF m
<1> HIDE DEF s, t
<1>6. k <= m
  <2> SUFFICES ASSUME m < k PROVE FALSE
    BY <1>2, <1>3
  <2>1. m \in 1..n /\ m \in 1..k - 1 /\ m <= n
    BY <1>2, <1>3
  <2>2. FirstBehind(K, m) <= q
    BY <1>2, <2>1 DEF Stops
  <2>3. p < FirstBehind(K, m)
    BY <1>3, <2>1 DEF Stops
  <2>4. FirstBehind(K, m) \in Nat
    BY <2>1, BehindAt
  <2> QED   BY <1>1, <2>2, <2>3, <2>4
<1>7. CASE k < m
  <2>1. k \in 0..n /\ m - 1 \in 0..n /\ k \in 0..(m - 1) /\ k <= n
    BY <1>2, <1>3, <1>7
  <2> DEFINE j == m - 1
  <2> HIDE DEF j
  <2>2. K[k].a <= K[j].a
    BY <2>1, LayoutInOrder DEF j
  <2>3. K[k].a \in Nat /\ K[j].a \in Nat
    BY <2>1, LayoutNumbers DEF j
  <2>4. s <= K[k].a /\ K[j].a <= t
    BY <1>4, <1>5, <2>1 DEF j
  <2>5. s <= t
    BY <1>4, <1>5, <2>2, <2>3, <2>4
  <2> QED   BY <1>1, <2>5 DEF s, t, p
<1>8. CASE k = m
  <2> DEFINE v == Place(K, k, q)
  <2>1. v \in Nat
    BY <1>1, <1>2, PlaceIsWord
  <2>2. Place(K, k, p) = v + 1
    <3>1. k - 1 \in 0..n
      BY <1>2
    <3>2. K[k - 1].r \in Nat /\ K[k - 1].a \in Nat
      BY <3>1, LayoutNumbers
    <3> QED   BY <1>1, <3>2 DEF Place
  <2> HIDE DEF v
  <2>3. CASE ~ k <= n
    <3>1. s = v /\ t = v + 1
      BY <1>4, <1>5, <1>8, <2>2, <2>3 DEF v
    <3> QED   BY <2>1, <3>1 DEF s, t, p
  <2>4. CASE k <= n
    <3>1. k \in 0..n
      BY <1>2, <2>4
    <3>2. K[k].p \in Nat /\ K[k].a \in Nat /\ K[k].p <= K[k].a
      BY <3>1, LayoutNumbers
    <3>3. ZeroOrOne(K, k) \in {0, 1}
      BY DEF ZeroOrOne
    <3>4. SettledBy(K[k].p, K[k].a, ZeroOrOne(K, k), v, strategy) <= SettledBy(K[k].p, K[k].a, ZeroOrOne(K, k), v + 1, strategy)
      BY <2>1, <3>2, <3>3, SettledNumbers
    <3>5. s <= t
      BY <1>4, <1>5, <1>8, <2>2, <2>4, <3>4 DEF v
    <3> QED   BY <3>5 DEF s, t, p
  <2> QED   BY <2>3, <2>4
<1> QED   BY <1>2, <1>3, <1>6, <1>7, <1>8

(* The end of the old text is put into the new one.                         *)
LEMMA PutLast ==
  ASSUME NEW n \in Nat, NEW K, IsLayout(K, n), NEW ps, NEW l, Reports(K, n, ps, l), NEW strategy, K[n].r <= l
  PROVE  PutAt(K, n, l, strategy) <= K[n].a + (l - K[n].r)
<1> DEFINE k == StopOf(K, n, l)
           s == PutAt(K, n, l, strategy)
<1>1. l \in Nat /\ l <= l /\ n \in 0..n
  BY DEF Reports
<1>2. k \in Nat /\ k \in 1..n + 1
  BY <1>1, StopOfStops
<1> HIDE DEF k
<1>3. s \in Nat /\ (k <= n => s <= K[k].a) /\ (~ k <= n => s = Place(K, k, l))
  BY <1>1, PutBetween DEF k
<1>4. K[n].a \in Nat /\ K[n].r \in Nat
  BY <1>1, LayoutNumbers
<1> HIDE DEF s
<1>5. CASE k <= n
  <2>1. k \in 0..n
    BY <1>2, <1>5
  <2>2. K[k].a <= K[n].a
    BY <1>1, <2>1, LayoutInOrder
  <2>3. K[k].a \in Nat
    BY <2>1, LayoutNumbers
  <2>4. s <= K[n].a
    BY <1>3, <1>4, <1>5, <2>2, <2>3
  <2>5. s <= K[n].a + (l - K[n].r)
    BY <1>1, <1>3, <1>4, <2>4
  <2> QED   BY <2>5 DEF s
<1>6. CASE ~ k <= n
  <2>1. k - 1 = n
    BY <1>2, <1>6
  <2>2. s = l - K[n].r + K[n].a
    BY <1>3, <1>6, <2>1 DEF Place
  <2>3. s <= K[n].a + (l - K[n].r)
    BY <1>1, <1>3, <1>4, <2>2
  <2> QED   BY <2>3 DEF s
<1> QED   BY <1>5, <1>6

(* Every byte of the new text is after the end of one modification and not *)
(* after the end of the next.                                              *)
LEMMA EveryByte ==
  ASSUME NEW n \in Nat, NEW K, IsLayout(K, n), NEW q \in Nat, q > 0
  PROVE  \E j \in 0..n : K[j].a < q /\ (j < n => q <= K[j + 1].a)
<1> DEFINE Between == \E j \in 0..n : K[j].a < q /\ (j < n => q <= K[j + 1].a)
           P == {m \in Nat : m <= n => (K[m].a < q \/ Between)}
<1>1. K[0].a < q
  BY DEF IsLayout
<1>2. 0 \in P
  BY <1>1
<1>3. ASSUME NEW m \in Nat, m \in P PROVE m + 1 \in P
  <2> SUFFICES ASSUME m + 1 <= n, ~ Between PROVE K[m + 1].a < q
    OBVIOUS
  <2>1. m \in 0..n /\ m < n /\ m <= n /\ m + 1 \in 0..n
    OBVIOUS
  <2>2. K[m].a < q
    BY <1>3, <2>1
  <2>3. ~ q <= K[m + 1].a
    BY <2>1, <2>2
  <2>4. K[m + 1].a \in Nat
    BY <2>1, LayoutNumbers
  <2> QED   BY <2>3, <2>4
<1> HIDE DEF P
<1>4. n \in P
  BY <1>2, <1>3, InductionOnNumbers
<1>5. K[n].a < q \/ Between
  BY <1>4 DEF P
<1>6. K[n].a < q => Between
  <2>1. n \in 0..n /\ ~ n < n
    OBVIOUS
  <2> QED   BY <2>1
<1> QED   BY <1>5, <1>6

(* For every byte its place in the old text, or 0 if it was inserted.      *)
OriginsOf(K, n, l, og) ==
  /\ og \in Seq(Nat)
  /\ Edited(K, n, [i \in 1..l |-> i], og)
  /\ \A j \in 1..n : \A i \in 1..K[j].a - K[j].p : og[K[j].p + i] = 0

(* A byte behind a modification was there before, or was inserted by the    *)
(* next one.                                                                *)
LEMMA OriginAfter ==
  ASSUME NEW n \in Nat, NEW K, IsLayout(K, n), NEW l \in Nat, NEW og, OriginsOf(K, n, l, og),
         NEW q \in 1..Len(og), NEW j \in 0..n, K[j].a < q, j < n => q <= K[j + 1].a
  PROVE  \/ /\ og[q] = K[j].r + (q - K[j].a) /\ og[q] <= l
            /\ j < n => q <= K[j + 1].p
         \/ j < n /\ K[j + 1].p < q /\ og[q] = 0
<1> DEFINE I == [i \in 1..l |-> i]
<1>1. Len(I) = l /\ \A i \in 1..l : I[i] = i
  OBVIOUS
<1>2. Edited(K, n, I, og)
  BY DEF OriginsOf
<1> HIDE DEF I
<1>3. Len(og) \in Nat
  BY LenProperties DEF OriginsOf
<1> DEFINE a == K[j].a
           r == K[j].r
           m == q - a
<1>4. a \in Nat /\ r \in Nat
  BY LayoutNumbers
<1>5. m \in Nat /\ 1 <= m /\ a + m = q
  BY <1>4
<1>6. ASSUME og[q] = I[r + m], r + m \in 1..l PROVE og[q] = r + (q - a) /\ og[q] <= l
  BY <1>1, <1>6
<1>7. CASE j = n
  <2>1. Same(og, a, I, r, Len(og) - a) /\ a <= Len(og) /\ r <= l /\ Len(og) - a = l - r
    BY <1>1, <1>2, <1>7 DEF Edited
  <2> HIDE DEF a, r, m
  <2>2. m \in 1..Len(og) - a /\ r + m \in 1..l
    BY <1>3, <1>4, <1>5, <2>1
  <2>3. og[a + m] = I[r + m]
    BY <2>1, <2>2 DEF Same
  <2>4. og[q] = r + (q - a) /\ og[q] <= l
    BY <1>5, <1>6, <2>2, <2>3
  <2> QED   BY <1>7, <2>4 DEF a, r
<1>8. CASE j < n
  <2> DEFINE k == j + 1
             kp == K[k].p
             ka == K[k].a
             ko == K[k].o
  <2>1. k \in 1..n /\ k \in 0..n /\ k - 1 = j
    BY <1>8
  <2>2. kp \in Nat /\ ka \in Nat /\ ko \in Nat /\ kp <= ka /\ K[k].r \in Nat /\ ko <= K[k].r
    BY <2>1, LayoutNumbers
  <2>3. a <= kp /\ r <= ko /\ kp - a = ko - r
    BY <2>1 DEF IsLayout, Follows
  <2>4. K[k].r <= l
    <3>1. Len(I) \in Nat
      BY <1>1
    <3>2. K[k].r <= Len(I)
      BY <1>2, <1>3, <2>1, <3>1, WithinTexts
    <3> QED   BY <1>1, <3>2
  <2>5. q <= ka
    BY <1>8
  <2>6. CASE q <= kp
    <3>1. Same(og, a, I, r, kp - a)
      BY <1>2, <2>1 DEF Edited
    <3> HIDE DEF a, r, m, k, kp, ko, ka
    <3>2. m \in 1..kp - a
      BY <1>4, <1>5, <2>2, <2>3, <2>6
    <3>4. r + m \in 1..l
      <4>1. r + m <= ko
        BY <1>4, <2>2, <2>3, <3>2
      <4> QED   BY <1>4, <1>5, <2>2, <2>4, <4>1
    <3>3. og[a + m] = I[r + m]
      BY <3>1, <3>2 DEF Same
    <3>5. og[q] = r + (q - a) /\ og[q] <= l
      BY <1>5, <1>6, <3>3, <3>4
    <3> QED   BY <2>6, <3>5 DEF a, r, k, kp
  <2>7. CASE ~ q <= kp
    <3> DEFINE i == q - kp
    <3>1. i \in 1..ka - kp /\ kp + i = q
      <4>1. \A e, f, g \in Nat : e > g /\ e <= f => e - g \in 1..f - g /\ g + (e - g) = e
        OBVIOUS
      <4>2. q \in Nat /\ ka \in Nat /\ kp \in Nat /\ q > kp /\ q <= ka
        BY <2>2, <2>5, <2>7
      <4> QED   BY <4>1, <4>2
    <3>2. og[kp + i] = 0
      BY <2>1, <3>1 DEF OriginsOf
    <3>3. kp < q
      BY <2>2, <2>7
    <3> QED   BY <1>8, <3>1, <3>2, <3>3
  <2> QED   BY <2>6, <2>7
<1> QED   BY <1>7, <1>8

(* Between the end of modification k, which has removed nothing, and that  *)
(* of a later one at the same place there are only inserted bytes.         *)
LEMMA InsertedBetween ==
  ASSUME NEW n \in Nat, NEW K, IsLayout(K, n), NEW l \in Nat, NEW og, OriginsOf(K, n, l, og),
         NEW k \in 1..n, NEW j \in Nat, k <= j, j <= n, K[k].r = K[j].r,
         NEW i \in 1..Len(og), K[k].p < i, i <= K[j].a
  PROVE  og[i] = 0
<1> SUFFICES ASSUME og[i] # 0 PROVE FALSE
  OBVIOUS
<1>1. i \in Nat /\ i > 0 /\ Len(og) \in Nat
  BY LenProperties DEF OriginsOf
<1>2. PICK h \in 0..n : K[h].a < i /\ (h < n => i <= K[h + 1].a)
  BY <1>1, EveryByte
<1>3. h < n => i <= K[h + 1].p
  BY <1>2, OriginAfter
<1>4. \A g \in 0..n : K[g].a \in Nat /\ K[g].r \in Nat /\ K[g].p \in Nat /\ K[g].o \in Nat
                      /\ K[g].p <= K[g].a /\ K[g].o <= K[g].r
  BY LayoutNumbers
<1>5. h < j
  <2> SUFFICES ASSUME j <= h PROVE FALSE
    OBVIOUS
  <2>1. j \in 0..h /\ j \in 0..n
    OBVIOUS
  <2>2. K[j].a <= K[h].a
    BY <2>1, LayoutInOrder
  <2>3. K[j].a \in Nat /\ K[h].a \in Nat
    BY <1>4, <2>1
  <2> QED   BY <1>1, <1>2, <2>2, <2>3
<1> DEFINE g == h + 1
<1>6. g \in 1..n /\ g \in 0..n /\ g - 1 = h /\ h < n /\ g = h + 1 /\ g \in 0..j
  BY <1>5
<1> HIDE DEF g
<1>7. i <= K[g].p
  BY <1>3, <1>6
<1>8. k <= h
  <2> SUFFICES ASSUME h < k PROVE FALSE
    OBVIOUS
  <2>1. K[g].p <= K[k].p
    <3>1. CASE g = k
      BY <1>4, <1>6, <3>1
    <3>2. CASE g # k
      <4>1. g \in 0..k - 1 /\ k - 1 \in 0..n /\ k \in 0..n
        BY <1>6, <3>2
      <4>2. K[g].a <= K[k - 1].a /\ K[k - 1].a <= K[k].p
        BY <4>1, LayoutApart
      <4>3. K[g].p \in Nat /\ K[g].a \in Nat /\ K[g].p <= K[g].a /\ K[k - 1].a \in Nat /\ K[k].p \in Nat
        BY <1>4, <4>1, <1>6
      <4>4. \A a, b, c, d \in Nat : a <= b /\ b <= c /\ c <= d => a <= d
        OBVIOUS
      <4> QED   BY <4>2, <4>3, <4>4
    <3> QED   BY <3>1, <3>2
  <2>2. k \in 0..n
    OBVIOUS
  <2>3. K[g].p \in Nat /\ K[k].p \in Nat
    BY <1>4, <1>6, <2>2
  <2> QED   BY <1>1, <1>7, <2>1, <2>3
<1>9. K[k].r <= K[h].r /\ K[g].r <= K[j].r
  <2>1. k \in 0..h /\ j \in 0..n
    BY <1>8
  <2> QED   BY <1>6, <2>1, LayoutInOrder
<1>10. K[h].a <= K[g].p /\ K[h].r <= K[g].o /\ K[g].p - K[h].a = K[g].o - K[h].r
  BY <1>6 DEF IsLayout, Follows
<1>11. K[g].p <= K[h].a
  <2>1. j \in 0..n /\ k \in 0..n
    OBVIOUS
  <2> DEFINE a == K[h].a
             p == K[g].p
             o == K[g].o
             r == K[h].r
             s == K[g].r
             t == K[k].r
  <2>2. a \in Nat /\ p \in Nat /\ o \in Nat /\ r \in Nat /\ s \in Nat /\ t \in Nat
    BY <1>4, <1>6, <2>1
  <2>3. o <= s
    BY <1>4, <1>6
  <2>4. t <= r /\ s <= t /\ r <= o /\ p - a = o - r
    BY <1>9, <1>10
  <2> HIDE DEF a, p, o, r, s, t
  <2>5. p <= a
    BY <2>2, <2>3, <2>4
  <2> QED   BY <2>5 DEF p, a
<1>12. K[g].p \in Nat /\ K[h].a \in Nat
  BY <1>4, <1>6
<1> QED   BY <1>1, <1>2, <1>7, <1>11, <1>12

(* A byte stays with the position before it.                               *)
Precedes(K, n, l, og, strategy, q) ==
  /\ og[q] \in 1..l
  /\ PutAt(K, n, og[q] - 1, strategy) \in Nat /\ PutAt(K, n, og[q] - 1, strategy) < q
  /\ \A i \in PutAt(K, n, og[q] - 1, strategy) + 1..q - 1 : og[i] = 0
StillThere(K, n, ps, l, og, q) ==
  /\ IsLayout(K, n) /\ l \in Nat /\ Reports(K, n, ps, l) /\ OriginsOf(K, n, l, og)
  /\ q \in 1..Len(og) /\ og[q] # 0

(* A byte that is still there is preceded by its old position, with         *)
(* nothing but inserted bytes between.                                      *)
LEMMA BytesFollow ==
  ASSUME NEW n \in Nat, NEW K, NEW ps, NEW l, NEW og, NEW strategy, NEW q, StillThere(K, n, ps, l, og, q)
  PROVE  Precedes(K, n, l, og, strategy, q)
<1> USE DEF Precedes
<1> IsLayout(K, n) /\ l \in Nat /\ Reports(K, n, ps, l) /\ OriginsOf(K, n, l, og) /\ q \in 1..Len(og) /\ og[q] # 0
  BY DEF StillThere
<1>1. q \in Nat /\ q > 0 /\ Len(og) \in Nat /\ og[q] \in Nat
  BY LenProperties, ElementOfSeq DEF OriginsOf
<1>2. PICK j \in 0..n : K[j].a < q /\ (j < n => q <= K[j + 1].a)
  BY <1>1, EveryByte
<1>3. og[q] = K[j].r + (q - K[j].a) /\ og[q] <= l /\ (j < n => q <= K[j + 1].p)
  BY <1>2, OriginAfter
<1>4. \A g \in 0..n : K[g].a \in Nat /\ K[g].r \in Nat /\ K[g].p \in Nat /\ K[g].o \in Nat
                      /\ K[g].p <= K[g].a /\ K[g].o <= K[g].r
  BY LayoutNumbers
<1> DEFINE p == og[q] - 1
           k == StopOf(K, n, p)
           s == PutAt(K, n, p, strategy)
<1>5. p \in Nat /\ p <= l /\ K[j].r <= p /\ p - K[j].r + K[j].a = q - 1 /\ og[q] \in 1..l
  <2>1. K[j].r \in Nat /\ K[j].a \in Nat
    BY <1>4
  <2> DEFINE r == K[j].r
             a == K[j].a
             o == og[q]
  <2>2. r \in Nat /\ a \in Nat /\ o \in Nat /\ a < q /\ o = r + (q - a) /\ o <= l
    BY <1>1, <1>2, <1>3, <2>1
  <2> HIDE DEF r, a, o
  <2>3. o - 1 \in Nat /\ o - 1 <= l /\ r <= o - 1 /\ (o - 1) - r + a = q - 1 /\ o \in 1..l
    BY <1>1, <2>2
  <2> QED   BY <2>3 DEF r, a, o
<1> HIDE DEF p
<1>6. k \in Nat /\ k \in 1..n + 1 /\ Stops(K, n, 1, k, p) /\ K[k - 1].r <= p
  BY <1>5, StopOfStops
<1> HIDE DEF k
<1>7. /\ s \in Nat /\ K[k - 1].a <= s
      /\ k <= n => s = SettledBy(K[k].p, K[k].a, ZeroOrOne(K, k), Place(K, k, p), strategy)
      /\ ~ k <= n => s = Place(K, k, p)
  BY <1>5, PutBetween DEF k
<1> HIDE DEF s
<1>8. Place(K, k, p) \in Nat
  BY <1>5, <1>6, PlaceIsWord
<1>9. ASSUME k \in 1..n
      PROVE  /\ Place(K, k, p) < K[k].p => s = Place(K, k, p)
             /\ Place(K, k, p) = K[k].p => s \in {K[k].p, K[k].a}
  <2>1. k \in 0..n /\ k <= n
    BY <1>9
  <2>2. ZeroOrOne(K, k) \in {0, 1}
    BY DEF ZeroOrOne
  <2>3. K[k].p \in Nat /\ K[k].a \in Nat /\ K[k].p <= K[k].a
    BY <1>4, <2>1
  <2> DEFINE v == Place(K, k, p)
             kp == K[k].p
             ka == K[k].a
             z == ZeroOrOne(K, k)
             u == SettledBy(kp, ka, z, v, strategy)
  <2>4. v \in Nat /\ kp \in Nat /\ ka \in Nat /\ kp <= ka /\ z \in {0, 1}
    BY <1>8, <2>2, <2>3
  <2>5. s = u
    BY <1>7, <2>1
  <2> HIDE DEF v, kp, ka, z
  <2>6. (v < kp => u = v) /\ (v = kp => u \in {kp, ka})
    BY <2>4, SettledNumbers
  <2> HIDE DEF u
  <2> QED   BY <2>5, <2>6 DEF v, kp, ka
<1>10. ASSUME k = j + 1 PROVE s < q /\ \A i \in s + 1..q - 1 : og[i] = 0
  <2>1. k - 1 = j
    BY <1>10
  <2>2. Place(K, k, p) = q - 1
    BY <1>5, <2>1 DEF Place
  <2>3. s = q - 1
    <3>1. CASE ~ k <= n
      BY <1>7, <2>2, <3>1
    <3>2. CASE k <= n
      <4>1. k \in 1..n /\ j < n /\ k \in 0..n
        BY <1>6, <1>10, <3>2
      <4>2. q <= K[k].p /\ K[k].p \in Nat
        BY <1>3, <1>4, <1>10, <4>1
      <4>3. Place(K, k, p) < K[k].p
        BY <1>1, <2>2, <4>2
      <4> QED   BY <1>9, <2>2, <4>1, <4>3
    <3> QED   BY <3>1, <3>2
  <2> QED   BY <1>1, <2>3
<1>11. ASSUME k > j + 1 PROVE FALSE
  <2> DEFINE g == j + 1
  <2>1. g \in 1..n /\ g \in 0..n /\ g \in 1..k - 1 /\ g - 1 = j /\ j < n
    BY <1>6, <1>11
  <2>2. FirstBehind(K, g) <= p
    BY <1>6, <2>1 DEF Stops
  <2>3. FirstBehind(K, g) \in Nat /\ K[g].o < FirstBehind(K, g)
    BY <2>1, BehindAt
  <2>4. K[g].p - K[j].a = K[g].o - K[j].r
    BY <2>1 DEF IsLayout, Follows
  <2>5. q <= K[g].p
    BY <1>3, <2>1
  <2> HIDE DEF g
  <2>6. \A gp, a, go, r \in Nat : gp - a = go - r /\ q <= gp /\ r <= p /\ p - r + a = q - 1 => p < go
    BY <1>1, <1>5
  <2>7. p < K[g].o
    BY <1>4, <1>5, <2>1, <2>4, <2>5, <2>6
  <2>8. K[g].o \in Nat
    BY <1>4, <2>1
  <2> QED   BY <1>5, <2>2, <2>3, <2>7, <2>8
<1>12. ASSUME k <= j PROVE s < q /\ \A i \in s + 1..q - 1 : og[i] = 0
  <2>1. k \in 1..n /\ k \in 0..n /\ k \in 0..j /\ j \in Nat /\ k <= j /\ j <= n /\ k <= n /\ k - 1 \in 0..n
    BY <1>6, <1>12
  <2>2. p < FirstBehind(K, k)
    BY <1>6, <2>1 DEF Stops
  <2>3. K[k].r <= K[j].r /\ K[k].a <= K[j].a
    BY <2>1, LayoutInOrder
  <2>4. FirstBehind(K, k) \in Nat /\ (FirstBehind(K, k) <= K[k].r \/ (K[k].r = K[k].o /\ FirstBehind(K, k) = K[k].r + 1))
    BY <2>1, BehindAt
  <2> DEFINE r == K[k].r
             rj == K[j].r
             aj == K[j].a
             f == FirstBehind(K, k)
             o == K[k].o
  <2>5. r \in Nat /\ rj \in Nat /\ aj \in Nat /\ f \in Nat /\ o \in Nat
    BY <1>4, <2>1, <2>4
  <2>6. p < f /\ r <= rj /\ rj <= p /\ (f <= r \/ (r = o /\ f = r + 1)) /\ p - rj + aj = q - 1
    BY <1>5, <2>2, <2>3, <2>4
  <2> HIDE DEF r, rj, aj, f, o
  <2>7. r = o /\ p = r /\ rj = r /\ q = aj + 1
    <3>1. ~ f <= r
      BY <1>1, <1>5, <2>5, <2>6
    <3>2. r = o /\ f = r + 1
      BY <2>6, <3>1
    <3>3. p = r /\ rj = r
      BY <1>1, <1>5, <2>5, <2>6, <3>2
    <3> QED   BY <1>1, <1>5, <2>5, <2>6, <3>2, <3>3
  <2>8. Place(K, k, p) = K[k].p
    <3>1. K[k].p - K[k - 1].a = K[k].o - K[k - 1].r
      BY <2>1 DEF IsLayout, Follows
    <3> DEFINE x == K[k].p
               y == K[k - 1].a
               z == K[k - 1].r
    <3>2. x \in Nat /\ y \in Nat /\ z \in Nat /\ x - y = o - z
      BY <1>4, <2>1, <3>1 DEF o
    <3>3. Place(K, k, p) = p - z + y
      BY DEF Place
    <3> HIDE DEF x, y, z
    <3>4. p - z + y = x
      BY <2>5, <2>7, <3>2
    <3> QED   BY <3>3, <3>4 DEF x
  <2>9. s \in {K[k].p, K[k].a}
    BY <1>9, <2>1, <2>8
  <2>10. K[k].p \in Nat /\ K[k].a \in Nat /\ K[k].p <= K[k].a /\ K[k].a <= aj
    BY <1>4, <2>1, <2>3 DEF aj
  <2>11. s < q /\ K[k].p <= s
    BY <1>7, <2>5, <2>7, <2>9, <2>10
  <2>12. ASSUME NEW i \in s + 1..q - 1 PROVE og[i] = 0
    <3>1. i \in 1..Len(og)
      BY <1>1, <1>7, <2>12
    <3>2. K[k].p < i /\ i <= K[j].a
      <4>1. i <= aj
        BY <1>7, <2>5, <2>7, <2>12
      <4>2. K[k].p < i
        BY <1>7, <2>10, <2>11, <2>12
      <4> QED   BY <4>1, <4>2 DEF aj
    <3>3. K[k].r = K[j].r
      BY <2>7 DEF r, rj
    <3> QED   BY <2>1, <3>1, <3>2, <3>3, InsertedBetween
  <2> QED   BY <2>11, <2>12
<1>13. s < q /\ \A i \in s + 1..q - 1 : og[i] = 0
  <2>1. k = j + 1 \/ k > j + 1 \/ k <= j
    BY <1>6
  <2> QED   BY <1>10, <1>11, <1>12, <2>1, Zenon
<1> QED   BY <1>5, <1>7, <1>13 DEF s, p

(* Sums of words that stay below the word size are what they would be       *)
(* without wrapping.                                                        *)
LEMMA WrappedSum ==
  ASSUME NEW x \in Int, NEW y \in Int, x < WordSize, 0 <= x + WordSize, x + y < WordSize, 0 <= x + y + WordSize
  PROVE  Wrapped(Wrapped(x) + y) = Wrapped(x + y)
<1>1. WordSize \in Nat
  BY BufferAssumption
<1>2. CASE x >= 0
  <2>1. x \in 0..WordSize - 1
    BY <1>1, <1>2
  <2>2. Wrapped(x) = x
    BY <2>1, WrappedValues
  <2> QED   BY <2>2
<1>3. CASE x < 0
  <2>1. Wrapped(x) = x + WordSize
    BY <1>3, WrappedValues
  <2> DEFINE s == x + y
  <2>2. Wrapped(x) + y = s + WordSize
    BY <1>1, <2>1
  <2>3. s \in Int /\ s < WordSize /\ 0 <= s + WordSize
    OBVIOUS
  <2> HIDE DEF s
  <2>4. Wrapped(s + WordSize) = Wrapped(s)
    <3>1. CASE s >= 0
      <4>1. s \in 0..WordSize - 1
        BY <1>1, <2>3, <3>1
      <4> QED   BY <4>1, WrappedValues
    <3>2. CASE s < 0
      <4>1. Wrapped(s) = s + WordSize
        BY <2>3, <3>2, WrappedValues
      <4>2. s + WordSize \in 0..WordSize - 1
        BY <1>1, <2>3, <3>2
      <4>3. Wrapped(s + WordSize) = s + WordSize
        BY <4>2, WrappedValues
      <4> QED   BY <4>1, <4>3
    <3> QED   BY <2>3, <3>1, <3>2
  <2> QED   BY <2>2, <2>4 DEF s
<1> QED   BY <1>2, <1>3

-----------------------------------------------------------------------------
Report == [position : Nat, removed : Nat, added : Nat]

(* What is reported, the places of the bytes and the difference are those  *)
(* of the first n modifications of the layout K.                           *)
Tracked(K, n) ==
  /\ IsLayout(K, n)
  /\ positions \in Seq(Report) /\ Reports(K, n, positions, Len(base))
  /\ OriginsOf(K, n, Len(base), origin) /\ Len(origin) = Len(text)
  /\ diff = Wrapped(K[n].a - K[n].r)

(* The lengths that a layout gives the text.                               *)
LEMMA TrackedLengths ==
  ASSUME NEW n \in Nat, NEW K, Tracked(K, n)
  PROVE  /\ Len(base) \in Nat /\ Len(text) \in Nat /\ K[n].a \in Nat /\ K[n].r \in Nat
         /\ K[n].a <= Len(text) /\ K[n].r <= Len(base) /\ Len(text) - K[n].a = Len(base) - K[n].r
         /\ Len(text) < WordSize /\ Len(base) < WordSize
<1>1. n \in 0..n /\ 0 \in 0..n
  OBVIOUS
<1>2. Len(base) \in Nat /\ K[n].a \in Nat /\ K[n].r \in Nat
  BY <1>1, LayoutNumbers DEF Tracked, Reports
<1>3. Len(text) \in Nat /\ Len(origin) = Len(text)
  <2>1. origin \in Seq(Nat) /\ Len(origin) = Len(text)
    BY DEF Tracked, OriginsOf
  <2> QED   BY <2>1, LenProperties
<1> DEFINE I == [i \in 1..Len(base) |-> i]
<1>4. Len(I) = Len(base)
  BY <1>2
<1>5. Edited(K, n, I, origin)
  BY DEF Tracked, OriginsOf
<1> HIDE DEF I
<1>6. K[n].a <= Len(text) /\ K[n].r <= Len(base) /\ Len(text) - K[n].a = Len(base) - K[n].r
  BY <1>3, <1>4, <1>5 DEF Edited
<1>7. K[n].a + (Len(base) - K[n].r) < WordSize /\ K[0].a + (Len(base) - K[0].r) < WordSize
  BY <1>1 DEF Tracked, Reports
<1>8. WordSize \in Nat
  BY BufferAssumption
<1>9. Len(text) < WordSize
  <2> DEFINE a == K[n].a
             r == K[n].r
  <2>1. a \in Nat /\ r \in Nat /\ Len(text) - a = Len(base) - r /\ a + (Len(base) - r) < WordSize
    BY <1>2, <1>6, <1>7
  <2> HIDE DEF a, r
  <2> QED   BY <1>2, <1>3, <1>8, <2>1
<1>10. Len(base) < WordSize
  <2>1. K[0].a = 0 /\ K[0].r = 0
    BY DEF Tracked, IsLayout
  <2> QED   BY <1>2, <1>7, <1>8, <2>1
<1> QED   BY <1>2, <1>3, <1>6, <1>9, <1>10

(* The position of the old text that the difference leads to.              *)
LEMMA ShiftedPosition ==
  ASSUME NEW n \in Nat, NEW K, Tracked(K, n), NEW o \in Nat, K[n].r <= o, o <= Len(base)
  PROVE  /\ Wrapped(o + diff) = o - K[n].r + K[n].a
         /\ o - K[n].r + K[n].a \in Nat /\ o - K[n].r + K[n].a <= Len(text)
<1> DEFINE a == K[n].a
           r == K[n].r
           d == o - r
<1>1. /\ Len(base) \in Nat /\ Len(text) \in Nat /\ a \in Nat /\ r \in Nat
      /\ a <= Len(text) /\ r <= Len(base) /\ Len(text) - a = Len(base) - r
      /\ Len(text) < WordSize /\ Len(base) < WordSize
  BY TrackedLengths
<1>2. WordSize \in Nat
  BY BufferAssumption
<1>3. diff = Wrapped(a - r) /\ r <= o /\ o <= Len(base)
  BY DEF Tracked
<1> HIDE DEF a, r
<1>4. d \in Nat /\ a + d < WordSize /\ r < WordSize /\ o = r + d /\ a + d <= Len(text) /\ a + d = o - r + a
  BY <1>1, <1>2, <1>3
<1> HIDE DEF d
<1>5. Carried(a, r, d) = a + d
  BY <1>1, <1>4, WrappedDifference
<1>6. Wrapped(o + diff) = a + d
  BY <1>3, <1>4, <1>5 DEF Carried
<1>7. Wrapped(o + diff) = o - r + a /\ o - r + a \in Nat /\ o - r + a <= Len(text)
  BY <1>1, <1>3, <1>4, <1>6
<1> QED   BY <1>7 DEF a, r

(* A change at the next modification of a layout.                          *)
Changes(K, n, c, removed, added) ==
  /\ text \in Seq(Bytes) /\ c \in Cuts /\ Follows(K[n], c)
  /\ c.r <= Len(base) /\ c.a + (Len(base) - c.r) < WordSize
  /\ Len(removed) = c.r - c.o
  /\ added \in Seq(Bytes) /\ Len(added) = c.a - c.p
  /\ Change(c.p, removed, added)

(* A change at the next place of a layout: what is reported is that of      *)
(* the longer layout.                                                       *)
LEMMA ChangeIsTracked ==
  ASSUME NEW n \in Nat, NEW K, Tracked(K, n), NEW c, NEW removed, NEW added, Changes(K, n, c, removed, added)
  PROVE  /\ Tracked(Extended(K, n, c), n + 1)'
         /\ text' = Splice(text, c.p, c.r - c.o, added)
         /\ text' \in Seq(Bytes) /\ Len(text') = c.a + (Len(base) - c.r)
<1> USE DEF Changes
<1> DEFINE M == Extended(K, n, c)
           I == [i \in 1..Len(base) |-> i]
           zeros == [i \in 1..Len(added) |-> 0]
           len == c.r - c.o
<1>1. IsLayout(K, n) /\ IsLayout(M, n + 1) /\ M[n + 1] = c /\ \A j \in 0..n : M[j] = K[j]
  BY LayoutExtended DEF Tracked
<1>2. /\ Len(base) \in Nat /\ Len(text) \in Nat /\ K[n].a \in Nat /\ K[n].r \in Nat
      /\ K[n].a <= Len(text) /\ K[n].r <= Len(base) /\ Len(text) - K[n].a = Len(base) - K[n].r
      /\ Len(text) < WordSize /\ Len(base) < WordSize
  BY TrackedLengths
<1>3. /\ c.p \in Nat /\ c.a \in Nat /\ c.o \in Nat /\ c.r \in Nat
      /\ c.p <= c.a /\ c.o <= c.r /\ K[n].a <= c.p /\ K[n].r <= c.o /\ c.p - K[n].a = c.o - K[n].r
      /\ len \in Nat
  BY DEF Cuts, Follows
<1>4. Len(added) \in Nat /\ DOMAIN added = 1..Len(added)
  BY LenProperties
<1>5. /\ text' = Splice(text, c.p, len, added) /\ base' = base
      /\ origin' = Splice(origin, c.p, len, zeros)
      /\ diff' = Wrapped(diff + Len(added) - len)
      /\ positions' = Append(positions, [position |-> c.p, removed |-> len, added |-> Len(added)])
  BY <1>4 DEF Change
<1>6. zeros \in Seq(Nat) /\ Len(zeros) = Len(added) /\ I \in Seq(Nat) /\ Len(I) = Len(base)
  BY <1>2, <1>4, IsASeq
<1>7. /\ Edited(M, n + 1, I, origin')
      /\ IsSplice(origin', Nat, origin, c.p, len, zeros)
      /\ c.p + len <= Len(origin)
      /\ Len(origin') = c.a + (Len(base) - c.r)
  <2>1. origin \in Seq(Nat) /\ Edited(K, n, I, origin)
    BY DEF Tracked, OriginsOf
  <2> HIDE DEF I, zeros
  <2>2. c.r <= Len(I) /\ Len(zeros) = c.a - c.p
    BY <1>6
  <2>3. EditedFurther(K, n, c, Nat, I, origin, zeros)
    BY <1>1, <1>6, <2>1, <2>2, EditedMore
  <2> QED   BY <1>5, <1>6, <2>3 DEF EditedFurther, WithChange
<1>8. text' \in Seq(Bytes) /\ Len(text') = Len(text) - len + Len(added)
  <2>1. c.p + len <= Len(text)
    BY <1>7 DEF Tracked
  <2> HIDE DEF len
  <2>2. IsSplice(Splice(text, c.p, len, added), Bytes, text, c.p, len, added)
    BY <1>3, <2>1, SpliceProperties
  <2> QED   BY <1>5, <2>2 DEF IsSplice
<1> DEFINE a == K[n].a
           r == K[n].r
           cp == c.p
           ca == c.a
           co == c.o
           cr == c.r
           l == Len(base)
<1>9. /\ a \in Nat /\ r \in Nat /\ cp \in Nat /\ ca \in Nat /\ co \in Nat /\ cr \in Nat /\ l \in Nat
      /\ cp - a = co - r /\ Len(text) - a = l - r /\ len = cr - co /\ Len(added) = ca - cp
      /\ cp <= ca /\ co <= cr /\ a <= cp /\ r <= co /\ cr <= l /\ ca + (l - cr) < WordSize /\ a <= Len(text) /\ r <= l
      /\ Len(text) < WordSize /\ l < WordSize /\ diff = Wrapped(a - r) /\ WordSize \in Nat
  BY <1>2, <1>3, BufferAssumption DEF Tracked
<1> HIDE DEF a, r, cp, ca, co, cr, l, len, zeros, I, M
<1>16. \A la, t, w \in Nat : t - a = l - r /\ la = ca - cp /\ w = cr - co => t - w + la = ca + (l - cr)
  BY <1>9
<1>10. Len(text') = ca + (l - cr)
  <2>1. Len(added) \in Nat /\ Len(text) \in Nat /\ len \in Nat
    BY <1>2, <1>3, <1>4
  <2>2. Len(text) - a = l - r /\ Len(added) = ca - cp /\ len = cr - co
    BY <1>9
  <2>3. Len(text) - len + Len(added) = ca + (l - cr)
    BY <1>16, <2>1, <2>2, Zenon
  <2> QED   BY <1>8, <2>3
<1>11. diff' = Wrapped(ca - cr)
  <2> DEFINE x == a - r
             y == Len(added) - len
  <2>1. x \in Int /\ y \in Int /\ x < WordSize /\ 0 <= x + WordSize
    <3>1. Len(added) \in Nat /\ Len(text) \in Nat /\ len \in Nat
      BY <1>2, <1>3, <1>4
    <3>2. \A t \in Nat : a <= t /\ t < WordSize => a - r < WordSize /\ 0 <= (a - r) + WordSize
      BY <1>9
    <3>3. a - r < WordSize /\ 0 <= (a - r) + WordSize
      BY <1>9, <3>1, <3>2, Zenon
    <3> QED   BY <1>9, <3>1, <3>3
  <2>2. x + y = ca - cr
    <3>1. \A la, w \in Nat : la = ca - cp /\ w = cr - co => (a - r) + (la - w) = ca - cr
      BY <1>9
    <3> QED   BY <1>3, <1>4, <1>9, <3>1
  <2>3. ca - cr < WordSize /\ 0 <= (ca - cr) + WordSize
    BY <1>9
  <2>4. diff' = Wrapped(Wrapped(x) + y)
    <3>1. diff \in Int
      <4>1. WordSize > 0
        BY <1>2, <1>9
      <4> QED   BY <1>9, <2>1, <4>1, WrappedValues
    <3>2. diff + Len(added) - len = diff + y
      BY <1>4, <1>9, <3>1
    <3> QED   BY <1>5, <1>9, <3>2
  <2> HIDE DEF x, y
  <2>5. Wrapped(Wrapped(x) + y) = Wrapped(x + y)
    BY <2>1, <2>2, <2>3, WrappedSum
  <2> QED   BY <2>2, <2>4, <2>5
<1>12. positions' \in Seq(Report) /\ Reports(M, n + 1, positions', l)
  <2> DEFINE e == [position |-> cp, removed |-> len, added |-> Len(added)]
  <2>1. positions \in Seq(Report) /\ Len(positions) = n
    BY DEF Tracked, Reports
  <2>2. e \in Report
    BY <1>3, <1>4, <1>9 DEF Report
  <2>3. positions' = Append(positions, e)
    BY <1>5 DEF cp
  <2> HIDE DEF e
  <2>4. /\ positions' \in Seq(Report) /\ Len(positions') = n + 1
        /\ \A j \in 1..n : positions'[j] = positions[j]
        /\ positions'[n + 1] = e
    BY <2>1, <2>2, <2>3, AppendProperties
  <2>5. ASSUME NEW j \in 1..n + 1
        PROVE  positions'[j] = [position |-> M[j].p, removed |-> M[j].r - M[j].o, added |-> M[j].a - M[j].p]
    <3>1. CASE j \in 1..n
      <4>1. M[j] = K[j] /\ positions'[j] = positions[j]
        BY <1>1, <2>4, <3>1
      <4>2. positions[j] = [position |-> K[j].p, removed |-> K[j].r - K[j].o, added |-> K[j].a - K[j].p]
        BY <3>1 DEF Tracked, Reports
      <4> QED   BY <4>1, <4>2
    <3>2. CASE j = n + 1
      <4>1. M[j].p = cp /\ M[j].r = cr /\ M[j].o = co /\ M[j].a = ca /\ positions'[j] = e
        BY <1>1, <2>4, <3>2 DEF cp, cr, co, ca
      <4> QED   BY <1>9, <4>1 DEF e
    <3> QED   BY <3>1, <3>2
  <2>6. ASSUME NEW j \in 0..n + 1 PROVE M[j].r <= l /\ M[j].a + (l - M[j].r) < WordSize
    <3>1. CASE j \in 0..n
      <4>1. K[j].r <= l /\ K[j].a + (l - K[j].r) < WordSize
        BY <3>1 DEF Tracked, Reports, l
      <4> QED   BY <1>1, <3>1, <4>1
    <3>2. CASE j = n + 1
      <4>1. M[j].r = cr /\ M[j].a = ca
        BY <1>1, <3>2 DEF cr, ca
      <4> QED   BY <1>9, <4>1
    <3> QED   BY <3>1, <3>2
  <2> QED   BY <1>9, <2>4, <2>5, <2>6 DEF Reports
<1>13. OriginsOf(M, n + 1, l, origin')
  <2>1. origin' \in Seq(Nat) /\ Edited(M, n + 1, [i \in 1..l |-> i], origin')
    BY <1>7 DEF IsSplice, I, l
  <2>2. ASSUME NEW j \in 1..n + 1, NEW i \in 1..M[j].a - M[j].p PROVE origin'[M[j].p + i] = 0
    <3>1. CASE j \in 1..n
      <4>1. M[j] = K[j] /\ j \in 0..n /\ j \in 0..n /\ n \in 0..n
        BY <1>1, <3>1
      <4>2. K[j].p \in Nat /\ K[j].a \in Nat /\ K[j].p <= K[j].a
        BY <1>1, <4>1, LayoutNumbers
      <4>3. K[j].a <= a
        BY <1>1, <4>1, LayoutInOrder DEF a
      <4>4. origin[K[j].p + i] = 0
        BY <3>1, <4>1 DEF Tracked, OriginsOf
      <4> DEFINE kp == K[j].p
                 ka == K[j].a
      <4>5. kp \in Nat /\ ka \in Nat /\ ka <= a /\ i \in 1..ka - kp
        BY <4>1, <4>2, <4>3
      <4> HIDE DEF kp, ka
      <4>6. kp + i \in 1..cp
        BY <1>9, <4>5
      <4>7. origin'[kp + i] = origin[kp + i]
        BY <1>7, <4>6 DEF IsSplice, cp
      <4> QED   BY <4>1, <4>4, <4>7 DEF kp
    <3>2. CASE j = n + 1
      <4>1. M[j].p = cp /\ M[j].a = ca
        BY <1>1, <3>2 DEF cp, ca
      <4>2. i \in 1..Len(added)
        BY <1>9, <4>1
      <4>3. zeros[i] = 0
        BY <4>2 DEF zeros
      <4>4. i \in 1..Len(zeros)
        BY <1>6, <4>2
      <4>5. origin'[cp + i] = zeros[i]
        BY <1>7, <4>4 DEF IsSplice, cp
      <4> QED   BY <4>1, <4>3, <4>5
    <3> QED   BY <3>1, <3>2
  <2> QED   BY <2>1, <2>2 DEF OriginsOf
<1>14. Len(origin') = ca + (l - cr)
  BY <1>7 DEF ca, l, cr
<1>15. Tracked(M, n + 1)'
  <2>1. M[n + 1].a = ca /\ M[n + 1].r = cr /\ base' = base
    BY <1>1, <1>5 DEF ca, cr
  <2> QED   BY <1>1, <1>10, <1>11, <1>12, <1>13, <1>14, <2>1 DEF Tracked, l
<1> QED   BY <1>5, <1>8, <1>10, <1>15 DEF M, len, ca, l, cr

-----------------------------------------------------------------------------
Texts == {t \in Seq(Bytes) : Len(t) <= MaxLength}
Modification == [position : Nat, removed : Seq(Bytes), added : Seq(Bytes)]

(* No modification yet.                                                    *)
Nothing == [j \in 0..0 |-> [p |-> 0, a |-> 0, o |-> 0, r |-> 0]]

(* The edits of the history lead from each of the versions to the next.    *)
VersionsInv(V) ==
  /\ history \in Seq(Seq(Modification)) /\ Len(history) <= MaxEdits /\ curedit \in 0..Len(history)
  /\ Chained(V, Bytes, history)
  /\ \A k \in 1..Len(history) + 1 : V[k] \in Texts
  /\ type = "undo" => curedit < Len(history)
  /\ V[Current + 1] = base
HistoryInv == \E V : VersionsInv(V)

(* Between edits nothing is left of the last one.                          *)
NoEditInv ==
  type = "none" =>
    /\ text \in Texts /\ base = text
    /\ mods = <<>> /\ width = 0 /\ Tracked(Nothing, 0)

(* While bytes are typed what was done so far is an edit of its own.       *)
Typed(K) == Tracked(K, Len(mods)) /\ Describes(K, mods, base, text) /\ K[Len(mods)].r <= next
TypingInv ==
  type = "normal" =>
    /\ curedit < MaxEdits
    /\ mods \in Seq(Modification)
    /\ text \in Texts /\ typed \in Seq(Bytes) /\ next \in Nat
    /\ width \in InputBytes \cup {0} /\ (width > 0 => typed # <<>>)
    /\ \E K : Typed(K)

(* An undo takes back what was added and puts back what was removed, a     *)
(* redo the other way around.                                              *)
FirstOf(M, k) == [j \in 0..k |-> M[j]]
TakenOut(m, t) == IF t = "undo" THEN m.added ELSE m.removed
Restored(m, t) == IF t = "undo" THEN m.removed ELSE m.added
Replays(M, t, e, from, to) ==
  /\ IsLayout(M, Len(e)) /\ Edited(M, Len(e), from, to)
  /\ \A j \in 1..Len(e) :
       /\ e[j].position = IF t = "undo" THEN M[j].o ELSE M[j].p
       /\ TakenOut(e[j], t) = Slice(from, M[j].o, M[j].r)
       /\ Restored(e[j], t) = Slice(to, M[j].p, M[j].a)

(* An undo or a redo has made the text that of its target up to the next   *)
(* of its modifications.                                                   *)
Replayed(M, target) ==
  /\ target \in Texts
  /\ target = IF type = "undo" THEN Reverted(Steps, base) ELSE Applied(Steps, base)
  /\ Replays(M, type, Steps, base, target)
  /\ text = Half(target, M[next - 1].a, base, M[next - 1].r)
  /\ Tracked(FirstOf(M, next - 1), next - 1)
ReplayInv ==
  type \in {"undo", "redo"} =>
    /\ curedit < Len(history) /\ width = 0
    /\ next \in 1..Len(Steps) + 1
    /\ \E M, target : Replayed(M, target)

EditInv ==
  /\ type \in {"none", "normal", "undo", "redo"}
  /\ HistoryInv /\ NoEditInv /\ TypingInv /\ ReplayInv

-----------------------------------------------------------------------------
(* What is opened, typed or pasted are bytes.                              *)
LEMMA AllBytes ==
  ASSUME NEW t \in InitialTexts \cup Inserts
  PROVE  t \in Seq(Bytes)
<1>1. t \in Seq(ToSet(t))
  BY BufferAssumption
<1>2. ToSet(t) \subseteq Bytes
  BY DEF Bytes
<1>3. Len(t) \in Nat /\ DOMAIN t = 1..Len(t) /\ \A i \in 1..Len(t) : t[i] \in ToSet(t)
  BY <1>1, LenProperties, ElementOfSeq
<1>4. t = [i \in 1..Len(t) |-> t[i]]
  BY <1>1, SMT
<1>5. \A i \in 1..Len(t) : t[i] \in Bytes
  BY <1>2, <1>3
<1>6. [i \in 1..Len(t) |-> t[i]] \in Seq(Bytes)
  BY <1>3, <1>5, IsASeq
<1> QED  BY <1>4, <1>6

(* A text that has not been modified.                                      *)
LEMMA NothingYet ==
  ASSUME NEW t \in Texts
  PROVE  /\ IsLayout(Nothing, 0) /\ Edited(Nothing, 0, t, t)
         /\ Reports(Nothing, 0, <<>>, Len(t))
         /\ OriginsOf(Nothing, 0, Len(t), [i \in DOMAIN t |-> i])
         /\ <<>> \in Seq(Report) /\ Len([i \in DOMAIN t |-> i]) = Len(t)
         /\ 0 = Wrapped(Nothing[0].a - Nothing[0].r)
<1>1. t \in Seq(Bytes) /\ Len(t) <= MaxLength /\ Len(t) \in Nat /\ DOMAIN t = 1..Len(t)
  BY LenProperties DEF Texts
<1>2. Nothing[0] = [p |-> 0, a |-> 0, o |-> 0, r |-> 0]
  BY DEF Nothing
<1>3. IsLayout(Nothing, 0)
  BY <1>2 DEF IsLayout, Nothing, Cuts
<1>4. Edited(Nothing, 0, t, t)
  BY <1>1, <1>2 DEF Edited, Same
<1>5. Reports(Nothing, 0, <<>>, Len(t))
  BY <1>1, <1>2, BufferAssumption DEF Reports
<1> DEFINE I == [i \in 1..Len(t) |-> i]
<1>6. I \in Seq(Nat) /\ Len(I) = Len(t)
  BY <1>1, IsASeq
<1>7. Edited(Nothing, 0, I, I)
  BY <1>6, <1>1, <1>2 DEF Edited, Same
<1>8. OriginsOf(Nothing, 0, Len(t), I)
  BY <1>6, <1>7 DEF OriginsOf
<1>9. 0 = Wrapped(0)
  BY BufferAssumption DEF Wrapped
<1> QED  BY <1>1, <1>2, <1>3, <1>4, <1>5, <1>6, <1>8, <1>9

(* Nothing has been edited in a text that is opened.                        *)
LEMMA InitHolds == Init => EditInv
<1> SUFFICES ASSUME Init PROVE EditInv
  OBVIOUS
<1>1. text \in Seq(Bytes) /\ Len(text) <= MaxLength
  BY AllBytes, BufferAssumption DEF Init
<1>2. text \in Texts
  BY <1>1 DEF Texts
<1>3. Tracked(Nothing, 0)
  BY <1>2, NothingYet DEF Init, Tracked
<1> DEFINE V == [k \in 1..1 |-> text]
<1>4. Chained(V, Bytes, <<>>)
  BY <1>1 DEF Chained
<1>5. VersionsInv(V)
  BY <1>2, <1>4, BufferAssumption DEF Init, VersionsInv, Current
<1> QED  BY <1>2, <1>3, <1>5 DEF Init, EditInv, HistoryInv, NoEditInv, TypingInv, ReplayInv

(* An edit that is over leaves its text, and nothing else.                 *)
LEMMA OverLeavesNothing ==
  ASSUME text \in Texts, Over
  PROVE  NoEditInv' /\ TypingInv' /\ ReplayInv' /\ base' = text /\ type' = "none"
<1>1. Tracked(Nothing, 0)'
  BY NothingYet DEF Over, Tracked
<1> QED  BY <1>1 DEF Over, NoEditInv, TypingInv, ReplayInv

(* The versions stay when no edit is added and none is made current.       *)
LEMMA VersionsStay ==
  ASSUME HistoryInv, UNCHANGED <<history, base>>, curedit' \in 0..Len(history), Current' = Current,
         type' = "undo" => curedit' < Len(history)
  PROVE  HistoryInv'
<1>1. PICK V : VersionsInv(V)
  BY DEF HistoryInv
<1>2. VersionsInv(V)'
  BY <1>1 DEF VersionsInv
<1> QED  BY <1>2 DEF HistoryInv

SamePiece(x, i, y, j, n) ==
  i \in Nat /\ j \in Nat /\ n \in Nat /\ i + n <= Len(x) /\ j + n <= Len(y) /\ \A k \in 1..n : y[j + k] = x[i + k]
Begun(x, y, p, i, j) ==
  /\ p \in Nat /\ p <= Len(x) /\ p <= Len(y) /\ \A k \in 1..p : y[k] = x[k]
  /\ i \in Nat /\ j \in Nat /\ i <= j /\ j <= p

(* Pieces before the place where two texts begin to differ.                *)
LEMMA SameSlice ==
  ASSUME NEW S, NEW x \in Seq(S), NEW y \in Seq(S), NEW p, NEW i, NEW j, Begun(x, y, p, i, j)
  PROVE  Slice(y, i, j) = Slice(x, i, j)
<1> USE DEF Begun
<1>1. Len(x) \in Nat /\ Len(y) \in Nat
  BY LenProperties
<1>2. j <= Len(x) /\ j <= Len(y)
  BY <1>1
<1>3. IsSlice(Slice(x, i, j), S, x, i, j) /\ IsSlice(Slice(y, i, j), S, y, i, j)
  BY <1>2, SliceProperties
<1> DEFINE u == Slice(x, i, j)
           v == Slice(y, i, j)
<1>4. /\ u \in Seq(S) /\ Len(u) = j - i /\ \A k \in 1..j - i : u[k] = x[i + k]
      /\ v \in Seq(S) /\ Len(v) = j - i /\ \A k \in 1..j - i : v[k] = y[i + k]
  BY <1>3 DEF IsSlice
<1> HIDE DEF u, v
<1>5. \A k \in 1..j - i : i + k \in 1..p
  OBVIOUS
<1>6. \A k \in 1..Len(u) : u[k] = v[k]
  BY <1>4, <1>5
<1>7. u = v
  BY <1>4, <1>6, SeqEqual
<1> QED  BY <1>7 DEF u, v

(* A piece that is the same in two texts.                                  *)
LEMMA MovedSlice ==
  ASSUME NEW S, NEW x \in Seq(S), NEW y \in Seq(S), NEW i, NEW j, NEW n, SamePiece(x, i, y, j, n)
  PROVE  Slice(y, j, j + n) = Slice(x, i, i + n)
<1> USE DEF SamePiece
<1> DEFINE i1 == i + n
           j1 == j + n
<1>1. i1 \in Nat /\ j1 \in Nat /\ i <= i1 /\ j <= j1 /\ i1 - i = n /\ j1 - j = n /\ i1 <= Len(x) /\ j1 <= Len(y)
  OBVIOUS
<1> HIDE DEF i1, j1
<1>2. IsSlice(Slice(x, i, i1), S, x, i, i1) /\ IsSlice(Slice(y, j, j1), S, y, j, j1)
  BY <1>1, SliceProperties
<1> DEFINE u == Slice(x, i, i1)
           v == Slice(y, j, j1)
<1>3. /\ u \in Seq(S) /\ Len(u) = n /\ \A k \in 1..n : u[k] = x[i + k]
      /\ v \in Seq(S) /\ Len(v) = n /\ \A k \in 1..n : v[k] = y[j + k]
  BY <1>1, <1>2 DEF IsSlice
<1> HIDE DEF u, v
<1>4. u = v
  BY <1>3, SeqEqual
<1> QED  BY <1>4 DEF u, v, i1, j1

(* The edit with one more modification, if it is behind the last.          *)
LEMMA OneMoreDescribed ==
  ASSUME NEW S, NEW x \in Seq(S), NEW y \in Seq(S), NEW R, NEW e \in Seq(R), NEW L, IsLayout(L, Len(e)),
         Describes(L, e, x, y), NEW c \in Cuts, Follows(L[Len(e)], c), c.r <= Len(x),
         NEW b \in Seq(S), Len(b) = c.a - c.p,
         NEW m \in R, m = [position |-> c.p, removed |-> Slice(y, c.p, c.p + (c.r - c.o)), added |-> b]
  PROVE  Describes(Extended(L, Len(e), c), Append(e, m), x, WithChange(y, c, b))
<1> DEFINE n == Len(e)
           z == WithChange(y, c, b)
           E == Extended(L, n, c)
           len == c.r - c.o
<1>1. n \in Nat /\ Len(x) \in Nat /\ Len(y) \in Nat /\ Len(b) \in Nat
  BY LenProperties
<1>2. Edited(L, n, x, y)
  BY DEF Describes
<1>3. EditedFurther(L, n, c, S, x, y, b)
  BY <1>1, <1>2, EditedMore
<1>4. /\ Edited(E, n + 1, x, z) /\ IsSplice(z, S, y, c.p, len, b)
      /\ c.p + len <= Len(y) /\ Len(z) = c.a + (Len(x) - c.r)
  BY <1>3 DEF EditedFurther
<1>5. Len(Append(e, m)) = n + 1 /\ Append(e, m)[n + 1] = m /\ \A j \in 1..n : Append(e, m)[j] = e[j]
  BY <1>1
<1>6. E[n + 1] = c /\ \A j \in 0..n : E[j] = L[j]
  BY <1>1, LayoutExtended
<1>7. /\ c.p \in Nat /\ c.a \in Nat /\ c.o \in Nat /\ c.r \in Nat /\ c.p <= c.a /\ c.o <= c.r
      /\ L[n].a <= c.p /\ L[n].r <= c.o /\ c.p - L[n].a = c.o - L[n].r
  BY DEF Cuts, Follows
<1>8. L[n].a \in Nat /\ L[n].r \in Nat
  BY <1>1, LayoutNumbers
<1>9. z \in Seq(S) /\ (\A k \in 1..c.p : z[k] = y[k]) /\ (\A k \in 1..Len(b) : z[c.p + k] = b[k])
  BY <1>4 DEF IsSplice
<1>10. Len(z) \in Nat
  BY <1>9, LenProperties
<1> HIDE DEF n, z, E, len
<1>11. c.p <= Len(y) /\ c.p <= Len(z) /\ len \in Nat /\ c.a <= Len(z)
  <2> DEFINE pos == c.p
             ca == c.a
             co == c.o
             cr == c.r
             m1 == Len(x)
             m2 == Len(y)
             m3 == Len(z)
  <2>1. len = cr - co /\ pos \in Nat /\ ca \in Nat /\ co \in Nat /\ cr \in Nat /\ pos <= ca /\ co <= cr
    BY <1>7 DEF len
  <2>2. m1 \in Nat /\ m2 \in Nat /\ m3 \in Nat /\ pos + len <= m2 /\ m3 = ca + (m1 - cr) /\ cr <= m1
    BY <1>1, <1>4, <1>10
  <2> HIDE DEF pos, ca, co, cr, m1, m2, m3
  <2>3. pos <= m2 /\ pos <= m3 /\ len \in Nat /\ ca <= m3
    BY <2>1, <2>2
  <2> QED  BY <2>3 DEF pos, ca, m2, m3
<1>12. ASSUME NEW j \in 1..n
       PROVE  e[j] = [position |-> E[j].p, removed |-> Slice(x, E[j].o, E[j].r), added |-> Slice(z, E[j].p, E[j].a)]
  <2>1. e[j] = [position |-> L[j].p, removed |-> Slice(x, L[j].o, L[j].r), added |-> Slice(y, L[j].p, L[j].a)]
    BY DEF Describes, n
  <2>2. E[j] = L[j]
    BY <1>1, <1>6
  <2>3. L[j].p \in Nat /\ L[j].a \in Nat /\ L[j].p <= L[j].a
    BY <1>1, LayoutNumbers DEF n
  <2>4. n \in 0..n /\ j \in 0..n
    BY <1>1
  <2>5. L[j].a <= L[n].a
    BY <1>1, <2>4, LayoutInOrder DEF n
  <2>6. L[j].a <= c.p
    <3>1. \A f, g, h \in Nat : f <= g /\ g <= h => f <= h
      OBVIOUS
    <3> QED  BY <1>7, <1>8, <2>3, <2>5, <3>1, Zenon
  <2>7. Slice(z, L[j].p, L[j].a) = Slice(y, L[j].p, L[j].a)
    <3> DEFINE pos == c.p
               i1 == L[j].p
               j1 == L[j].a
    <3>1. pos \in Nat /\ i1 \in Nat /\ j1 \in Nat /\ i1 <= j1 /\ j1 <= pos /\ pos <= Len(y) /\ pos <= Len(z)
      BY <1>7, <1>11, <2>3, <2>6
    <3>2. z \in Seq(S) /\ \A k \in 1..pos : z[k] = y[k]
      BY <1>9
    <3> HIDE DEF pos, i1, j1
    <3>3. Begun(y, z, pos, i1, j1)
      BY <3>1, <3>2 DEF Begun
    <3>4. Slice(z, i1, j1) = Slice(y, i1, j1)
      BY <3>2, <3>3, SameSlice
    <3> QED  BY <3>4 DEF i1, j1
  <2> QED  BY <2>1, <2>2, <2>7
<1>13. Slice(y, c.p, c.p + len) = Slice(x, c.o, c.r)
  <2>1. Same(y, L[n].a, x, L[n].r, Len(y) - L[n].a) /\ Len(y) - L[n].a = Len(x) - L[n].r
    BY <1>2 DEF Edited
  <2>2. ASSUME NEW k \in 1..len
        PROVE  y[c.p + k] = x[c.o + k]
    <3> DEFINE la == L[n].a
               lr == L[n].r
               pos == c.p
               o == c.o
               i == (pos - la) + k
    <3>1. /\ la \in Nat /\ lr \in Nat /\ pos \in Nat /\ o \in Nat /\ la <= pos /\ lr <= o /\ pos - la = o - lr
          /\ pos + len <= Len(y) /\ len \in Nat
      BY <1>4, <1>7, <1>8, <1>11
    <3>2. Same(y, la, x, lr, Len(y) - la)
      BY <2>1
    <3> HIDE DEF la, lr, pos, o
    <3>3. i \in 1..Len(y) - la /\ la + i = pos + k /\ lr + i = o + k
      BY <1>1, <3>1
    <3>4. y[la + i] = x[lr + i]
      BY <3>2, <3>3 DEF Same
    <3>5. y[pos + k] = x[o + k]
      BY <3>3, <3>4
    <3> QED  BY <3>5 DEF pos, o
  <2>3. c.r = c.o + len
    BY <1>7 DEF len
  <2>4. c.o + len <= Len(x)
    BY <2>3
  <2>5. Slice(y, c.p, c.p + len) = Slice(x, c.o, c.o + len)
    <3> DEFINE pos == c.p
               o == c.o
    <3>1. pos \in Nat /\ o \in Nat /\ len \in Nat /\ o + len <= Len(x) /\ pos + len <= Len(y)
      BY <1>4, <1>7, <1>11, <2>4
    <3>2. \A k \in 1..len : y[pos + k] = x[o + k]
      BY <2>2
    <3> HIDE DEF pos, o
    <3>3. SamePiece(x, o, y, pos, len)
      BY <3>1, <3>2 DEF SamePiece
    <3>4. Slice(y, pos, pos + len) = Slice(x, o, o + len)
      BY <3>3, MovedSlice
    <3> QED  BY <3>4 DEF pos, o
  <2> QED  BY <2>3, <2>5
<1>14. Slice(z, c.p, c.a) = b
  <2> DEFINE v == Slice(z, c.p, c.a)
  <2>1. IsSlice(v, S, z, c.p, c.a)
    BY <1>7, <1>9, <1>11, SliceProperties
  <2>2. v \in Seq(S) /\ Len(v) = Len(b) /\ \A k \in 1..Len(b) : v[k] = z[c.p + k]
    BY <2>1 DEF IsSlice
  <2> HIDE DEF v
  <2>3. v = b
    BY <1>9, <2>2, SeqEqual
  <2> QED  BY <2>3 DEF v
<1>15. m = [position |-> c.p, removed |-> Slice(x, c.o, c.r), added |-> Slice(z, c.p, c.a)]
  BY <1>13, <1>14 DEF len
<1>16. ASSUME NEW j \in 1..n + 1
       PROVE  Append(e, m)[j] =
                [position |-> E[j].p, removed |-> Slice(x, E[j].o, E[j].r), added |-> Slice(z, E[j].p, E[j].a)]
  <2>1. CASE j = n + 1
    BY <1>5, <1>6, <1>15, <2>1
  <2>2. CASE j # n + 1
    <3>1. j \in 1..n
      BY <1>1, <2>2
    <3> QED  BY <1>5, <1>12, <3>1
  <2> QED  BY <2>1, <2>2
<1>17. Describes(E, Append(e, m), x, z)
  BY <1>4, <1>5, <1>16 DEF Describes
<1> QED  BY <1>17 DEF E, z, n

(* Typing at a place that is not before those of the edit so far.          *)
TypesAt(o, len, b) ==
  /\ o \in Nat /\ len \in Nat /\ next <= o /\ o + len <= Len(base) /\ b \in Seq(Bytes)
  /\ ModifyNoFixup(Wrapped(o + diff), len, b)
  /\ next' \in Nat /\ o + len <= next'

(* What is typed behind the last modification makes the edit one            *)
(* modification longer.                                                     *)
LEMMA TypingKeepsEdit ==
  ASSUME type = "normal", base \in Texts, TypingInv, NEW o, NEW len, NEW b, TypesAt(o, len, b)
  PROVE  TypingInv' /\ type' = "normal" /\ UNCHANGED <<history, base, curedit>>
<1>0. PICK n : n = Len(mods)
  OBVIOUS
<1>1. /\ curedit < MaxEdits /\ mods \in Seq(Modification)
      /\ text \in Texts /\ typed \in Seq(Bytes) /\ next \in Nat
      /\ width \in InputBytes \cup {0} /\ (width > 0 => typed # <<>>)
  BY DEF TypingInv
<1>2. PICK K : Tracked(K, n) /\ Describes(K, mods, base, text) /\ K[n].r <= next
  BY <1>0 DEF TypingInv, Typed
<1>3. /\ o \in Nat /\ len \in Nat /\ next <= o /\ o + len <= Len(base) /\ b \in Seq(Bytes)
      /\ next' \in Nat /\ o + len <= next' /\ ModifyNoFixup(Wrapped(o + diff), len, b)
  BY DEF TypesAt
<1>4. n \in Nat /\ Len(b) \in Nat /\ text \in Seq(Bytes) /\ Len(text) <= MaxLength
  BY <1>0, <1>1, <1>3, LenProperties DEF Texts
<1>5. /\ Len(base) \in Nat /\ Len(text) \in Nat /\ K[n].a \in Nat /\ K[n].r \in Nat
      /\ K[n].a <= Len(text) /\ K[n].r <= Len(base) /\ Len(text) - K[n].a = Len(base) - K[n].r
  BY <1>2, <1>4, TrackedLengths
<1>p. PICK pos : pos = Wrapped(o + diff)
  OBVIOUS
<1>r. PICK removed : removed = SubSeq(text, pos + 1, pos + len)
  OBVIOUS
<1> DEFINE m == [position |-> pos, removed |-> removed, added |-> b]
<1>6. /\ Len(text) - len + Len(b) <= MaxLength /\ Change(pos, removed, b) /\ mods' = Append(mods, m)
  BY <1>3, <1>p, <1>r DEF ModifyNoFixup
<1>7. pos = o - K[n].r + K[n].a /\ pos \in Nat
  <2>1. o <= Len(base) /\ K[n].r <= o
    <3>1. \A e, f, g \in Nat : (e + f <= g => e <= g) /\ (e <= f /\ f <= g => e <= g)
      OBVIOUS
    <3>2. o \in Nat /\ len \in Nat /\ Len(base) \in Nat /\ K[n].r \in Nat /\ next \in Nat
      BY <1>1, <1>3, <1>5
    <3>3. o + len <= Len(base) /\ K[n].r <= next /\ next <= o
      BY <1>2, <1>3
    <3> QED  BY <3>1, <3>2, <3>3
  <2> QED  BY <1>2, <1>3, <1>4, <1>p, <2>1, ShiftedPosition
<1> DEFINE la == K[n].a
           lr == K[n].r
           l == Len(text)
           lb == Len(base)
           ln == Len(b)
           c == [p |-> pos, a |-> pos + ln, o |-> o, r |-> o + len]
<1>8. /\ o \in Nat /\ len \in Nat /\ la \in Nat /\ lr \in Nat /\ l \in Nat /\ lb \in Nat /\ ln \in Nat /\ pos \in Nat
      /\ lr <= o /\ o + len <= lb /\ pos = o - lr + la /\ la <= l /\ l - la = lb - lr
      /\ l - len + ln <= MaxLength
  <2>1. Len(text) - len + Len(b) <= MaxLength
    BY <1>6
  <2>2. K[n].r <= next /\ next <= o /\ next \in Nat
    BY <1>1, <1>2, <1>3
  <2>3. lr <= o
    BY <1>3, <1>5, <2>2
  <2> QED  BY <1>3, <1>4, <1>5, <1>7, <2>1, <2>3
<1>9. MaxLength < WordSize /\ MaxLength \in Nat /\ WordSize \in Nat
  BY BufferAssumption
<1>10. c \in Cuts /\ c.p = pos /\ c.a = pos + ln /\ c.o = o /\ c.r = o + len
  <2>1. pos + ln \in Nat /\ o + len \in Nat
    <3>1. \A f, g \in Nat : f + g \in Nat
      OBVIOUS
    <3>2. pos \in Nat /\ ln \in Nat /\ o \in Nat /\ len \in Nat
      BY <1>8
    <3> QED  BY <3>1, <3>2
  <2> HIDE DEF ln
  <2> QED  BY <1>8, <2>1 DEF Cuts
<1> HIDE DEF c
<1>11. Follows(K[n], c)
  <2> HIDE DEF la, lr
  <2>1. pos <= pos + ln /\ o <= o + len /\ la <= pos /\ lr <= o /\ pos - la = o - lr
    BY <1>8
  <2> QED  BY <1>10, <2>1 DEF Follows, la, lr
<1> HIDE DEF la, lr, l, lb, ln
<1>12. /\ c.r <= lb /\ c.a + (lb - c.r) < WordSize /\ c.r - c.o = len /\ ln = c.a - c.p
       /\ pos + len <= l /\ c.a + (lb - c.r) <= MaxLength
  <2>1. /\ o + len <= lb /\ (pos + ln) + (lb - (o + len)) = l - len + ln /\ (o + len) - o = len /\ ln = (pos + ln) - pos
        /\ pos + len <= l
    BY <1>8
  <2> QED  BY <1>8, <1>9, <1>10, <2>1
<1>13. Len(removed) = c.r - c.o /\ removed \in Seq(Bytes)
  <2> DEFINE e == pos + len
  <2>1. e \in Nat /\ pos <= e /\ e <= Len(text) /\ e - pos = len
    BY <1>8, <1>12 DEF l
  <2> HIDE DEF e
  <2>2. IsSlice(Slice(text, pos, e), Bytes, text, pos, e)
    BY <1>4, <1>8, <2>1, SliceProperties
  <2>3. Slice(text, pos, e) = removed
    BY <1>r DEF Slice, e
  <2> QED  BY <1>12, <2>1, <2>2, <2>3 DEF IsSlice
<1> HIDE DEF m
<1>14. Change(c.p, removed, b)
  BY <1>6, <1>10
<1>15. /\ Tracked(Extended(K, n, c), n + 1)' /\ text' = Splice(text, c.p, c.r - c.o, b)
       /\ text' \in Seq(Bytes) /\ Len(text') = c.a + (Len(base) - c.r)
  <2>1. c.r <= Len(base) /\ c.a + (Len(base) - c.r) < WordSize /\ Len(b) = c.a - c.p
    BY <1>12 DEF ln, lb
  <2>2. Tracked(K, n)
    BY <1>2
  <2>3. Changes(K, n, c, removed, b)
    BY <1>3, <1>4, <1>10, <1>11, <1>13, <1>14, <2>1 DEF Changes
  <2> QED  BY <1>4, <2>2, <2>3, ChangeIsTracked
<1>16. m = [position |-> c.p, removed |-> Slice(text, c.p, c.p + (c.r - c.o)), added |-> b] /\ m \in Modification
  BY <1>3, <1>8, <1>10, <1>12, <1>13, <1>r DEF m, Slice, Modification
<1>17. base \in Seq(Bytes)
  BY DEF Texts
<1>18. Describes(Extended(K, n, c), Append(mods, m), base, WithChange(text, c, b))
  BY <1>0, <1>1, <1>2, <1>3, <1>4, <1>10, <1>11, <1>12, <1>16, <1>17, OneMoreDescribed DEF ln, lb, Tracked
<1>19. text' = WithChange(text, c, b)
  BY <1>15 DEF WithChange
<1>20. Len(mods') = n + 1 /\ mods' \in Seq(Modification) /\ Extended(K, n, c)[n + 1] = c
  BY <1>0, <1>1, <1>2, <1>4, <1>6, <1>10, <1>11, <1>16, LayoutExtended DEF m, Tracked
<1>21. type' = "normal" /\ UNCHANGED <<width, typed, base, history, curedit>>
  BY <1>6 DEF Change
<1>22. Typed(Extended(K, n, c))'
  <2>1. mods' = Append(mods, m)
    BY <1>6 DEF m
  <2>2. Describes(Extended(K, n, c), mods', base', text')
    BY <1>18, <1>19, <1>21, <2>1
  <2>3. Extended(K, n, c)[n + 1].r <= next'
    BY <1>3, <1>10, <1>20
  <2> QED  BY <1>15, <1>20, <2>2, <2>3 DEF Typed, Tracked
<1>23. text' \in Texts
  BY <1>12, <1>15 DEF Texts, lb
<1> QED  BY <1>1, <1>3, <1>20, <1>21, <1>22, <1>23 DEF TypingInv

OneByte == \A n \in InputBytes : n <= 1

(* The text before an edit is one of the versions.                          *)
LEMMA BaseIsVersion ==
  ASSUME HistoryInv
  PROVE  /\ base \in Texts /\ Len(base) \in Nat /\ Len(history) \in Nat /\ curedit \in 0..Len(history)
         /\ history \in Seq(Seq(Modification))
         /\ Current \in 0..Len(history)
<1>1. PICK V : VersionsInv(V)
  BY DEF HistoryInv
<1>2. history \in Seq(Seq(Modification)) /\ Len(history) \in Nat /\ curedit \in 0..Len(history)
  BY <1>1, LenProperties DEF VersionsInv
<1>3. Current \in 0..Len(history)
  BY <1>1, <1>2 DEF VersionsInv, Current
<1>4. base \in Texts
  BY <1>1, <1>2, <1>3 DEF VersionsInv
<1> QED  BY <1>2, <1>3, <1>4, LenProperties DEF Texts

(* modifier::begin() for typing.                                            *)
LEMMA BeginNormalKeeps ==
  ASSUME EditInv, NEW n \in InputBytes \cup {0}, NEW bytes \in Inserts, n > 0 => bytes # <<>>, BeginNormal(n, bytes)
  PROVE  EditInv'
<1>1. /\ type = "none" /\ type' = "normal" /\ UNCHANGED <<text, history, mods, positions, diff, base, origin, curedit>>
      /\ next' = 0 /\ width' = n /\ typed' = bytes /\ Len(UpTo(history, curedit)) < MaxEdits
  BY DEF BeginNormal, Begin
<1>2. HistoryInv /\ text \in Texts /\ base = text /\ mods = <<>> /\ width = 0 /\ Tracked(Nothing, 0)
  BY <1>1 DEF EditInv, NoEditInv
<1>3. curedit \in 0..Len(history) /\ Len(history) \in Nat /\ history \in Seq(Seq(Modification))
  BY <1>2, BaseIsVersion
<1>4. Len(UpTo(history, curedit)) = curedit
  BY <1>3, SubSeqProperties DEF UpTo
<1>5. HistoryInv'
  BY <1>1, <1>2, <1>3, VersionsStay DEF Current
<1>6. Tracked(Nothing, 0)'
  BY <1>1, <1>2 DEF Tracked
<1>7. Describes(Nothing, mods', base', text')
  <2>1. Edited(Nothing, 0, text, text)
    BY <1>2, NothingYet
  <2>2. Len(mods') = 0 /\ base' = text /\ text' = text
    BY <1>1, <1>2
  <2> QED  BY <2>1, <2>2 DEF Describes
<1>8. Typed(Nothing)'
  <2>1. Nothing[0].r = 0
    BY DEF Nothing
  <2> QED  BY <1>1, <1>2, <1>6, <1>7, <2>1 DEF Typed, Tracked
<1>9. bytes \in Seq(Bytes)
  BY AllBytes
<1>10. TypingInv'
  BY <1>1, <1>2, <1>4, <1>8, <1>9 DEF TypingInv
<1> QED  BY <1>1, <1>5, <1>10 DEF EditInv, NoEditInv, ReplayInv

(* Typing changes no version.                                               *)
LEMMA TypesKeeps ==
  ASSUME EditInv, type = "normal", NEW o, NEW len, NEW b, TypesAt(o, len, b)
  PROVE  EditInv'
<1>1. HistoryInv /\ TypingInv
  BY DEF EditInv
<1>2. TypingInv' /\ type' = "normal" /\ UNCHANGED <<history, base, curedit>>
  BY <1>1, BaseIsVersion, TypingKeepsEdit
<1>3. HistoryInv'
  BY <1>1, <1>2, BaseIsVersion, VersionsStay DEF Current
<1> QED  BY <1>2, <1>3 DEF EditInv, NoEditInv, ReplayInv

(* modify() in the text editor.                                             *)
LEMMA ModifyKeeps ==
  ASSUME EditInv, NEW pos \in Nat, NEW len \in Nat, Modify(pos, len)
  PROVE  EditInv'
<1>1. PICK b : b = typed
  OBVIOUS
<1>2. type = "normal"
  BY DEF Modify, Typing
<1>3. b \in Seq(Bytes)
  BY <1>1, <1>2 DEF EditInv, TypingInv
<1>4. TypesAt(pos, len, b)
  BY <1>1, <1>3 DEF Modify, TypesAt
<1> QED  BY <1>2, <1>4, TypesKeeps

(* Overwriting a byte, or appending one at the end.                         *)
LEMMA OverwriteKeeps ==
  ASSUME OneByte, EditInv, NEW caret \in Nat, Overwrite(caret)
  PROVE  EditInv'
<1>1. type = "normal" /\ width > 0 /\ caret >= next /\ caret <= Len(base) /\ next' = caret + 1
  BY DEF Overwrite, Typing
<1>2. PICK pos : pos = Wrapped(caret + diff)
  OBVIOUS
<1>3. PICK len : len = IF pos + width <= Len(text) THEN width ELSE Len(text) - pos
  OBVIOUS
<1>4. PICK b : b = [i \in 1..width |-> typed[1]]
  OBVIOUS
<1>5. ModifyNoFixup(pos, len, b)
  BY <1>2, <1>3, <1>4 DEF Overwrite
<1>6. typed \in Seq(Bytes) /\ typed # <<>> /\ width = 1 /\ next \in Nat /\ mods \in Seq(Modification)
  <2>1. /\ typed \in Seq(Bytes) /\ (width > 0 => typed # <<>>) /\ width \in InputBytes \cup {0}
        /\ next \in Nat /\ mods \in Seq(Modification)
    BY <1>1 DEF EditInv, TypingInv
  <2>2. width \in Nat /\ width <= 1
    BY <2>1, BufferAssumption DEF OneByte
  <2> QED  BY <1>1, <2>1, <2>2
<1>7. b \in Seq(Bytes)
  <2>1. typed[1] \in Bytes
    BY <1>6, LenProperties, ElementOfSeq, EmptySeq
  <2> QED  BY <1>4, <1>6, <2>1, IsASeq
<1>8. PICK n \in Nat : n = Len(mods)
  BY <1>6, LenProperties
<1>9. PICK K : Tracked(K, n) /\ K[n].r <= next
  BY <1>1, <1>8 DEF EditInv, TypingInv, Typed
<1>10. /\ Len(base) \in Nat /\ Len(text) \in Nat /\ K[n].a \in Nat /\ K[n].r \in Nat
       /\ K[n].a <= Len(text) /\ K[n].r <= Len(base) /\ Len(text) - K[n].a = Len(base) - K[n].r
  BY <1>8, <1>9, TrackedLengths
<1>11. K[n].r <= caret
  BY <1>1, <1>6, <1>9, <1>10
<1>12. pos = caret - K[n].r + K[n].a /\ pos \in Nat /\ pos <= Len(text)
  BY <1>1, <1>2, <1>8, <1>9, <1>11, ShiftedPosition
<1>13. len \in Nat /\ caret + len <= Len(base) /\ caret + len <= caret + 1
  <2> DEFINE l == Len(text)
             m == Len(base)
             a == K[n].a
             r == K[n].r
  <2>1. len = IF pos + 1 <= l THEN 1 ELSE l - pos
    BY <1>3, <1>6
  <2>2. /\ l \in Nat /\ m \in Nat /\ a \in Nat /\ r \in Nat /\ pos \in Nat /\ pos = caret - r + a /\ pos <= l /\ l - a = m - r
    BY <1>10, <1>12
  <2> HIDE DEF l, m, a, r
  <2>3. len \in Nat /\ caret + len <= m /\ caret + len <= caret + 1
    BY <2>1, <2>2
  <2> QED  BY <2>3 DEF m
<1>14. TypesAt(caret, len, b)
  BY <1>1, <1>2, <1>5, <1>7, <1>13 DEF TypesAt
<1> QED  BY <1>1, <1>14, TypesKeeps

(* The versions when an edit is over.                                      *)
NewVersions(V, c, t) == [k \in 1..c + 2 |-> IF k <= c + 1 THEN V[k] ELSE t]

(* modifier::end(): the edit leads from the version that was current to a   *)
(* new one.                                                                 *)
LEMMA EndKeeps ==
  ASSUME EditInv, End
  PROVE  /\ EditInv'
         /\ \E c \in Nat, t \in Texts : /\ c = curedit /\ c <= Len(history)
                                     /\ \A V : VersionsInv(V) => VersionsInv(NewVersions(V, c, t))'
<1>1. /\ type = "normal" /\ history' = Append(UpTo(history, curedit), mods) /\ curedit' = curedit + 1 /\ Over
  BY DEF End
<1>2. HistoryInv /\ TypingInv
  BY DEF EditInv
<1>3. curedit \in 0..Len(history) /\ Len(history) \in Nat /\ history \in Seq(Seq(Modification)) /\ base \in Texts
  BY <1>2, BaseIsVersion
<1>4. mods \in Seq(Modification) /\ text \in Texts /\ curedit < MaxEdits /\ \E K : Typed(K)
  BY <1>1, <1>2 DEF TypingInv
<1>5. Made(mods, base, text)
  BY <1>4 DEF Made, Typed, Tracked
<1>6. PICK c \in Nat : c = curedit
  BY <1>3
<1>7. PICK t \in Texts : t = text
  BY <1>4
<1>8. UpTo(history, c) \in Seq(Seq(Modification)) /\ Len(UpTo(history, c)) = c
      /\ \A k \in 1..c : UpTo(history, c)[k] = history[k]
  BY <1>3, <1>6, SubSeqProperties DEF UpTo
<1>9. /\ history' \in Seq(Seq(Modification)) /\ Len(history') = c + 1
      /\ history'[c + 1] = mods /\ \A k \in 1..c : history'[k] = history[k]
  <2> HIDE DEF UpTo
  <2> QED  BY <1>1, <1>4, <1>6, <1>8, AppendProperties
<1>10. ASSUME NEW V, VersionsInv(V)
       PROVE  VersionsInv(NewVersions(V, c, t))'
  <2> DEFINE W == NewVersions(V, c, t)
             h == history'
  <2>1. /\ Chained(V, Bytes, history) /\ (\A k \in 1..Len(history) + 1 : V[k] \in Texts) /\ V[c + 1] = base
    BY <1>1, <1>6, <1>10 DEF VersionsInv, Current
  <2>2. DOMAIN W = 1..c + 2 /\ W[c + 2] = t /\ \A k \in 1..c + 1 : W[k] = V[k]
    BY DEF NewVersions
  <2>3. ASSUME NEW k \in 1..c + 2 PROVE W[k] \in Texts
    <3> HIDE DEF W, h
    <3>1. CASE k = c + 2
      BY <2>2, <3>1
    <3>2. CASE k # c + 2
      <4>1. k \in 1..c + 1 /\ k \in 1..Len(history) + 1
        BY <1>3, <1>6, <3>2
      <4> QED  BY <2>1, <2>2, <4>1
    <3> QED  BY <3>1, <3>2
  <2>4. W \in [1..c + 2 -> Seq(Bytes)]
    BY <2>2, <2>3 DEF NewVersions, Texts
  <2>5. ASSUME NEW k \in 1..c + 1
        PROVE  Len(h[k]) \in Nat /\ Made(h[k], W[k], W[k + 1])
    <3>1. CASE k = c + 1
      BY <1>4, <1>5, <1>7, <1>9, <2>1, <2>2, <3>1, LenProperties
    <3>2. CASE k # c + 1
      <4>1. k \in 1..c /\ k \in 1..Len(history) /\ k \in 1..c + 1 /\ k + 1 \in 1..c + 1
        BY <1>3, <1>6, <3>2
      <4>2. h[k] = history[k] /\ W[k] = V[k] /\ W[k + 1] = V[k + 1]
        BY <1>9, <2>2, <4>1
      <4> HIDE DEF W, h
      <4> QED  BY <2>1, <4>1, <4>2 DEF Chained
    <3> QED  BY <3>1, <3>2
  <2>6. Chained(W, Bytes, h)
    <3> HIDE DEF W, h
    <3>1. Len(h) = c + 1
      BY <1>9 DEF h
    <3>2. (c + 1) + 1 = c + 2
      OBVIOUS
    <3> QED  BY <2>4, <2>5, <3>1, <3>2 DEF Chained
  <2>7. type' = "none" /\ base' = t /\ curedit' = c + 1
    BY <1>1, <1>6, <1>7 DEF Over
  <2>8. Current' = c + 1
    BY <2>7 DEF Current
  <2>9. c + 1 <= MaxEdits
    BY <1>4, <1>6, BufferAssumption
  <2>10. (c + 1) + 1 = c + 2
    OBVIOUS
  <2> HIDE DEF W
  <2>11. VersionsInv(W)'
    <3>1. /\ history' \in Seq(Seq(Modification)) /\ Len(history') = c + 1
          /\ Len(history') <= MaxEdits /\ curedit' \in 0..Len(history')
      BY <1>9, <2>7, <2>9
    <3>2. Chained(W, Bytes, history')
      BY <2>6
    <3>3. \A k \in 1..Len(history') + 1 : W[k] \in Texts
      BY <2>3, <2>10, <3>1
    <3>4. W[Current' + 1] = base'
      BY <2>2, <2>7, <2>8, <2>10
    <3>5. type' # "undo"
      BY <2>7
    <3> QED  BY <3>1, <3>2, <3>3, <3>4, <3>5 DEF VersionsInv
  <2> QED  BY <2>11 DEF W
<1>11. HistoryInv'
  BY <1>2, <1>10 DEF HistoryInv
<1>12. NoEditInv' /\ TypingInv' /\ ReplayInv' /\ type' = "none"
  BY <1>1, <1>4, OverLeavesNothing
<1>13. \A V : VersionsInv(V) => VersionsInv(NewVersions(V, c, t))'
  BY <1>10
<1>14. c <= Len(history)
  BY <1>3, <1>6
<1> QED  BY <1>1, <1>6, <1>11, <1>12, <1>13, <1>14 DEF EditInv

(* A layout begins with no modification.                                    *)
LEMMA NothingFirst ==
  ASSUME NEW n \in Nat, NEW M, IsLayout(M, n)
  PROVE  FirstOf(M, 0) = Nothing
<1>1. M[0] = [p |-> 0, a |-> 0, o |-> 0, r |-> 0]
  BY DEF IsLayout, Cuts
<1> QED  BY <1>1 DEF FirstOf, Nothing

(* The first modifications of a layout, and one more.                       *)
LEMMA OneMoreFirst ==
  ASSUME NEW M, NEW k \in Nat
  PROVE  /\ Extended(FirstOf(M, k), k, M[k + 1]) = FirstOf(M, k + 1)
         /\ FirstOf(M, k)[k] = M[k]
BY DEF Extended, FirstOf

(* An undo or a redo of the edit e begins.                                 *)
Target(t, e, b) == IF t = "undo" THEN Reverted(e, b) ELSE Applied(e, b)
ReplayBegins(t, e, M, target) ==
  /\ t \in {"undo", "redo"} /\ Len(e) \in Nat /\ target \in Texts
  /\ Replays(M, t, e, base, target) /\ target = Target(t, e, base)
  /\ type' = t /\ Steps' = e /\ next' = 1
  /\ UNCHANGED <<text, positions, diff, base, origin>>

(* Before its first modification an undo or a redo has the text as it       *)
(* was.                                                                     *)
LEMMA ReplayHasBegun ==
  ASSUME base \in Texts, base = text, Tracked(Nothing, 0), NEW t, NEW e, NEW M, NEW target, ReplayBegins(t, e, M, target)
  PROVE  Replayed(M, target)'
<1>1. /\ t \in {"undo", "redo"} /\ Len(e) \in Nat /\ target \in Texts
      /\ Replays(M, t, e, base, target) /\ target = Target(t, e, base)
      /\ type' = t /\ Steps' = e /\ next' = 1
      /\ UNCHANGED <<text, positions, diff, base, origin>>
  BY DEF ReplayBegins
<1>2. IsLayout(M, Len(e)) /\ Edited(M, Len(e), base, target)
  BY <1>1 DEF Replays
<1>3. Tracked(Nothing, 0)'
  BY <1>1 DEF Tracked
<1>4. FirstOf(M, 0) = Nothing
  BY <1>1, <1>2, NothingFirst
<1>5. base \in Seq(Bytes) /\ target \in Seq(Bytes)
  BY <1>1 DEF Texts
<1>6. Half(target, M[0].a, base, M[0].r) = base
  BY <1>1, <1>2, <1>5, BothEnds
<1>7. Replays(M, type', Steps', base', target)
  BY <1>1
<1>8. Tracked(FirstOf(M, 0), 0)'
  BY <1>3, <1>4
<1>9. target = IF type' = "undo" THEN Reverted(Steps', base') ELSE Applied(Steps', base')
  BY <1>1 DEF Target
<1>10. next' - 1 = 0 /\ text' = base
  BY <1>1
<1>11. text' = Half(target, M[next' - 1].a, base', M[next' - 1].r)
  BY <1>1, <1>6, <1>10
<1>12. Tracked(FirstOf(M, next - 1), next - 1)'
  BY <1>8, <1>10 DEF Tracked
<1> QED  BY <1>1, <1>7, <1>9, <1>11, <1>12 DEF Replayed

(* The modifications of an edit are those of a redo, and taken back those  *)
(* of an undo.                                                             *)
LEMMA MadeIsRedone ==
  ASSUME NEW S, NEW old \in Seq(S), NEW new \in Seq(S), NEW e, Len(e) \in Nat, Made(e, old, new)
  PROVE  (\E M : Replays(M, "redo", e, old, new)) /\ Target("redo", e, old) = new
<1>1. PICK L : IsLayout(L, Len(e)) /\ Describes(L, e, old, new)
  BY DEF Made
<1>2. \A j \in 1..Len(e) : /\ e[j].position = L[j].p
                           /\ e[j].removed = Slice(old, L[j].o, L[j].r) /\ e[j].added = Slice(new, L[j].p, L[j].a)
  BY <1>1, Described
<1>3. Edited(L, Len(e), old, new)
  BY <1>1 DEF Describes
<1>4. Replays(L, "redo", e, old, new)
  BY <1>1, <1>2, <1>3 DEF Replays, TakenOut, Restored
<1>5. Applied(e, old) = new
  BY AppliedIs
<1> QED  BY <1>4, <1>5 DEF Target

(* The modifications of an edit, taken back in their order, are those of    *)
(* an undo.                                                                 *)
LEMMA MadeIsUndone ==
  ASSUME NEW S, NEW old \in Seq(S), NEW new \in Seq(S), NEW e, Len(e) \in Nat, Made(e, old, new)
  PROVE  (\E M : Replays(M, "undo", e, new, old)) /\ Target("undo", e, new) = old
<1>1. PICK L : IsLayout(L, Len(e)) /\ Describes(L, e, old, new)
  BY DEF Made
<1>2. \A j \in 1..Len(e) : /\ e[j].position = L[j].p
                           /\ e[j].removed = Slice(old, L[j].o, L[j].r) /\ e[j].added = Slice(new, L[j].p, L[j].a)
  BY <1>1, Described
<1>3. Edited(L, Len(e), old, new) /\ Len(old) \in Nat /\ Len(new) \in Nat
  BY <1>1, LenProperties DEF Describes
<1> DEFINE M == TakenBack(L, Len(e))
<1>4. IsLayout(M, Len(e)) /\ Edited(M, Len(e), new, old)
  BY <1>1, <1>3, TakenBackLayout
<1>5. \A j \in 1..Len(e) : M[j].p = L[j].o /\ M[j].a = L[j].r /\ M[j].o = L[j].p /\ M[j].r = L[j].a
  BY DEF TakenBack
<1> HIDE DEF M
<1>6. Replays(M, "undo", e, new, old)
  <2>1. ASSUME NEW j \in 1..Len(e)
        PROVE  /\ e[j].position = M[j].o
               /\ e[j].added = Slice(new, M[j].o, M[j].r) /\ e[j].removed = Slice(old, M[j].p, M[j].a)
    <3>1. M[j].o = L[j].p /\ M[j].r = L[j].a /\ M[j].p = L[j].o /\ M[j].a = L[j].r
      BY <1>5
    <3> QED  BY <1>2, <3>1
  <2> QED  BY <1>4, <2>1 DEF Replays, TakenOut, Restored
<1>7. Reverted(e, new) = old
  BY RevertedIs
<1> QED  BY <1>6, <1>7 DEF Target

(* modifier::undo() begins: the version before the current one is the       *)
(* target.                                                                  *)
LEMMA BeginUndoKeeps ==
  ASSUME EditInv, BeginUndo
  PROVE  EditInv' /\ Current' = Current /\ UNCHANGED <<history, base>>
<1>1. /\ curedit > 0 /\ type = "none" /\ type' = "undo" /\ curedit' = curedit - 1 /\ next' = 1 /\ width' = 0
      /\ UNCHANGED <<text, history, mods, positions, diff, base, origin>>
  BY DEF BeginUndo, Begin
<1>2. HistoryInv /\ text \in Texts /\ base = text /\ Tracked(Nothing, 0)
  BY <1>1 DEF EditInv, NoEditInv
<1>3. curedit \in 0..Len(history) /\ Len(history) \in Nat /\ history \in Seq(Seq(Modification)) /\ base \in Texts
  BY <1>2, BaseIsVersion
<1>4. PICK V : VersionsInv(V)
  BY <1>2 DEF HistoryInv
<1>5. PICK c \in Nat : c = curedit /\ c \in 1..Len(history)
  BY <1>1, <1>3
<1>6. PICK e : e = history[c]
  OBVIOUS
<1>7. PICK target : target = V[c]
  OBVIOUS
<1>8. PICK b : b = base
  OBVIOUS
<1>9. Len(e) \in Nat /\ Made(e, target, b) /\ target \in Texts /\ b \in Texts
  <2>1. Chained(V, Bytes, history) /\ (\A k \in 1..Len(history) + 1 : V[k] \in Texts) /\ V[c + 1] = base
    BY <1>1, <1>4, <1>5 DEF VersionsInv, Current
  <2>2. c \in 1..Len(history) + 1
    BY <1>3, <1>5
  <2> QED  BY <1>3, <1>5, <1>6, <1>7, <1>8, <2>1, <2>2 DEF Chained
<1>10. target \in Seq(Bytes) /\ b \in Seq(Bytes)
  BY <1>9 DEF Texts
<1>11. (\E M : Replays(M, "undo", e, b, target)) /\ Target("undo", e, b) = target
  BY <1>9, <1>10, MadeIsUndone
<1>12. PICK M : Replays(M, "undo", e, b, target)
  BY <1>11
<1>13. curedit' + 1 = c
  BY <1>1, <1>5
<1>14. Steps' = e
  BY <1>1, <1>6, <1>13 DEF Steps
<1>15. ReplayBegins("undo", e, M, target)
  BY <1>1, <1>8, <1>9, <1>11, <1>12, <1>14 DEF ReplayBegins
<1>16. Replayed(M, target)'
  BY <1>2, <1>3, <1>15, ReplayHasBegun
<1>17. curedit' \in 0..Len(history) /\ curedit' < Len(history) /\ curedit' + 1 = curedit
  BY <1>1, <1>3
<1>18. ReplayInv'
  BY <1>1, <1>9, <1>14, <1>16, <1>17 DEF ReplayInv
<1>19. Current' = Current
  BY <1>1, <1>17 DEF Current
<1>20. HistoryInv'
  BY <1>1, <1>2, <1>17, <1>19, VersionsStay
<1> QED  BY <1>1, <1>18, <1>19, <1>20 DEF EditInv, NoEditInv, TypingInv

(* modifier::redo() begins: the version after the current one is the        *)
(* target.                                                                  *)
LEMMA BeginRedoKeeps ==
  ASSUME EditInv, BeginRedo
  PROVE  EditInv' /\ Current' = Current /\ UNCHANGED <<history, base>>
<1>1. /\ curedit < Len(history) /\ type = "none" /\ type' = "redo" /\ next' = 1 /\ width' = 0
      /\ UNCHANGED <<text, history, mods, positions, diff, base, origin, curedit>>
  BY DEF BeginRedo, Begin
<1>2. HistoryInv /\ text \in Texts /\ base = text /\ Tracked(Nothing, 0)
  BY <1>1 DEF EditInv, NoEditInv
<1>3. curedit \in 0..Len(history) /\ Len(history) \in Nat /\ history \in Seq(Seq(Modification)) /\ base \in Texts
  BY <1>2, BaseIsVersion
<1>4. PICK V : VersionsInv(V)
  BY <1>2 DEF HistoryInv
<1>5. PICK c \in Nat : c = curedit + 1 /\ c \in 1..Len(history)
  BY <1>1, <1>3
<1>6. PICK e : e = history[c]
  OBVIOUS
<1>7. PICK target : target = V[c + 1]
  OBVIOUS
<1>8. PICK b : b = base
  OBVIOUS
<1>9. Len(e) \in Nat /\ Made(e, b, target) /\ target \in Texts /\ b \in Texts
  <2>1. Chained(V, Bytes, history) /\ (\A k \in 1..Len(history) + 1 : V[k] \in Texts) /\ V[c] = base
    BY <1>1, <1>4, <1>5 DEF VersionsInv, Current
  <2>2. c + 1 \in 1..Len(history) + 1
    BY <1>3, <1>5
  <2> QED  BY <1>3, <1>5, <1>6, <1>7, <1>8, <2>1, <2>2 DEF Chained
<1>10. target \in Seq(Bytes) /\ b \in Seq(Bytes)
  BY <1>9 DEF Texts
<1>11. (\E M : Replays(M, "redo", e, b, target)) /\ Target("redo", e, b) = target
  BY <1>9, <1>10, MadeIsRedone
<1>12. PICK M : Replays(M, "redo", e, b, target)
  BY <1>11
<1>14. Steps' = e
  BY <1>1, <1>5, <1>6 DEF Steps
<1>15. ReplayBegins("redo", e, M, target)
  BY <1>1, <1>8, <1>9, <1>11, <1>12, <1>14 DEF ReplayBegins
<1>16. Replayed(M, target)'
  BY <1>2, <1>3, <1>15, ReplayHasBegun
<1>18. ReplayInv'
  BY <1>1, <1>9, <1>14, <1>16 DEF ReplayInv
<1>19. Current' = Current
  BY <1>1 DEF Current
<1>20. HistoryInv'
  BY <1>1, <1>2, <1>3, <1>19, VersionsStay
<1> QED  BY <1>1, <1>18, <1>19, <1>20 DEF EditInv, NoEditInv, TypingInv

(* An undo or a redo before the modification j of the edit e.              *)
ReplayPosition(m, t) == IF t = "undo" THEN Wrapped(m.position + diff) ELSE m.position
ReplayAt(M, target, t, e, j, pos) ==
  /\ t \in {"undo", "redo"} /\ t = type /\ e = Steps /\ Len(e) \in Nat
  /\ j \in 1..Len(e) /\ next = j /\ base \in Texts
  /\ Replayed(M, target)
  /\ pos = ReplayPosition(e[j], t)

(* It is at the place of this modification, where the bytes are that the   *)
(* edit has recorded, and writes those of the text that it leads to.       *)
LEMMA ReplayFinds ==
  ASSUME NEW M, NEW target, NEW t, NEW e, NEW j \in Nat, NEW pos, ReplayAt(M, target, t, e, j, pos)
  PROVE  LET k == j - 1
         IN  /\ Tracked(FirstOf(M, k), k) /\ IsLayout(M, Len(e)) /\ Edited(M, Len(e), base, target)
             /\ text = Half(target, M[k].a, base, M[k].r) /\ text \in Seq(Bytes)
             /\ pos = M[j].p
             /\ TakenOut(e[j], t) = Slice(base, M[j].o, M[j].r) /\ Len(TakenOut(e[j], t)) = M[j].r - M[j].o
             /\ Restored(e[j], t) = Slice(target, M[j].p, M[j].a) /\ Len(Restored(e[j], t)) = M[j].a - M[j].p
             /\ Restored(e[j], t) \in Seq(Bytes)
             /\ Slice(text, pos, pos + Len(TakenOut(e[j], t))) = TakenOut(e[j], t)
<1> DEFINE k == j - 1
           n == Len(e)
<1>1. /\ t \in {"undo", "redo"} /\ t = type /\ e = Steps /\ n \in Nat
      /\ j \in 1..n /\ next = j /\ base \in Texts
      /\ Replayed(M, target)
      /\ pos = ReplayPosition(e[j], t)
  BY DEF ReplayAt
<1>2. /\ target \in Texts /\ Replays(M, t, e, base, target)
      /\ text = Half(target, M[k].a, base, M[k].r) /\ Tracked(FirstOf(M, k), k)
  BY <1>1 DEF Replayed, Tracked
<1>3. IsLayout(M, n) /\ Edited(M, n, base, target)
  BY <1>2 DEF Replays
<1>4. /\ e[j].position = IF t = "undo" THEN M[j].o ELSE M[j].p
      /\ TakenOut(e[j], t) = Slice(base, M[j].o, M[j].r)
      /\ Restored(e[j], t) = Slice(target, M[j].p, M[j].a)
  BY <1>1, <1>2 DEF Replays
<1>5. base \in Seq(Bytes) /\ target \in Seq(Bytes) /\ Len(base) \in Nat /\ Len(target) \in Nat
  BY <1>1, <1>2, LenProperties DEF Texts
<1>6. /\ k \in Nat /\ k \in 0..n /\ j \in 0..n /\ j \in 1..n /\ j - 1 = k
  BY <1>1
<1>7. /\ M[j].p \in Nat /\ M[j].a \in Nat /\ M[j].o \in Nat /\ M[j].r \in Nat
      /\ M[j].p <= M[j].a /\ M[j].o <= M[j].r /\ M[j].a <= Len(target) /\ M[j].r <= Len(base)
      /\ M[k].a \in Nat /\ M[k].r \in Nat
  BY <1>1, <1>3, <1>5, <1>6, LayoutNumbers, WithinTexts
<1>8. M[k].a <= M[j].p /\ M[k].r <= M[j].o /\ M[j].p - M[k].a = M[j].o - M[k].r
  BY <1>3, <1>6 DEF IsLayout, Follows
<1>9. IsSlice(Slice(base, M[j].o, M[j].r), Bytes, base, M[j].o, M[j].r)
      /\ IsSlice(Slice(target, M[j].p, M[j].a), Bytes, target, M[j].p, M[j].a)
  BY <1>5, <1>7, SliceProperties
<1>10. /\ Len(TakenOut(e[j], t)) = M[j].r - M[j].o /\ Len(Restored(e[j], t)) = M[j].a - M[j].p
       /\ Restored(e[j], t) \in Seq(Bytes)
  BY <1>4, <1>9 DEF IsSlice
<1>11. text \in Seq(Bytes)
  BY <1>1, <1>2, <1>3, <1>5, <1>6, HalfFits
<1>12. pos = M[j].p
  <2>1. CASE t # "undo"
    BY <1>1, <1>4, <2>1 DEF ReplayPosition
  <2>2. CASE t = "undo"
    <3> DEFINE o == M[j].o
               lr == M[k].r
               la == M[k].a
               K == FirstOf(M, k)
    <3>1. pos = Wrapped(o + diff)
      BY <1>1, <1>4, <2>2 DEF ReplayPosition
    <3>2. K[k] = M[k]
      BY <1>6 DEF FirstOf
    <3>3. o \in Nat /\ K[k].r <= o /\ o <= Len(base)
      <4>1. \A f, g, h \in Nat : f <= g /\ g <= h => f <= h
        OBVIOUS
      <4>2. M[j].o <= Len(base)
        BY <1>5, <1>7, <4>1
      <4> QED  BY <1>7, <1>8, <3>2, <4>2
    <3> HIDE DEF o, K
    <3>4. Wrapped(o + diff) = o - K[k].r + K[k].a
      BY <1>2, <1>6, <3>3, ShiftedPosition DEF K
    <3>5. \A f, g, h, i \in Nat : f - g = h - i => h - i + g = f
      OBVIOUS
    <3>6. o - M[k].r + M[k].a = M[j].p
      BY <1>7, <1>8, <3>5 DEF o
    <3> QED  BY <3>1, <3>2, <3>4, <3>6
  <2> QED  BY <2>1, <2>2
<1>13. Slice(text, M[j].p, M[j].p + (M[j].r - M[j].o)) = Slice(base, M[j].o, M[j].r)
  BY <1>1, <1>2, <1>3, <1>5, <1>6, OneForward
<1> QED  BY <1>2, <1>3, <1>4, <1>10, <1>11, <1>12, <1>13

(* What UndoStep and RedoStep do.                                          *)
ReplayStep(pos, erased, restored) ==
  /\ Change(pos, erased, restored) /\ next' = next + 1 /\ UNCHANGED mods

(* One step of an undo or a redo.                                           *)
LEMMA ReplayStepKeeps ==
  ASSUME EditInv, NEW t \in {"undo", "redo"}, t = type, next <= Len(Steps),
         ReplayStep(ReplayPosition(Steps[next], t), TakenOut(Steps[next], t), Restored(Steps[next], t))
  PROVE  EditInv' /\ UNCHANGED <<history, base, curedit, type>>
<1>1. HistoryInv /\ ReplayInv
  BY DEF EditInv
<1>2. /\ base \in Texts /\ Len(base) \in Nat /\ Len(history) \in Nat /\ curedit \in 0..Len(history)
      /\ history \in Seq(Seq(Modification))
  BY <1>1, BaseIsVersion
<1>3. /\ curedit < Len(history) /\ width = 0 /\ next \in 1..Len(Steps) + 1
      /\ \E M, target : Replayed(M, target)
  BY <1>1 DEF ReplayInv
<1>4. PICK M, target : Replayed(M, target)
  BY <1>3
<1>5. PICK e : e = Steps
  OBVIOUS
<1>6. Len(e) \in Nat
  <2>1. curedit + 1 \in 1..Len(history)
    BY <1>2, <1>3
  <2>2. e \in Seq(Modification)
    BY <1>2, <1>5, <2>1, ElementOfSeq DEF Steps
  <2> QED  BY <2>2, LenProperties
<1>7. PICK j \in Nat : j = next /\ j \in 1..Len(e)
  BY <1>3, <1>5, <1>6
<1>8. PICK pos : pos = ReplayPosition(e[j], t)
  OBVIOUS
<1>9. PICK b : b = base
  OBVIOUS
<1>10. ReplayAt(M, target, t, e, j, pos)
  BY <1>2, <1>4, <1>5, <1>6, <1>7, <1>8 DEF ReplayAt
<1>11. PICK erased : erased = TakenOut(e[j], t)
  OBVIOUS
<1>12. PICK restored : restored = Restored(e[j], t)
  OBVIOUS
<1>13. PICK k \in Nat : k = j - 1 /\ k + 1 = j
  BY <1>7
<1> DEFINE c == M[j]
<1>14. /\ Tracked(FirstOf(M, k), k) /\ IsLayout(M, Len(e)) /\ Edited(M, Len(e), b, target)
       /\ text = Half(target, M[k].a, b, M[k].r) /\ text \in Seq(Bytes)
       /\ pos = c.p
       /\ erased = Slice(b, c.o, c.r) /\ Len(erased) = c.r - c.o
       /\ restored = Slice(target, c.p, c.a) /\ Len(restored) = c.a - c.p
       /\ restored \in Seq(Bytes)
  BY <1>9, <1>10, <1>11, <1>12, <1>13, ReplayFinds
<1>15. /\ Change(pos, erased, restored) /\ next' = j + 1
  BY <1>5, <1>7, <1>8, <1>11, <1>12 DEF ReplayStep
<1>16. UNCHANGED <<history, base, curedit, type, width, typed>>
  BY <1>15 DEF Change
<1>17. /\ target \in Texts /\ target = (IF type = "undo" THEN Reverted(Steps, base) ELSE Applied(Steps, base))
       /\ Replays(M, type, Steps, base, target)
  BY <1>4 DEF Replayed
<1>18. b \in Seq(Bytes) /\ target \in Seq(Bytes) /\ Len(b) \in Nat /\ Len(target) \in Nat
       /\ Len(b) <= MaxLength /\ Len(target) <= MaxLength
  BY <1>2, <1>9, <1>17, LenProperties DEF Texts
<1>19. j \in 0..Len(e) /\ k \in 0..Len(e)
  BY <1>7, <1>13
<1>20. c \in Cuts /\ Follows(M[k], c)
  BY <1>7, <1>13, <1>14, <1>19 DEF IsLayout
<1>21. c.r <= Len(b) /\ c.a + (Len(b) - c.r) < WordSize
  <2>1. c.r <= Len(b)
    BY <1>6, <1>14, <1>18, <1>19, WithinTexts
  <2>2. c.a + (Len(b) - c.r) <= Len(b) + Len(target)
    BY <1>6, <1>14, <1>18, <1>19, HalfFits
  <2>3. c.a \in Nat /\ c.r \in Nat
    BY <1>20 DEF Cuts
  <2> DEFINE f == c.a + (Len(b) - c.r)
  <2>4. f \in Nat
    <3>1. \A d, g, h \in Nat : g <= h => d + (h - g) \in Nat
      OBVIOUS
    <3> QED  BY <1>18, <2>1, <2>3, <3>1
  <2> HIDE DEF f
  <2>5. f < WordSize
    BY <1>18, <2>2, <2>4, BufferAssumption DEF f
  <2> QED  BY <2>1, <2>5 DEF f
<1>22. FirstOf(M, k)[k] = M[k] /\ Extended(FirstOf(M, k), k, c) = FirstOf(M, j)
  BY <1>13, OneMoreFirst
<1> HIDE DEF c
<1>23. Changes(FirstOf(M, k), k, c, erased, restored)
  BY <1>9, <1>14, <1>15, <1>20, <1>21, <1>22 DEF Changes
<1>24. /\ Tracked(Extended(FirstOf(M, k), k, c), k + 1)' /\ text' = Splice(text, c.p, c.r - c.o, restored)
  BY <1>14, <1>23, ChangeIsTracked
<1>25. Tracked(FirstOf(M, j), j)'
  BY <1>13, <1>22, <1>24
<1>26. Splice(text, c.p, c.r - c.o, restored) = Half(target, M[j].a, b, M[j].r)
  BY <1>6, <1>7, <1>13, <1>14, <1>18, OneForward DEF c
<1>27. next' - 1 = j
  BY <1>15
<1>28. text' = Half(target, M[next' - 1].a, base', M[next' - 1].r)
  BY <1>9, <1>16, <1>24, <1>26, <1>27
<1>29. Tracked(FirstOf(M, next - 1), next - 1)'
  BY <1>25, <1>27 DEF Tracked
<1>30. Steps' = Steps
  BY <1>16 DEF Steps
<1>31. Replayed(M, target)'
  BY <1>16, <1>17, <1>28, <1>29, <1>30 DEF Replayed
<1>32. next' \in 1..Len(Steps') + 1
  BY <1>5, <1>6, <1>7, <1>15, <1>30
<1>33. ReplayInv'
  BY <1>3, <1>16, <1>31, <1>32 DEF ReplayInv
<1>34. HistoryInv'
  BY <1>1, <1>2, <1>3, <1>16, VersionsStay DEF Current
<1> QED  BY <1>16, <1>33, <1>34 DEF EditInv, NoEditInv, TypingInv

(* _undo_modification() and _redo_modification().                           *)
LEMMA StepsKeep ==
  ASSUME EditInv, UndoStep \/ RedoStep
  PROVE  EditInv' /\ UNCHANGED <<history, base, curedit, type>>
<1>1. CASE UndoStep
  <2>1. "undo" = type /\ next <= Len(Steps)
        /\ ReplayStep(ReplayPosition(Steps[next], "undo"), TakenOut(Steps[next], "undo"), Restored(Steps[next], "undo"))
    BY <1>1 DEF UndoStep, ReplayStep, ReplayPosition, TakenOut, Restored
  <2> QED  BY <2>1, ReplayStepKeeps
<1>2. CASE RedoStep
  <2>1. "redo" = type /\ next <= Len(Steps)
        /\ ReplayStep(ReplayPosition(Steps[next], "redo"), TakenOut(Steps[next], "redo"), Restored(Steps[next], "redo"))
    BY <1>2 DEF RedoStep, ReplayStep, ReplayPosition, TakenOut, Restored
  <2> QED  BY <2>1, ReplayStepKeeps
<1> QED  BY <1>1, <1>2

(* At the end of an undo or a redo the text is its target.                 *)
LEMMA ReplayEnds ==
  ASSUME HistoryInv, ReplayInv, type \in {"undo", "redo"}, next > Len(Steps)
  PROVE  /\ text \in Texts /\ curedit < Len(history)
         /\ text = IF type = "undo" THEN Reverted(Steps, base) ELSE Applied(Steps, base)
<1>1. /\ curedit < Len(history) /\ next \in 1..Len(Steps) + 1
  BY DEF ReplayInv
<1>2. PICK M, target : Replayed(M, target)
  BY DEF ReplayInv
<1>3. /\ base \in Texts /\ Len(history) \in Nat /\ curedit \in 0..Len(history) /\ history \in Seq(Seq(Modification))
  BY BaseIsVersion
<1>4. Len(Steps) \in Nat
  <2>1. curedit + 1 \in 1..Len(history)
    BY <1>1, <1>3
  <2>2. Steps \in Seq(Modification)
    BY <1>3, <2>1, ElementOfSeq DEF Steps
  <2> QED  BY <2>2, LenProperties
<1>5. next - 1 = Len(Steps)
  BY <1>1, <1>4
<1>6. /\ target \in Texts /\ target = (IF type = "undo" THEN Reverted(Steps, base) ELSE Applied(Steps, base))
      /\ Replays(M, type, Steps, base, target) /\ text = Half(target, M[Len(Steps)].a, base, M[Len(Steps)].r)
  BY <1>2, <1>5 DEF Replayed
<1>7. base \in Seq(Bytes) /\ target \in Seq(Bytes)
  BY <1>3, <1>6 DEF Texts
<1>8. IsLayout(M, Len(Steps)) /\ Edited(M, Len(Steps), base, target)
  BY <1>6 DEF Replays
<1>9. text = target
  BY <1>4, <1>6, <1>7, <1>8, BothEnds
<1> QED  BY <1>1, <1>6, <1>9

(* An undo or a redo that has ended leaves another version current.        *)
LEMMA EndCustomKeeps ==
  ASSUME EditInv, EndCustom
  PROVE  /\ EditInv' /\ \A V : VersionsInv(V) => VersionsInv(V)'
         /\ type = "undo" => Current' = Current - 1 /\ Current \in 1..Len(history)
         /\ type = "redo" => Current' = Current + 1 /\ Current \in 0..Len(history) - 1
<1>1. /\ type \in {"undo", "redo"} /\ next > Len(Steps) /\ Over /\ UNCHANGED history
      /\ curedit' = IF type = "redo" THEN curedit + 1 ELSE curedit
  BY DEF EndCustom
<1>2. HistoryInv /\ ReplayInv
  BY DEF EditInv
<1>3. /\ text \in Texts /\ curedit < Len(history)
      /\ text = IF type = "undo" THEN Reverted(Steps, base) ELSE Applied(Steps, base)
  BY <1>1, <1>2, ReplayEnds
<1>4. /\ base \in Texts /\ Len(history) \in Nat /\ curedit \in 0..Len(history) /\ history \in Seq(Seq(Modification))
  BY <1>2, BaseIsVersion
<1>5. NoEditInv' /\ TypingInv' /\ ReplayInv' /\ base' = text /\ type' = "none"
  BY <1>1, <1>3, OverLeavesNothing
<1>6. /\ Current' = curedit' /\ curedit' \in 0..Len(history)
      /\ type = "undo" => Current = curedit + 1 /\ curedit' = curedit
      /\ type = "redo" => Current = curedit /\ curedit' = curedit + 1
  BY <1>1, <1>3, <1>4, <1>5 DEF Current
<1>7. ASSUME NEW V, VersionsInv(V)
      PROVE  VersionsInv(V)'
  <2> DEFINE c == curedit + 1
  <2>1. /\ Chained(V, Bytes, history) /\ (\A k \in 1..Len(history) + 1 : V[k] \in Texts) /\ V[Current + 1] = base
        /\ Len(history) <= MaxEdits
    BY <1>7 DEF VersionsInv
  <2>2. c \in 1..Len(history) /\ c + 1 \in 1..Len(history) + 1 /\ c \in 1..Len(history) + 1
    BY <1>3, <1>4
  <2>3. Len(Steps) \in Nat /\ Made(Steps, V[c], V[c + 1])
    BY <2>1, <2>2 DEF Chained, Steps
  <2>4. V[c] \in Seq(Bytes) /\ V[c + 1] \in Seq(Bytes)
    BY <2>1, <2>2 DEF Texts
  <2> HIDE DEF c
  <2>5. Reverted(Steps, V[c + 1]) = V[c] /\ Applied(Steps, V[c]) = V[c + 1]
    BY <2>3, <2>4, RevertedIs, AppliedIs
  <2>6. V[curedit' + 1] = text
    <3>1. CASE type = "undo"
      <4>1. base = V[c + 1] /\ curedit' + 1 = c
        BY <1>6, <2>1, <3>1 DEF c
      <4> QED  BY <1>3, <2>5, <3>1, <4>1
    <3>2. CASE type = "redo"
      <4>1. base = V[c] /\ curedit' + 1 = c + 1
        BY <1>6, <2>1, <3>2 DEF c
      <4> QED  BY <1>3, <2>5, <3>2, <4>1
    <3> QED  BY <1>1, <3>1, <3>2
  <2> QED  BY <1>1, <1>4, <1>5, <1>6, <2>1, <2>6 DEF VersionsInv
<1>8. HistoryInv'
  BY <1>2, <1>7 DEF HistoryInv
<1> QED  BY <1>3, <1>4, <1>5, <1>6, <1>7, <1>8 DEF EditInv

(* The invariant says nothing but of the variables.                         *)
LEMMA EditStutters ==
  ASSUME EditInv, UNCHANGED vars
  PROVE  EditInv' /\ Current' = Current
<1> USE DEF vars
<1>1. Current' = Current
  BY DEF Current
<1>2. HistoryInv'
  BY <1>1, BaseIsVersion, VersionsStay DEF EditInv, HistoryInv, VersionsInv
<1>3. NoEditInv'
  BY DEF EditInv, NoEditInv, Tracked
<1>4. TypingInv'
  BY DEF EditInv, TypingInv, Typed, Tracked
<1>5. ReplayInv'
  BY DEF EditInv, ReplayInv, Replayed, Tracked, Steps
<1> QED  BY <1>2, <1>3, <1>4, <1>5, <1>1 DEF EditInv

(* The inductive invariant, if overwriting replaces one byte at each        *)
(* caret.                                                                   *)
LEMMA EditInvHolds == ASSUME OneByte PROVE Spec => []EditInv
<1>1. ASSUME EditInv, [Next]_vars
      PROVE  EditInv'
  <2>1. ASSUME NEW bytes \in Inserts, BeginNormal(0, bytes) PROVE EditInv'
    BY <1>1, <2>1, BeginNormalKeeps
  <2>2. ASSUME NEW bytes \in Inserts, NEW n \in InputBytes, bytes # <<>>, BeginNormal(n, bytes) PROVE EditInv'
    BY <1>1, <2>2, BeginNormalKeeps
  <2>3. ASSUME NEW pos \in 0..MaxLength, Overwrite(pos) PROVE EditInv'
    <3>1. pos \in Nat
      BY BufferAssumption
    <3> QED  BY <1>1, <2>3, <3>1, OverwriteKeeps
  <2>4. ASSUME NEW pos \in 0..MaxLength, NEW len \in 0..MaxLength, Modify(pos, len) PROVE EditInv'
    <3>1. pos \in Nat /\ len \in Nat
      BY BufferAssumption
    <3> QED  BY <1>1, <2>4, <3>1, ModifyKeeps
  <2>5. CASE End
    BY <1>1, <2>5, EndKeeps
  <2>6. CASE BeginUndo
    BY <1>1, <2>6, BeginUndoKeeps
  <2>7. CASE BeginRedo
    BY <1>1, <2>7, BeginRedoKeeps
  <2>8. CASE UndoStep \/ RedoStep
    BY <1>1, <2>8, StepsKeep
  <2>9. CASE EndCustom
    BY <1>1, <2>9, EndCustomKeeps
  <2>10. CASE UNCHANGED vars
    BY <1>1, <2>10, EditStutters
  <2> QED  BY <1>1, <2>1, <2>2, <2>3, <2>4, <2>5, <2>6, <2>7, <2>8, <2>9, <2>10 DEF Next
<1>2. Init => EditInv
  BY InitHolds
<1> QED  BY <1>1, <1>2, PTL DEF Spec

-----------------------------------------------------------------------------
(* Whatever is going on, what is reported is that of a layout.             *)
LEMMA SomeLayout ==
  ASSUME EditInv
  PROVE  \E n \in Nat : \E K : Tracked(K, n)
<1>1. CASE type = "none"
  BY <1>1 DEF EditInv, NoEditInv
<1>2. CASE type = "normal"
  <2>1. mods \in Seq(Modification) /\ \E K : Typed(K)
    BY <1>2 DEF EditInv, TypingInv
  <2>2. PICK n \in Nat : n = Len(mods)
    BY <2>1, LenProperties
  <2> QED  BY <2>1, <2>2 DEF Typed
<1>3. CASE type \in {"undo", "redo"}
  <2>1. next \in 1..Len(Steps) + 1 /\ \E M, target : Replayed(M, target)
    BY <1>3 DEF EditInv, ReplayInv
  <2>2. PICK n \in Nat : n = next - 1
    BY <2>1
  <2>3. PICK M, target : Replayed(M, target)
    BY <2>1
  <2>4. Tracked(FirstOf(M, n), n)
    BY <2>2, <2>3 DEF Replayed
  <2> QED  BY <2>4
<1> QED  BY <1>1, <1>2, <1>3 DEF EditInv

(* The lengths and the difference are within their types.                   *)
LEMMA TypesOK == EditInv => TypeOK
<1> SUFFICES ASSUME EditInv PROVE TypeOK
  OBVIOUS
<1>1. PICK n \in Nat : \E K : Tracked(K, n)
  BY SomeLayout
<1>2. PICK K : Tracked(K, n)
  BY <1>1
<1>3. /\ Len(base) \in Nat /\ Len(text) \in Nat /\ K[n].a \in Nat /\ K[n].r \in Nat
      /\ K[n].a <= Len(text) /\ K[n].r <= Len(base) /\ Len(text) - K[n].a = Len(base) - K[n].r
      /\ Len(text) < WordSize /\ Len(base) < WordSize
  BY <1>1, <1>2, TrackedLengths
<1>4. Wrapped(Len(base) + diff) = Len(base) - K[n].r + K[n].a
  BY <1>1, <1>2, <1>3, ShiftedPosition
<1>5. Wrapped(Len(base) + diff) = Len(text)
  BY <1>3, <1>4
<1>6. diff \in 0..WordSize - 1
  <2> DEFINE d == K[n].a - K[n].r
  <2>1. d \in Int
    BY <1>3
  <2> HIDE DEF d
  <2>2. d % WordSize \in 0..WordSize - 1
    BY <2>1, BufferAssumption
  <2>3. diff = d % WordSize
    BY <1>2 DEF Tracked, Wrapped, d
  <2> QED  BY <2>2, <2>3
<1>7. Len(origin) = Len(text)
  BY <1>2 DEF Tracked
<1>8. Len(history) <= MaxEdits /\ curedit \in 0..Len(history)
  BY DEF EditInv, HistoryInv, VersionsInv
<1>9. width \in InputBytes \cup {0} /\ type \in {"none", "normal", "undo", "redo"}
  BY DEF EditInv, NoEditInv, TypingInv, ReplayInv
<1> QED  BY <1>3, <1>5, <1>6, <1>7, <1>8, <1>9 DEF TypeOK

(* Patching with what has been reported keeps positions with their bytes.   *)
LEMMA PositionsFollow == EditInv => PositionsFollowBytes
<1> SUFFICES ASSUME EditInv, NEW strategy \in Strategies
             PROVE  LET patched == Patched(positions, strategy)
                    IN  /\ \A p \in 1..Len(base) : patched[p - 1] <= patched[p]
                        /\ patched[Len(base)] <= Len(text)
                        /\ \A q \in DOMAIN origin :
                             origin[q] # 0 =>
                               /\ patched[origin[q] - 1] < q
                               /\ \A i \in patched[origin[q] - 1] + 1..q - 1 : origin[i] = 0
  BY DEF PositionsFollowBytes
<1>1. PICK n \in Nat : \E K : Tracked(K, n)
  BY SomeLayout
<1>2. PICK K : Tracked(K, n)
  BY <1>1
<1>3. /\ IsLayout(K, n) /\ Reports(K, n, positions, Len(base)) /\ OriginsOf(K, n, Len(base), origin)
      /\ Len(origin) = Len(text)
  BY <1>2 DEF Tracked
<1>4. /\ Len(base) \in Nat /\ Len(text) \in Nat /\ K[n].a \in Nat /\ K[n].r \in Nat
      /\ K[n].r <= Len(base) /\ Len(text) - K[n].a = Len(base) - K[n].r
  BY <1>1, <1>2, TrackedLengths
<1> DEFINE patched == Patched(positions, strategy)
<1>5. ASSUME NEW p \in 0..Len(base) PROVE patched[p] = PutAt(K, n, p, strategy)
  BY <1>3, PatchedPuts
<1> HIDE DEF patched
<1>6. ASSUME NEW p \in 1..Len(base) PROVE patched[p - 1] <= patched[p]
  <2> DEFINE q == p - 1
  <2>1. q \in Nat /\ q + 1 = p /\ q + 1 <= Len(base) /\ q \in 0..Len(base) /\ p \in 0..Len(base)
    BY <1>4
  <2> HIDE DEF q
  <2>2. PutAt(K, n, q, strategy) <= PutAt(K, n, q + 1, strategy)
    BY <1>3, <2>1, PutInOrder
  <2>3. patched[q] <= patched[p]
    BY <1>5, <2>1, <2>2
  <2> QED  BY <2>3 DEF q
<1>7. patched[Len(base)] <= Len(text)
  <2>1. PutAt(K, n, Len(base), strategy) <= K[n].a + (Len(base) - K[n].r)
    BY <1>3, <1>4, PutLast
  <2>2. K[n].a + (Len(base) - K[n].r) = Len(text) /\ Len(base) \in 0..Len(base)
    BY <1>4
  <2> QED  BY <1>5, <2>1, <2>2
<1>8. ASSUME NEW q \in DOMAIN origin, origin[q] # 0
      PROVE  /\ patched[origin[q] - 1] < q
             /\ \A i \in patched[origin[q] - 1] + 1..q - 1 : origin[i] = 0
  <2>1. q \in 1..Len(origin)
    BY <1>3, LenProperties DEF OriginsOf
  <2>2. /\ origin[q] \in 1..Len(base)
        /\ PutAt(K, n, origin[q] - 1, strategy) \in Nat /\ PutAt(K, n, origin[q] - 1, strategy) < q
        /\ \A i \in PutAt(K, n, origin[q] - 1, strategy) + 1..q - 1 : origin[i] = 0
    <3>1. PICK og : og = origin
      OBVIOUS
    <3>2. PICK l \in Nat : l = Len(base)
      BY <1>4
    <3>3. StillThere(K, n, positions, l, og, q)
      BY <1>3, <1>8, <2>1, <3>1, <3>2 DEF StillThere
    <3>4. Precedes(K, n, l, og, strategy, q)
      BY <1>1, <3>3, BytesFollow
    <3> QED  BY <3>1, <3>2, <3>4 DEF Precedes
  <2>3. origin[q] - 1 \in 0..Len(base)
    BY <1>4, <2>2
  <2>4. patched[origin[q] - 1] = PutAt(K, n, origin[q] - 1, strategy)
    BY <1>5, <2>3
  <2> QED  BY <2>2, <2>4
<1> QED  BY <1>6, <1>7, <1>8 DEF patched

(* Undo and redo replace what was recorded and end with their target.       *)
LEMMA ReplaysAreExact == EditInv => HistoryIsExact
<1> SUFFICES ASSUME EditInv PROVE HistoryIsExact
  OBVIOUS
<1>1. HistoryInv /\ ReplayInv
  BY DEF EditInv
<1>2. UndoReverts
  BY <1>1, ReplayEnds DEF UndoReverts
<1>3. ASSUME type \in {"undo", "redo"}, next <= Len(Steps)
      PROVE  LET m == Steps[next]
                 pos == IF type = "undo" THEN Wrapped(m.position + diff) ELSE m.position
                 erased == IF type = "undo" THEN m.added ELSE m.removed
             IN  SubSeq(text, pos + 1, pos + Len(erased)) = erased
  <2>1. /\ base \in Texts /\ Len(history) \in Nat /\ curedit \in 0..Len(history) /\ history \in Seq(Seq(Modification))
    BY <1>1, BaseIsVersion
  <2>2. curedit < Len(history) /\ next \in 1..Len(Steps) + 1 /\ \E M, target : Replayed(M, target)
    BY <1>1, <1>3 DEF ReplayInv
  <2>3. PICK M, target : Replayed(M, target)
    BY <2>2
  <2>4. Len(Steps) \in Nat
    <3>1. curedit + 1 \in 1..Len(history)
      BY <2>1, <2>2
    <3>2. Steps \in Seq(Modification)
      BY <2>1, <3>1, ElementOfSeq DEF Steps
    <3> QED  BY <3>2, LenProperties
  <2>5. PICK j \in Nat : j = next /\ j \in 1..Len(Steps)
    BY <1>3, <2>2, <2>4
  <2> DEFINE pos == ReplayPosition(Steps[j], type)
             erased == TakenOut(Steps[j], type)
  <2>6. ReplayAt(M, target, type, Steps, j, pos)
    BY <1>3, <2>1, <2>3, <2>4, <2>5 DEF ReplayAt
  <2>7. Slice(text, pos, pos + Len(erased)) = erased
    <3> HIDE DEF pos
    <3> QED  BY <2>6, ReplayFinds
  <2> QED  BY <2>5, <2>7 DEF ReplayPosition, TakenOut, Slice
<1> QED  BY <1>2, <1>3 DEF HistoryIsExact, ReplacesWhatWasRecorded

(* If overwriting replaces one byte at each caret: however long the         *)
(* sequence of edits, undos and redos, an undo or a redo replaces just      *)
(* the bytes that were recorded, an undo ends with the text before the      *)
(* edit, and a position_patcher that is given what an edit reports keeps    *)
(* positions in order, in the text and with their bytes.                    *)
THEOREM TextAndPositions == ASSUME OneByte PROVE Spec => []BufferInv
<1>1. EditInv => BufferInv
  BY TypesOK, PositionsFollow, ReplaysAreExact DEF BufferInv, PositionsInv
<1>2. Spec => []EditInv
  BY EditInvHolds
<1> QED  BY <1>1, <1>2, PTL

-----------------------------------------------------------------------------
(* The versions of the history are those of the invariant.                 *)
LEMMA VersionsNow ==
  ASSUME NEW V, VersionsInv(V)
  PROVE  Versions = V /\ V \in [1..Len(history) + 1 -> Seq(Bytes)] /\ Len(history) \in Nat
<1>1. /\ Chained(V, Bytes, history) /\ V[Current + 1] = base /\ Len(history) \in Nat /\ Current \in 0..Len(history)
  BY BaseIsVersion DEF VersionsInv, HistoryInv
<1>2. VersionsOf(history, Current, V[Current + 1]) = V
  BY <1>1, VersionsAre
<1> QED  BY <1>1, <1>2, VersionsAreThose DEF Chained

(* The same in the next state.                                              *)
LEMMA VersionsLater ==
  ASSUME NEW V, VersionsInv(V)'
  PROVE  Versions' = V /\ V \in [1..Len(history') + 1 -> Seq(Bytes)] /\ Len(history') \in Nat
<1>1. /\ history' \in Seq(Seq(Modification)) /\ curedit' \in 0..Len(history') /\ (type' = "undo" => curedit' < Len(history'))
      /\ Chained(V, Bytes, history') /\ V[Current' + 1] = base'
  BY DEF VersionsInv
<1>2. Len(history') \in Nat
  BY <1>1, LenProperties
<1>3. Current' \in 0..Len(history')
  <2>1. Current' = IF type' = "undo" THEN curedit' + 1 ELSE curedit'
    BY DEF Current
  <2>2. CASE type' = "undo"
    <3>1. curedit' \in Nat /\ curedit' < Len(history')
      BY <1>1, <2>2
    <3> DEFINE c == curedit'
               l == Len(history')
    <3>a. c \in Nat /\ l \in Nat /\ c < l
      BY <1>2, <3>1
    <3> HIDE DEF c, l
    <3>b. c + 1 \in 0..l
      BY <3>a
    <3>2. curedit' + 1 \in 0..Len(history')
      BY <3>b DEF c, l
    <3> QED  BY <2>1, <2>2, <3>2
  <2>3. CASE type' # "undo"
    BY <1>1, <2>1, <2>3
  <2> QED  BY <2>2, <2>3
<1>4. VersionsOf(history', Current', V[Current' + 1]) = V
  BY <1>1, <1>2, <1>3, VersionsAre
<1>5. Versions' = VersionsOf(history', Current', base')
  BY Zenon DEF Versions, Older, Newer, VersionsOf
<1> QED  BY <1>1, <1>2, <1>4, <1>5 DEF Chained

(* A step that leaves the history, the version and the text before the      *)
(* edit is none of UndoHistory.                                             *)
LEMMA VersionsUnchanged ==
  ASSUME UNCHANGED <<history, base>>, Current' = Current
  PROVE  UNCHANGED History!vars
<1>1. Versions' = VersionsOf(history', Current', base')
  BY Zenon DEF Versions, Older, Newer, VersionsOf
<1>2. Versions = VersionsOf(history, Current, base)
  BY VersionsAreThose
<1> QED  BY <1>1, <1>2 DEF History!vars

(* One version, of bytes.                                                   *)
LEMMA InitIsInitial == Init => History!Init
<1> SUFFICES ASSUME Init PROVE History!Init
  OBVIOUS
<1>1. PICK V : VersionsInv(V)
  BY InitHolds DEF EditInv, HistoryInv
<1>2. Current = 0 /\ Len(history) = 0
  BY DEF Init, Current
<1>3. Versions \in [1..1 -> Seq(Bytes)]
  BY <1>1, <1>2, VersionsNow
<1> QED  BY <1>2, <1>3 DEF History!Init

(* The end of an edit keeps the versions up to the current one and adds     *)
(* the text.                                                                *)
LEMMA EndIsEdit ==
  ASSUME EditInv, End
  PROVE  History!Edit
<1>1. PICK V : VersionsInv(V)
  BY DEF EditInv, HistoryInv
<1>2. PICK c \in Nat, t \in Texts : c = curedit /\ c <= Len(history) /\ VersionsInv(NewVersions(V, c, t))'
  BY <1>1, EndKeeps
<1> DEFINE W == NewVersions(V, c, t)
<1>3. Versions = V /\ V \in [1..Len(history) + 1 -> Seq(Bytes)] /\ Len(history) \in Nat
  BY <1>1, VersionsNow
<1>4. Versions' = W
  BY <1>2, VersionsLater
<1>5. Current = c /\ Current' = c + 1
  BY <1>2 DEF End, Over, Current
<1>6. DOMAIN W = 1..c + 2 /\ W[c + 2] = t /\ \A k \in 1..c + 1 : W[k] = V[k]
  BY DEF NewVersions
<1>7. W \in [1..c + 2 -> Seq(Bytes)]
  BY <1>2, <1>3, <1>6 DEF NewVersions, Texts
<1> HIDE DEF W
<1>8. W \in Seq(Seq(Bytes)) /\ Len(W) = c + 2
  BY <1>7
<1>9. V \in Seq(Seq(Bytes)) /\ Len(V) = Len(history) + 1
  BY <1>3
<1>10. SubSeq(W, 1, c + 1) = SubSeq(V, 1, c + 1)
  <2>1. /\ SubSeq(W, 1, c + 1) \in Seq(Seq(Bytes)) /\ Len(SubSeq(W, 1, c + 1)) = c + 1
        /\ \A k \in 1..c + 1 : SubSeq(W, 1, c + 1)[k] = W[k]
    BY <1>8, SubSeqProperties
  <2>2. /\ SubSeq(V, 1, c + 1) \in Seq(Seq(Bytes)) /\ Len(SubSeq(V, 1, c + 1)) = c + 1
        /\ \A k \in 1..c + 1 : SubSeq(V, 1, c + 1)[k] = V[k]
    BY <1>2, <1>3, <1>9, SubSeqProperties
  <2> DEFINE u == SubSeq(W, 1, c + 1)
             v == SubSeq(V, 1, c + 1)
  <2>3. u \in Seq(Seq(Bytes)) /\ v \in Seq(Seq(Bytes)) /\ Len(u) = c + 1 /\ Len(v) = c + 1 /\ \A k \in 1..c + 1 : u[k] = v[k]
    BY <1>6, <2>1, <2>2
  <2> HIDE DEF u, v
  <2>4. u = v
    BY <2>3, SeqEqual
  <2> QED  BY <2>4 DEF u, v
<1>11. t \in Seq(Bytes)
  BY DEF Texts
<1>12. (c + 1) + 1 = c + 2
  OBVIOUS
<1> QED  BY <1>3, <1>4, <1>5, <1>6, <1>8, <1>10, <1>11, <1>12 DEF History!Edit

(* The end of an undo or a redo makes the version before or after the       *)
(* current one.                                                             *)
LEMMA EndCustomMoves ==
  ASSUME EditInv, EndCustom
  PROVE  History!Undo \/ History!Redo
<1>1. PICK V : VersionsInv(V)
  BY DEF EditInv, HistoryInv
<1>2. /\ type = "undo" => Current' = Current - 1 /\ Current \in 1..Len(history)
      /\ type = "redo" => Current' = Current + 1 /\ Current \in 0..Len(history) - 1
      /\ VersionsInv(V)'
  BY <1>1, EndCustomKeeps
<1>3. Versions = V /\ V \in [1..Len(history) + 1 -> Seq(Bytes)] /\ Len(history) \in Nat
  BY <1>1, VersionsNow
<1>4. Versions' = V
  BY <1>2, VersionsLater
<1>5. Len(V) = Len(history) + 1
  BY <1>3
<1>6. type \in {"undo", "redo"}
  BY DEF EndCustom
<1>7. CASE type = "undo"
  BY <1>2, <1>3, <1>4, <1>7 DEF History!Undo
<1>8. CASE type = "redo"
  BY <1>2, <1>3, <1>4, <1>5, <1>8 DEF History!Redo
<1> QED  BY <1>6, <1>7, <1>8

(* Every step of the buffer is one of UndoHistory or none.                  *)
LEMMA HistoryStep == EditInv /\ [Next]_vars => [History!Next]_(History!vars)
<1> SUFFICES ASSUME EditInv, [Next]_vars
             PROVE  [History!Next]_(History!vars)
  OBVIOUS
<1>1. CASE End
  BY <1>1, EndIsEdit DEF History!Next
<1>2. CASE EndCustom
  BY <1>2, EndCustomMoves DEF History!Next
<1>3. CASE BeginUndo \/ BeginRedo
  BY <1>3, BeginUndoKeeps, BeginRedoKeeps, VersionsUnchanged
<1>4. CASE UndoStep \/ RedoStep
  BY <1>4, StepsKeep, VersionsUnchanged DEF Current
<1>5. ASSUME NEW n, NEW bytes, BeginNormal(n, bytes) PROVE UNCHANGED History!vars
  <2>1. UNCHANGED <<history, base>> /\ Current' = Current
    BY <1>5 DEF BeginNormal, Begin, Current
  <2> QED  BY <2>1, VersionsUnchanged
<1>6. ASSUME NEW pos, NEW len, Modify(pos, len) PROVE UNCHANGED History!vars
  <2>1. UNCHANGED <<history, base>> /\ Current' = Current
    BY <1>6 DEF Modify, ModifyNoFixup, Change, Current
  <2> QED  BY <2>1, VersionsUnchanged
<1>7. ASSUME NEW pos, Overwrite(pos) PROVE UNCHANGED History!vars
  <2>1. UNCHANGED <<history, base>> /\ Current' = Current
    BY <1>7 DEF Overwrite, ModifyNoFixup, Change, Current
  <2> QED  BY <2>1, VersionsUnchanged
<1>8. CASE UNCHANGED vars
  <2>1. UNCHANGED <<history, base>> /\ Current' = Current
    BY <1>8 DEF vars, Current
  <2> QED  BY <2>1, VersionsUnchanged
<1> QED  BY <1>1, <1>2, <1>3, <1>4, <1>5, <1>6, <1>7, <1>8 DEF Next

(* If overwriting replaces one byte at each caret: the buffer implements    *)
(* UndoHistory.  Undo and redo move between versions and change none,       *)
(* though an undo goes through the modifications from the first to the      *)
(* last with shifted positions.                                             *)
THEOREM UndoAndRedo == ASSUME OneByte PROVE Spec => HistorySpec
<1>1. Spec => []EditInv
  BY EditInvHolds
<1> QED  BY <1>1, InitIsInitial, HistoryStep, PTL DEF Spec, HistorySpec, History!Spec

-----------------------------------------------------------------------------
(* The search panel.                                                       *)

(* Only the task that was started last is ever queued or running, and it   *)
(* has gone as far as its phase in the pool says.                          *)
Active(t) == phase[t] \in {"pending", "taken"}
TasksInv ==
  /\ phase[current] # "new"
  /\ \A t \in Tasks :
       /\ Active(t) => t = current
       /\ phase[t] \in {"new", "pending"} => at[t] = "start"
       /\ phase[t] = "taken" => at[t] # "gone"
       /\ phase[t] = "done" => at[t] \in {"return", "gone"}
  /\ pending = IF phase[current] = "pending" THEN <<current>> ELSE <<>>

(* Only the callback of that task ever waits, and the panel has its token  *)
(* as soon as the task has stored it.                                      *)
ResultsInv ==
  /\ \A t \in Tasks :
       /\ at[t] \in {"start", "lock", "reading", "check", "post"} => fate[t] = "new"
       /\ fate[t] = "waiting" => t = current /\ (at[t] = "store" \/ resultToken = t)
       /\ fate[t] = "running" <=> running = t
  /\ waiting = IF fate[current] = "waiting" THEN <<current>> ELSE <<>>
  /\ running # NoTask => mpc = "callback"

(* While the text is changed and after the panel is gone nothing is under  *)
(* way; nothing is shown that the main thread is about to replace.         *)
Quiet == phase[current] = "done" /\ fate[current] # "waiting" /\ shown = Panel!Nothing
ModesInv ==
  /\ mpc \in {"begin", "acquire", "editing"} => version.text < MaxVersion
  /\ mpc \in {"acquire", "editing"} => Quiet
  /\ panel = "disposed" => Quiet /\ mpc \in {"idle", "acquire", "editing"}
  /\ mpc = "input" => shown = Panel!Nothing

(* What a task has read, and what its callback will show, is the current   *)
(* text; the pattern is the current one until the user types.              *)
HasRead == at[current] \in {"reading", "check", "post", "store"} \/ fate[current] = "waiting"
MatchesInv ==
  mpc # "crashed" =>
    /\ mpc # "input" /\ (Active(current) \/ fate[current] = "waiting") => input[current].pattern = version.pattern
    /\ HasRead /\ input[current].pattern # 0 => input[current].text = version.text

SearchInv == Panel!TypeOK /\ TasksInv /\ ResultsInv /\ ModesInv /\ MatchesInv /\ Panel!ResultsAreCurrent

-----------------------------------------------------------------------------

(* A change of the pattern or of the text makes another version.            *)
LEMMA VersionChanges ==
  ASSUME NEW v \in Panel!Versions, NEW n \in 0..MaxVersion
  PROVE  /\ [v EXCEPT !.pattern = n] \in Panel!Versions
         /\ [v EXCEPT !.text = n] \in Panel!Versions
BY DEF Panel!Versions

(* set_contents_region() has started the first search, of nothing.         *)
LEMMA InitKeepsInv == Panel!Init => SearchInv
<1> SUFFICES ASSUME Panel!Init PROVE SearchInv
  OBVIOUS
<1> USE PanelAssumption DEF Panel!SearchAssumption, Panel!Init, Panel!Queue!Init, Panel!FirstVersion, Panel!Versions
<1>1. Panel!TypeOK
  <2>1. pending \in Seq(Tasks) /\ waiting \in Seq(Tasks)
    OBVIOUS
  <2>2. input \in [Tasks -> Panel!Versions] /\ version \in Panel!Versions
    OBVIOUS
  <2> QED   BY <2>1, <2>2 DEF Panel!TypeOK
<1>2. TasksInv
  BY DEF TasksInv, Active
<1>3. ResultsInv
  BY DEF ResultsInv
<1>4. ModesInv
  BY DEF ModesInv
<1>5. MatchesInv
  BY DEF MatchesInv, HasRead, Active
<1>6. Panel!ResultsAreCurrent
  BY DEF Panel!ResultsAreCurrent
<1> QED   BY <1>1, <1>2, <1>3, <1>4, <1>5, <1>6 DEF SearchInv

(* A worker takes the task that waits, which is the current one.           *)
LEMMA TakeKeepsInv ==
  ASSUME SearchInv, Panel!Take
  PROVE  SearchInv'
<1> USE DEF SearchInv, Panel!Take, Panel!Pool!Take, Panel!queueVars, Panel!taskVars, Panel!bufferVars
<1>1. current \in Tasks /\ phase[current] = "pending" /\ pending = <<current>>
  BY DEF Panel!TypeOK, TasksInv
<1>2. phase' = [phase EXCEPT ![current] = "taken"] /\ pending' = <<>>
  BY <1>1
<1>3. Panel!TypeOK'
  BY <1>1, <1>2 DEF Panel!TypeOK
<1>4. TasksInv'
  BY <1>1, <1>2 DEF TasksInv, Panel!TypeOK, Active
<1>5. ResultsInv'
  BY DEF ResultsInv
<1>6. ModesInv'
  BY <1>1 DEF ModesInv, Quiet
<1>7. MatchesInv'
  BY <1>1, <1>2 DEF MatchesInv, HasRead, Active
<1>8. Panel!ResultsAreCurrent'
  BY DEF Panel!ResultsAreCurrent, Panel!Nothing
<1> QED   BY <1>3, <1>4, <1>5, <1>6, <1>7, <1>8

(* What a worker does in execute().  A task that has not ended is the      *)
(* current one, and neither is the text being changed nor the panel gone.  *)
LEMMA TaskStepKeepsInv ==
  ASSUME SearchInv, NEW t \in Tasks, Panel!TaskStep(t)
  PROVE  SearchInv'
<1> USE DEF SearchInv, Panel!Goes, Panel!bufferVars, Panel!poolVars, Panel!queueVars, Panel!taskVars
<1>1. CASE Panel!StartMatch(t)
  <2> USE <1>1 DEF Panel!StartMatch
  <2>1. Panel!TypeOK'
    BY DEF Panel!TypeOK
  <2>2. TasksInv'
    BY DEF TasksInv, Panel!TypeOK, Active
  <2>3. ResultsInv'
    BY DEF ResultsInv, Panel!TypeOK
  <2>4. ModesInv'
    BY DEF ModesInv, Quiet
  <2>5. MatchesInv'
    BY DEF MatchesInv, HasRead, Active, Panel!TypeOK, TasksInv, ResultsInv
  <2>6. Panel!ResultsAreCurrent'
    BY DEF Panel!ResultsAreCurrent, Panel!Nothing
  <2> QED   BY <2>1, <2>2, <2>3, <2>4, <2>5, <2>6
<1>2. CASE Panel!BeginRead(t)
  <2> USE <1>2 DEF Panel!BeginRead
  <2>1. Panel!TypeOK'
    BY DEF Panel!TypeOK, Panel!Versions
  <2>2. TasksInv'
    BY DEF TasksInv, Panel!TypeOK, Active
  <2>3. ResultsInv'
    BY DEF ResultsInv, TasksInv, Panel!TypeOK, Active
  <2>4. ModesInv'
    BY DEF ModesInv, Quiet, Panel!TypeOK, TasksInv, Active
  <2>5. MatchesInv'
    BY DEF MatchesInv, HasRead, Active, Panel!TypeOK, TasksInv, ResultsInv
  <2>6. Panel!ResultsAreCurrent'
    BY DEF Panel!ResultsAreCurrent, Panel!Nothing
  <2> QED   BY <2>1, <2>2, <2>3, <2>4, <2>5, <2>6
<1>3. CASE Panel!EndRead(t)
  <2> USE <1>3 DEF Panel!EndRead
  <2>1. Panel!TypeOK'
    BY DEF Panel!TypeOK
  <2>2. TasksInv'
    BY DEF TasksInv, Panel!TypeOK, Active
  <2>3. ResultsInv'
    BY DEF ResultsInv, TasksInv, Panel!TypeOK, Active
  <2>4. ModesInv'
    BY DEF ModesInv, Quiet, Panel!TypeOK, TasksInv, Active
  <2>5. MatchesInv'
    BY DEF MatchesInv, HasRead, Active, Panel!TypeOK, TasksInv, ResultsInv
  <2>6. Panel!ResultsAreCurrent'
    BY DEF Panel!ResultsAreCurrent, Panel!Nothing
  <2> QED   BY <2>1, <2>2, <2>3, <2>4, <2>5, <2>6
<1>4. CASE Panel!CheckCancelled(t)
  <2> USE <1>4 DEF Panel!CheckCancelled
  <2>1. Panel!TypeOK'
    BY DEF Panel!TypeOK
  <2>2. TasksInv'
    BY DEF TasksInv, Panel!TypeOK, Active
  <2>3. ResultsInv'
    BY DEF ResultsInv, TasksInv, Panel!TypeOK, Active
  <2>4. ModesInv'
    BY DEF ModesInv, Quiet, Panel!TypeOK, TasksInv, Active
  <2>5. MatchesInv'
    BY DEF MatchesInv, HasRead, Active, Panel!TypeOK, TasksInv, ResultsInv
  <2>6. Panel!ResultsAreCurrent'
    BY DEF Panel!ResultsAreCurrent, Panel!Nothing
  <2> QED   BY <2>1, <2>2, <2>3, <2>4, <2>5, <2>6
<1>5. CASE Panel!PostResult(t)
  <2> USE <1>5 DEF Panel!PostResult
  <2>1. Panel!TypeOK'
    BY DEF Panel!TypeOK, Panel!Queue!Post
  <2>2. TasksInv'
    BY DEF TasksInv, Panel!TypeOK, Active
  <2>3. ResultsInv'
    BY DEF ResultsInv, TasksInv, Panel!TypeOK, Active, Panel!Queue!Post
  <2>4. ModesInv'
    BY DEF ModesInv, Quiet, Panel!TypeOK, TasksInv, Active
  <2>5. MatchesInv'
    BY DEF MatchesInv, HasRead, Active, Panel!TypeOK, TasksInv, ResultsInv
  <2>6. Panel!ResultsAreCurrent'
    BY DEF Panel!ResultsAreCurrent, Panel!Nothing
  <2> QED   BY <2>1, <2>2, <2>3, <2>4, <2>5, <2>6
<1>6. CASE Panel!StoreToken(t)
  <2> USE <1>6 DEF Panel!StoreToken
  <2>1. Panel!TypeOK'
    BY DEF Panel!TypeOK
  <2>2. TasksInv'
    BY DEF TasksInv, Panel!TypeOK, Active
  <2>3. ResultsInv'
    BY DEF ResultsInv, TasksInv, Panel!TypeOK, Active
  <2>4. ModesInv'
    BY DEF ModesInv, Quiet, Panel!TypeOK, TasksInv, Active
  <2>5. MatchesInv'
    BY DEF MatchesInv, HasRead, Active, Panel!TypeOK, TasksInv, ResultsInv
  <2>6. Panel!ResultsAreCurrent'
    BY DEF Panel!ResultsAreCurrent, Panel!Nothing
  <2> QED   BY <2>1, <2>2, <2>3, <2>4, <2>5, <2>6
<1>7. CASE Panel!Finish(t)
  <2> USE <1>7 DEF Panel!Finish, Panel!Pool!Complete
  <2>1. Panel!TypeOK'
    BY DEF Panel!TypeOK
  <2>2. TasksInv'
    BY DEF TasksInv, Panel!TypeOK, Active
  <2>3. ResultsInv'
    BY DEF ResultsInv, TasksInv, Panel!TypeOK, Active
  <2>4. ModesInv'
    BY DEF ModesInv, Quiet, Panel!TypeOK, TasksInv, Active
  <2>5. MatchesInv'
    BY DEF MatchesInv, HasRead, Active, Panel!TypeOK, TasksInv, ResultsInv
  <2>6. Panel!ResultsAreCurrent'
    BY DEF Panel!ResultsAreCurrent, Panel!Nothing
  <2> QED   BY <2>1, <2>2, <2>3, <2>4, <2>5, <2>6
<1>8. CASE Panel!Discard(t)
  <2> USE <1>8 DEF Panel!Discard
  <2>1. Panel!TypeOK'
    BY DEF Panel!TypeOK
  <2>2. TasksInv'
    BY DEF TasksInv, Panel!TypeOK, Active
  <2>3. ResultsInv'
    BY DEF ResultsInv, TasksInv, Panel!TypeOK, Active
  <2>4. ModesInv'
    BY DEF ModesInv, Quiet, Panel!TypeOK, TasksInv, Active
  <2>5. MatchesInv'
    BY DEF MatchesInv, HasRead, Active, Panel!TypeOK, TasksInv, ResultsInv
  <2>6. Panel!ResultsAreCurrent'
    BY DEF Panel!ResultsAreCurrent, Panel!Nothing
  <2> QED   BY <2>1, <2>2, <2>3, <2>4, <2>5, <2>6
<1> QED
  BY <1>1, <1>2, <1>3, <1>4, <1>5, <1>6, <1>7, <1>8 DEF Panel!TaskStep

(* When its task has ended, the callback that waits is the one that the    *)
(* token refers to, and is taken back.                                     *)
LEMMA CancelResultTakesBack ==
  ASSUME Panel!TypeOK, TasksInv, ResultsInv, Panel!Waited, Panel!CancelResult
  PROVE  /\ phase[current] = "done"
         /\ resultToken' = NoTask /\ waiting' = <<>> /\ running' = running
         /\ fate' = [t \in Tasks |-> IF fate[t] = "waiting" THEN "cancelled" ELSE fate[t]]
<1> USE PanelAssumption DEF Panel!SearchAssumption
<1>1. phase[current] = "done" /\ at[current] \in {"return", "gone"}
  BY DEF TasksInv, Panel!TypeOK, Panel!Waited, Panel!HasTask
<1>2. CASE fate[current] = "waiting"
  <2>1. resultToken = current /\ waiting = <<current>>
    BY <1>1, <1>2 DEF ResultsInv, Panel!TypeOK
  <2>2. RemoveAt(waiting, 1) = <<>>
    <3>1. waiting \in Seq(Tasks) /\ Len(waiting) = 1 /\ 1 \in 1..Len(waiting)
      BY <2>1 DEF Panel!TypeOK
    <3>2. RemoveAt(waiting, 1) \in Seq(Tasks) /\ Len(RemoveAt(waiting, 1)) = 0
      <4>1. RemoveAt(waiting, 1) \in Seq(Tasks) /\ Len(RemoveAt(waiting, 1)) = Len(waiting) - 1
        BY <3>1, RemoveAtProperties, Zenon
      <4> QED   BY <3>1, <4>1
    <3> QED   BY <3>2, EmptySeq
  <2>3. Panel!Queue!Cancel(current)
    BY <1>2, <2>1 DEF Panel!CancelResult, Panel!TypeOK
  <2>4. waiting' = <<>>
    <3>1. \E i \in 1..Len(waiting) : waiting' = RemoveAt(waiting, i)
      BY <2>3, Zenon DEF Panel!Queue!Cancel, Panel!Queue!RemoveAt, RemoveAt
    <3>2. 1..Len(waiting) = {1}
      BY <2>1
    <3> QED   BY <2>2, <3>1, <3>2, Zenon
  <2>5. fate' = [t \in Tasks |-> IF fate[t] = "waiting" THEN "cancelled" ELSE fate[t]]
    BY <1>2, <2>3 DEF Panel!Queue!Cancel, ResultsInv, Panel!TypeOK
  <2> QED   BY <1>1, <2>3, <2>4, <2>5 DEF Panel!CancelResult, Panel!Queue!Cancel
<1>3. CASE fate[current] # "waiting"
  <2>1. UNCHANGED Panel!queueVars /\ \A t \in Tasks : fate[t] # "waiting"
    BY <1>3 DEF Panel!CancelResult, ResultsInv, Panel!TypeOK
  <2> QED   BY <1>1, <1>3, <2>1 DEF Panel!CancelResult, Panel!queueVars, ResultsInv, Panel!TypeOK
<1> QED   BY <1>2, <1>3

(* The steps that only tell the task to stop, or lock the buffer.          *)
LEMMA RequestKeepsInv ==
  ASSUME SearchInv,
         \/ Panel!ChangePattern \/ Panel!BeginEdit \/ Panel!Close
         \/ Panel!Dispose \/ Panel!AcquireLock \/ Panel!EndEdit
  PROVE  SearchInv'
<1> USE PanelAssumption DEF Panel!SearchAssumption, SearchInv, Panel!Cancel, Panel!CancelAndGo, Panel!Clear, Panel!bufferVars,
        Panel!poolVars, Panel!queueVars, Panel!taskVars
<1>1. CASE Panel!ChangePattern
  <2> USE <1>1 DEF Panel!ChangePattern
  <2>1. Panel!TypeOK'
    <3>1. version.pattern \in 0..MaxVersion /\ version.pattern < MaxVersion
      BY DEF Panel!TypeOK, Panel!Versions
    <3>2. version' \in Panel!Versions
      <4>1. version.pattern + 1 \in 0..MaxVersion
        BY <3>1
      <4> QED   BY <4>1, VersionChanges DEF Panel!TypeOK
    <3> QED   BY <3>2 DEF Panel!TypeOK
  <2>2. TasksInv'
    BY DEF TasksInv, Panel!TypeOK, Active
  <2>3. ResultsInv'
    BY DEF ResultsInv, TasksInv, Panel!TypeOK, Active
  <2>4. ModesInv'
    BY DEF ModesInv, Quiet, Panel!TypeOK, TasksInv, Active
  <2>5. MatchesInv'
    BY DEF MatchesInv, HasRead, Active, Panel!TypeOK, TasksInv, ResultsInv, ModesInv, Quiet, Panel!Versions
  <2>6. Panel!ResultsAreCurrent'
    BY DEF Panel!ResultsAreCurrent, Panel!Nothing, ModesInv, Quiet
  <2> QED   BY <2>1, <2>2, <2>3, <2>4, <2>5, <2>6
<1>2. CASE Panel!BeginEdit
  <2> USE <1>2 DEF Panel!BeginEdit
  <2>1. Panel!TypeOK'
    BY DEF Panel!TypeOK, Panel!Versions, ModesInv
  <2>2. TasksInv'
    BY DEF TasksInv, Panel!TypeOK, Active
  <2>3. ResultsInv'
    BY DEF ResultsInv, TasksInv, Panel!TypeOK, Active
  <2>4. ModesInv'
    BY DEF ModesInv, Quiet, Panel!TypeOK, TasksInv, Active
  <2>5. MatchesInv'
    BY DEF MatchesInv, HasRead, Active, Panel!TypeOK, TasksInv, ResultsInv, ModesInv, Quiet, Panel!Versions
  <2>6. Panel!ResultsAreCurrent'
    BY DEF Panel!ResultsAreCurrent, Panel!Nothing, ModesInv, Quiet
  <2> QED   BY <2>1, <2>2, <2>3, <2>4, <2>5, <2>6
<1>3. CASE Panel!Close
  <2> USE <1>3 DEF Panel!Close
  <2>1. Panel!TypeOK'
    BY DEF Panel!TypeOK, Panel!Versions
  <2>2. TasksInv'
    BY DEF TasksInv, Panel!TypeOK, Active
  <2>3. ResultsInv'
    BY DEF ResultsInv, TasksInv, Panel!TypeOK, Active
  <2>4. ModesInv'
    BY DEF ModesInv, Quiet, Panel!TypeOK, TasksInv, Active
  <2>5. MatchesInv'
    BY DEF MatchesInv, HasRead, Active, Panel!TypeOK, TasksInv, ResultsInv, ModesInv, Quiet, Panel!Versions
  <2>6. Panel!ResultsAreCurrent'
    BY DEF Panel!ResultsAreCurrent, Panel!Nothing, ModesInv, Quiet
  <2> QED   BY <2>1, <2>2, <2>3, <2>4, <2>5, <2>6
<1>4. CASE Panel!Dispose
  <2> USE <1>4 DEF Panel!Dispose
  <2>1. Panel!TypeOK'
    BY DEF Panel!TypeOK, Panel!Versions
  <2>2. TasksInv'
    BY DEF TasksInv, Panel!TypeOK, Active
  <2>3. ResultsInv'
    BY DEF ResultsInv, TasksInv, Panel!TypeOK, Active
  <2>4. ModesInv'
    BY DEF ModesInv, Quiet, Panel!TypeOK, TasksInv, Active
  <2>5. MatchesInv'
    BY DEF MatchesInv, HasRead, Active, Panel!TypeOK, TasksInv, ResultsInv, ModesInv, Quiet, Panel!Versions
  <2>6. Panel!ResultsAreCurrent'
    BY DEF Panel!ResultsAreCurrent, Panel!Nothing, ModesInv, Quiet
  <2> QED   BY <2>1, <2>2, <2>3, <2>4, <2>5, <2>6
<1>5. CASE Panel!AcquireLock
  <2> USE <1>5 DEF Panel!AcquireLock
  <2>1. Panel!TypeOK'
    BY DEF Panel!TypeOK
  <2>2. TasksInv'
    BY DEF TasksInv, Panel!TypeOK, Active
  <2>3. ResultsInv'
    BY DEF ResultsInv, TasksInv, Panel!TypeOK, Active
  <2>4. ModesInv'
    BY DEF ModesInv, Quiet, Panel!TypeOK, TasksInv, Active
  <2>5. MatchesInv'
    BY DEF MatchesInv, HasRead, Active, Panel!TypeOK, TasksInv, ResultsInv
  <2>6. Panel!ResultsAreCurrent'
    BY DEF Panel!ResultsAreCurrent, Panel!Nothing
  <2> QED   BY <2>1, <2>2, <2>3, <2>4, <2>5, <2>6
<1>6. CASE Panel!EndEdit
  <2> USE <1>6 DEF Panel!EndEdit
  <2>1. Panel!TypeOK'
    <3>1. version.text \in 0..MaxVersion /\ version.text < MaxVersion
      BY DEF Panel!TypeOK, Panel!Versions, ModesInv
    <3>2. version' \in Panel!Versions
      <4>1. version.text + 1 \in 0..MaxVersion
        BY <3>1
      <4> QED   BY <4>1, VersionChanges DEF Panel!TypeOK
    <3> QED   BY <3>2 DEF Panel!TypeOK
  <2>2. TasksInv'
    BY DEF TasksInv, Panel!TypeOK, Active
  <2>3. ResultsInv'
    BY DEF ResultsInv, TasksInv, Panel!TypeOK, Active
  <2>4. ModesInv'
    BY DEF ModesInv, Quiet, Panel!TypeOK, TasksInv, Active
  <2>5. MatchesInv'
    BY DEF MatchesInv, HasRead, Active, Panel!TypeOK, TasksInv, ResultsInv, ModesInv, Quiet, Panel!Versions
  <2>6. Panel!ResultsAreCurrent'
    BY DEF Panel!ResultsAreCurrent, Panel!Nothing, ModesInv, Quiet
  <2> QED   BY <2>1, <2>2, <2>3, <2>4, <2>5, <2>6
<1> QED
  BY <1>1, <1>2, <1>3, <1>4, <1>5, <1>6

(* The steps that have waited for the task and take back its result.       *)
LEMMA WaitedKeepsInv ==
  ASSUME SearchInv, Panel!InputWaited \/ Panel!BeginEditWaited \/ Panel!CloseWaited \/ Panel!DisposeWaited
  PROVE  SearchInv'
<1> USE DEF SearchInv, Panel!Clear, Panel!bufferVars, Panel!poolVars, Panel!taskVars
<1>0. /\ phase[current] = "done" /\ resultToken' = NoTask /\ waiting' = <<>> /\ running' = running
      /\ fate' = [t \in Tasks |-> IF fate[t] = "waiting" THEN "cancelled" ELSE fate[t]]
  BY CancelResultTakesBack DEF Panel!InputWaited, Panel!BeginEditWaited, Panel!CloseWaited, Panel!DisposeWaited
<1>1. CASE Panel!InputWaited
  <2> USE <1>0, <1>1 DEF Panel!InputWaited
  <2>1. Panel!TypeOK'
    <3>1. PICK t \in Tasks : /\ pending' = Append(pending, t) /\ current' = t
                             /\ input' = [input EXCEPT ![t] = [input[t] EXCEPT !.pattern = version.pattern]]
      BY DEF Panel!Unstarted, Panel!Pool!Submit
    <3>2. input' \in [Tasks -> Panel!Versions]
      BY <3>1, VersionChanges DEF Panel!TypeOK, Panel!Versions
    <3>3. pending' \in Seq(Tasks)
      BY <3>1, AppendProperties DEF Panel!TypeOK
    <3>4. phase' \in [Tasks -> {"new", "pending", "taken", "done"}]
      BY DEF Panel!TypeOK, Panel!Unstarted, Panel!Pool!Submit
    <3> QED   BY <3>1, <3>2, <3>3, <3>4, EmptySeq DEF Panel!TypeOK
  <2>2. TasksInv'
    BY DEF TasksInv, Panel!TypeOK, Active, Panel!Unstarted, Panel!Pool!Submit
  <2>3. ResultsInv'
    BY DEF ResultsInv, TasksInv, Panel!TypeOK, Active, Panel!Unstarted, Panel!Pool!Submit
  <2>4. ModesInv'
    BY DEF ModesInv, Quiet, Panel!TypeOK, TasksInv, Active, Panel!Unstarted
  <2>5. MatchesInv'
    BY DEF MatchesInv, HasRead, Active, Panel!TypeOK, TasksInv, ResultsInv, Panel!Unstarted, Panel!Versions
  <2>6. Panel!ResultsAreCurrent'
    BY DEF Panel!ResultsAreCurrent, Panel!Nothing, ModesInv, Quiet
  <2> QED   BY <2>1, <2>2, <2>3, <2>4, <2>5, <2>6
<1>2. CASE Panel!BeginEditWaited
  <2> USE <1>0, <1>2 DEF Panel!BeginEditWaited
  <2>1. Panel!TypeOK'
    BY DEF Panel!TypeOK
  <2>2. TasksInv'
    BY DEF TasksInv, Panel!TypeOK, Active
  <2>3. ResultsInv'
    BY DEF ResultsInv, TasksInv, Panel!TypeOK, Active
  <2>4. ModesInv'
    BY DEF ModesInv, Quiet, Panel!TypeOK, TasksInv, Active
  <2>5. MatchesInv'
    BY DEF MatchesInv, HasRead, Active, Panel!TypeOK, TasksInv, ResultsInv
  <2>6. Panel!ResultsAreCurrent'
    BY DEF Panel!ResultsAreCurrent, Panel!Nothing, ModesInv, Quiet
  <2> QED   BY <2>1, <2>2, <2>3, <2>4, <2>5, <2>6
<1>3. CASE Panel!CloseWaited
  <2> USE <1>0, <1>3 DEF Panel!CloseWaited
  <2>1. Panel!TypeOK'
    BY DEF Panel!TypeOK
  <2>2. TasksInv'
    BY DEF TasksInv, Panel!TypeOK, Active
  <2>3. ResultsInv'
    BY DEF ResultsInv, TasksInv, Panel!TypeOK, Active
  <2>4. ModesInv'
    BY DEF ModesInv, Quiet, Panel!TypeOK, TasksInv, Active
  <2>5. MatchesInv'
    BY DEF MatchesInv, HasRead, Active, Panel!TypeOK, TasksInv, ResultsInv
  <2>6. Panel!ResultsAreCurrent'
    BY DEF Panel!ResultsAreCurrent, Panel!Nothing, ModesInv, Quiet
  <2> QED   BY <2>1, <2>2, <2>3, <2>4, <2>5, <2>6
<1>4. CASE Panel!DisposeWaited
  <2> USE <1>0, <1>4 DEF Panel!DisposeWaited
  <2>1. Panel!TypeOK'
    BY DEF Panel!TypeOK
  <2>2. TasksInv'
    BY DEF TasksInv, Panel!TypeOK, Active
  <2>3. ResultsInv'
    BY DEF ResultsInv, TasksInv, Panel!TypeOK, Active
  <2>4. ModesInv'
    BY DEF ModesInv, Quiet, Panel!TypeOK, TasksInv, Active
  <2>5. MatchesInv'
    BY DEF MatchesInv, HasRead, Active, Panel!TypeOK, TasksInv, ResultsInv
  <2>6. Panel!ResultsAreCurrent'
    BY DEF Panel!ResultsAreCurrent, Panel!Nothing, ModesInv, Quiet
  <2> QED   BY <2>1, <2>2, <2>3, <2>4, <2>5, <2>6
<1> QED
  BY <1>1, <1>2, <1>3, <1>4

(* The callback that waits is that of the current task.                    *)
LEMMA CallbackKeepsInv ==
  ASSUME SearchInv, Panel!StartCallback \/ Panel!EndCallback
  PROVE  SearchInv'
<1> USE PanelAssumption DEF Panel!SearchAssumption, SearchInv, Panel!bufferVars, Panel!poolVars, Panel!taskVars
<1>1. CASE Panel!StartCallback
  <2> USE <1>1 DEF Panel!StartCallback
  <2>1. Panel!TypeOK'
    BY DEF Panel!TypeOK, ResultsInv, Panel!Queue!Start
  <2>2. TasksInv'
    BY DEF TasksInv, Active
  <2>3. ResultsInv'
    BY DEF ResultsInv, Panel!TypeOK, Panel!Queue!Start
  <2>4. ModesInv'
    BY DEF ModesInv, Quiet, Panel!TypeOK, ResultsInv, Panel!Queue!Start
  <2>5. MatchesInv'
    BY DEF MatchesInv, HasRead, Active, Panel!TypeOK, ResultsInv, Panel!Queue!Start
  <2>6. Panel!ResultsAreCurrent'
    BY DEF Panel!ResultsAreCurrent, Panel!Nothing, MatchesInv, HasRead, ResultsInv, Panel!TypeOK, Panel!Queue!Start
  <2> QED   BY <2>1, <2>2, <2>3, <2>4, <2>5, <2>6
<1>2. CASE Panel!EndCallback
  <2> USE <1>2 DEF Panel!EndCallback
  <2>1. Panel!TypeOK'
    BY DEF Panel!TypeOK, ResultsInv, Panel!Queue!Finish
  <2>2. TasksInv'
    BY DEF TasksInv, Active
  <2>3. ResultsInv'
    BY DEF ResultsInv, Panel!TypeOK, Panel!Queue!Finish
  <2>4. ModesInv'
    BY DEF ModesInv, Quiet, Panel!TypeOK, ResultsInv, Panel!Queue!Finish
  <2>5. MatchesInv'
    BY DEF MatchesInv, HasRead, Active, Panel!TypeOK, ResultsInv, Panel!Queue!Finish
  <2>6. Panel!ResultsAreCurrent'
    BY DEF Panel!ResultsAreCurrent, Panel!Nothing, MatchesInv, HasRead, ResultsInv, Panel!TypeOK, Panel!Queue!Finish
  <2> QED   BY <2>1, <2>2, <2>3, <2>4, <2>5, <2>6
<1> QED
  BY <1>1, <1>2

(* The invariant says nothing but of the variables.                         *)
LEMMA StutterKeepsInv == SearchInv /\ UNCHANGED Panel!vars => SearchInv'
BY DEF SearchInv, Panel!vars, Panel!TypeOK, TasksInv, Active, ResultsInv, ModesInv, Quiet, MatchesInv, HasRead,
     Panel!ResultsAreCurrent

(* Every step keeps the invariant.                                          *)
LEMMA NextKeepsInv ==
  SearchInv /\ [Panel!Next]_(Panel!vars) => SearchInv'
BY TakeKeepsInv, TaskStepKeepsInv, RequestKeepsInv, WaitedKeepsInv, CallbackKeepsInv, StutterKeepsInv
   DEF Panel!Next, Panel!MainStep, Panel!UserStep, Panel!WorkerStep

(* The inductive invariant.                                                 *)
LEMMA SearchInvHolds == Panel!Spec => []SearchInv
BY InitKeepsInv, NextKeepsInv, PTL DEF Panel!Spec

-----------------------------------------------------------------------------
(* Tasks and callbacks refer to the panel by pointers: it is there as long *)
(* as one of them may use it, and no task is at or before the place where  *)
(* it stores its token while the main thread uses that.                    *)
THEOREM PanelOutlives == Panel!Spec => []PanelLifetimeInv
<1>1. SearchInv => PanelLifetimeInv
  <2> SUFFICES ASSUME SearchInv PROVE PanelLifetimeInv
    OBVIOUS
  <2> USE PanelAssumption DEF SearchInv, Panel!SearchAssumption
  <2>1. Panel!PanelOutlivesTask
    BY DEF Panel!PanelOutlivesTask, ModesInv, Quiet, TasksInv, ResultsInv, Active, Panel!TypeOK
  <2>2. Panel!TokenNotShared
    BY DEF Panel!TokenNotShared, Panel!ReadsToken, Panel!Waited, Panel!HasTask, TasksInv, Active, Panel!TypeOK
  <2> QED   BY <2>1, <2>2 DEF PanelLifetimeInv, Panel!PanelLifetimeInv
<1> QED   BY <1>1, SearchInvHolds, PTL

(* The matches that are shown are never those of an earlier pattern or     *)
(* text, however late a task or its callback is.                           *)
THEOREM MatchesAreCurrent == Panel!Spec => []ResultsAreCurrent
<1>1. SearchInv => ResultsAreCurrent
  BY DEF SearchInv, ResultsAreCurrent
<1> QED   BY <1>1, SearchInvHolds, PTL
=============================================================================
