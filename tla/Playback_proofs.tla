-------------------------- MODULE Playback_proofs --------------------------
(***************************************************************************)
(* Proofs about Playback for any notes, any number of voices, any lengths  *)
(* and whatever the player does: the invariants of the voice allocator,    *)
(* that the voices play what VoicePolicy promises and follow the keys,     *)
(* that their tasks know how long the notes have lasted, and that the      *)
(* parameters have the values of their last changes.                       *)
(***************************************************************************)
EXTENDS Playback, VoiceAllocator_proofs

-----------------------------------------------------------------------------
(* MergeSorted is a stable sort.  An arrangement of s is given by the      *)
(* indices of its values in s.                                             *)

Comparable(S) == \A e \in S : SortKey(e) \in Int /\ e.at \in Int

\* The value at a has to come before the one at b: values of one key and time keep their order.
Prior(s, a, b) == Before(s[a], s[b]) \/ (~Before(s[b], s[a]) /\ a < b)

Arranges(s, p, t) ==
  /\ \A i \in 1 .. Len(t) : t[i] = s[p[i]]
  /\ \A i, j \in 1 .. Len(t) : i < j => Prior(s, p[i], p[j])

\* t holds the values of s in order, each once: as Prior is strict, p is one-to-one.
StableOrder(s, t) ==
  /\ Len(t) = Len(s)
  /\ \E p \in [1 .. Len(s) -> 1 .. Len(s)] : Arranges(s, p, t)

\* Prior is a strict order of the indices, and of two different ones one is prior.
LEMMA PriorIsOrder ==
  ASSUME NEW S, Comparable(S), NEW s \in Seq(S),
         NEW a \in 1 .. Len(s), NEW b \in 1 .. Len(s), NEW c \in 1 .. Len(s)
  PROVE  /\ Prior(s, a, b) /\ Prior(s, b, c) => Prior(s, a, c)
         /\ ~Prior(s, a, a)
         /\ a # b => Prior(s, a, b) \/ Prior(s, b, a)
<1>1. s[a] \in S /\ s[b] \in S /\ s[c] \in S
  OBVIOUS
<1>2. /\ SortKey(s[a]) \in Int /\ SortKey(s[b]) \in Int /\ SortKey(s[c]) \in Int
      /\ s[a].at \in Int /\ s[b].at \in Int /\ s[c].at \in Int
  BY <1>1 DEF Comparable
<1> QED
  BY <1>2 DEF Prior, Before

\* left has the first h values of s as p arranges them and right the others as q does.
Halves(S, s, h, left, right, p, q) ==
  /\ Comparable(S) /\ s \in Seq(S) /\ h \in 0 .. Len(s)
  /\ left \in Seq(S) /\ Len(left) = h /\ right \in Seq(S) /\ Len(right) = Len(s) - h
  /\ p \in [1 .. h -> 1 .. h] /\ Arranges(s, p, left)
  /\ q \in [1 .. Len(s) - h -> h + 1 .. Len(s)] /\ Arranges(s, q, right)

\* What o arranges is prior to all but the first l values of left and the first r of right.
Ahead(s, left, right, p, q, o, l, r) ==
  \A i \in 1 .. l + r : /\ \A j \in 1 .. Len(left) : j > l => Prior(s, o[i], p[j])
                        /\ \A j \in 1 .. Len(right) : j > r => Prior(s, o[i], q[j])

\* The scratch buffer t when the merge has taken l values of left and r of right.
Gathered(S, s, left, right, p, q, l, r, t) ==
  /\ t \in Seq(S) /\ Len(t) = l + r /\ l \in 0 .. Len(left) /\ r \in 0 .. Len(right)
  /\ \E o \in [1 .. l + r -> 1 .. Len(s)] :
       Arranges(s, o, t) /\ Ahead(s, left, right, p, q, o, l, r)

\* In each half what is first is prior, and the merge takes the one that is prior.
LEMMA HalvesAre ==
  ASSUME NEW S, NEW s, NEW h, NEW left, NEW right, NEW p, NEW q, Halves(S, s, h, left, right, p, q)
  PROVE  /\ Len(left) \in Nat /\ Len(right) \in Nat /\ Len(s) \in Nat /\ Len(s) = Len(left) + Len(right)
         /\ \A i \in 1 .. Len(left) : p[i] \in 1 .. Len(s) /\ left[i] = s[p[i]]
         /\ \A i \in 1 .. Len(right) : q[i] \in 1 .. Len(s) /\ right[i] = s[q[i]]
         /\ \A i, j \in 1 .. Len(left) : i < j => Prior(s, p[i], p[j])
         /\ \A i, j \in 1 .. Len(right) : i < j => Prior(s, q[i], q[j])
         /\ \A i \in 1 .. Len(left), j \in 1 .. Len(right) :
              IF TakesLeft(left[i], right[j]) THEN Prior(s, p[i], q[j]) ELSE Prior(s, q[j], p[i])
<1>1. /\ s \in Seq(S) /\ h \in 0 .. Len(s)
      /\ left \in Seq(S) /\ Len(left) = h /\ right \in Seq(S) /\ Len(right) = Len(s) - h
      /\ p \in [1 .. h -> 1 .. h] /\ q \in [1 .. Len(s) - h -> h + 1 .. Len(s)]
  BY DEF Halves
<1>2. Len(left) \in Nat /\ Len(right) \in Nat /\ Len(s) \in Nat /\ Len(s) = Len(left) + Len(right)
  BY <1>1
<1>3. \A i \in 1 .. Len(left) : p[i] \in 1 .. h
  BY <1>1
<1>4. \A i \in 1 .. Len(right) : q[i] \in h + 1 .. Len(s)
  BY <1>1
<1>5. /\ \A i \in 1 .. Len(left) : left[i] = s[p[i]]
      /\ \A i, j \in 1 .. Len(left) : i < j => Prior(s, p[i], p[j])
  BY DEF Halves, Arranges
<1>6. /\ \A i \in 1 .. Len(right) : right[i] = s[q[i]]
      /\ \A i, j \in 1 .. Len(right) : i < j => Prior(s, q[i], q[j])
  BY DEF Halves, Arranges
<1>7. ASSUME NEW i \in 1 .. Len(left), NEW j \in 1 .. Len(right)
      PROVE  IF TakesLeft(left[i], right[j]) THEN Prior(s, p[i], q[j]) ELSE Prior(s, q[j], p[i])
  <2>1. p[i] < q[j]
    BY <1>1, <1>3, <1>4
  <2> QED
    BY <1>5, <1>6, <2>1 DEF TakesLeft, Prior
<1>8. /\ \A i \in 1 .. Len(left) : p[i] \in 1 .. Len(s)
      /\ \A i \in 1 .. Len(right) : q[i] \in 1 .. Len(s)
  BY <1>1, <1>3, <1>4
<1> QED
  BY <1>2, <1>5, <1>6, <1>7, <1>8

OneMore(o, k, a) == [i \in 1 .. k + 1 |-> IF i = k + 1 THEN a ELSE o[i]]

\* An arrangement goes on with an index that nothing in it comes after.
LEMMA ArrangedOneMore ==
  ASSUME NEW S, NEW s \in Seq(S), NEW k \in Nat, NEW o \in [1 .. k -> 1 .. Len(s)],
         NEW t \in Seq(S), Len(t) = k, Arranges(s, o, t),
         NEW a \in 1 .. Len(s), \A i \in 1 .. k : Prior(s, o[i], a)
  PROVE  /\ Append(t, s[a]) \in Seq(S) /\ Len(Append(t, s[a])) = k + 1
         /\ OneMore(o, k, a) \in [1 .. k + 1 -> 1 .. Len(s)]
         /\ Arranges(s, OneMore(o, k, a), Append(t, s[a]))
<1> DEFINE w == OneMore(o, k, a)
           u == Append(t, s[a])
<1>1. s[a] \in S
  OBVIOUS
<1>2. /\ u \in Seq(S) /\ Len(u) = k + 1 /\ u[k + 1] = s[a]
      /\ \A i \in 1 .. k : u[i] = t[i]
  BY <1>1, AppendProperties
<1>3. w \in [1 .. k + 1 -> 1 .. Len(s)]
  BY DEF OneMore
<1>4. /\ \A i \in 1 .. k + 1 : i # k + 1 => i \in 1 .. k
      /\ \A i \in 1 .. k : w[i] = o[i]
      /\ w[k + 1] = a
      /\ \A i \in 1 .. k + 1 : w[i] = IF i = k + 1 THEN a ELSE o[i]
  BY DEF OneMore
<1> HIDE DEF u, w
<1>5. /\ \A i \in 1 .. k : t[i] = s[o[i]]
      /\ \A i, j \in 1 .. k : i < j => Prior(s, o[i], o[j])
  BY DEF Arranges
<1>6. \A i \in 1 .. k + 1 : u[i] = s[w[i]]
  BY <1>2, <1>4, <1>5
<1>7. ASSUME NEW i \in 1 .. k + 1, NEW j \in 1 .. k + 1, i < j PROVE Prior(s, w[i], w[j])
  <2>1. i \in 1 .. k /\ w[i] = o[i]
    BY <1>4, <1>7
  <2>2. CASE j = k + 1
    BY <1>4, <2>1, <2>2
  <2>3. CASE j # k + 1
    BY <1>4, <1>5, <1>7, <2>1, <2>3
  <2> QED
    BY <2>2, <2>3
<1>8. Arranges(s, w, u)
  BY <1>2, <1>6, <1>7 DEF Arranges
<1> QED
  BY <1>2, <1>3, <1>8 DEF u, w

\* A value of left that the merge takes is prior to all that is left.
LEMMA LeftTaken ==
  ASSUME NEW S, NEW s, NEW h, NEW left, NEW right, NEW p, NEW q, Halves(S, s, h, left, right, p, q),
         NEW l \in Nat, NEW r \in Nat, NEW t, Gathered(S, s, left, right, p, q, l, r, t),
         l < Len(left), r >= Len(right) \/ TakesLeft(left[l + 1], right[r + 1])
  PROVE  Gathered(S, s, left, right, p, q, l + 1, r, Append(t, left[l + 1]))
<1> DEFINE a == p[l + 1]
<1>1. Comparable(S) /\ s \in Seq(S)
  BY DEF Halves
<1>2. /\ t \in Seq(S) /\ Len(t) = l + r /\ l \in 0 .. Len(left) /\ r \in 0 .. Len(right)
      /\ Len(left) \in Nat /\ Len(right) \in Nat
  BY HalvesAre DEF Gathered
<1>3. PICK o \in [1 .. l + r -> 1 .. Len(s)] :
        Arranges(s, o, t) /\ Ahead(s, left, right, p, q, o, l, r)
  BY DEF Gathered
<1>4. l + 1 \in 1 .. Len(left)
  BY <1>2
<1>5. a \in 1 .. Len(s) /\ left[l + 1] = s[a]
  BY <1>4, HalvesAre
<1>6. ASSUME NEW i \in 1 .. l + r
      PROVE  /\ \A j \in 1 .. Len(left) : j > l => Prior(s, o[i], p[j])
             /\ \A j \in 1 .. Len(right) : j > r => Prior(s, o[i], q[j])
  BY <1>3 DEF Ahead
<1>7. \A i \in 1 .. l + r : Prior(s, o[i], a)
  BY <1>2, <1>4, <1>6
<1>8. \A j \in 1 .. Len(left) : j > l + 1 => Prior(s, a, p[j])
  BY <1>2, <1>4, HalvesAre
<1>9. ASSUME NEW j \in 1 .. Len(right), j > r PROVE Prior(s, a, q[j])
  <2>1. r + 1 \in 1 .. Len(right) /\ ~(r >= Len(right)) /\ (r + 1 = j \/ r + 1 < j)
    BY <1>2, <1>9
  <2>2. Prior(s, a, q[r + 1])
    BY <1>4, <2>1, HalvesAre
  <2>3. r + 1 = j \/ Prior(s, q[r + 1], q[j])
    BY <2>1, HalvesAre
  <2>4. q[r + 1] \in 1 .. Len(s) /\ q[j] \in 1 .. Len(s)
    BY <2>1, HalvesAre
  <2> HIDE DEF a
  <2> QED
    BY <1>1, <1>5, <2>2, <2>3, <2>4, PriorIsOrder
<1> HIDE DEF a
<1>10. /\ Append(t, s[a]) \in Seq(S) /\ Len(Append(t, s[a])) = l + r + 1
       /\ \E w \in [1 .. l + r + 1 -> 1 .. Len(s)] :
            /\ Arranges(s, w, Append(t, s[a]))
            /\ \A i \in 1 .. l + r + 1 : w[i] = IF i = l + r + 1 THEN a ELSE o[i]
  <2>1. l + r \in Nat
    OBVIOUS
  <2>2. PICK k \in Nat : k = l + r
    BY <2>1
  <2>3. o \in [1 .. k -> 1 .. Len(s)] /\ Len(t) = k /\ \A i \in 1 .. k : Prior(s, o[i], a)
    BY <1>2, <1>3, <1>7, <2>2
  <2>4. /\ Append(t, s[a]) \in Seq(S) /\ Len(Append(t, s[a])) = k + 1
        /\ OneMore(o, k, a) \in [1 .. k + 1 -> 1 .. Len(s)]
        /\ Arranges(s, OneMore(o, k, a), Append(t, s[a]))
    <3>1. s \in Seq(S) /\ t \in Seq(S) /\ a \in 1 .. Len(s) /\ Arranges(s, o, t)
      BY <1>1, <1>2, <1>3, <1>5
    <3>2. Append(t, s[a]) \in Seq(S)
      BY <2>3, <3>1, ArrangedOneMore
    <3>3. Len(Append(t, s[a])) = k + 1
      BY <2>3, <3>1, ArrangedOneMore
    <3>4. OneMore(o, k, a) \in [1 .. k + 1 -> 1 .. Len(s)]
      BY <2>3, <3>1, ArrangedOneMore
    <3>5. Arranges(s, OneMore(o, k, a), Append(t, s[a]))
      BY <2>3, <3>1, ArrangedOneMore
    <3> QED
      BY <3>2, <3>3, <3>4, <3>5
  <2> QED
    BY <2>2, <2>4 DEF OneMore
<1>11. PICK w \in [1 .. l + r + 1 -> 1 .. Len(s)] :
         /\ Arranges(s, w, Append(t, s[a]))
         /\ \A i \in 1 .. l + r + 1 : w[i] = IF i = l + r + 1 THEN a ELSE o[i]
  BY <1>10
<1>12. l + 1 + r = l + r + 1 /\ l + 1 \in 0 .. Len(left)
  BY <1>2, <1>4
<1>13. ASSUME NEW i \in 1 .. l + 1 + r
       PROVE  /\ \A j \in 1 .. Len(left) : j > l + 1 => Prior(s, w[i], p[j])
              /\ \A j \in 1 .. Len(right) : j > r => Prior(s, w[i], q[j])
  <2>1. CASE i = l + r + 1
    BY <1>8, <1>9, <1>11, <1>12, <2>1
  <2>2. CASE i # l + r + 1
    <3>1. i \in 1 .. l + r /\ w[i] = o[i] /\ \A j \in Int : j > l + 1 => j > l
      BY <1>11, <1>12, <2>2
    <3> QED
      BY <1>6, <3>1
  <2> QED
    BY <2>1, <2>2
<1>14. Ahead(s, left, right, p, q, w, l + 1, r)
  BY <1>13 DEF Ahead
<1> QED
  BY <1>2, <1>5, <1>10, <1>11, <1>12, <1>14 DEF Gathered

\* And so is a value of right.
LEMMA RightTaken ==
  ASSUME NEW S, NEW s, NEW h, NEW left, NEW right, NEW p, NEW q, Halves(S, s, h, left, right, p, q),
         NEW l \in Nat, NEW r \in Nat, NEW t, Gathered(S, s, left, right, p, q, l, r, t),
         r < Len(right), l < Len(left) => ~TakesLeft(left[l + 1], right[r + 1])
  PROVE  Gathered(S, s, left, right, p, q, l, r + 1, Append(t, right[r + 1]))
<1> DEFINE a == q[r + 1]
<1>1. Comparable(S) /\ s \in Seq(S)
  BY DEF Halves
<1>2. /\ t \in Seq(S) /\ Len(t) = l + r /\ l \in 0 .. Len(left) /\ r \in 0 .. Len(right)
      /\ Len(left) \in Nat /\ Len(right) \in Nat
  BY HalvesAre DEF Gathered
<1>3. PICK o \in [1 .. l + r -> 1 .. Len(s)] :
        Arranges(s, o, t) /\ Ahead(s, left, right, p, q, o, l, r)
  BY DEF Gathered
<1>4. r + 1 \in 1 .. Len(right)
  BY <1>2
<1>5. a \in 1 .. Len(s) /\ right[r + 1] = s[a]
  BY <1>4, HalvesAre
<1>6. ASSUME NEW i \in 1 .. l + r
      PROVE  /\ \A j \in 1 .. Len(left) : j > l => Prior(s, o[i], p[j])
             /\ \A j \in 1 .. Len(right) : j > r => Prior(s, o[i], q[j])
  BY <1>3 DEF Ahead
<1>7. \A i \in 1 .. l + r : Prior(s, o[i], a)
  BY <1>2, <1>4, <1>6
<1>8. \A j \in 1 .. Len(right) : j > r + 1 => Prior(s, a, q[j])
  BY <1>2, <1>4, HalvesAre
<1>9. ASSUME NEW j \in 1 .. Len(left), j > l PROVE Prior(s, a, p[j])
  <2>1. l + 1 \in 1 .. Len(left) /\ l < Len(left) /\ (l + 1 = j \/ l + 1 < j)
    BY <1>2, <1>9
  <2>2. Prior(s, a, p[l + 1])
    BY <1>4, <2>1, HalvesAre
  <2>3. l + 1 = j \/ Prior(s, p[l + 1], p[j])
    BY <2>1, HalvesAre
  <2>4. p[l + 1] \in 1 .. Len(s) /\ p[j] \in 1 .. Len(s)
    BY <2>1, HalvesAre
  <2> HIDE DEF a
  <2> QED
    BY <1>1, <1>5, <2>2, <2>3, <2>4, PriorIsOrder
<1> HIDE DEF a
<1>10. /\ Append(t, s[a]) \in Seq(S) /\ Len(Append(t, s[a])) = l + r + 1
       /\ \E w \in [1 .. l + r + 1 -> 1 .. Len(s)] :
            /\ Arranges(s, w, Append(t, s[a]))
            /\ \A i \in 1 .. l + r + 1 : w[i] = IF i = l + r + 1 THEN a ELSE o[i]
  <2>1. l + r \in Nat
    OBVIOUS
  <2>2. PICK k \in Nat : k = l + r
    BY <2>1
  <2>3. o \in [1 .. k -> 1 .. Len(s)] /\ Len(t) = k /\ \A i \in 1 .. k : Prior(s, o[i], a)
    BY <1>2, <1>3, <1>7, <2>2
  <2>4. /\ Append(t, s[a]) \in Seq(S) /\ Len(Append(t, s[a])) = k + 1
        /\ OneMore(o, k, a) \in [1 .. k + 1 -> 1 .. Len(s)]
        /\ Arranges(s, OneMore(o, k, a), Append(t, s[a]))
    <3>1. s \in Seq(S) /\ t \in Seq(S) /\ a \in 1 .. Len(s) /\ Arranges(s, o, t)
      BY <1>1, <1>2, <1>3, <1>5
    <3>2. Append(t, s[a]) \in Seq(S)
      BY <2>3, <3>1, ArrangedOneMore
    <3>3. Len(Append(t, s[a])) = k + 1
      BY <2>3, <3>1, ArrangedOneMore
    <3>4. OneMore(o, k, a) \in [1 .. k + 1 -> 1 .. Len(s)]
      BY <2>3, <3>1, ArrangedOneMore
    <3>5. Arranges(s, OneMore(o, k, a), Append(t, s[a]))
      BY <2>3, <3>1, ArrangedOneMore
    <3> QED
      BY <3>2, <3>3, <3>4, <3>5
  <2> QED
    BY <2>2, <2>4 DEF OneMore
<1>11. PICK w \in [1 .. l + r + 1 -> 1 .. Len(s)] :
         /\ Arranges(s, w, Append(t, s[a]))
         /\ \A i \in 1 .. l + r + 1 : w[i] = IF i = l + r + 1 THEN a ELSE o[i]
  BY <1>10
<1>12. l + (r + 1) = l + r + 1 /\ r + 1 \in 0 .. Len(right)
  BY <1>2, <1>4
<1>13. ASSUME NEW i \in 1 .. l + (r + 1)
       PROVE  /\ \A j \in 1 .. Len(left) : j > l => Prior(s, w[i], p[j])
              /\ \A j \in 1 .. Len(right) : j > r + 1 => Prior(s, w[i], q[j])
  <2>1. CASE i = l + r + 1
    BY <1>8, <1>9, <1>11, <1>12, <2>1
  <2>2. CASE i # l + r + 1
    <3>1. i \in 1 .. l + r /\ w[i] = o[i] /\ \A j \in Int : j > r + 1 => j > r
      BY <1>11, <1>12, <2>2
    <3> QED
      BY <1>6, <3>1
  <2> QED
    BY <2>1, <2>2
<1>14. Ahead(s, left, right, p, q, w, l, r + 1)
  BY <1>13 DEF Ahead
<1> QED
  BY <1>2, <1>5, <1>10, <1>11, <1>12, <1>14 DEF Gathered

\* Merging the arranged first h values of s with the arranged others arranges them all.
LEMMA MergedIsStable ==
  ASSUME NEW S, NEW s, NEW h, NEW left, NEW right, NEW p, NEW q, Halves(S, s, h, left, right, p, q)
  PROVE  Merged(left, right) \in Seq(S) /\ StableOrder(s, Merged(left, right))
<1> DEFINE n == Len(left) + Len(right)
           Step(f, k) ==
             IF k = 0 THEN [left |-> 0, scratch |-> <<>>]
             ELSE LET before == f[k - 1]
                      l == before.left
                      r == k - 1 - l
                  IN  IF l < Len(left) /\ (r >= Len(right) \/ TakesLeft(left[l + 1], right[r + 1]))
                      THEN [left |-> l + 1, scratch |-> Append(before.scratch, left[l + 1])]
                      ELSE [left |-> l, scratch |-> Append(before.scratch, right[r + 1])]
           Whole(f) == f = [k \in 0 .. n |-> Step(f, k)]
           Fine(k, state) == /\ state.left \in Nat /\ k - state.left \in Nat
                             /\ Gathered(S, s, left, right, p, q, state.left, k - state.left, state.scratch)
<1>1. n = Len(s) /\ n \in Nat /\ Len(left) \in Nat /\ Len(right) \in Nat
  BY HalvesAre
<1>2. Merged(left, right) = (CHOOSE f : Whole(f))[n].scratch
  BY Zenon DEF Merged
<1>3. ASSUME NEW f, NEW k \in 1 .. n, Fine(k - 1, f[k - 1]) PROVE Fine(k, Step(f, k))
  <2> DEFINE b == f[k - 1]
             l == b.left
             r == k - 1 - l
  <2>1. l \in Nat /\ r \in Nat /\ Gathered(S, s, left, right, p, q, l, r, b.scratch)
    BY <1>3
  <2>2. l <= Len(left) /\ r <= Len(right)
    BY <1>1, <2>1 DEF Gathered
  <2>3. CASE l < Len(left) /\ (r >= Len(right) \/ TakesLeft(left[l + 1], right[r + 1]))
    <3>1. Step(f, k) = [left |-> l + 1, scratch |-> Append(b.scratch, left[l + 1])]
      BY <2>3
    <3>2. k - (l + 1) = r
      BY <2>1
    <3> HIDE DEF l, r, b, Step
    <3>3. Gathered(S, s, left, right, p, q, l + 1, r, Append(b.scratch, left[l + 1]))
      BY <2>1, <2>3, LeftTaken
    <3> QED
      BY <2>1, <3>1, <3>2, <3>3
  <2>4. CASE ~(l < Len(left) /\ (r >= Len(right) \/ TakesLeft(left[l + 1], right[r + 1])))
    <3>1. Step(f, k) = [left |-> l, scratch |-> Append(b.scratch, right[r + 1])]
      BY <2>4
    <3>2. k - l = r + 1 /\ l + r < Len(left) + Len(right)
      BY <1>1, <2>1
    <3> HIDE DEF l, r, b, Step
    <3>3. r < Len(right) /\ (l < Len(left) => ~TakesLeft(left[l + 1], right[r + 1]))
      BY <1>1, <2>1, <2>2, <2>4, <3>2
    <3>4. Gathered(S, s, left, right, p, q, l, r + 1, Append(b.scratch, right[r + 1]))
      BY <2>1, <3>3, RightTaken
    <3> QED
      BY <2>1, <3>1, <3>2, <3>4
  <2> QED
    BY <2>3, <2>4
<1>4. ASSUME NEW f PROVE Fine(0, Step(f, 0))
  <2> DEFINE o == [i \in 1 .. 0 |-> 1]
  <2>1. <<>> \in Seq(S) /\ Len(<<>>) = 0 /\ o \in [1 .. 0 -> 1 .. Len(s)]
    OBVIOUS
  <2>2. Arranges(s, o, <<>>) /\ Ahead(s, left, right, p, q, o, 0, 0)
    BY DEF Arranges, Ahead
  <2> HIDE DEF o
  <2>3. Gathered(S, s, left, right, p, q, 0, 0, <<>>)
    <3>1. o \in [1 .. 0 + 0 -> 1 .. Len(s)] /\ Len(<<>>) = 0 + 0
          /\ 0 \in 0 .. Len(left) /\ 0 \in 0 .. Len(right)
      BY <1>1, <2>1
    <3> QED
      BY Zenon, <2>1, <2>2, <3>1 DEF Gathered
  <2> QED
    BY <2>3
<1>5. ASSUME NEW f, NEW g, NEW k \in 0 .. n, k # 0 => f[k - 1] = g[k - 1]
      PROVE  Step(f, k) = Step(g, k)
  BY <1>5
<1> HIDE DEF Step, Fine
<1>6. \E f : Whole(f)
  <2> DEFINE Solves(f, k) == f = [i \in 0 .. k |-> Step(f, i)]
             Failing == {k \in Nat : ~ \E f : Solves(f, k)}
  <2>1. \E f : Solves(f, 0)
    <3> DEFINE f == [i \in 0 .. 0 |-> Step(<<>>, 0)]
    <3>1. Step(f, 0) = Step(<<>>, 0)
      BY DEF Step
    <3> QED
      BY <3>1
  <2>2. ASSUME NEW k \in Nat, k < n, NEW f, Solves(f, k) PROVE \E g : Solves(g, k + 1)
    <3> DEFINE g == [i \in 0 .. k + 1 |-> IF i = k + 1 THEN Step(f, k + 1) ELSE f[i]]
    <3>1. ASSUME NEW i \in 0 .. k + 1 PROVE g[i] = Step(g, i)
      <4>1. i # 0 => i - 1 \in 0 .. k /\ g[i - 1] = f[i - 1]
        OBVIOUS
      <4>2. i \in 0 .. n
        BY <2>2
      <4>3. Step(g, i) = Step(f, i)
        <5> HIDE DEF g
        <5> QED
          BY <1>5, <4>1, <4>2
      <4>4. CASE i = k + 1
        BY <4>3, <4>4
      <4>5. CASE i # k + 1
        <5>1. i \in 0 .. k
          BY <4>5
        <5>2. f[i] = Step(f, i)
          BY <2>2, <5>1
        <5> QED
          BY <4>3, <4>5, <5>2
      <4> QED
        BY <4>4, <4>5
    <3>2. g = [i \in 0 .. k + 1 |-> g[i]]
      OBVIOUS
    <3> HIDE DEF g
    <3>3. Solves(g, k + 1)
      BY <3>1, <3>2
    <3> QED
      BY <3>3
  <2> HIDE DEF Solves
  <2>3. n \notin Failing
    <3> SUFFICES ASSUME n \in Failing PROVE FALSE
      OBVIOUS
    <3>1. PICK k \in Failing : \A j \in Failing : k <= j
      <4>1. Failing \in SUBSET Nat
        OBVIOUS
      <4> HIDE DEF Failing
      <4> QED
        BY <4>1, LeastMember
    <3>2. k # 0 /\ k <= n
      BY <2>1, <3>1
    <3>3. k - 1 \in Nat /\ k - 1 < n /\ k - 1 \notin Failing /\ (k - 1) + 1 = k
      BY <1>1, <3>1, <3>2
    <3>4. \E f : Solves(f, k - 1)
      BY <3>3
    <3>5. \E f : Solves(f, k)
      BY <2>2, <3>3, <3>4
    <3> QED
      BY <3>1, <3>5
  <2> QED
    BY <1>1, <2>3 DEF Solves
<1> DEFINE m == CHOOSE f : Whole(f)
<1>7. Whole(m)
  BY <1>6
<1> HIDE DEF m
<1>8. \A k \in 0 .. n : m[k] = Step(m, k)
  BY <1>7
<1> HIDE DEF Whole
<1> DEFINE Odd == {k \in 0 .. n : ~Fine(k, m[k])}
<1>9. Odd = {}
  <2> SUFFICES ASSUME Odd # {} PROVE FALSE
    OBVIOUS
  <2>1. PICK k \in Odd : \A j \in Odd : k <= j
    <3>1. Odd \in SUBSET Nat
      OBVIOUS
    <3> HIDE DEF Odd
    <3> QED
      BY <3>1, LeastMember
  <2>2. k # 0
    BY <1>4, <1>8, <2>1
  <2>3. k \in 1 .. n /\ k - 1 \in 0 .. n /\ k - 1 \notin Odd
    BY <1>1, <2>1, <2>2
  <2>4. Fine(k - 1, m[k - 1])
    BY <2>3
  <2>5. Fine(k, m[k])
    BY <1>3, <1>8, <2>3, <2>4
  <2> QED
    BY <2>1, <2>5
<1>10. Fine(n, m[n])
  BY <1>1, <1>9
<1> DEFINE l == m[n].left
           t == m[n].scratch
<1>11. l \in Nat /\ n - l \in Nat /\ l + (n - l) = Len(s) /\ Gathered(S, s, left, right, p, q, l, n - l, t)
  BY <1>1, <1>10 DEF Fine
<1> HIDE DEF l, t, n
<1>12. t \in Seq(S) /\ StableOrder(s, t)
  BY <1>11 DEF Gathered, StableOrder
<1>13. Merged(left, right) = t
  BY <1>2 DEF m, t
<1> QED
  BY <1>12, <1>13

\* A function on 1 .. m is a sequence of length m.
LEMMA FunctionIsSeq ==
  ASSUME NEW S, NEW m \in Nat, NEW f \in [1 .. m -> S] PROVE f \in Seq(S) /\ Len(f) = m
OBVIOUS

\* What the recursion of the sort is called with.
LEMMA Parts ==
  ASSUME NEW S, NEW n \in Nat, NEW part
  PROVE  part \in SeqOf(S, n) <=> part \in Seq(S) /\ Len(part) <= n
<1>1. ASSUME part \in SeqOf(S, n) PROVE part \in Seq(S) /\ Len(part) <= n
  <2>1. PICK m \in 0 .. n : part \in [1 .. m -> S]
    BY <1>1 DEF SeqOf
  <2>2. PICK k \in Nat : k = m /\ k <= n
    OBVIOUS
  <2>3. part \in [1 .. k -> S]
    BY Zenon, <2>1, <2>2
  <2>4. part \in Seq(S) /\ Len(part) = k
    BY SMTT(20), <2>3, FunctionIsSeq
  <2> QED
    BY <2>2, <2>4
<1>2. ASSUME part \in Seq(S), Len(part) <= n PROVE part \in SeqOf(S, n)
  <2>1. Len(part) \in 0 .. n /\ part \in [1 .. Len(part) -> S]
    BY <1>2
  <2> QED
    BY <2>1 DEF SeqOf
<1> QED
  BY <1>1, <1>2

Half(part) == Len(part) \div 2
FrontHalf(part) == SubSeq(part, 1, Half(part))
BackHalf(part) == SubSeq(part, Half(part) + 1, Len(part))

\* Each half of two values or more is shorter.
LEMMA HalfParts ==
  ASSUME NEW S, NEW part \in Seq(S), Len(part) > 1
  PROVE  /\ Half(part) \in 1 .. Len(part) - 1 /\ Len(part) \in Nat
         /\ FrontHalf(part) \in Seq(S) /\ Len(FrontHalf(part)) = Half(part)
         /\ BackHalf(part) \in Seq(S) /\ Len(BackHalf(part)) = Len(part) - Half(part)
         /\ \A i \in 1 .. Half(part) : FrontHalf(part)[i] = part[i]
         /\ \A i \in 1 .. Len(part) - Half(part) : BackHalf(part)[i] = part[Half(part) + i]
<1> DEFINE half == Half(part)
           front == FrontHalf(part)
           back == BackHalf(part)
<1>1. Len(part) \in Nat /\ half \in 1 .. Len(part) - 1
  BY DEF Half
<1> HIDE DEF half
<1>2. front \in Seq(S) /\ Len(front) = half /\ \A i \in 1 .. half : front[i] = part[i]
  <2>1. \A i \in 1 .. half : part[i] \in S
    BY <1>1
  <2>2. front = SubSeq(part, 1, half)
    BY DEF FrontHalf, half
  <2> HIDE DEF front
  <2> QED
    BY <1>1, <2>1, <2>2, SubSeqProperties
<1>3. /\ back \in Seq(S) /\ Len(back) = Len(part) - half
      /\ \A i \in 1 .. Len(part) - half : back[i] = part[half + i]
  <2>1. \A i \in half + 1 .. Len(part) : part[i] \in S
    BY <1>1
  <2>2. back = SubSeq(part, half + 1, Len(part))
    BY DEF BackHalf, half
  <2> HIDE DEF back
  <2> QED
    BY <1>1, <2>1, <2>2, SubSeqProperties
<1> QED
  BY <1>1, <1>2, <1>3 DEF half

\* The merge of two sorted halves.
LEMMA HalvesMerge ==
  ASSUME NEW S, Comparable(S), NEW part \in Seq(S), Len(part) > 1,
         NEW left \in Seq(S), StableOrder(FrontHalf(part), left),
         NEW right \in Seq(S), StableOrder(BackHalf(part), right)
  PROVE  Merged(left, right) \in Seq(S) /\ StableOrder(part, Merged(left, right))
<1> DEFINE half == Half(part)
           front == FrontHalf(part)
           back == BackHalf(part)
<1>1. /\ half \in 1 .. Len(part) - 1 /\ Len(part) \in Nat
      /\ Len(front) = half /\ Len(back) = Len(part) - half
      /\ \A i \in 1 .. half : front[i] = part[i]
      /\ \A i \in 1 .. Len(part) - half : back[i] = part[half + i]
  BY HalfParts
<1> HIDE DEF half, front, back
<1>2. Len(left) = half /\ Len(right) = Len(part) - half
  BY <1>1 DEF StableOrder, front, back
<1>3. PICK p \in [1 .. half -> 1 .. half] : Arranges(front, p, left)
  BY <1>1 DEF StableOrder, front, back
<1>4. PICK q0 \in [1 .. Len(part) - half -> 1 .. Len(part) - half] : Arranges(back, q0, right)
  BY <1>1 DEF StableOrder, front, back
<1> DEFINE q == [i \in 1 .. Len(part) - half |-> half + q0[i]]
<1>5. q \in [1 .. Len(part) - half -> half + 1 .. Len(part)]
  <2>1. \A i \in 1 .. Len(part) - half : half + q0[i] \in half + 1 .. Len(part)
    <3> TAKE i \in 1 .. Len(part) - half
    <3>1. q0[i] \in 1 .. Len(part) - half
      BY <1>4
    <3>2. half \in Nat /\ Len(part) \in Nat
      BY <1>1
    <3> QED
      BY <3>1, <3>2
  <2> QED
    BY Zenon, <2>1
<1>6. Arranges(part, p, left)
  <2>1. \A i \in 1 .. half : p[i] \in 1 .. half
    BY <1>3
  <2>2. \A i \in 1 .. half : left[i] = part[p[i]]
    BY <1>1, <1>2, <1>3, <2>1 DEF Arranges
  <2>3. ASSUME NEW i \in 1 .. half, NEW j \in 1 .. half, i < j PROVE Prior(part, p[i], p[j])
    <3>1. Prior(front, p[i], p[j])
      BY <1>2, <1>3, <2>3 DEF Arranges
    <3>2. front[p[i]] = part[p[i]] /\ front[p[j]] = part[p[j]]
      BY <1>1, <2>1
    <3> QED
      BY <3>1, <3>2 DEF Prior
  <2> QED
    BY <1>2, <2>2, <2>3 DEF Arranges
<1>7. Arranges(part, q, right)
  <2>1. \A i \in 1 .. Len(part) - half : q0[i] \in 1 .. Len(part) - half /\ q[i] = half + q0[i]
    BY <1>4
  <2> HIDE DEF q
  <2>2. \A i \in 1 .. Len(part) - half : right[i] = part[q[i]]
    <3> TAKE i \in 1 .. Len(part) - half
    <3>1. right[i] = back[q0[i]]
      BY <1>2, <1>4 DEF Arranges
    <3>2. q0[i] \in 1 .. Len(part) - half
      BY <2>1
    <3>3. back[q0[i]] = part[half + q0[i]]
      BY <1>1, <3>2
    <3> QED
      BY <2>1, <3>1, <3>3
  <2>3. ASSUME NEW i \in 1 .. Len(part) - half, NEW j \in 1 .. Len(part) - half, i < j
        PROVE  Prior(part, q[i], q[j])
    <3>1. Prior(back, q0[i], q0[j])
      BY <1>2, <1>4, <2>3 DEF Arranges
    <3>2. back[q0[i]] = part[q[i]] /\ back[q0[j]] = part[q[j]]
      <4>1. q0[i] \in 1 .. Len(part) - half /\ q0[j] \in 1 .. Len(part) - half
        BY <2>1
      <4>2. back[q0[i]] = part[half + q0[i]] /\ back[q0[j]] = part[half + q0[j]]
        BY <1>1, <4>1
      <4> QED
        BY <2>1, <4>2
    <3>3. q0[i] < q0[j] => q[i] < q[j]
      BY <1>1, <2>1
    <3> QED
      BY <3>1, <3>2, <3>3 DEF Prior
  <2> QED
    BY <1>2, <2>2, <2>3 DEF Arranges
<1> HIDE DEF q
<1>8. Halves(S, part, half, left, right, p, q)
  <2>1. half \in 0 .. Len(part)
    BY <1>1
  <2> QED
    BY <1>2, <1>3, <1>5, <1>6, <1>7, <2>1 DEF Halves
<1> QED
  BY <1>8, MergedIsStable

\* merge_sort leaves the values of a chunk ordered by key and time, and of one key and time
\* in the order they came in (c_controller_event_manager::process_controller_events).
THEOREM EventsSortStably ==
  ASSUME NEW S, Comparable(S), NEW s \in Seq(S)
  PROVE  MergeSorted(s) \in Seq(S) /\ StableOrder(s, MergeSorted(s))
<1> DEFINE D(k) == SeqOf(ToSet(s), k)
           n == Len(s)
           Body(f, part) == IF Len(part) <= 1 THEN part
                            ELSE LET half == Len(part) \div 2
                                 IN  Merged(f[SubSeq(part, 1, half)], f[SubSeq(part, half + 1, Len(part))])
           Whole(f) == f = [part \in D(n) |-> Body(f, part)]
           Solves(f, k) == f = [part \in D(k) |-> Body(f, part)]
<1>1. n \in Nat /\ ToSet(s) \subseteq S /\ s \in Seq(ToSet(s))
  <2>1. \A i \in 1 .. n : s[i] \in ToSet(s) /\ s[i] \in S
    BY DEF ToSet
  <2>2. s \in [1 .. n -> ToSet(s)] /\ n \in Nat
    BY <2>1
  <2> QED
    BY <2>2 DEF ToSet
<1>2. MergeSorted(s) = (CHOOSE f : Whole(f))[s]
  BY Zenon DEF MergeSorted
<1>3. ASSUME NEW k \in Nat, NEW part
      PROVE  part \in D(k) <=> part \in Seq(ToSet(s)) /\ Len(part) <= k
  BY Parts
<1>4. ASSUME NEW k \in Nat, NEW part \in D(k), Len(part) > 1
      PROVE  /\ Len(part) \in Nat /\ k > 0 /\ FrontHalf(part) \in D(k - 1) /\ BackHalf(part) \in D(k - 1)
             /\ Len(FrontHalf(part)) < Len(part) /\ Len(BackHalf(part)) < Len(part)
             /\ Len(FrontHalf(part)) \in Nat /\ Len(BackHalf(part)) \in Nat
  <2> DEFINE half == Half(part)
  <2>1. part \in Seq(ToSet(s)) /\ Len(part) <= k
    BY <1>3
  <2>2. /\ half \in 1 .. Len(part) - 1 /\ Len(part) \in Nat
        /\ FrontHalf(part) \in Seq(ToSet(s)) /\ Len(FrontHalf(part)) = half
        /\ BackHalf(part) \in Seq(ToSet(s)) /\ Len(BackHalf(part)) = Len(part) - half
    BY <1>4, <2>1, HalfParts
  <2> HIDE DEF half, D
  <2>3. Len(FrontHalf(part)) <= k - 1 /\ Len(BackHalf(part)) <= k - 1 /\ k - 1 \in Nat /\ k > 0
        /\ Len(FrontHalf(part)) \in Nat /\ Len(BackHalf(part)) \in Nat
        /\ Len(FrontHalf(part)) < Len(part) /\ Len(BackHalf(part)) < Len(part)
    BY <2>1, <2>2
  <2> QED
    BY <1>3, <2>2, <2>3
<1>5. ASSUME NEW f, NEW g, NEW part, Len(part) \in Nat,
             Len(part) > 1 => f[FrontHalf(part)] = g[FrontHalf(part)] /\ f[BackHalf(part)] = g[BackHalf(part)]
      PROVE  Body(f, part) = Body(g, part)
  BY <1>5 DEF Half, FrontHalf, BackHalf
<1>6. ASSUME NEW f, NEW part, Len(part) \in Nat, Len(part) <= 1 PROVE Body(f, part) = part
  BY <1>6
<1>7. ASSUME NEW f, NEW part, Len(part) \in Nat, Len(part) > 1
      PROVE  Body(f, part) = Merged(f[FrontHalf(part)], f[BackHalf(part)])
  BY <1>7 DEF Half, FrontHalf, BackHalf
<1> HIDE DEF Body, D
<1>8. \E f : Whole(f)
  <2> DEFINE Failing == {k \in Nat : ~ \E f : Solves(f, k)}
  <2>1. \E f : Solves(f, 0)
    <3> DEFINE f == [part \in D(0) |-> part]
    <3>1. ASSUME NEW part \in D(0) PROVE Body(f, part) = part
      <4>1. Len(part) \in Nat /\ Len(part) <= 1
        BY <1>3
      <4> HIDE DEF f
      <4> QED
        BY <1>6, <4>1
    <3>2. f = [part \in D(0) |-> Body(f, part)]
      BY <3>1
    <3> HIDE DEF f
    <3> QED
      BY <3>2
  <2>2. ASSUME NEW k \in Nat, NEW f, Solves(f, k) PROVE \E g : Solves(g, k + 1)
    <3> DEFINE g == [part \in D(k + 1) |-> Body(f, part)]
    <3>1. k + 1 \in Nat /\ (k + 1) - 1 = k
      OBVIOUS
    <3>2. ASSUME NEW part \in D(k) PROVE part \in D(k + 1) /\ g[part] = f[part]
      <4>1. part \in D(k + 1)
        BY <1>3, <3>1
      <4> QED
        BY <2>2, <4>1
    <3>3. ASSUME NEW part \in D(k + 1) PROVE g[part] = Body(g, part)
      <4>1. Len(part) \in Nat
        BY <1>3, <3>1
      <4>2. g[part] = Body(f, part)
        OBVIOUS
      <4> HIDE DEF g
      <4>3. ASSUME Len(part) > 1 PROVE f[FrontHalf(part)] = g[FrontHalf(part)] /\ f[BackHalf(part)] = g[BackHalf(part)]
        <5>1. FrontHalf(part) \in D(k) /\ BackHalf(part) \in D(k)
          BY <1>4, <3>1, <4>3
        <5> QED
          BY <3>2, <5>1
      <4> QED
        BY <1>5, <4>1, <4>2, <4>3
    <3>4. g = [part \in D(k + 1) |-> g[part]]
      OBVIOUS
    <3> HIDE DEF g
    <3>5. Solves(g, k + 1)
      BY <3>3, <3>4
    <3> QED
      BY <3>5
  <2> HIDE DEF Solves
  <2>3. n \notin Failing
    <3> SUFFICES ASSUME n \in Failing PROVE FALSE
      OBVIOUS
    <3>1. PICK k \in Failing : \A j \in Failing : k <= j
      <4>1. Failing \in SUBSET Nat
        OBVIOUS
      <4> HIDE DEF Failing
      <4> QED
        BY <4>1, LeastMember
    <3>2. k # 0
      BY <2>1, <3>1
    <3>3. k - 1 \in Nat /\ k - 1 \notin Failing /\ (k - 1) + 1 = k
      BY <3>1, <3>2
    <3>4. PICK f : Solves(f, k - 1)
      BY <3>3
    <3>5. \E g : Solves(g, (k - 1) + 1)
      BY <2>2, <3>3, <3>4
    <3>6. \E g : Solves(g, k)
      BY <3>3, <3>5
    <3> QED
      BY <3>1, <3>6
  <2> QED
    BY <1>1, <2>3 DEF Solves
<1> DEFINE m == CHOOSE f : Whole(f)
<1>9. Whole(m)
  BY <1>8
<1> HIDE DEF m
<1>10. \A part \in D(n) : m[part] = Body(m, part)
  BY <1>9
<1> HIDE DEF Whole
<1> DEFINE Fine(part) == m[part] \in Seq(S) /\ StableOrder(part, m[part])
           Odd == {k \in Nat : \E part \in D(n) : Len(part) = k /\ ~Fine(part)}
<1>11. Odd = {}
  <2> SUFFICES ASSUME Odd # {} PROVE FALSE
    OBVIOUS
  <2>1. PICK k \in Odd : \A j \in Odd : k <= j
    <3>1. Odd \in SUBSET Nat
      OBVIOUS
    <3> HIDE DEF Odd
    <3> QED
      BY <3>1, LeastMember
  <2>2. PICK part \in D(n) : Len(part) = k /\ ~Fine(part)
    BY <2>1
  <2>3. part \in Seq(ToSet(s)) /\ part \in Seq(S) /\ Len(part) \in Nat
    <3>1. part \in Seq(ToSet(s))
      BY <1>1, <1>3
    <3> QED
      BY <1>1, <3>1
  <2>4. CASE Len(part) <= 1
    <3>1. m[part] = part
      BY <1>6, <1>10, <2>3, <2>4
    <3> DEFINE p == [i \in 1 .. Len(part) |-> i]
    <3>2. p \in [1 .. Len(part) -> 1 .. Len(part)]
      OBVIOUS
    <3>3. Arranges(part, p, part)
      BY <2>3, <2>4 DEF Arranges
    <3> HIDE DEF p
    <3>4. StableOrder(part, part)
      BY <3>2, <3>3 DEF StableOrder
    <3> QED
      BY <2>2, <2>3, <3>1, <3>4
  <2>5. CASE Len(part) > 1
    <3>1. /\ FrontHalf(part) \in D(n - 1) /\ BackHalf(part) \in D(n - 1) /\ n > 0
          /\ Len(FrontHalf(part)) < k /\ Len(BackHalf(part)) < k
          /\ Len(FrontHalf(part)) \in Nat /\ Len(BackHalf(part)) \in Nat
      BY <1>1, <1>4, <2>2, <2>5
    <3>2. n - 1 \in Nat /\ \A i \in Int : i <= n - 1 => i <= n
      BY <1>1, <3>1
    <3>3. FrontHalf(part) \in D(n) /\ BackHalf(part) \in D(n)
      BY <1>1, <1>3, <3>1, <3>2
    <3>4. Len(FrontHalf(part)) \notin Odd /\ Len(BackHalf(part)) \notin Odd
      BY <2>1, <3>1
    <3>5. Fine(FrontHalf(part)) /\ Fine(BackHalf(part))
      BY <3>1, <3>3, <3>4
    <3>6. m[part] = Merged(m[FrontHalf(part)], m[BackHalf(part)])
      BY <1>7, <1>10, <2>3, <2>5
    <3> HIDE DEF Odd
    <3>7. m[part] \in Seq(S) /\ StableOrder(part, m[part])
      <4>1. Merged(m[FrontHalf(part)], m[BackHalf(part)]) \in Seq(S)
        BY <2>3, <2>5, <3>5, HalvesMerge
      <4>2. StableOrder(part, Merged(m[FrontHalf(part)], m[BackHalf(part)]))
        BY <2>3, <2>5, <3>5, HalvesMerge
      <4> QED
        BY <3>6, <4>1, <4>2
    <3> QED
      BY <2>2, <3>7
  <2> QED
    BY <2>3, <2>4, <2>5
<1>12. s \in D(n)
  BY <1>1, <1>3
<1>13. Fine(s)
  BY <1>1, <1>11, <1>12
<1> QED
  BY <1>2, <1>13 DEF m

-----------------------------------------------------------------------------
(* The invariant: the events on their way are events of the player, and    *)
(* those taken out lie in the chunk.                                       *)

TimedEvent == [at : Nat, event : PlayerEvent]
DueEvent == [at : Offset, event : PlayerEvent]

DriverInv ==
  /\ now \in Nat /\ start \in Int /\ bufferTime \in Int
  /\ script \in Seq(PlayerEvent)
  /\ stamped \in Seq(TimedEvent) /\ waiting \in Seq(TimedEvent)
  /\ taken \in Seq(DueEvent) /\ notes \in Seq(DueEvent)

PlaybackInv == VoicesInv /\ DriverInv

\* What is known of an event on its way.
LEMMA Events ==
  /\ \A e \in PlayerEvent : e.kind \in {"on", "off"} => e.id \in Notes
  /\ \A e \in DueEvent : e.at \in Nat /\ e.at < Frames /\ e.event \in PlayerEvent
  /\ Comparable(DueEvent)
<1> USE VoiceAssumption
<1>1. \A e \in PlayerEvent : e.kind \in {"on", "off"} => e.id \in Notes
  BY DEF PlayerEvent
<1>2. \A e \in DueEvent : e.at \in Nat /\ e.at < Frames /\ e.event \in PlayerEvent
  BY DEF DueEvent, Offset
<1>3. \A e \in PlayerEvent : e.kind \notin {"on", "off"} => e.id \in Int
  BY DEF PlayerEvent
<1>4. Comparable(DueEvent)
  BY <1>2, <1>3 DEF Comparable, SortKey, IsNote
<1> QED
  BY <1>1, <1>2, <1>4

\* The first values of a sequence that are notes are some of its values.
LEMMA NoteEventsAre ==
  ASSUME NEW S, NEW s \in Seq(S) PROVE NoteEvents(s) \in Seq(S)
<1> DEFINE A == {i \in DOMAIN s : IsNote(s[i])}
<1>1. Len(s) \in Nat /\ DOMAIN s = 1 .. Len(s)
  OBVIOUS
<1>2. Cardinality(A) \in Nat /\ Cardinality(A) <= Len(s)
  <2>1. IsFiniteSet(1 .. Len(s)) /\ Cardinality(1 .. Len(s)) = Len(s)
    BY <1>1, FS_Interval
  <2>2. A \subseteq 1 .. Len(s)
    BY <1>1
  <2> HIDE DEF A
  <2>3. IsFiniteSet(A) /\ Cardinality(A) <= Len(s)
    BY <2>1, <2>2, FS_Subset
  <2> QED
    BY <2>3, FS_CardinalityType
<1>3. NoteEvents(s) = SubSeq(s, 1, Cardinality(A))
  BY Zenon DEF NoteEvents
<1> HIDE DEF A
<1>4. \A i \in 1 .. Cardinality(A) : s[i] \in S
  BY <1>1, <1>2
<1> QED
  BY <1>2, <1>3, <1>4, SubSeqProperties

\* Nothing is on its way when the stream starts.
LEMMA DriverStarts == PlaybackInit => DriverInv
<1> SUFFICES ASSUME PlaybackInit PROVE DriverInv
  OBVIOUS
<1>1. script \in Seq(PlayerEvent)
  BY PlaybackAssumption DEF PlaybackInit
<1>2. /\ now = 0 /\ start = 0 /\ bufferTime = 0
      /\ stamped = <<>> /\ waiting = <<>> /\ taken = <<>> /\ notes = <<>>
  BY DEF PlaybackInit, DriverInit
<1> QED
  BY <1>1, <1>2 DEF DriverInv

\* The player's steps and the driver's.
LEMMA DriverSteps ==
  ASSUME DriverInv, Play \/ Deliver \/ Tick \/ TakeEvents \/ TakeEvent PROVE DriverInv' /\ UNCHANGED vars
<1> USE VoiceAssumption, DriverAssumption, PlaybackAssumption
<1>1. /\ now \in Nat /\ start \in Int /\ bufferTime \in Int
      /\ script \in Seq(PlayerEvent)
      /\ stamped \in Seq(TimedEvent) /\ waiting \in Seq(TimedEvent)
      /\ taken \in Seq(DueEvent) /\ notes \in Seq(DueEvent)
  BY DEF DriverInv
<1>2. CASE Play
  <2>1. /\ script # <<>> /\ script' = Tail(script)
        /\ stamped' = <<[at |-> now, event |-> Head(script)]>>
        /\ UNCHANGED <<now, waiting, start, taken, bufferTime, notes>> /\ UNCHANGED vars
    BY <1>2 DEF Play, Stamp, callbackVars
  <2>2. Head(script) \in PlayerEvent /\ Tail(script) \in Seq(PlayerEvent)
    BY <1>1, <2>1
  <2>3. [at |-> now, event |-> Head(script)] \in TimedEvent
    BY <1>1, <2>2 DEF TimedEvent
  <2>4. stamped' \in Seq(TimedEvent)
    BY <2>1, <2>3
  <2> QED
    BY <1>1, <2>1, <2>2, <2>4 DEF DriverInv
<1>3. CASE Deliver
  <2>1. /\ stamped' = <<>> /\ (waiting' = waiting \o stamped \/ waiting' = waiting)
        /\ UNCHANGED <<now, start, taken, bufferTime, notes, script>> /\ UNCHANGED vars
    BY <1>3 DEF Deliver, Push, callbackVars
  <2>2. waiting \o stamped \in Seq(TimedEvent) /\ <<>> \in Seq(TimedEvent)
    BY <1>1, ConcatProperties
  <2>3. waiting' \in Seq(TimedEvent) /\ stamped' \in Seq(TimedEvent)
    BY <1>1, <2>1, <2>2
  <2> QED
    BY <1>1, <2>1, <2>3 DEF DriverInv
<1>4. CASE Tick
  <2>1. /\ now' = now + 1
        /\ UNCHANGED <<stamped, waiting, start, taken, bufferTime, notes, script>> /\ UNCHANGED vars
    BY <1>4 DEF Tick, TimePasses, callbackVars
  <2> QED
    BY <1>1, <2>1 DEF DriverInv
<1>5. CASE TakeEvents
  <2>1. /\ bufferTime' \in bufferTime + Frames .. now + Early
        /\ start' = bufferTime' - Frames - UnknownLatency /\ taken' = <<>>
        /\ UNCHANGED <<now, stamped, waiting, notes, script>> /\ UNCHANGED vars
    BY <1>5 DEF TakeEvents, BeginTaking
  <2>2. bufferTime' \in Int
    BY <1>1, <2>1
  <2>3. start' \in Int /\ taken' \in Seq(DueEvent)
    BY <2>1, <2>2
  <2> QED
    BY <1>1, <2>1, <2>2, <2>3 DEF DriverInv
<1>6. CASE TakeEvent
  <2> DEFINE element == Head(waiting)
             due == [at |-> Relative(element.at), event |-> element.event]
  <2>1. /\ ~NothingDue(Frames) /\ waiting' = Tail(waiting)
        /\ taken' = Append(taken, due) \/ taken' = taken
        /\ UNCHANGED <<now, stamped, start, bufferTime, notes, script>> /\ UNCHANGED vars
    BY <1>6 DEF TakeEvent, Take, callbackVars
  <2>2. waiting # <<>> /\ element.at < start + Frames /\ element \in TimedEvent
    <3>1. waiting # <<>> /\ ~(element.at >= start + Frames)
      BY <2>1 DEF NothingDue
    <3>2. element \in TimedEvent
      BY <1>1, <3>1
    <3>3. element.at \in Nat
      BY <3>2 DEF TimedEvent
    <3> HIDE DEF element
    <3> QED
      BY <1>1, <3>1, <3>2, <3>3
  <2>3. element.at \in Nat /\ element.event \in PlayerEvent
    BY <2>2 DEF TimedEvent
  <2> HIDE DEF element
  <2>4. Relative(element.at) \in Offset
    BY <1>1, <2>2, <2>3 DEF Relative, Offset
  <2>5. due \in DueEvent
    BY <2>3, <2>4 DEF DueEvent
  <2> HIDE DEF due
  <2>6. taken' \in Seq(DueEvent)
    <3>1. Append(taken, due) \in Seq(DueEvent)
      BY <1>1, <2>5, AppendProperties
    <3> QED
      BY <1>1, <2>1, <3>1
  <2>7. waiting' \in Seq(TimedEvent)
    BY <1>1, <2>1, <2>2
  <2> QED
    BY <1>1, <2>1, <2>6, <2>7 DEF DriverInv
<1> QED
  BY <1>2, <1>3, <1>4, <1>5, <1>6

\* The begin of the callback: the events are sorted.
LEMMA SortingSteps ==
  ASSUME DriverInv, ProcessControllerEvents PROVE DriverInv'
<1>1. /\ notes' = NoteEvents(MergeSorted(taken))
      /\ UNCHANGED <<now, stamped, waiting, start, taken, bufferTime, script>>
  BY DEF ProcessControllerEvents, EndTaking
<1>2. taken \in Seq(DueEvent)
  BY DEF DriverInv
<1>3. MergeSorted(taken) \in Seq(DueEvent)
  BY <1>2, Events, EventsSortStably
<1>4. notes' \in Seq(DueEvent)
  BY <1>1, <1>3, NoteEventsAre
<1> QED
  BY <1>1, <1>4 DEF DriverInv

\* What follows the events and the voices changes nothing of the driver.
LEMMA VoiceSteps ==
  ASSUME DriverInv, Press \/ Release \/ NotesAllocated \/ PlayVoice \/ PlayRest PROVE DriverInv'
<1>1. /\ UNCHANGED <<now, stamped, waiting, start, taken, bufferTime, script>>
      /\ notes' = notes \/ (notes # <<>> /\ notes' = Tail(notes))
  BY DEF Press, Release, NotesAllocated, PlayVoice, PlayRest, driverVars, callbackVars
<1>2. notes' \in Seq(DueEvent)
  <2>1. notes \in Seq(DueEvent)
    BY DEF DriverInv
  <2>2. notes # <<>> => Tail(notes) \in Seq(DueEvent)
    BY <2>1
  <2> QED
    BY <1>1, <2>1, <2>2
<1> QED
  BY <1>1, <1>2 DEF DriverInv

\* A note event is one of the player's notes, at a frame.
LEMMA NotesArePlayed ==
  ASSUME DriverInv, notes # <<>>, Head(notes).event.kind \in {"on", "off"}
  PROVE  Head(notes).event.id \in Notes /\ FrameOf(Head(notes).at) \subseteq Nat
<1> USE VoiceAssumption
<1>1. Head(notes) \in DueEvent
  BY DEF DriverInv
<1>2. Head(notes).event \in PlayerEvent /\ Head(notes).at \in Nat
  BY <1>1, Events
<1>3. Head(notes).event.id \in Notes
  BY <1>2, Events
<1> QED
  BY <1>2, <1>3 DEF FrameOf

\* Every step keeps the invariant and is heard as the policy says.
LEMMA PlaybackSteps ==
  ASSUME PlaybackInv, [PlaybackNext]_playbackVars
  PROVE  PlaybackInv' /\ [Policy!Next]_Sounding
<1>1. VoicesInv /\ DriverInv
  BY DEF PlaybackInv
<1>2. CASE UNCHANGED playbackVars
  <2>1. UNCHANGED vars /\ UNCHANGED driverVars /\ UNCHANGED callbackVars /\ script' = script
    BY <1>2 DEF playbackVars
  <2>2. VoicesInv' /\ Sounding' = Sounding
    BY <1>1, <2>1, VoicesStutter, QuietSteps
  <2>3. DriverInv'
    BY <1>1, <2>1 DEF DriverInv, driverVars, callbackVars
  <2> QED
    BY <2>2, <2>3 DEF PlaybackInv
<1>3. CASE Play \/ Deliver \/ Tick \/ TakeEvents \/ TakeEvent
  <2>1. DriverInv' /\ UNCHANGED vars
    BY <1>1, <1>3, DriverSteps
  <2>2. VoicesInv' /\ Sounding' = Sounding
    BY <1>1, <2>1, VoicesStutter, QuietSteps
  <2> QED
    BY <2>1, <2>2 DEF PlaybackInv
<1>4. CASE ProcessControllerEvents
  <2>1. StartChunk
    BY <1>4 DEF ProcessControllerEvents
  <2>2. VoicesInv' /\ Sounding' = Sounding
    BY <1>1, <2>1, StartChunkKeeps, StartChunkSounds
  <2> QED
    BY <1>1, <1>4, <2>2, SortingSteps DEF PlaybackInv
<1>5. CASE Press
  <2>1. PICK t \in FrameOf(Head(notes).at) : NoteOn(Head(notes).event.id, t)
    BY <1>5 DEF Press
  <2>2. Head(notes).event.id \in Notes /\ t \in Nat
    BY <1>1, <1>5, NotesArePlayed DEF Press
  <2>3. VoicesInv' /\ (Policy!Next \/ Sounding' = Sounding)
    BY <1>1, <2>1, <2>2, NoteOnKeeps, NoteOnSounds
  <2> QED
    BY <1>1, <1>5, <2>3, VoiceSteps DEF PlaybackInv
<1>6. CASE Release
  <2>1. PICK t \in FrameOf(Head(notes).at) : NoteOff(Head(notes).event.id, t)
    BY <1>6 DEF Release
  <2>2. Head(notes).event.id \in Notes /\ t \in Nat
    BY <1>1, <1>6, NotesArePlayed DEF Release
  <2>3. VoicesInv' /\ (Policy!Next \/ Sounding' = Sounding)
    BY <1>1, <2>1, <2>2, NoteOffKeeps, NoteOffSounds
  <2> QED
    BY <1>1, <1>6, <2>3, VoiceSteps DEF PlaybackInv
<1>7. CASE NotesAllocated
  <2>1. EndEvents
    BY <1>7 DEF NotesAllocated
  <2>2. VoicesInv' /\ Sounding' = Sounding
    BY <1>1, <2>1, EndEventsKeeps, QuietSteps
  <2> QED
    BY <1>1, <1>7, <2>2, VoiceSteps DEF PlaybackInv
<1>8. CASE PlayVoice
  <2>1. ProcessVoice
    BY <1>8 DEF PlayVoice
  <2>2. VoicesInv' /\ (Policy!Next \/ Sounding' = Sounding)
    BY <1>1, <2>1, ProcessVoiceKeeps, ProcessVoiceSounds
  <2> QED
    BY <1>1, <1>8, <2>2, VoiceSteps DEF PlaybackInv
<1>9. CASE PlayRest
  <2>1. SkipVoice \/ EndVoices \/ ProcessFx
    BY <1>9 DEF PlayRest
  <2>2. VoicesInv' /\ Sounding' = Sounding
    BY <1>1, <2>1, PassingKeeps, QuietSteps
  <2> QED
    BY <1>1, <1>9, <2>2, VoiceSteps DEF PlaybackInv
<1> QED
  BY <1>2, <1>3, <1>4, <1>5, <1>6, <1>7, <1>8, <1>9 DEF PlaybackNext

\* The invariant holds at the start and is kept by every step.
LEMMA PlaybackKeepsInv == PlaybackSpec => []PlaybackInv
<1>1. PlaybackInit => PlaybackInv
  BY VoicesInit, DriverStarts DEF PlaybackInit, PlaybackInv
<1>2. PlaybackInv /\ [PlaybackNext]_playbackVars => PlaybackInv'
  BY PlaybackSteps
<1> QED
  BY <1>1, <1>2, PTL DEF PlaybackSpec

-----------------------------------------------------------------------------
(* The voices that hold a key.                                             *)

Held(v) == voices[v].active /\ ~voices[v].released

\* No two voices hold the same note.
HeldOnce == \A v, w \in Voice : Held(v) /\ Held(w) /\ voices[v].note = voices[w].note => v = w

\* No voice holds a note it did not hold before.
NoNewHeld == \A v \in Voice : Held(v)' => Held(v) /\ voices'[v].note = voices[v].note

\* The parts of the voices' invariant.
LEMMA VoicesAre ==
  ASSUME VoicesInv
  PROVE  /\ ListInv /\ voices \in [Voice -> VoiceType]
         /\ \A v \in Voice : voices[v].active \in BOOLEAN /\ voices[v].released \in BOOLEAN
<1>1. ListInv /\ voices \in [Voice -> VoiceType]
  BY DEF VoicesInv, TypeOK, VoiceType
<1>2. \A v \in Voice : voices[v].active \in BOOLEAN /\ voices[v].released \in BOOLEAN
  BY <1>1 DEF VoiceType
<1> QED
  BY <1>1, <1>2

\* The loop over the held notes meets the voices that hold one.
LEMMA HoldingIs ==
  ASSUME VoicesInv, NEW n
  PROVE  /\ \A v \in Voice : Held(v) /\ voices[v].note = n => \E i \in Holding(n) : Playing[i] = v
         /\ \A i \in Holding(n) : Playing[i] \in Voice /\ Held(Playing[i]) /\ voices[Playing[i]].note = n
         /\ Holding(n) \subseteq Nat
<1>1. ListInv /\ \A v \in Voice : voices[v].active \in BOOLEAN
  BY VoicesAre
<1>2. ASSUME NEW v \in Voice, Held(v), voices[v].note = n PROVE \E i \in Holding(n) : Playing[i] = v
  <2>1. PICK i \in DOMAIN Playing : Playing[i] = v
    BY <1>1, <1>2, PlayingAreActive DEF Held
  <2> QED
    BY <1>2, <2>1 DEF Holding, Held
<1>3. Playing \in Seq(Voice)
  <2>1. PICK s \in [1 .. MaxVoices -> Voice] : AllIn(list, s) /\ Ordered(s)
    BY <1>1 DEF ListInv
  <2>2. PICK m \in 0 .. MaxVoices : \A i \in 1 .. MaxVoices : voices[s[i]].active <=> i > MaxVoices - m
    BY <1>1, <2>1, Cut
  <2>3. Playing = [i \in 1 .. m |-> s[MaxVoices + 1 - i]]
    BY <2>1, <2>2, PlayingIs
  <2>4. \A i \in 1 .. m : MaxVoices + 1 - i \in 1 .. MaxVoices
    BY VoiceAssumption
  <2> QED
    BY <2>3, <2>4
<1>4. ASSUME NEW i \in Holding(n)
      PROVE  Playing[i] \in Voice /\ Held(Playing[i]) /\ voices[Playing[i]].note = n /\ i \in Nat
  <2>1. i \in DOMAIN Playing /\ voices[Playing[i]].note = n /\ ~voices[Playing[i]].released
    BY DEF Holding
  <2>2. Playing[i] \in Voice /\ i \in Nat
    BY <1>3, <2>1
  <2>3. voices[Playing[i]].active
    BY <1>1, <2>1, <2>2, PlayingAreActive
  <2> QED
    BY <2>1, <2>2, <2>3 DEF Held
<1> QED
  BY <1>2, <1>4

\* A note that is struck is held, by a voice that held it or by the voice chosen.
LEMMA PressHolds ==
  ASSUME VoicesInv, HeldOnce, NEW n, NEW t, NoteOn(n, t)
  PROVE  /\ HeldOnce'
         /\ \A v \in Voice : Held(v)' => voices'[v].note = n \/ (Held(v) /\ voices'[v].note = voices[v].note)
         /\ \E v \in Voice : Held(v)' /\ voices'[v].note = n
<1>1. CASE Holding(n) # {}
  <2>1. voices' = voices
    BY <1>1 DEF NoteOn
  <2>2. PICK i \in Holding(n) : Playing[i] \in Voice /\ Held(Playing[i]) /\ voices[Playing[i]].note = n
    BY <1>1, HoldingIs
  <2> DEFINE w == Playing[i]
  <2>3. w \in Voice /\ Held(w) /\ voices[w].note = n
    BY <2>2
  <2> HIDE DEF w
  <2> QED
    BY <2>1, <2>3 DEF HeldOnce, Held
<1>2. CASE Holding(n) = {}
  <2>1. voices' = [voices EXCEPT ![Chosen] = Started(voices[Chosen], n, t)]
    BY <1>2 DEF NoteOn
  <2>2. PICK s \in [1 .. MaxVoices -> Voice] : AllIn(list, s)
    BY VoicesAre DEF ListInv
  <2>3. Chosen \in Voice
    BY <2>2, VoiceAssumption DEF AllIn, Chain, Chosen
  <2>4. voices \in [Voice -> VoiceType]
    BY VoicesAre
  <2>5. /\ \A v \in Voice : v # Chosen => voices'[v] = voices[v]
        /\ voices'[Chosen].active /\ ~voices'[Chosen].released /\ voices'[Chosen].note = n
    <3>1. voices[Chosen] \in VoiceType
      BY <2>3, <2>4
    <3>2. voices'[Chosen] = Started(voices[Chosen], n, t)
      BY <2>1, <2>3, <2>4
    <3>3. \A v \in Voice : v # Chosen => voices'[v] = voices[v]
      BY <2>1, <2>3, <2>4
    <3> QED
      BY <3>1, <3>2, <3>3 DEF Started, VoiceType
  <2>6. \A v \in Voice : Held(v) => voices[v].note # n
    BY <1>2, HoldingIs
  <2>7. HeldOnce'
    BY <2>5, <2>6 DEF HeldOnce, Held
  <2> QED
    BY <2>3, <2>5, <2>7 DEF Held
<1> QED
  BY <1>1, <1>2

\* Which voices a note-off releases: those that hold the note.
LEMMA ReleaseIs ==
  ASSUME VoicesInv, HeldOnce, NEW n, NEW t, NoteOff(n, t), NEW v \in Voice
  PROVE  voices'[v] = IF Held(v) /\ voices[v].note = n
                      THEN [voices[v] EXCEPT !.releaseSample = SampleOffset(t), !.released = TRUE]
                      ELSE voices[v]
<1> DEFINE Met == \E i \in Holding(n) : Playing[i] = v /\ \A j \in Holding(n) : i =< j
<1>1. voices'[v] = IF Met THEN [voices[v] EXCEPT !.releaseSample = SampleOffset(t), !.released = TRUE]
                   ELSE voices[v]
  BY DEF NoteOff
<1>2. ASSUME Held(v), voices[v].note = n PROVE Met
  <2>1. PICK k \in Holding(n) : Playing[k] = v
    BY <1>2, HoldingIs
  <2>2. Holding(n) \subseteq Nat /\ Holding(n) # {}
    BY <2>1, HoldingIs
  <2>3. PICK i \in Holding(n) : \A j \in Holding(n) : i <= j
    BY <2>2, LeastMember
  <2>4. Playing[i] \in Voice /\ Held(Playing[i]) /\ voices[Playing[i]].note = n
    BY <2>3, HoldingIs
  <2>5. Playing[i] = v
    BY <1>2, <2>4 DEF HeldOnce
  <2> QED
    BY <2>3, <2>5
<1>3. ASSUME Met PROVE Held(v) /\ voices[v].note = n
  BY <1>3, HoldingIs
<1> HIDE DEF Met
<1> QED
  BY <1>1, <1>2, <1>3

\* A note that is let go is held by no voice, the others are held as before.
LEMMA ReleaseHolds ==
  ASSUME VoicesInv, HeldOnce, NEW n, NEW t, NoteOff(n, t)
  PROVE  /\ HeldOnce' /\ NoNewHeld
         /\ \A v \in Voice : Held(v)' => voices'[v].note # n
         /\ \A v \in Voice : Held(v) /\ voices[v].note # n => Held(v)' /\ voices'[v].note = voices[v].note
<1>1. \A v \in Voice :
        voices'[v] = IF Held(v) /\ voices[v].note = n
                     THEN [voices[v] EXCEPT !.releaseSample = SampleOffset(t), !.released = TRUE]
                     ELSE voices[v]
  BY ReleaseIs
<1>2. \A v \in Voice : voices[v] \in VoiceType
  BY VoicesAre
<1>3. ASSUME NEW v \in Voice
      PROVE  /\ voices'[v].active = voices[v].active /\ voices'[v].note = voices[v].note
             /\ Held(v) /\ voices[v].note = n => voices'[v].released
             /\ ~(Held(v) /\ voices[v].note = n) => voices'[v] = voices[v]
  BY <1>1, <1>2 DEF VoiceType
<1>4. \A v \in Voice : Held(v)' <=> Held(v) /\ voices[v].note # n
  BY <1>3 DEF Held
<1> QED
  BY <1>3, <1>4 DEF HeldOnce, NoNewHeld

\* No other step lets a voice hold a note it did not hold.
LEMMA OthersHold ==
  ASSUME VoicesInv, HeldOnce, StartChunk \/ ProcessVoice \/ UNCHANGED voices
  PROVE  HeldOnce' /\ NoNewHeld
<1>1. \A v \in Voice : voices[v] \in VoiceType
  BY VoicesAre
<1>2. NoNewHeld
  <2>1. CASE StartChunk
    <3>1. \A v \in Voice :
            \/ voices'[v] = voices[v]
            \/ voices'[v] = [voices[v] EXCEPT !.activatedThisChunk = FALSE, !.sampleIndex = 0, !.offset = 0,
                                              !.releaseSample = Never]
      BY <2>1 DEF StartChunk
    <3>2. ASSUME NEW v \in Voice
          PROVE  /\ voices'[v].active = voices[v].active /\ voices'[v].released = voices[v].released
                 /\ voices'[v].note = voices[v].note
      BY <1>1, <3>1 DEF VoiceType
    <3> QED
      BY <3>2 DEF NoNewHeld, Held
  <2>2. CASE ProcessVoice
    <3> DEFINE frames == Frames - voices[current].offset
    <3>1. /\ current \in Voice /\ voices[current].active
          /\ \/ voices' = [voices EXCEPT ![current].sampleIndex = @ + frames]
             \/ voices' = [voices EXCEPT ![current].active = FALSE, ![current].activatedThisChunk = FALSE,
                              ![current].sampleIndex = @ + Frames - voices[current].offset]
      BY <2>2 DEF ProcessVoice, DisableVoice
    <3>2. voices \in [Voice -> VoiceType]
      BY VoicesAre
    <3>3. \A v \in Voice : v # current => voices'[v] = voices[v]
      BY <3>1, <3>2
    <3>4. voices[current] \in VoiceType
      BY <1>1, <3>1
    <3>5. /\ voices'[current].released = voices[current].released
          /\ voices'[current].note = voices[current].note
      <4>1. CASE voices' = [voices EXCEPT ![current].sampleIndex = @ + frames]
        BY <3>1, <3>2, <3>4, <4>1 DEF VoiceType
      <4>2. CASE voices' = [voices EXCEPT ![current].active = FALSE, ![current].activatedThisChunk = FALSE,
                              ![current].sampleIndex = @ + Frames - voices[current].offset]
        BY <3>1, <3>2, <3>4, <4>2 DEF VoiceType
      <4> QED
        BY <3>1, <4>1, <4>2
    <3>6. ASSUME NEW v \in Voice, voices'[v].active, ~voices'[v].released
          PROVE  voices[v].active /\ ~voices[v].released /\ voices'[v].note = voices[v].note
      BY <3>1, <3>3, <3>5, <3>6
    <3> QED
      BY <3>6 DEF NoNewHeld, Held
  <2>3. CASE UNCHANGED voices
    BY <2>3 DEF NoNewHeld, Held
  <2> QED
    BY <2>1, <2>2, <2>3
<1> QED
  BY <1>2 DEF HeldOnce, NoNewHeld, Held

-----------------------------------------------------------------------------
(* The note events are those of the player, in the player's order.         *)

Increasing(p, k) == \A i, j \in 1 .. k : i < j => p[i] < p[j]

\* The values of r are the notes of s behind c, in order; p says where they are.
NotesBehind(s, c, r, p) ==
  /\ p \in [1 .. Len(r) -> c + 1 .. Len(s)] /\ Increasing(p, Len(r))
  /\ \A i \in 1 .. Len(r) : r[i] = s[p[i]] /\ IsNote(r[i])
  /\ \A j \in c + 1 .. Len(s) : IsNote(s[j]) => \E i \in 1 .. Len(r) : p[i] = j

\* What a sorted chunk has is the chunk's: each of its values has its place.
LEMMA ArrangedOnce ==
  ASSUME NEW S, Comparable(S), NEW s \in Seq(S), NEW t,
         Len(t) = Len(s), NEW p \in [1 .. Len(s) -> 1 .. Len(s)], Arranges(s, p, t)
  PROVE  \A j \in 1 .. Len(s) : \E i \in 1 .. Len(s) : p[i] = j
<1> DEFINE N == 1 .. Len(s)
<1>1. Len(s) \in Nat
  OBVIOUS
<1>2. ASSUME NEW i \in N, NEW j \in N, p[i] = p[j] PROVE i = j
  <2>1. ~Prior(s, p[i], p[i])
    BY PriorIsOrder
  <2>2. i < j => Prior(s, p[i], p[j])
    BY DEF Arranges
  <2>3. j < i => Prior(s, p[j], p[i])
    BY DEF Arranges
  <2> QED
    BY <1>1, <1>2, <2>1, <2>2, <2>3
<1>3. IsFiniteSet(N)
  BY <1>1, FS_Interval
<1> HIDE DEF N
<1>4. p \in Injection(N, N)
  <2>1. p \in [N -> N]
    BY DEF N
  <2> QED
    BY <1>2, <2>1 DEF Injection, IsInjective
<1>5. p \in Surjection(N, N)
  BY <1>3, <1>4, FS_Injection
<1> QED
  BY <1>5 DEF Surjection, N

\* A part of an interval that has with a number all smaller ones is its beginning.
LEMMA BeginningIs ==
  ASSUME NEW n \in Nat, NEW A \in SUBSET (1 .. n), \A i, j \in 1 .. n : i < j /\ j \in A => i \in A
  PROVE  Cardinality(A) \in 0 .. n /\ A = 1 .. Cardinality(A)
<1> DEFINE Out == (1 .. n + 1) \ A
<1>1. Out \in SUBSET Nat /\ n + 1 \in Out
  OBVIOUS
<1>2. PICK k \in Out : \A i \in Out : k <= i
  <2> HIDE DEF Out
  <2> QED
    BY <1>1, LeastMember
<1>3. k - 1 \in 0 .. n /\ A = 1 .. k - 1
  <2>1. k \in 1 .. n + 1 /\ k \notin A
    OBVIOUS
  <2>2. \A i \in 1 .. k - 1 : i \in A
    BY <1>2, <2>1
  <2>3. ASSUME NEW i \in A PROVE i \in 1 .. k - 1
    <3>1. i \in 1 .. n /\ i # k
      BY <2>1
    <3>2. k < i => k \in 1 .. n /\ k \in A
      BY <2>1, <3>1
    <3> QED
      BY <2>1, <3>1, <3>2
  <2>4. k - 1 \in 0 .. n
    BY <2>1
  <2> HIDE DEF Out
  <2>5. A \subseteq 1 .. k - 1 /\ 1 .. k - 1 \subseteq A
    BY <2>2, <2>3
  <2> QED
    BY <2>4, <2>5
<1>4. Cardinality(1 .. k - 1) = k - 1
  <2>1. \A m \in Nat : Cardinality(1 .. m) = m
    <3> TAKE m \in Nat
    <3>1. Cardinality(1 .. m) = IF 1 > m THEN 0 ELSE m - 1 + 1
      BY FS_Interval
    <3> QED
      BY <3>1
  <2> QED
    BY <1>3, <2>1
<1> QED
  BY <1>3, <1>4

\* The note events of the chunk, sorted, are its notes as they came.
LEMMA NotesInOrder ==
  ASSUME NEW s \in Seq(DueEvent), \A i, j \in 1 .. Len(s) : i < j => s[i].at <= s[j].at
  PROVE  \E p : NotesBehind(s, 0, NoteEvents(MergeSorted(s)), p)
<1> DEFINE t == MergeSorted(s)
           n == Len(s)
           A == {i \in DOMAIN t : IsNote(t[i])}
           m == Cardinality(A)
           r == NoteEvents(t)
<1>1. t \in Seq(DueEvent) /\ StableOrder(s, t)
  BY Events, EventsSortStably
<1>2. n \in Nat /\ Len(t) = n /\ DOMAIN t = 1 .. n
  BY <1>1 DEF StableOrder
<1>3. PICK q \in [1 .. n -> 1 .. n] : Arranges(s, q, t)
  BY <1>1 DEF StableOrder
<1> HIDE DEF t
<1>4. \A j \in 1 .. n : \E i \in 1 .. n : q[i] = j
  BY <1>2, <1>3, Events, ArrangedOnce
<1>5. \A i \in 1 .. n : t[i] = s[q[i]] /\ q[i] \in 1 .. n
  BY <1>2, <1>3 DEF Arranges
<1>6. \A i, j \in 1 .. n : i < j => Prior(s, q[i], q[j])
  BY <1>2, <1>3 DEF Arranges
<1>7. \A e \in DueEvent : (IsNote(e) => SortKey(e) = 0) /\ (~IsNote(e) => SortKey(e) \in Nat /\ SortKey(e) > 0)
                          /\ e.at \in Nat
  BY Events DEF DueEvent, PlayerEvent, SortKey, IsNote
<1>8. ASSUME NEW i \in 1 .. n, NEW j \in 1 .. n, i < j, IsNote(t[j])
      PROVE  IsNote(t[i]) /\ q[i] < q[j]
  <2>1. s[q[i]] \in DueEvent /\ s[q[j]] \in DueEvent /\ IsNote(s[q[j]])
    BY <1>5, <1>8
  <2>2. Prior(s, q[i], q[j])
    BY <1>6, <1>8
  <2>3. SortKey(s[q[i]]) = 0 /\ SortKey(s[q[j]]) = 0
    BY <1>7, <2>1, <2>2 DEF Prior, Before
  <2>4. IsNote(s[q[i]])
    BY <1>7, <2>1, <2>3
  <2>5. s[q[i]].at < s[q[j]].at \/ (~(s[q[j]].at < s[q[i]].at) /\ q[i] < q[j])
    BY <2>2, <2>3 DEF Prior, Before
  <2>6. q[j] < q[i] => s[q[j]].at <= s[q[i]].at
    BY <1>5
  <2>7. s[q[i]].at \in Nat /\ s[q[j]].at \in Nat /\ q[i] \in Nat /\ q[j] \in Nat
    BY <1>5, <1>7, <2>1
  <2>8. q[i] < q[j]
    BY <2>5, <2>6, <2>7
  <2> QED
    BY <1>5, <2>4, <2>8
<1>9. m \in 0 .. n /\ A = 1 .. m
  <2>1. A \in SUBSET (1 .. n) /\ \A i, j \in 1 .. n : i < j /\ j \in A => i \in A
    BY <1>2, <1>8
  <2> HIDE DEF A
  <2> QED
    BY <1>2, <2>1, BeginningIs
<1>10. r = SubSeq(t, 1, m)
  BY Zenon DEF NoteEvents
<1> HIDE DEF r, m
<1>11. Len(r) = m /\ \A i \in 1 .. m : r[i] = t[i]
  <2>1. \A i \in 1 .. m : t[i] \in DueEvent
    BY <1>1, <1>2, <1>9
  <2>2. Len(SubSeq(t, 1, m)) = m
    BY <1>2, <1>9, <2>1, SubSeqProperties
  <2>3. \A i \in 1 .. m : SubSeq(t, 1, m)[i] = t[i]
    BY <1>2, <1>9, <2>1, SubSeqProperties
  <2> QED
    BY <1>10, <2>2, <2>3
<1> DEFINE p == [i \in 1 .. m |-> q[i]]
<1>12. \A i \in 1 .. m : i \in 1 .. n /\ IsNote(t[i]) /\ p[i] = q[i]
  BY <1>2, <1>9
<1>13. \A i \in 1 .. n : IsNote(t[i]) => i \in 1 .. m
  BY <1>2, <1>9
<1>14. p \in [1 .. m -> 1 .. n]
  BY <1>5, <1>12
<1> HIDE DEF p, A
<1>15. Increasing(p, m)
  BY <1>8, <1>12 DEF Increasing
<1>16. \A i \in 1 .. m : r[i] = s[p[i]] /\ IsNote(r[i])
  BY <1>5, <1>11, <1>12
<1>17. ASSUME NEW j \in 1 .. n, IsNote(s[j]) PROVE \E i \in 1 .. m : p[i] = j
  <2>1. PICK i \in 1 .. n : q[i] = j
    BY <1>4
  <2>2. IsNote(t[i])
    BY <1>5, <1>17, <2>1
  <2> QED
    BY <1>12, <1>13, <2>1, <2>2
<1>18. NotesBehind(s, 0, r, p)
  BY <1>11, <1>14, <1>15, <1>16, <1>17 DEF NotesBehind
<1> QED
  BY <1>18 DEF r, t

\* The first of them is handled: the others are the notes behind it.
LEMMA NextNote ==
  ASSUME NEW s \in Seq(DueEvent), NEW c \in 0 .. Len(s), NEW r \in Seq(DueEvent), NEW p,
         NotesBehind(s, c, r, p), r # <<>>
  PROVE  /\ p[1] \in c + 1 .. Len(s) /\ s[p[1]] = Head(r)
         /\ \A j \in c + 1 .. p[1] - 1 : ~IsNote(s[j])
         /\ \E o : NotesBehind(s, p[1], Tail(r), o)
<1>1. Len(r) \in Nat \ {0} /\ Len(s) \in Nat /\ c \in Nat
  OBVIOUS
<1>2. /\ p \in [1 .. Len(r) -> c + 1 .. Len(s)] /\ Increasing(p, Len(r))
      /\ \A i \in 1 .. Len(r) : r[i] = s[p[i]] /\ IsNote(r[i])
      /\ \A j \in c + 1 .. Len(s) : IsNote(s[j]) => \E i \in 1 .. Len(r) : p[i] = j
  BY DEF NotesBehind
<1>3. p[1] \in c + 1 .. Len(s) /\ s[p[1]] = Head(r)
  BY <1>1, <1>2
<1>4. \A i \in 2 .. Len(r) : p[1] < p[i]
  BY <1>1, <1>2 DEF Increasing
<1>5. ASSUME NEW j \in c + 1 .. p[1] - 1 PROVE ~IsNote(s[j])
  <2>1. j \in c + 1 .. Len(s) /\ j < p[1]
    BY <1>1, <1>3
  <2>2. ASSUME NEW i \in 1 .. Len(r), p[i] = j PROVE FALSE
    <3>1. i = 1 \/ i \in 2 .. Len(r)
      BY <1>1
    <3> QED
      BY <1>1, <1>3, <1>4, <2>1, <2>2, <3>1
  <2> QED
    BY <1>2, <2>1, <2>2
<1> DEFINE o == [i \in 1 .. Len(r) - 1 |-> p[i + 1]]
           u == Tail(r)
<1>6. Len(u) = Len(r) - 1 /\ \A i \in 1 .. Len(u) : u[i] = r[i + 1] /\ i + 1 \in 2 .. Len(r)
  BY <1>1
<1> HIDE DEF u
<1>7. \A i \in 1 .. Len(u) : o[i] = p[i + 1] /\ i + 1 \in 2 .. Len(r) /\ i + 1 \in 1 .. Len(r)
  BY <1>1, <1>6
<1>8. o \in [1 .. Len(u) -> p[1] + 1 .. Len(s)]
  <2>1. \A i \in 1 .. Len(u) : p[i + 1] \in p[1] + 1 .. Len(s)
    <3> TAKE i \in 1 .. Len(u)
    <3>1. p[i + 1] \in c + 1 .. Len(s) /\ p[1] < p[i + 1]
      BY <1>2, <1>4, <1>7
    <3> QED
      BY <1>1, <1>3, <3>1
  <2> QED
    BY <1>6, <2>1
<1> HIDE DEF o
<1>9. Increasing(o, Len(u))
  <2>1. ASSUME NEW i \in 1 .. Len(u), NEW j \in 1 .. Len(u), i < j PROVE o[i] < o[j]
    <3>1. i + 1 < j + 1
      BY <1>6, <2>1
    <3> QED
      BY <1>2, <1>7, <3>1 DEF Increasing
  <2> QED
    BY <2>1 DEF Increasing
<1>10. \A i \in 1 .. Len(u) : u[i] = s[o[i]] /\ IsNote(u[i])
  <2> TAKE i \in 1 .. Len(u)
  <2>1. u[i] = r[i + 1] /\ o[i] = p[i + 1] /\ i + 1 \in 1 .. Len(r)
    BY <1>6, <1>7
  <2>2. r[i + 1] = s[p[i + 1]] /\ IsNote(r[i + 1])
    BY <1>2, <2>1
  <2> QED
    BY <2>1, <2>2
<1>11. ASSUME NEW j \in p[1] + 1 .. Len(s), IsNote(s[j]) PROVE \E i \in 1 .. Len(u) : o[i] = j
  <2>1. j \in c + 1 .. Len(s) /\ j > p[1]
    BY <1>1, <1>3
  <2>2. PICK k \in 1 .. Len(r) : p[k] = j
    BY <1>2, <1>11, <2>1
  <2>3. k # 1
    BY <1>3, <2>1, <2>2
  <2>4. k - 1 \in 1 .. Len(u) /\ k - 1 + 1 = k
    BY <1>1, <1>6, <2>3
  <2> QED
    BY <1>7, <2>2, <2>4
<1>12. NotesBehind(s, p[1], u, o)
  BY <1>8, <1>9, <1>10, <1>11 DEF NotesBehind
<1> QED
  BY <1>3, <1>5, <1>12 DEF u

-----------------------------------------------------------------------------
(* The events keep the player's order on their way.                        *)

Ascending(s) == \A i, j \in 1 .. Len(s) : i < j => s[i].at <= s[j].at

\* What has been stamped and not yet taken out.
Coming == waiting \o stamped

\* An event of the chunk is not later than one that comes: it was moved to the begin of the
\* chunk, or its time, which the chunk counts from its start, is not later.
OnTime ==
  /\ Ascending(Coming) /\ \A i \in 1 .. Len(Coming) : Coming[i].at <= now
  /\ Ascending(taken)
  /\ popping =>
       /\ phase = "idle"
       /\ \A i \in 1 .. Len(taken) :
            taken[i].at # 0 =>
              /\ taken[i].at + start <= now
              /\ \A j \in 1 .. Len(Coming) : taken[i].at + start <= Coming[j].at

\* The times of what comes and of what has been taken are numbers.
LEMMA ComingIs ==
  ASSUME DriverInv
  PROVE  /\ now \in Nat /\ start \in Int /\ Coming \in Seq(TimedEvent) /\ taken \in Seq(DueEvent)
         /\ \A i \in 1 .. Len(Coming) : Coming[i].at \in Nat
         /\ \A i \in 1 .. Len(taken) : taken[i].at \in Nat
<1>1. /\ now \in Nat /\ start \in Int /\ waiting \in Seq(TimedEvent) /\ stamped \in Seq(TimedEvent)
      /\ taken \in Seq(DueEvent)
  BY DEF DriverInv
<1>2. Coming \in Seq(TimedEvent)
  BY <1>1, ConcatProperties DEF Coming
<1>3. \A i \in 1 .. Len(Coming) : Coming[i].at \in Nat
  <2> TAKE i \in 1 .. Len(Coming)
  <2>1. Coming[i] \in TimedEvent
    BY <1>2
  <2> QED
    BY <2>1 DEF TimedEvent
<1>4. \A i \in 1 .. Len(taken) : taken[i].at \in Nat
  BY <1>1, Events
<1> QED
  BY <1>1, <1>2, <1>3, <1>4

\* What comes is what came, some values from the end left out or one from the front.
LEMMA ComingStays ==
  ASSUME DriverInv, OnTime, now' \in Nat, now' >= now, UNCHANGED <<start, taken, popping, phase>>,
         Len(Coming') <= Len(Coming), \A i \in 1 .. Len(Coming') : Coming'[i] = Coming[i]
  PROVE  OnTime'
<1>1. /\ now \in Nat /\ start \in Int
      /\ \A i \in 1 .. Len(Coming) : Coming[i].at \in Nat
      /\ \A i \in 1 .. Len(taken) : taken[i].at \in Nat
  BY ComingIs
<1>2. Len(Coming) \in Nat /\ Len(Coming') \in Nat
  <2>1. Coming \in Seq(TimedEvent)
    BY ComingIs
  <2> QED
    BY <2>1
<1>3. \A i \in 1 .. Len(Coming') : i \in 1 .. Len(Coming)
  BY <1>2
<1>7. Ascending(Coming)' /\ \A i \in 1 .. Len(Coming') : Coming'[i].at <= now'
  <2>1. \A i \in 1 .. Len(Coming') : Coming[i].at <= now'
    BY <1>1, <1>3 DEF OnTime
  <2>2. \A i, j \in 1 .. Len(Coming') : i < j => Coming[i].at <= Coming[j].at
    BY <1>3 DEF OnTime, Ascending
  <2> QED
    BY <2>1, <2>2 DEF Ascending
<1>8. Ascending(taken)'
  BY DEF OnTime, Ascending
<1>9. ASSUME popping'
      PROVE  /\ phase' = "idle"
             /\ \A i \in 1 .. Len(taken') :
                  taken'[i].at # 0 =>
                    /\ taken'[i].at + start' <= now'
                    /\ \A j \in 1 .. Len(Coming') : taken'[i].at + start' <= Coming'[j].at
  <2>1. /\ popping /\ phase' = "idle"
        /\ \A i \in 1 .. Len(taken) :
             taken[i].at # 0 =>
               /\ taken[i].at + start <= now
               /\ \A j \in 1 .. Len(Coming) : taken[i].at + start <= Coming[j].at
    BY <1>9 DEF OnTime
  <2>2. \A i \in 1 .. Len(taken) : taken[i].at + start <= now => taken[i].at + start <= now'
    BY <1>1
  <2> QED
    BY <1>3, <2>1, <2>2
<1> QED
  BY <1>7, <1>8, <1>9 DEF OnTime

\* The player's steps and the driver's keep the order.
LEMMA OnTimeSteps ==
  ASSUME DriverInv, DriverInv', OnTime, Play \/ Deliver \/ Tick \/ TakeEvents \/ TakeEvent
  PROVE  OnTime'
<1> USE VoiceAssumption, DriverAssumption
<1>1. /\ now \in Nat /\ start \in Int /\ Coming \in Seq(TimedEvent) /\ taken \in Seq(DueEvent)
      /\ waiting \in Seq(TimedEvent) /\ stamped \in Seq(TimedEvent)
  BY ComingIs DEF DriverInv
<1>2. \A i \in 1 .. Len(Coming) : Coming[i].at \in Nat
  BY ComingIs
<1>3. \A i \in 1 .. Len(taken) : taken[i].at \in Nat
  BY ComingIs
<1>4. /\ Len(Coming) = Len(waiting) + Len(stamped)
      /\ \A i \in 1 .. Len(Coming) :
           Coming[i] = IF i <= Len(waiting) THEN waiting[i] ELSE stamped[i - Len(waiting)]
  BY <1>1, ConcatProperties DEF Coming
<1>5. CASE Play
  <2> DEFINE e == [at |-> now, event |-> Head(script)]
  <2>1. /\ stamped = <<>> /\ stamped' = <<e>>
        /\ phase = "idle" /\ phase' = phase
        /\ UNCHANGED <<now, waiting, popping, start, taken>>
    BY <1>5 DEF Play, Stamp, Listening, vars
  <2>2. Len(Coming) = Len(waiting)
    BY <1>1, <1>4, <2>1
  <2>3. Coming' = Append(waiting, e)
    <3>1. Coming' = waiting \o <<e>>
      BY <2>1 DEF Coming
    <3> HIDE DEF e
    <3> QED
      BY <1>1, <3>1
  <2>4. e.at = now
    OBVIOUS
  <2> HIDE DEF e
  <2>5. /\ Len(Coming') = Len(Coming) + 1
        /\ \A i \in 1 .. Len(Coming') :
             Coming'[i] = IF i <= Len(Coming) THEN Coming[i] ELSE e
    BY <1>1, <1>4, <2>2, <2>3
  <2>6. Len(Coming) \in Nat
    BY <1>1
  <2>7. \A i \in 1 .. Len(Coming') : i <= Len(Coming) => i \in 1 .. Len(Coming)
    BY <2>6
  <2>8. \A i \in 1 .. Len(Coming') : Coming'[i].at <= now
    BY <1>1, <2>4, <2>5, <2>7 DEF OnTime
  <2>9. ASSUME NEW i \in 1 .. Len(Coming'), NEW j \in 1 .. Len(Coming'), i < j
        PROVE  Coming'[i].at <= Coming'[j].at
    <3>1. i \in 1 .. Len(Coming) /\ Coming'[i] = Coming[i]
      BY <2>5, <2>6, <2>9
    <3>2. CASE j <= Len(Coming)
      BY <2>5, <2>7, <2>9, <3>1, <3>2 DEF OnTime, Ascending
    <3>3. CASE ~(j <= Len(Coming))
      BY <2>4, <2>5, <3>1, <3>3 DEF OnTime
    <3> QED
      BY <3>2, <3>3
  <2>10. ASSUME popping, NEW i \in 1 .. Len(taken), taken[i].at # 0, NEW j \in 1 .. Len(Coming')
         PROVE  taken[i].at + start <= Coming'[j].at
    <3>1. CASE j <= Len(Coming)
      BY <2>5, <2>7, <2>10, <3>1 DEF OnTime
    <3>2. CASE ~(j <= Len(Coming))
      BY <2>4, <2>5, <2>10, <3>2 DEF OnTime
    <3> QED
      BY <3>1, <3>2
  <2> QED
    BY <2>1, <2>8, <2>9, <2>10 DEF OnTime, Ascending
<1>6. CASE Deliver
  <2>1. /\ stamped' = <<>> /\ (waiting' = Coming \/ waiting' = waiting)
        /\ UNCHANGED <<now, popping, start, taken, phase>>
    BY <1>6 DEF Deliver, Push, vars, Coming
  <2>2. Coming' = waiting' /\ waiting' \in Seq(TimedEvent)
    <3>1. waiting' \in Seq(TimedEvent)
      BY <1>1, <2>1
    <3> QED
      BY <2>1, <3>1 DEF Coming
  <2>3. Len(Coming') <= Len(Coming) /\ \A i \in 1 .. Len(Coming') : Coming'[i] = Coming[i]
    <3>1. Len(waiting) \in Nat /\ Len(stamped) \in Nat
      BY <1>1
    <3> QED
      BY <1>4, <2>1, <2>2, <3>1
  <2> QED
    BY <1>1, <2>1, <2>3, ComingStays
<1>7. CASE Tick
  <2>1. now' = now + 1 /\ UNCHANGED <<stamped, waiting, popping, start, taken, phase>>
    BY <1>7 DEF Tick, TimePasses, vars
  <2>2. Coming' = Coming
    BY <2>1 DEF Coming
  <2>3. now' \in Nat /\ now' >= now /\ Len(Coming') <= Len(Coming)
    BY <1>1, <2>1, <2>2
  <2> QED
    BY <2>1, <2>2, <2>3, ComingStays
<1>8. CASE TakeEvents
  <2>1. taken' = <<>> /\ phase = "idle" /\ UNCHANGED <<now, stamped, waiting, phase>>
    BY <1>8 DEF TakeEvents, BeginTaking, vars
  <2>2. Coming' = Coming
    BY <2>1 DEF Coming
  <2>3. Ascending(taken)'
    BY <2>1 DEF Ascending
  <2>4. Ascending(Coming)'
    BY <2>2 DEF Ascending, OnTime
  <2>5. Len(taken') = 0
    BY <2>1
  <2> QED
    BY <2>1, <2>2, <2>3, <2>4, <2>5 DEF OnTime
<1>9. CASE TakeEvent
  <2> DEFINE element == Head(waiting)
             due == [at |-> Relative(element.at), event |-> element.event]
  <2>1. /\ popping /\ ~NothingDue(Frames) /\ waiting' = Tail(waiting)
        /\ taken' = Append(taken, due) \/ taken' = taken
        /\ UNCHANGED <<now, stamped, popping, start, phase>>
    BY <1>9 DEF TakeEvent, Take, vars
  <2>2. waiting # <<>>
    BY <2>1 DEF NothingDue
  <2>3. Len(waiting) \in Nat \ {0} /\ Len(stamped) \in Nat
    BY <1>1, <2>2
  <2>4. element = Coming[1] /\ 1 \in 1 .. Len(Coming)
    BY <1>1, <1>4, <2>3
  <2>5. /\ Len(Coming') = Len(Coming) - 1
        /\ \A i \in 1 .. Len(Coming') : Coming'[i] = Coming[i + 1] /\ i + 1 \in 2 .. Len(Coming)
    <3>1. Len(Tail(waiting)) = Len(waiting) - 1
          /\ \A i \in 1 .. Len(waiting) - 1 : Tail(waiting)[i] = waiting[i + 1]
      BY <1>1, <2>2
    <3>2. Tail(waiting) \in Seq(TimedEvent)
      BY <1>1, <2>2
    <3> DEFINE u == Tail(waiting)
    <3> HIDE DEF u
    <3>3. /\ Len(u \o stamped) = Len(u) + Len(stamped)
          /\ \A i \in 1 .. Len(u) + Len(stamped) :
               (u \o stamped)[i] = IF i <= Len(u) THEN u[i] ELSE stamped[i - Len(u)]
      BY <1>1, <3>2, ConcatProperties DEF u
    <3>4. Coming' = u \o stamped
      BY <2>1 DEF u, Coming
    <3>5. Len(u) = Len(waiting) - 1 /\ \A i \in 1 .. Len(u) : u[i] = waiting[i + 1]
      BY <3>1 DEF u
    <3>6. Len(Coming') = Len(Coming) - 1
      BY <1>4, <2>3, <3>3, <3>4, <3>5
    <3>7. ASSUME NEW i \in 1 .. Len(Coming') PROVE Coming'[i] = Coming[i + 1] /\ i + 1 \in 2 .. Len(Coming)
      <4>1. i + 1 \in 1 .. Len(Coming) /\ i + 1 \in 2 .. Len(Coming)
        BY <1>4, <2>3, <3>6
      <4>2. CASE i <= Len(u)
        BY <1>4, <2>3, <3>3, <3>4, <3>5, <4>1, <4>2
      <4>3. CASE ~(i <= Len(u))
        <5>1. Coming'[i] = stamped[i - Len(u)]
          BY <2>3, <3>3, <3>4, <4>3
        <5>2. Coming[i + 1] = stamped[i + 1 - Len(waiting)]
          BY <1>4, <2>3, <3>5, <4>1, <4>3
        <5>3. i - Len(u) = i + 1 - Len(waiting)
          BY <2>3, <3>5
        <5> QED
          BY <4>1, <5>1, <5>2, <5>3
      <4> QED
        BY <4>2, <4>3
    <3> QED
      BY <3>6, <3>7
  <2>6. element.at \in Nat /\ element.at <= now
    BY <1>2, <2>4 DEF OnTime
  <2>7. \A j \in 1 .. Len(Coming') : element.at <= Coming'[j].at /\ Coming'[j].at <= now
    <3> TAKE j \in 1 .. Len(Coming')
    <3>1. j + 1 \in 2 .. Len(Coming) /\ Coming'[j] = Coming[j + 1]
      BY <2>5
    <3>2. 1 < j + 1 /\ j + 1 \in 1 .. Len(Coming)
      BY <3>1
    <3> QED
      BY <2>4, <3>1, <3>2 DEF OnTime, Ascending
  <2>8. Ascending(Coming)'
    <3>1. ASSUME NEW i \in 1 .. Len(Coming'), NEW j \in 1 .. Len(Coming'), i < j
          PROVE  Coming'[i].at <= Coming'[j].at
      <4>1. i + 1 \in 1 .. Len(Coming) /\ j + 1 \in 1 .. Len(Coming) /\ i + 1 < j + 1
        BY <2>5, <3>1
      <4>2. Coming[i + 1].at <= Coming[j + 1].at
        BY <4>1 DEF OnTime, Ascending
      <4> QED
        BY <2>5, <4>2
    <3> QED
      BY <3>1 DEF Ascending
  <2> HIDE DEF element
  <2>9. due.at \in Nat /\ (due.at # 0 => due.at + start = element.at)
    BY <1>1, <2>6 DEF Relative
  <2>10. \A i \in 1 .. Len(taken) : taken[i].at <= due.at
    <3> TAKE i \in 1 .. Len(taken)
    <3>1. taken[i].at # 0 => taken[i].at + start <= element.at
      BY <2>1, <2>4 DEF OnTime
    <3>2. taken[i].at \in Nat
      BY <1>3
    <3> QED
      BY <1>1, <2>6, <3>1, <3>2 DEF Relative
  <2> HIDE DEF due
  <2>11. ASSUME NEW i \in 1 .. Len(taken') PROVE (i \in 1 .. Len(taken) /\ taken'[i] = taken[i]) \/ taken'[i] = due
    <3>1. CASE taken' = taken
      BY <3>1
    <3>2. CASE taken' = Append(taken, due)
      <4>1. Len(taken) \in Nat /\ Len(taken') = Len(taken) + 1
        BY <1>1, <3>2
      <4>2. i \in 1 .. Len(taken) \/ i = Len(taken) + 1
        BY <4>1
      <4> QED
        BY <1>1, <3>2, <4>1, <4>2
    <3> QED
      BY <2>1, <3>1, <3>2
  <2>12. \A i \in 1 .. Len(taken') : taken'[i].at # 0 => taken'[i].at + start <= element.at
    <3> TAKE i \in 1 .. Len(taken')
    <3>1. CASE i \in 1 .. Len(taken) /\ taken'[i] = taken[i]
      BY <2>1, <2>4, <3>1 DEF OnTime
    <3>2. CASE taken'[i] = due
      BY <2>6, <2>9, <3>2
    <3> QED
      BY <2>11, <3>1, <3>2
  <2>13. Ascending(taken)'
    <3>1. CASE taken' = taken
      BY <3>1 DEF OnTime, Ascending
    <3>2. CASE taken' = Append(taken, due)
      <4>1. ASSUME NEW i \in 1 .. Len(taken'), NEW j \in 1 .. Len(taken'), i < j
            PROVE  taken'[i].at <= taken'[j].at
        <5>1. Len(taken) \in Nat /\ Len(taken') = Len(taken) + 1
          BY <1>1, <3>2
        <5>2. i \in 1 .. Len(taken) /\ taken'[i] = taken[i]
          BY <1>1, <3>2, <4>1, <5>1
        <5>3. CASE j <= Len(taken)
          <6>1. j \in 1 .. Len(taken) /\ taken'[j] = taken[j]
            BY <1>1, <3>2, <5>1, <5>3
          <6> QED
            BY <4>1, <5>2, <6>1 DEF OnTime, Ascending
        <5>4. CASE ~(j <= Len(taken))
          <6>1. taken'[j] = due
            BY <1>1, <3>2, <5>1, <5>4
          <6> QED
            BY <2>10, <5>2, <6>1
        <5> QED
          BY <5>3, <5>4
      <4> QED
        BY <4>1 DEF Ascending
    <3> QED
      BY <2>1, <3>1, <3>2
  <2>14. \A i \in 1 .. Len(taken') : taken'[i].at \in Nat
    BY <1>3, <2>9, <2>11
  <2>15. ASSUME NEW i \in 1 .. Len(taken'), taken'[i].at # 0
         PROVE  taken'[i].at + start' <= now' /\ \A j \in 1 .. Len(Coming') : taken'[i].at + start' <= Coming'[j].at
    <3>1. taken'[i].at + start <= element.at /\ taken'[i].at + start \in Int
      BY <1>1, <2>12, <2>14, <2>15
    <3>2. \A j \in 1 .. Len(Coming') : Coming'[j].at \in Nat
      BY ComingIs, <1>2, <2>5
    <3> QED
      BY <1>1, <2>1, <2>6, <2>7, <3>1, <3>2
  <2>16. phase = "idle"
    BY <2>1 DEF OnTime
  <2> QED
    BY <2>1, <2>7, <2>8, <2>13, <2>15, <2>16 DEF OnTime
<1> QED
  BY <1>5, <1>6, <1>7, <1>8, <1>9

-----------------------------------------------------------------------------
(* The voices follow the keys.                                             *)

\* The keys that are down after the events of the chunk.
KeysTell ==
  \A i \in 1 .. Len(taken), n \in Notes :
    /\ Strikes(taken[i], n) /\ (\A j \in i + 1 .. Len(taken) : ~LetsGo(taken[j], n)) => n \in keys
    /\ LetsGo(taken[i], n) /\ (\A j \in i + 1 .. Len(taken) : ~Strikes(taken[j], n)) => n \notin keys

\* The voices have followed the first c events: what is held stays so or will be let go, and
\* the last key struck is held.
Followed(c) ==
  /\ \A v \in Voice :
       Held(v) /\ (\A j \in c + 1 .. Len(taken) : ~LetsGo(taken[j], voices[v].note))
         => voices[v].note \in keys
  /\ \A i \in 1 .. c, n \in Notes :
       /\ Strikes(taken[i], n)
       /\ \A j \in i + 1 .. c : taken[j].event.kind # "on" /\ ~LetsGo(taken[j], n)
       => \E v \in Voice : Held(v) /\ voices[v].note = n

KeysInv ==
  /\ HeldOnce /\ OnTime /\ keys \subseteq Notes
  /\ phase = "events" =>
       /\ KeysTell
       /\ \E c \in 0 .. Len(taken) : Followed(c) /\ \E p : NotesBehind(taken, c, notes, p)
  /\ phase # "events" => notes = <<>> /\ \A v \in Voice : Held(v) => voices[v].note \in keys

\* No key is held at the start.
LEMMA KeysStart == PlaybackInit => KeysInv
<1> SUFFICES ASSUME PlaybackInit PROVE KeysInv
  OBVIOUS
<1>1. /\ Init /\ DriverInit /\ notes = <<>> /\ keys = {}
      /\ stamped = <<>> /\ waiting = <<>> /\ taken = <<>> /\ popping = FALSE /\ phase = "idle"
  BY DEF PlaybackInit, DriverInit, Init
<1>2. \A v \in Voice : ~Held(v)
  BY <1>1 DEF Init, NoVoice, Held
<1>3. Coming = <<>>
  BY <1>1 DEF Coming
<1>4. OnTime
  BY <1>1, <1>3 DEF OnTime, Ascending
<1> QED
  BY <1>1, <1>2, <1>4 DEF KeysInv, HeldOnce

\* The events of a chunk are sorted.
LEMMA KeysSorted ==
  ASSUME VoicesInv, DriverInv, KeysInv, ProcessControllerEvents PROVE KeysInv'
<1>1. /\ phase = "idle" /\ phase' = "events" /\ StartChunk
      /\ notes' = NoteEvents(MergeSorted(taken)) /\ keys' = Down(keys, taken)
      /\ popping' = FALSE /\ UNCHANGED <<now, stamped, waiting, start, taken>>
  BY DEF ProcessControllerEvents, StartChunk, EndTaking
<1>2. HeldOnce' /\ NoNewHeld
  BY <1>1, OthersHold DEF KeysInv
<1>3. OnTime'
  <2>1. Coming' = Coming
    BY <1>1 DEF Coming
  <2> QED
    BY <1>1, <2>1 DEF OnTime, Ascending, KeysInv
<1>4. keys' \subseteq Notes
  BY <1>1 DEF Down
<1>5. taken \in Seq(DueEvent) /\ Ascending(taken)
  BY DEF DriverInv, KeysInv, OnTime
<1>6. PICK p : NotesBehind(taken, 0, NoteEvents(MergeSorted(taken)), p)
  BY <1>5, NotesInOrder DEF Ascending
<1>7. NotesBehind(taken', 0, notes', p)
  BY <1>1, <1>6
<1>8. Len(taken) \in Nat
  BY <1>5
<1>9. KeysTell'
  <2> SUFFICES ASSUME NEW i \in 1 .. Len(taken), NEW n \in Notes
               PROVE  /\ Strikes(taken[i], n) /\ (\A j \in i + 1 .. Len(taken) : ~LetsGo(taken[j], n))
                           => n \in Down(keys, taken)
                      /\ LetsGo(taken[i], n) /\ (\A j \in i + 1 .. Len(taken) : ~Strikes(taken[j], n))
                           => n \notin Down(keys, taken)
    BY <1>1 DEF KeysTell
  <2>1. ASSUME Strikes(taken[i], n), \A j \in i + 1 .. Len(taken) : ~LetsGo(taken[j], n)
        PROVE  n \in Down(keys, taken)
    BY <1>8, <2>1 DEF Down
  <2>2. ASSUME LetsGo(taken[i], n), \A j \in i + 1 .. Len(taken) : ~Strikes(taken[j], n), n \in Down(keys, taken)
        PROVE  FALSE
    <3>1. PICK k \in 0 .. Len(taken) :
            /\ IF k = 0 THEN n \in keys ELSE Strikes(taken[k], n)
            /\ \A j \in k + 1 .. Len(taken) : ~LetsGo(taken[j], n)
      BY <2>2 DEF Down
    <3>2. ~(i \in k + 1 .. Len(taken))
      BY <2>2, <3>1
    <3>3. i <= k /\ k # 0
      BY <1>8, <3>2
    <3>4. k # i
      BY <2>2, <3>1, <3>3 DEF Strikes, LetsGo
    <3>5. k \in i + 1 .. Len(taken)
      BY <1>8, <3>3, <3>4
    <3> QED
      BY <2>2, <3>1, <3>3, <3>5
  <2> QED
    BY <2>1, <2>2
<1>10. Followed(0)'
  <2>1. ASSUME NEW v \in Voice, Held(v)', \A j \in 1 .. Len(taken) : ~LetsGo(taken[j], voices'[v].note)
        PROVE  voices'[v].note \in Down(keys, taken)
    <3>1. voices'[v].note \in keys
      BY <1>1, <1>2, <2>1 DEF NoNewHeld, KeysInv
    <3>2. voices'[v].note \in Notes
      BY <3>1 DEF KeysInv
    <3> QED
      BY <1>8, <2>1, <3>1, <3>2 DEF Down
  <2>2. \A i \in 1 .. 0, n \in Notes : FALSE
    OBVIOUS
  <2>3. 0 + 1 = 1
    OBVIOUS
  <2> QED
    BY <1>1, <2>1, <2>2, <2>3 DEF Followed
<1>11. 0 \in 0 .. Len(taken')
  BY <1>1, <1>8
<1> QED
  BY <1>1, <1>2, <1>3, <1>4, <1>7, <1>9, <1>10, <1>11 DEF KeysInv

\* A note event is followed.
LEMMA KeysPressed ==
  ASSUME VoicesInv, DriverInv, KeysInv, Press \/ Release PROVE KeysInv'
<1> DEFINE n == Head(notes).event.id
<1>1. /\ phase = "events" /\ phase' = phase /\ notes # <<>> /\ notes' = Tail(notes)
      /\ UNCHANGED <<now, stamped, waiting, popping, start, taken, keys>>
      /\ Head(notes).event.kind \in {"on", "off"}
  BY DEF Press, Release, NoteOn, NoteOff, driverVars
<1>2. /\ taken \in Seq(DueEvent) /\ notes \in Seq(DueEvent) /\ HeldOnce /\ KeysTell
      /\ n \in Notes
  BY <1>1, NotesArePlayed DEF DriverInv, KeysInv
<1>3. PICK c \in 0 .. Len(taken) : Followed(c) /\ \E p : NotesBehind(taken, c, notes, p)
  BY <1>1 DEF KeysInv
<1>14. PICK p : NotesBehind(taken, c, notes, p)
  BY <1>3
<1> DEFINE d == p[1]
<1>4. d \in c + 1 .. Len(taken) /\ taken[d] = Head(notes)
  BY <1>1, <1>2, <1>14, NextNote
<1>5. \A j \in c + 1 .. d - 1 : ~IsNote(taken[j])
  BY <1>1, <1>2, <1>14, NextNote
<1>6. PICK o : NotesBehind(taken, d, notes', o)
  BY <1>1, <1>2, <1>14, NextNote
<1>7. Len(taken) \in Nat /\ c \in Nat /\ d \in Nat /\ d \in 0 .. Len(taken) /\ c < d
  BY <1>2, <1>4
<1>8. OnTime'
  <2>1. Coming' = Coming
    BY <1>1 DEF Coming
  <2> QED
    BY <1>1, <2>1 DEF OnTime, Ascending, KeysInv
<1>9. KeysTell'
  BY <1>1, <1>2 DEF KeysTell
<1>10. \A j : ~IsNote(taken[j]) => \A m \in Notes : ~Strikes(taken[j], m) /\ ~LetsGo(taken[j], m)
  BY DEF IsNote, Strikes, LetsGo
<1> HIDE DEF d, n
\* What was to be let go behind c and is not let go here is to be let go behind d.
<1>11. ASSUME NEW v \in Voice, Held(v), \A j \in d .. Len(taken) : ~LetsGo(taken[j], voices[v].note)
       PROVE  voices[v].note \in keys
  <2>1. ASSUME NEW j \in c + 1 .. Len(taken) PROVE ~LetsGo(taken[j], voices[v].note)
    <3>1. CASE j \in d .. Len(taken)
      BY <1>11, <3>1
    <3>2. CASE j \notin d .. Len(taken)
      <4>1. j \in c + 1 .. d - 1
        BY <1>7, <3>2
      <4>2. ~IsNote(taken[j])
        BY <1>5, <4>1
      <4> QED
        BY <4>2 DEF IsNote, LetsGo
    <3> QED
      BY <3>1, <3>2
  <2> QED
    BY <1>3, <1>11, <2>1 DEF Followed
<1>12. CASE Press
  <2>1. PICK t : NoteOn(n, t)
    BY <1>12 DEF Press, n
  <2>2. HeldOnce'
    BY <1>2, <2>1, PressHolds
  <2>3. \A v \in Voice : Held(v)' => voices'[v].note = n \/ (Held(v) /\ voices'[v].note = voices[v].note)
    BY <1>2, <2>1, PressHolds
  <2>4. \E v \in Voice : Held(v)' /\ voices'[v].note = n
    BY <1>2, <2>1, PressHolds
  <2>5. Strikes(taken[d], n)
    BY <1>4, <1>12 DEF Press, Strikes, n
  <2>6. ASSUME NEW v \in Voice, Held(v)', \A j \in d + 1 .. Len(taken) : ~LetsGo(taken[j], voices'[v].note)
        PROVE  voices'[v].note \in keys
    <3>1. CASE voices'[v].note = n
      <4>1. d \in 1 .. Len(taken)
        BY <1>7
      <4> QED
        BY <1>2, <2>5, <2>6, <3>1, <4>1 DEF KeysTell
    <3>2. CASE Held(v) /\ voices'[v].note = voices[v].note
      <4>1. ASSUME NEW j \in d .. Len(taken) PROVE ~LetsGo(taken[j], voices[v].note)
        <5>1. j = d \/ j \in d + 1 .. Len(taken)
          BY <1>7
        <5>2. ~LetsGo(taken[d], voices[v].note)
          BY <2>5 DEF Strikes, LetsGo
        <5> QED
          BY <2>6, <3>2, <5>1, <5>2
      <4> QED
        BY <1>11, <3>2, <4>1
    <3> QED
      BY <2>3, <2>6, <3>1, <3>2
  <2>7. ASSUME NEW i \in 1 .. d, NEW m \in Notes, Strikes(taken[i], m),
               \A j \in i + 1 .. d : taken[j].event.kind # "on" /\ ~LetsGo(taken[j], m)
        PROVE  \E v \in Voice : Held(v)' /\ voices'[v].note = m
    <3>1. i = d
      <4>1. i # d => d \in i + 1 .. d
        BY <1>7
      <4> QED
        BY <2>5, <2>7, <4>1 DEF Strikes
    <3>2. m = n
      BY <2>5, <2>7, <3>1 DEF Strikes
    <3> QED
      BY <2>4, <3>2
  <2>8. Followed(d)'
    BY <1>1, <2>6, <2>7 DEF Followed
  <2> QED
    BY <1>1, <1>2, <1>6, <1>7, <1>8, <1>9, <2>2, <2>8 DEF KeysInv
<1>13. CASE Release
  <2>1. PICK t : NoteOff(n, t)
    BY <1>13 DEF Release, n
  <2>2. HeldOnce'
    BY <1>2, <2>1, ReleaseHolds
  <2>3. NoNewHeld
    BY <1>2, <2>1, ReleaseHolds
  <2>4. \A v \in Voice : Held(v)' => voices'[v].note # n
    BY <1>2, <2>1, ReleaseHolds
  <2>5. \A v \in Voice : Held(v) /\ voices[v].note # n => Held(v)' /\ voices'[v].note = voices[v].note
    BY <1>2, <2>1, ReleaseHolds
  <2>6. LetsGo(taken[d], n)
    BY <1>4, <1>13 DEF Release, LetsGo, n
  <2>7. ASSUME NEW v \in Voice, Held(v)', \A j \in d + 1 .. Len(taken) : ~LetsGo(taken[j], voices'[v].note)
        PROVE  voices'[v].note \in keys
    <3>1. Held(v) /\ voices'[v].note = voices[v].note /\ voices[v].note # n
      BY <2>3, <2>4, <2>7 DEF NoNewHeld
    <3>2. ASSUME NEW j \in d .. Len(taken) PROVE ~LetsGo(taken[j], voices[v].note)
      <4>1. j = d \/ j \in d + 1 .. Len(taken)
        BY <1>7
      <4>2. ~LetsGo(taken[d], voices[v].note)
        BY <2>6, <3>1 DEF LetsGo
      <4> QED
        BY <2>7, <3>1, <4>1, <4>2
    <3> QED
      BY <1>11, <3>1, <3>2
  <2>8. ASSUME NEW i \in 1 .. d, NEW m \in Notes, Strikes(taken[i], m),
               \A j \in i + 1 .. d : taken[j].event.kind # "on" /\ ~LetsGo(taken[j], m)
        PROVE  \E v \in Voice : Held(v)' /\ voices'[v].note = m
    <3>1. i # d
      BY <2>6, <2>8 DEF Strikes, LetsGo
    <3>2. i \notin c + 1 .. d - 1
      BY <1>5, <1>10, <2>8
    <3>3. i \in 1 .. c
      BY <1>7, <3>1, <3>2
    <3>4. \A j \in i + 1 .. c : j \in i + 1 .. d
      BY <1>7
    <3>5. PICK v \in Voice : Held(v) /\ voices[v].note = m
      BY <1>3, <2>8, <3>3, <3>4 DEF Followed
    <3>6. d \in i + 1 .. d
      BY <1>7, <3>1
    <3>7. m # n
      BY <2>6, <2>8, <3>6
    <3> QED
      BY <2>5, <3>5, <3>7
  <2>9. Followed(d)'
    BY <1>1, <2>7, <2>8 DEF Followed
  <2> QED
    BY <1>1, <1>2, <1>6, <1>7, <1>8, <1>9, <2>2, <2>9 DEF KeysInv
<1> QED
  BY <1>12, <1>13

\* When the events are through, the keys decide.
LEMMA KeysFollowed ==
  ASSUME VoicesInv, DriverInv, KeysInv, phase = "events", notes = <<>>
  PROVE  /\ \A v \in Voice : Held(v) => voices[v].note \in keys
         /\ KeysAreFollowed
<1>1. PICK c \in 0 .. Len(taken) : Followed(c) /\ \E p : NotesBehind(taken, c, notes, p)
  BY DEF KeysInv
<1>2. taken \in Seq(DueEvent) /\ KeysTell
  BY DEF DriverInv, KeysInv
<1>3. Len(taken) \in Nat /\ DOMAIN taken = 1 .. Len(taken) /\ c \in Nat
  BY <1>2
<1>4. \A j \in c + 1 .. Len(taken) : ~IsNote(taken[j])
  <2>1. \A i \in 1 .. Len(notes) : FALSE
    OBVIOUS
  <2>2. PICK p : NotesBehind(taken, c, notes, p)
    BY <1>1
  <2> QED
    BY <2>1, <2>2 DEF NotesBehind
<1>5. ASSUME NEW v \in Voice, Held(v) PROVE voices[v].note \in keys
  <2>1. \A j \in c + 1 .. Len(taken) : ~LetsGo(taken[j], voices[v].note)
    BY <1>4 DEF IsNote, LetsGo
  <2> QED
    BY <1>1, <1>5, <2>1 DEF Followed
<1>6. ASSUME NEW i \in DOMAIN taken, NEW n, n = taken[i].event.id, Strikes(taken[i], n), n \in keys,
             \A j \in i + 1 .. Len(taken) : taken[j].event.kind # "on"
      PROVE  Holding(n) # {}
  <2>1. n \in Notes
    BY <1>6 DEF KeysInv
  <2>2. i \in 1 .. c
    <3>1. IsNote(taken[i])
      BY <1>6 DEF Strikes, IsNote
    <3> QED
      BY <1>3, <1>4, <1>6, <3>1
  <2>3. ASSUME NEW j \in i + 1 .. c PROVE taken[j].event.kind # "on" /\ ~LetsGo(taken[j], n)
    <3>1. j \in 1 .. Len(taken) /\ j \in i + 1 .. Len(taken)
      BY <1>3, <2>2
    <3>2. \A k \in j + 1 .. Len(taken) : ~Strikes(taken[k], n)
      <4>1. \A k \in j + 1 .. Len(taken) : k \in i + 1 .. Len(taken)
        BY <1>3, <2>2, <3>1
      <4> QED
        BY <1>6, <4>1 DEF Strikes
    <3>3. ~LetsGo(taken[j], n)
      BY <1>2, <1>6, <2>1, <3>1, <3>2 DEF KeysTell
    <3> QED
      BY <1>6, <3>1, <3>3
  <2>4. PICK v \in Voice : Held(v) /\ voices[v].note = n
    BY <1>1, <1>6, <2>1, <2>2, <2>3 DEF Followed
  <2> QED
    BY <2>4, HoldingIs
<1>7. \A v \in Voice : voices[v].active /\ ~voices[v].released => voices[v].note \in keys
  BY <1>5 DEF Held
<1> QED
  BY <1>5, <1>6, <1>7 DEF KeysAreFollowed

\* Every step keeps it.
LEMMA KeysKept ==
  ASSUME PlaybackInv, PlaybackInv', KeysInv, [PlaybackNext]_playbackVars PROVE KeysInv'
<1>1. VoicesInv /\ DriverInv /\ DriverInv'
  BY DEF PlaybackInv
<1>2. CASE Play \/ Deliver \/ Tick \/ TakeEvents \/ TakeEvent
  <2>1. OnTime'
    BY <1>1, <1>2, OnTimeSteps DEF KeysInv
  <2>2. phase = "idle"
    BY <1>1, <1>2 DEF Play, Deliver, Tick, TakeEvents, TakeEvent, Take, Listening, KeysInv, OnTime
  <2>3. UNCHANGED <<voices, phase, keys, notes>>
    BY <1>2 DEF Play, Deliver, Tick, TakeEvents, TakeEvent, vars, historyVars, callbackVars
  <2> QED
    BY <2>1, <2>2, <2>3 DEF KeysInv, HeldOnce, Held
<1>3. CASE ProcessControllerEvents
  BY <1>1, <1>3, KeysSorted
<1>4. CASE Press \/ Release
  BY <1>1, <1>4, KeysPressed
<1>5. CASE NotesAllocated \/ PlayVoice \/ PlayRest
  <2>1. /\ UNCHANGED <<now, stamped, waiting, popping, start, taken, keys, notes>>
        /\ ProcessVoice \/ UNCHANGED voices
        /\ phase' # "events" /\ phase # "idle"
        /\ phase = "events" => notes = <<>>
    BY <1>5 DEF NotesAllocated, PlayVoice, PlayRest, EndEvents, ProcessVoice, SkipVoice, EndVoices, ProcessFx,
      driverVars, callbackVars, historyVars
  <2>2. HeldOnce'
    BY <1>1, <2>1, OthersHold DEF KeysInv
  <2>3. NoNewHeld
    BY <1>1, <2>1, OthersHold DEF KeysInv
  <2>4. \A v \in Voice : Held(v) => voices[v].note \in keys
    BY <1>1, <2>1, KeysFollowed DEF KeysInv
  <2>5. OnTime'
    <3>1. Coming' = Coming
      BY <2>1 DEF Coming
    <3>2. ~popping
      BY <2>1 DEF KeysInv, OnTime
    <3> QED
      BY <2>1, <3>1, <3>2 DEF OnTime, Ascending, KeysInv
  <2>6. notes' = <<>>
    BY <2>1 DEF KeysInv
  <2>7. \A v \in Voice : Held(v)' => voices'[v].note \in keys'
    BY <2>1, <2>3, <2>4 DEF NoNewHeld
  <2> QED
    BY <2>1, <2>2, <2>5, <2>6, <2>7 DEF KeysInv
<1>6. CASE UNCHANGED playbackVars
  <2>1. UNCHANGED <<voices, phase, keys, notes, now, stamped, waiting, popping, start, taken>>
    BY <1>6 DEF playbackVars, vars, driverVars, callbackVars, historyVars
  <2>2. Coming' = Coming
    BY <2>1 DEF Coming
  <2>3. OnTime' /\ HeldOnce' /\ KeysTell' = KeysTell
    BY <2>1, <2>2 DEF OnTime, Ascending, KeysInv, HeldOnce, Held, KeysTell
  <2>4. \A c : Followed(c)' = Followed(c)
    BY <2>1 DEF Followed, Held
  <2>5. \A v \in Voice : Held(v)' = Held(v)
    BY <2>1 DEF Held
  <2> QED
    BY <2>1, <2>3, <2>4, <2>5 DEF KeysInv
<1> QED
  BY <1>2, <1>3, <1>4, <1>5, <1>6 DEF PlaybackNext

-----------------------------------------------------------------------------
(* The durations of the notes.                                             *)

\* The first sample of the chunk, and the first one behind it.
Begin == (chunks - 1) * Frames
End == chunks * Frames

\* Where the buffer begins in which a note that began at b was let go at r.
BufferOf(b, r) == IF b \div Frames = r \div Frames THEN b ELSE (r \div Frames) * Frames

\* The memory m of the tasks is that of a note that began at b and was let go at r, at the sample t.
Remembers(m, b, r, t) ==
  /\ m.pressed = t - b
  /\ m.released <=> r # Never /\ r < t
  /\ m.releasedFor = IF r # Never /\ r < t THEN t - BufferOf(b, r) ELSE 0

Memory == [pressed : Int, released : BOOLEAN, releasedFor : Int]

\* Which chunk a sample lies in.
LEMMA ChunkIs ==
  ASSUME NEW k \in Nat, NEW x \in Nat
  PROVE  /\ k * Frames <= x /\ x < k * Frames + Frames => x \div Frames = k
         /\ x < k * Frames => x \div Frames # k
<1> USE VoiceAssumption
<1> DEFINE q == x \div Frames
<1>1. q \in Nat /\ q * Frames <= x /\ x < q * Frames + Frames
  <2>1. \A f \in Nat \ {0} : x \div f \in Nat /\ f * (x \div f) <= x /\ x < f * (x \div f) + f
    OBVIOUS
  <2>2. x \div Frames \in Nat /\ Frames * (x \div Frames) <= x /\ x < Frames * (x \div Frames) + Frames
    BY <2>1
  <2>3. \A a, f \in Nat : a * f = f * a
    OBVIOUS
  <2> QED
    BY <2>2, <2>3
<1> HIDE DEF q
<1>2. \A a, b, f \in Nat : a + 1 <= b => a * f + f <= b * f
  <2> TAKE a, b, f \in Nat
  <2>1. \A d, e \in Nat : d <= e => d * f <= e * f
    OBVIOUS
  <2>2. (a + 1) * f = a * f + f
    OBVIOUS
  <2> QED
    BY <2>1, <2>2
<1>3. q * Frames \in Nat /\ k * Frames \in Nat
  <2>1. \A a, f \in Nat : a * f \in Nat
    OBVIOUS
  <2> QED
    BY <1>1, <2>1
<1>4. q + 1 <= k => q * Frames + Frames <= k * Frames
  BY <1>1, <1>2
<1>5. k + 1 <= q => k * Frames + Frames <= q * Frames
  BY <1>1, <1>2
<1>6. ASSUME k * Frames <= x, x < k * Frames + Frames PROVE q = k
  <2>1. ~(q + 1 <= k)
    BY <1>1, <1>3, <1>4, <1>6
  <2>2. ~(k + 1 <= q)
    BY <1>1, <1>3, <1>5, <1>6
  <2> QED
    BY <1>1, <2>1, <2>2
<1>7. ASSUME x < k * Frames PROVE q # k
  BY <1>1, <1>3, <1>7
<1> QED
  BY <1>6, <1>7 DEF q

\* The samples of the chunk and those before it.
LEMMA ChunkSamples ==
  ASSUME chunks \in Nat \ {0}
  PROVE  /\ Begin \in Nat /\ End = Begin + Frames
         /\ \A x \in Nat : Begin <= x /\ x < End => x \div Frames = chunks - 1
         /\ \A x \in Nat : x < Begin => x \div Frames # chunks - 1
<1> USE VoiceAssumption
<1>1. \A a, f \in Nat : a * f \in Nat /\ (a + 1) * f = a * f + f
  OBVIOUS
<1>2. chunks - 1 \in Nat /\ chunks - 1 + 1 = chunks
  OBVIOUS
<1>3. Begin \in Nat /\ End = Begin + Frames
  BY <1>1, <1>2 DEF Begin, End
<1>4. ASSUME NEW x \in Nat
      PROVE  /\ Begin <= x /\ x < End => x \div Frames = chunks - 1
             /\ x < Begin => x \div Frames # chunks - 1
  <2>1. Begin <= x /\ x < Begin + Frames => x \div Frames = chunks - 1
    BY <1>2, ChunkIs DEF Begin
  <2>2. x < Begin => x \div Frames # chunks - 1
    BY <1>2, ChunkIs DEF Begin
  <2> QED
    BY <1>3, <2>1, <2>2
<1> QED
  BY <1>3, <1>4

\* What a voice that is still to be played in the chunk goes by: it has been activated or not (a),
\* its note began at b and was let go at r, and it was told an offset o and a release e.
Timely(m, a, b, r, o, e) ==
  /\ IF a THEN b = Begin + o ELSE o = 0 /\ b < Begin /\ Remembers(m, b, r, Begin)
  /\ IF e = Never THEN r = Never \/ (~a /\ r < Begin) ELSE r = Begin + e /\ o <= e

\* The memory the tasks begin with is right, and so is the one they leave.
LEMMA Played ==
  ASSUME chunks \in Nat \ {0}, NEW m \in Memory, NEW a \in BOOLEAN, NEW b \in Nat, NEW r \in Nat \cup {Never},
         NEW o \in Offset, NEW e \in Offset \cup {Never}, Timely(m, a, b, r, o, e)
  PROVE  LET m1 == IF a THEN NewMemory ELSE m
         IN  /\ Remembers(m1, b, r, Begin + o) /\ m1 \in Memory
             /\ Remembers(AfterTasks(m1, e - o, Frames - o), b, r, End)
             /\ AfterTasks(m1, e - o, Frames - o) \in Memory
             /\ b < End /\ r < End
<1> USE VoiceAssumption
<1> DEFINE m1 == IF a THEN NewMemory ELSE m
           s == Begin + o
           n == AfterTasks(m1, e - o, Frames - o)
<1>1. Begin \in Nat /\ End = Begin + Frames
  BY ChunkSamples
<1>2. o \in 0 .. Frames - 1 /\ e \in -1 .. Frames - 1 /\ Never = -1
  BY DEF Offset, Never
<1>3. b <= s /\ b < End /\ r < End /\ r \in Int /\ r >= -1 /\ s \in Nat
  BY <1>1, <1>2 DEF Timely
<1>4. m1 \in Memory
  BY DEF NewMemory, Memory
<1>5. m1.pressed = s - b /\ (m1.released <=> r # Never /\ r < s) /\
      m1.releasedFor = IF r # Never /\ r < s THEN s - BufferOf(b, r) ELSE 0
  <2>1. CASE a
    <3>1. ~(r # Never /\ r < s)
      BY <1>1, <1>2, <2>1 DEF Timely
    <3> QED
      BY <1>1, <1>2, <2>1, <3>1 DEF Timely, NewMemory
  <2>2. CASE ~a
    <3>1. s = Begin
      BY <1>1, <2>2 DEF Timely
    <3> QED
      BY <2>2, <3>1 DEF Timely, Remembers
  <2> QED
    BY <2>1, <2>2
<1>6. e - o >= 0 <=> r # Never /\ r >= s
  <2>1. CASE e = Never
    BY <1>1, <1>2, <2>1 DEF Timely
  <2>2. CASE e # Never
    BY <1>1, <1>2, <2>2 DEF Timely
  <2> QED
    BY <2>1, <2>2
\* The buffer in which a note of this chunk is let go begins where the voice does.
<1>7. r # Never /\ r >= s => BufferOf(b, r) = s
  <2> SUFFICES ASSUME r # Never, r >= s PROVE BufferOf(b, r) = s
    OBVIOUS
  <2>1. r \in Nat /\ r \div Frames = chunks - 1
    <3>1. r \in Nat /\ Begin <= r
      BY <1>1, <1>2, <1>3
    <3> QED
      BY <1>3, <3>1, ChunkSamples
  <2>2. CASE a
    <3>1. b = s /\ Begin <= b
      BY <1>1, <1>2, <2>2 DEF Timely
    <3>2. b \div Frames = chunks - 1
      BY <1>3, <3>1, ChunkSamples
    <3> QED
      BY <2>1, <3>1, <3>2 DEF BufferOf
  <2>3. CASE ~a
    <3>1. s = Begin /\ b < Begin
      BY <1>1, <2>3 DEF Timely
    <3>2. b \div Frames # chunks - 1
      BY <3>1, ChunkSamples
    <3> QED
      BY <2>1, <3>1, <3>2 DEF BufferOf, Begin
  <2> QED
    BY <2>2, <2>3
<1>8. /\ n.pressed = m1.pressed + (Frames - o) /\ (n.released <=> m1.released \/ e - o >= 0)
      /\ n.releasedFor = IF m1.released \/ e - o >= 0 THEN m1.releasedFor + (Frames - o) ELSE m1.releasedFor
  BY DEF AfterTasks
<1>9. n \in Memory
  <2>1. m1.pressed \in Int /\ m1.released \in BOOLEAN /\ m1.releasedFor \in Int
    BY <1>4 DEF Memory
  <2>2. (m1.released \/ e - o >= 0) \in BOOLEAN
    OBVIOUS
  <2> HIDE DEF m1
  <2> QED
    BY <1>2, <2>1, <2>2 DEF AfterTasks, Memory
<1> HIDE DEF n, m1
<1>10. n.pressed = End - b
  BY <1>1, <1>2, <1>3, <1>5, <1>8
<1>11. n.released <=> r # Never /\ r < End
  BY <1>1, <1>2, <1>3, <1>5, <1>6, <1>8
<1>12. n.releasedFor = IF r # Never /\ r < End THEN End - BufferOf(b, r) ELSE 0
  <2>1. CASE r = Never
    BY <1>2, <1>5, <1>6, <1>8, <2>1
  <2>2. CASE r # Never /\ r < s
    <3>1. m1.releasedFor = s - BufferOf(b, r) /\ m1.releasedFor \in Int
      BY <1>4, <1>5, <2>2 DEF Memory
    <3>2. BufferOf(b, r) \in Int
      <4>1. r \in Nat /\ r \div Frames \in Nat
        BY <1>2, <1>3, <2>2
      <4>2. (r \div Frames) * Frames \in Int
        BY <4>1
      <4> QED
        BY <4>2 DEF BufferOf
    <3>3. n.releasedFor = m1.releasedFor + (Frames - o)
      BY <1>5, <1>8, <2>2
    <3> QED
      BY <1>1, <1>2, <1>3, <2>2, <3>1, <3>2, <3>3
  <2>3. CASE r # Never /\ r >= s
    <3>1. m1.releasedFor = 0 /\ n.releasedFor = m1.releasedFor + (Frames - o)
      BY <1>3, <1>5, <1>6, <1>8, <2>3
    <3> QED
      BY <1>1, <1>2, <1>3, <1>7, <2>3, <3>1
  <2> QED
    BY <1>3, <2>1, <2>2, <2>3
<1>13. Remembers(m1, b, r, s)
  BY <1>5 DEF Remembers
<1>14. Remembers(n, b, r, End)
  BY <1>10, <1>11, <1>12 DEF Remembers
<1> QED
  BY <1>3, <1>4, <1>9, <1>13, <1>14 DEF n, m1

\* What the two functions then say at a frame of the chunk.
LEMMA Told ==
  ASSUME chunks \in Nat \ {0}, NEW m \in Memory, NEW a \in BOOLEAN, NEW b \in Nat, NEW r \in Nat \cup {Never},
         NEW o \in Offset, NEW e \in Offset \cup {Never}, Timely(m, a, b, r, o, e),
         NEW f \in 0 .. Frames - 1 - o
  PROVE  LET m1 == IF a THEN NewMemory ELSE m
             s == Begin + (o + f)
         IN  /\ PressDuration(m1, f) = s - b
             /\ ReleaseDuration(m1, e - o, f) =
                  IF r = Never \/ s < r THEN 0
                  ELSE s - r + (IF s \div Frames = r \div Frames THEN 0 ELSE r - BufferOf(b, r))
<1> USE VoiceAssumption
<1> DEFINE m1 == IF a THEN NewMemory ELSE m
           s == Begin + (o + f)
           t == Begin + o
<1>1. Begin \in Nat /\ End = Begin + Frames
  BY ChunkSamples
<1>2. o \in 0 .. Frames - 1 /\ e \in -1 .. Frames - 1 /\ Never = -1 /\ f \in Nat
  BY DEF Offset, Never
<1>3. m1 \in Memory /\ r < End
  BY Played
<1>4. Remembers(m1, b, r, t)
  BY Played
<1> HIDE DEF m1
<1>5. m1.pressed = t - b /\ (m1.released <=> r # Never /\ r < t)
      /\ m1.releasedFor = IF r # Never /\ r < t THEN t - BufferOf(b, r) ELSE 0
  BY <1>4 DEF Remembers
<1>6. PressDuration(m1, f) = s - b
  BY <1>1, <1>2, <1>5 DEF PressDuration
<1>7. s \in Nat /\ s \div Frames = chunks - 1
  <2>1. s \in Nat /\ Begin <= s /\ s < End
    BY <1>1, <1>2
  <2> QED
    BY <2>1, ChunkSamples
<1>8. e - o >= 0 => r = t + (e - o)
  BY <1>1, <1>2 DEF Timely
<1>9. e - o < 0 => r = Never \/ r < t
  BY <1>1, <1>2 DEF Timely
<1>10. CASE e - o >= 0
  <2>1. ~m1.released /\ m1.releasedFor = 0 /\ r # Never /\ r \in Nat
    BY <1>1, <1>2, <1>5, <1>8, <1>10
  <2>2. ReleaseDuration(m1, e - o, f) = IF f < e - o THEN 0 ELSE f - (e - o)
    BY <1>2, <1>10, <2>1 DEF ReleaseDuration
  <2>3. r \div Frames = chunks - 1
    <3>1. Begin <= r
      BY <1>1, <1>2, <1>8, <1>10
    <3> QED
      BY <1>3, <2>1, <3>1, ChunkSamples
  <2>4. (s < r <=> f < e - o) /\ s - r = f - (e - o)
    BY <1>1, <1>2, <1>8, <1>10
  <2>5. s \div Frames = r \div Frames
    BY <1>7, <2>3
  <2> HIDE DEF s, t
  <2>6. s - r \in Int
    BY <1>7, <2>1
  <2>7. ReleaseDuration(m1, e - o, f) =
          IF r = Never \/ s < r THEN 0
          ELSE s - r + (IF s \div Frames = r \div Frames THEN 0 ELSE r - BufferOf(b, r))
    BY <2>1, <2>2, <2>4, <2>5, <2>6
  <2> QED
    BY <1>6, <2>7 DEF m1, s
<1>11. CASE e - o < 0 /\ r = Never
  <2>1. ReleaseDuration(m1, e - o, f) = 0
    BY <1>2, <1>5, <1>11 DEF ReleaseDuration
  <2> QED
    BY <1>6, <1>11, <2>1 DEF m1
<1>12. CASE e - o < 0 /\ r # Never
  <2>1. r < t /\ m1.released /\ m1.releasedFor = t - BufferOf(b, r) /\ r \in Nat
    BY <1>1, <1>2, <1>5, <1>9, <1>12
  <2>2. ~a /\ t = Begin
    BY <1>1, <1>2, <2>1 DEF Timely
  <2>3. s \div Frames # r \div Frames
    <3>1. r \div Frames # chunks - 1
      BY <2>1, <2>2, ChunkSamples
    <3> QED
      BY <1>7, <3>1
  <2>4. BufferOf(b, r) \in Int
    <3>1. r \div Frames \in Nat
      BY <2>1
    <3>2. (r \div Frames) * Frames \in Int
      BY <3>1
    <3> QED
      BY <3>2 DEF BufferOf
  <2>5. ReleaseDuration(m1, e - o, f) = m1.releasedFor + f
    <3>1. m1.releasedFor + f - 0 = m1.releasedFor + f
      BY <1>1, <1>2, <2>1, <2>4
    <3> QED
      BY <1>2, <1>12, <2>1, <3>1 DEF ReleaseDuration
  <2>6. ~(r = Never \/ s < r)
    BY <1>1, <1>2, <1>12, <2>1
  <2>7. s - r + (r - BufferOf(b, r)) = t - BufferOf(b, r) + f
    BY <1>1, <1>2, <2>1, <2>4
  <2> QED
    BY <1>6, <2>1, <2>3, <2>5, <2>6, <2>7 DEF m1
<1> QED
  BY <1>2, <1>9, <1>10, <1>11, <1>12

\* The voice is still to be played in the chunk.
Awaited(v) == phase = "events" \/ (phase = "voices" /\ current <= v)

RightTimes(v) ==
  IF Awaited(v)
  THEN Timely(memory[v], voices[v].activatedThisChunk, begun[v], letGo[v], voices[v].offset, voices[v].releaseSample)
  ELSE Remembers(memory[v], begun[v], letGo[v], End) /\ begun[v] < End /\ letGo[v] < End

TimesTyped ==
  memory \in [Voice -> Memory] /\ begun \in [Voice -> Nat] /\ letGo \in [Voice -> Nat \cup {Never}]

TimesInv ==
  /\ TimesTyped
  /\ \A v \in Voice : voices[v].active => (voices[v].released <=> letGo[v] # Never)
  /\ "voice" \in graphs => \A v \in Voice : voices[v].active => RightTimes(v)
  /\ phase = "voices" => "voice" \in graphs
  /\ phase = "events" =>
       \A v \in Voice, i \in 1 .. Len(notes) :
         voices[v].active /\ voices[v].activatedThisChunk => voices[v].offset <= notes[i].at

\* Nothing has been played at the start.
LEMMA TimesStart == PlaybackInit => TimesInv
<1> SUFFICES ASSUME PlaybackInit PROVE TimesInv
  OBVIOUS
<1>1. /\ memory = [v \in Voice |-> NewMemory] /\ begun = [v \in Voice |-> 0] /\ letGo = [v \in Voice |-> Never]
      /\ Init
  BY DEF PlaybackInit
<1>2. NewMemory \in Memory
  BY DEF NewMemory, Memory
<1>3. TimesTyped
  BY <1>1, <1>2 DEF TimesTyped
<1>4. phase = "idle" /\ \A v \in Voice : ~voices[v].active
  BY <1>1 DEF Init, NoVoice
<1> QED
  BY <1>3, <1>4 DEF TimesInv

\* The note events of a chunk come in the order of their frames.
LEMMA NotesAscend ==
  ASSUME DriverInv, KeysInv, phase = "events"
  PROVE  \A i, j \in 1 .. Len(notes) : i < j => notes[i].at <= notes[j].at
<1>1. PICK c \in 0 .. Len(taken) : \E p : NotesBehind(taken, c, notes, p)
  BY DEF KeysInv
<1>2. PICK p : NotesBehind(taken, c, notes, p)
  BY <1>1
<1>3. taken \in Seq(DueEvent) /\ Ascending(taken)
  BY DEF DriverInv, KeysInv, OnTime
<1>4. \A i \in 1 .. Len(notes) : p[i] \in 1 .. Len(taken) /\ notes[i] = taken[p[i]]
  BY <1>2, <1>3 DEF NotesBehind
<1>5. \A i, j \in 1 .. Len(notes) : i < j => p[i] < p[j]
  BY <1>2 DEF NotesBehind, Increasing
<1> QED
  BY <1>3, <1>4, <1>5 DEF Ascending

\* Where a step leaves a voice alone, its times stay right.
LEMMA TimesStay ==
  ASSUME NEW v \in Voice, RightTimes(v), chunks' = chunks, memory'[v] = memory[v], begun'[v] = begun[v],
         letGo'[v] = letGo[v], voices'[v] = voices[v], Awaited(v)' = Awaited(v)
  PROVE  RightTimes(v)'
<1>1. Begin' = Begin /\ End' = End
  BY DEF Begin, End
<1> QED
  BY <1>1 DEF RightTimes, Timely, Remembers

\* A chunk begins: what was behind the last one is before this one.
LEMMA TimesSorted ==
  ASSUME VoicesInv, DriverInv, KeysInv, TimesInv, ProcessControllerEvents PROVE TimesInv'
<1>1. /\ phase = "idle" /\ phase' = "events" /\ chunks' = chunks + 1
      /\ UNCHANGED <<memory, begun, letGo, graphs>>
      /\ \A v \in Voice :
           voices'[v] = IF \E i \in DOMAIN Playing : Playing[i] = v
                        THEN [voices[v] EXCEPT !.activatedThisChunk = FALSE, !.sampleIndex = 0, !.offset = 0,
                                               !.releaseSample = Never]
                        ELSE voices[v]
  BY DEF ProcessControllerEvents, StartChunk
<1>2. chunks \in Nat
  BY VoiceAssumption DEF VoicesInv, TypeOK
<1>3. Begin' = End
  <2>1. chunks' = chunks + 1
    BY <1>1
  <2>2. chunks' - 1 = chunks
    BY <1>2, <2>1
  <2>3. (chunks' - 1) * Frames = chunks * Frames
    BY <2>2
  <2>4. Begin' = (chunks' - 1) * Frames
    BY DEF Begin
  <2> QED
    BY <2>3, <2>4 DEF End
<1>4. ASSUME NEW v \in Voice, voices[v].active
      PROVE  /\ ~voices'[v].activatedThisChunk /\ voices'[v].offset = 0 /\ voices'[v].releaseSample = Never
             /\ voices'[v].released = voices[v].released
  <2>1. \E i \in DOMAIN Playing : Playing[i] = v
    BY <1>4, VoicesAre, PlayingAreActive
  <2>2. voices'[v] = [voices[v] EXCEPT !.activatedThisChunk = FALSE, !.sampleIndex = 0, !.offset = 0,
                                       !.releaseSample = Never]
    BY <1>1, <2>1
  <2>3. voices[v] \in VoiceType
    BY VoicesAre
  <2> QED
    BY <2>2, <2>3 DEF VoiceType
<1>5. ASSUME NEW v \in Voice, voices'[v].active PROVE voices[v].active
  <2>1. voices[v] \in VoiceType
    BY VoicesAre
  <2> QED
    BY <1>1, <1>5, <2>1 DEF VoiceType
<1>6. ASSUME "voice" \in graphs, NEW v \in Voice, voices'[v].active PROVE RightTimes(v)'
  <2>1. RightTimes(v) /\ ~Awaited(v)
    BY <1>1, <1>5, <1>6 DEF TimesInv, Awaited
  <2>2. Remembers(memory[v], begun[v], letGo[v], End) /\ begun[v] < End /\ letGo[v] < End
    BY <2>1 DEF RightTimes
  <2>3. Awaited(v)'
    BY <1>1 DEF Awaited
  <2>4. Remembers(memory'[v], begun'[v], letGo'[v], Begin')
    BY <1>1, <1>3, <2>2
  <2>5. Timely(memory[v], voices[v].activatedThisChunk, begun[v], letGo[v], voices[v].offset, voices[v].releaseSample)'
    BY <1>1, <1>3, <1>4, <1>5, <1>6, <2>2, <2>4 DEF Timely
  <2> QED
    BY <2>3, <2>5 DEF RightTimes
<1>7. \A v \in Voice : voices'[v].active => (voices'[v].released <=> letGo'[v] # Never)
  BY <1>1, <1>4, <1>5 DEF TimesInv
<1>8. \A v \in Voice, i \in 1 .. Len(notes') : voices'[v].active /\ voices'[v].activatedThisChunk => FALSE
  BY <1>4, <1>5
<1>9. TimesTyped'
  BY <1>1 DEF TimesInv, TimesTyped
<1> QED
  BY <1>1, <1>6, <1>7, <1>8, <1>9 DEF TimesInv

\* The frame of an event that is at e in its chunk, rounded or not, is the offset e.
LEMMA FrameIs ==
  ASSUME NEW e \in Offset, NEW t \in FrameOf(e) PROVE SampleOffset(t) = e
BY VoiceAssumption DEF FrameOf, SampleOffset, Offset

\* A voice that starts begins at its offset.
LEMMA TimesPressed ==
  ASSUME VoicesInv, DriverInv, KeysInv, TimesInv, Press PROVE TimesInv'
<1> USE VoiceAssumption
<1> DEFINE e == Head(notes)
           n == e.event.id
<1>1. /\ phase = "events" /\ phase' = phase /\ notes # <<>> /\ notes' = Tail(notes)
      /\ UNCHANGED <<memory, graphs, chunks, current>>
  BY DEF Press, NoteOn
<1>2. PICK t \in FrameOf(e.at) : NoteOn(n, t)
  BY DEF Press
<1>3. notes \in Seq(DueEvent) /\ e \in DueEvent /\ TimesTyped
  BY <1>1 DEF DriverInv, TimesInv
<1>4. e.at \in Offset
  BY <1>3 DEF DueEvent
<1>5. SampleOffset(t) = e.at
  BY <1>4, FrameIs
<1>6. /\ begun' = [v \in Voice |-> IF v \in {w \in {Chosen} : Holding(n) = {}} THEN Sample(e.at) ELSE begun[v]]
      /\ letGo' = [v \in Voice |-> IF v \in {w \in {Chosen} : Holding(n) = {}} THEN Never ELSE letGo[v]]
  BY Zenon DEF Press
<1>7. Len(notes') = Len(notes) - 1 /\ \A i \in 1 .. Len(notes') : notes'[i] = notes[i + 1] /\ i + 1 \in 2 .. Len(notes)
  BY <1>1, <1>3
<1>8. \A i \in 1 .. Len(notes') : i + 1 \in 1 .. Len(notes) /\ 1 \in 1 .. Len(notes) /\ 1 < i + 1 /\ notes[1] = e
  BY <1>1, <1>3, <1>7
<1>9. \A i \in 1 .. Len(notes') : e.at <= notes'[i].at
  BY <1>1, <1>7, <1>8, NotesAscend
<1>10. \A v \in Voice : voices[v] \in VoiceType
  BY VoicesAre
<1>11. voices \in [Voice -> VoiceType]
  BY VoicesAre
<1> HIDE DEF e, n
<1>12. \A v \in Voice : Awaited(v) /\ Awaited(v)' /\ Awaited(v)' = Awaited(v)
  BY <1>1 DEF Awaited
<1>13. CASE Holding(n) # {}
  <2>1. voices' = voices
    BY <1>2, <1>13 DEF NoteOn
  <2>2. \A v \in Voice : begun'[v] = begun[v] /\ letGo'[v] = letGo[v]
    BY <1>6, <1>13
  <2>3. TimesTyped'
    BY <1>1, <1>3, <1>6, <1>13 DEF TimesTyped
  <2>4. ASSUME "voice" \in graphs, NEW v \in Voice, voices'[v].active PROVE RightTimes(v)'
    <3>1. RightTimes(v)
      BY <2>1, <2>4 DEF TimesInv
    <3> QED
      BY <1>1, <1>12, <2>1, <2>2, <3>1, TimesStay
  <2>5. \A v \in Voice : voices'[v].active => (voices'[v].released <=> letGo'[v] # Never)
    BY <2>1, <2>2 DEF TimesInv
  <2>6. \A v \in Voice, i \in 1 .. Len(notes') :
          voices'[v].active /\ voices'[v].activatedThisChunk => voices'[v].offset <= notes'[i].at
    BY <1>1, <1>7, <1>8, <2>1 DEF TimesInv
  <2> QED
    BY <1>1, <2>3, <2>4, <2>5, <2>6 DEF TimesInv
<1>14. CASE Holding(n) = {}
  <2>1. voices' = [voices EXCEPT ![Chosen] = Started(voices[Chosen], n, t)]
    BY <1>2, <1>14 DEF NoteOn
  <2>2. PICK s \in [1 .. MaxVoices -> Voice] : AllIn(list, s)
    BY VoicesAre DEF ListInv
  <2>3. Chosen \in Voice
    BY <2>2 DEF AllIn, Chain, Chosen
  <2>14. PICK c \in Voice : c = Chosen
    BY <2>3
  <2>4. \A v \in Voice : v # c => voices'[v] = voices[v] /\ begun'[v] = begun[v] /\ letGo'[v] = letGo[v]
    BY <1>6, <1>11, <2>1, <2>14
  <2>5. begun'[c] = Sample(e.at) /\ letGo'[c] = Never
    BY <1>6, <1>14, <2>14
  <2>6. /\ voices'[c].activatedThisChunk /\ ~voices'[c].released /\ voices'[c].offset = e.at
        /\ voices'[c].releaseSample = Never
    <3>1. voices'[c] = Started(voices[c], n, t) /\ voices[c] \in VoiceType
      BY <1>10, <1>11, <2>1, <2>14
    <3> QED
      BY <1>5, <3>1 DEF Started, VoiceType
  <2>7. chunks \in Nat \ {0} /\ Begin \in Nat
    <3>1. chunks \in Nat \ {0}
      BY <1>1 DEF VoicesInv, TypeOK, SamplesCount
    <3> QED
      BY <3>1, ChunkSamples
  <2>8. Sample(e.at) = Begin + e.at /\ Sample(e.at) \in Nat
    <3>1. Sample(e.at) = Begin + e.at
      BY DEF Sample, Begin
    <3> QED
      BY <1>4, <2>7, <3>1 DEF Offset
  <2>9. TimesTyped'
    <3>1. \A v \in Voice : begun'[v] \in Nat /\ letGo'[v] \in Nat \cup {Never}
      BY <1>3, <2>4, <2>5, <2>8 DEF TimesTyped
    <3>2. DOMAIN begun' = Voice /\ begun' = [v \in Voice |-> begun'[v]] /\ letGo' = [v \in Voice |-> letGo'[v]]
      BY <1>6
    <3> QED
      BY <1>1, <1>3, <3>1, <3>2 DEF TimesTyped
  <2>10. RightTimes(c)'
    <3>1. Begin' = Begin
      BY <1>1 DEF Begin
    <3>2. Timely(memory[c], voices[c].activatedThisChunk, begun[c], letGo[c], voices[c].offset, voices[c].releaseSample)'
      BY <2>5, <2>6, <2>8, <3>1 DEF Timely
    <3> QED
      BY <1>12, <3>2 DEF RightTimes
  <2>11. ASSUME "voice" \in graphs, NEW v \in Voice, voices'[v].active PROVE RightTimes(v)'
    <3>1. CASE v # c
      <4>1. RightTimes(v)
        BY <2>4, <2>11, <3>1 DEF TimesInv
      <4> QED
        BY <1>1, <1>12, <2>4, <3>1, <4>1, TimesStay
    <3>2. CASE v = c
      BY <2>10, <3>2
    <3> QED
      BY <3>1, <3>2
  <2>12. \A v \in Voice : voices'[v].active => (voices'[v].released <=> letGo'[v] # Never)
    BY <2>4, <2>5, <2>6 DEF TimesInv
  <2>13. ASSUME NEW v \in Voice, NEW i \in 1 .. Len(notes'), voices'[v].active, voices'[v].activatedThisChunk
         PROVE  voices'[v].offset <= notes'[i].at
    <3>1. CASE v # c
      BY <1>1, <1>7, <1>8, <2>4, <2>13, <3>1 DEF TimesInv
    <3>2. CASE v = c
      BY <1>9, <2>6, <3>2
    <3> QED
      BY <3>1, <3>2
  <2> QED
    BY <1>1, <2>9, <2>11, <2>12, <2>13 DEF TimesInv
<1> QED
  BY <1>13, <1>14

\* A voice that is released has the sample of its release.
LEMMA TimesReleased ==
  ASSUME VoicesInv, DriverInv, KeysInv, TimesInv, Release PROVE TimesInv'
<1> USE VoiceAssumption
<1> DEFINE e == Head(notes)
           n == e.event.id
<1>1. /\ phase = "events" /\ phase' = phase /\ notes # <<>> /\ notes' = Tail(notes)
      /\ UNCHANGED <<memory, graphs, chunks, current, begun>>
  BY DEF Release, NoteOff
<1>2. PICK t \in FrameOf(e.at) : NoteOff(n, t)
  BY DEF Release
<1>3. notes \in Seq(DueEvent) /\ e \in DueEvent /\ TimesTyped
  BY <1>1 DEF DriverInv, TimesInv
<1>4. e.at \in Offset
  BY <1>3 DEF DueEvent
<1>5. SampleOffset(t) = e.at
  BY <1>4, FrameIs
<1>6. letGo' = [v \in Voice |-> IF v \in {Playing[i] : i \in Holding(n)} THEN Sample(e.at) ELSE letGo[v]]
  BY Zenon DEF Release
<1>7. Len(notes') = Len(notes) - 1 /\ \A i \in 1 .. Len(notes') : notes'[i] = notes[i + 1] /\ i + 1 \in 1 .. Len(notes)
  BY <1>1, <1>3
<1>8. 1 \in 1 .. Len(notes) /\ notes[1] = e
  BY <1>1, <1>3
<1> HIDE DEF e, n
<1> DEFINE Met(v) == Held(v) /\ voices[v].note = n
<1>9. HeldOnce
  BY DEF KeysInv
<1>10. \A v \in Voice : v \in {Playing[i] : i \in Holding(n)} <=> Met(v)
  BY HoldingIs
<1>11. \A v \in Voice : voices'[v] = IF Met(v) THEN [voices[v] EXCEPT !.releaseSample = e.at, !.released = TRUE]
                                     ELSE voices[v]
  <2> TAKE v \in Voice
  <2>1. voices'[v] = IF Held(v) /\ voices[v].note = n
                     THEN [voices[v] EXCEPT !.releaseSample = SampleOffset(t), !.released = TRUE]
                     ELSE voices[v]
    BY <1>2, <1>9, ReleaseIs
  <2> QED
    BY <1>5, <2>1
<1>12. \A v \in Voice : letGo'[v] = IF Met(v) THEN Sample(e.at) ELSE letGo[v]
  BY <1>6, <1>10
<1>13. \A v \in Voice : Met(v) => voices[v].active /\ ~voices[v].released
  BY DEF Held
<1> HIDE DEF Met
<1>14. ASSUME NEW v \in Voice
       PROVE  /\ voices'[v].active = voices[v].active /\ voices'[v].offset = voices[v].offset
              /\ voices'[v].activatedThisChunk = voices[v].activatedThisChunk
              /\ Met(v) => voices'[v].released /\ voices'[v].releaseSample = e.at
  <2>1. voices[v] \in VoiceType
    BY VoicesAre
  <2> QED
    BY <1>11, <2>1 DEF VoiceType
<1>15. chunks \in Nat \ {0} /\ Begin \in Nat
  <2>1. chunks \in Nat \ {0}
    BY <1>1 DEF VoicesInv, TypeOK, SamplesCount
  <2> QED
    BY <2>1, ChunkSamples
<1>16. Sample(e.at) = Begin + e.at /\ Sample(e.at) \in Nat /\ e.at \in Nat /\ Never = -1
  <2>1. Sample(e.at) = Begin + e.at
    BY DEF Sample, Begin
  <2> QED
    BY <1>4, <1>15, <2>1 DEF Offset, Never
<1>17. TimesTyped'
  <2>1. \A v \in Voice : letGo'[v] \in Nat \cup {Never}
    BY <1>3, <1>12, <1>16 DEF TimesTyped
  <2>2. letGo' = [v \in Voice |-> letGo'[v]]
    BY <1>6
  <2> QED
    BY <1>1, <1>3, <2>1, <2>2 DEF TimesTyped
<1>18. \A v \in Voice : Awaited(v) /\ Awaited(v)' /\ Awaited(v)' = Awaited(v)
  BY <1>1 DEF Awaited
<1>19. ASSUME "voice" \in graphs, NEW v \in Voice, voices'[v].active PROVE RightTimes(v)'
  <2>1. RightTimes(v)
    BY <1>14, <1>19 DEF TimesInv
  <2>2. CASE ~Met(v)
    BY <1>1, <1>11, <1>12, <1>18, <2>1, <2>2, TimesStay
  <2>3. CASE Met(v)
    <3>1. letGo[v] = Never
      BY <1>13, <2>3 DEF TimesInv
    <3>2. Timely(memory[v], voices[v].activatedThisChunk, begun[v], letGo[v], voices[v].offset, voices[v].releaseSample)
      BY <1>18, <2>1 DEF RightTimes
    <3>3. Begin' = Begin
      BY <1>1 DEF Begin
    <3>4. voices[v].offset <= e.at
      <4>1. CASE voices[v].activatedThisChunk
        BY <1>1, <1>8, <1>13, <2>3, <4>1 DEF TimesInv
      <4>2. CASE ~voices[v].activatedThisChunk
        BY <1>16, <3>2, <4>2 DEF Timely
      <4> QED
        BY <4>1, <4>2
    <3>5. letGo'[v] = Begin + e.at /\ ~(letGo'[v] < Begin) /\ letGo'[v] # Never /\ e.at # Never
      BY <1>12, <1>15, <1>16, <2>3
    <3>6. ~voices[v].activatedThisChunk => Remembers(memory[v], begun[v], letGo'[v], Begin)
      BY <3>1, <3>2, <3>5 DEF Timely, Remembers
    <3>7. Timely(memory'[v], voices'[v].activatedThisChunk, begun'[v], letGo'[v], voices'[v].offset, e.at)
      BY <1>1, <1>14, <3>2, <3>4, <3>5, <3>6 DEF Timely
    <3>8. Timely(memory[v], voices[v].activatedThisChunk, begun[v], letGo[v], voices[v].offset, voices[v].releaseSample)'
      BY <1>14, <2>3, <3>3, <3>7 DEF Timely, Remembers
    <3> QED
      BY <1>18, <3>8 DEF RightTimes
  <2> QED
    BY <2>2, <2>3
<1>20. ASSUME NEW v \in Voice, voices'[v].active PROVE voices'[v].released <=> letGo'[v] # Never
  <2>1. CASE Met(v)
    BY <1>12, <1>14, <1>16, <2>1
  <2>2. CASE ~Met(v)
    BY <1>11, <1>12, <1>20, <2>2 DEF TimesInv
  <2> QED
    BY <2>1, <2>2
<1>21. \A v \in Voice, i \in 1 .. Len(notes') :
         voices'[v].active /\ voices'[v].activatedThisChunk => voices'[v].offset <= notes'[i].at
  BY <1>1, <1>7, <1>14 DEF TimesInv
<1> QED
  BY <1>1, <1>17, <1>19, <1>20, <1>21 DEF TimesInv

\* A voice that is played leaves the memory as it has to be at the end of the chunk.
LEMMA TimesPlayed ==
  ASSUME VoicesInv, TimesInv, PlayVoice PROVE TimesInv'
<1> USE VoiceAssumption
<1>1. PICK c \in Voice : c = current
  BY DEF PlayVoice, ProcessVoice
<1> DEFINE m1 == IF voices[c].activatedThisChunk THEN NewMemory ELSE memory[c]
           m2 == AfterTasks(m1, voices[c].releaseSample - voices[c].offset, Frames - voices[c].offset)
<1>2. /\ phase = "voices" /\ voices[c].active /\ current' = c + 1
      /\ UNCHANGED <<graphs, phase, chunks, begun, letGo, notes>>
      /\ memory' = [memory EXCEPT ![c] = m2]
  BY <1>1 DEF PlayVoice, ProcessVoice, callbackVars, historyVars, Activated, ReleaseSample
<1>3. \/ voices' = [voices EXCEPT ![c].sampleIndex = @ + (Frames - voices[c].offset)]
      \/ voices' = [voices EXCEPT ![c].active = FALSE, ![c].activatedThisChunk = FALSE,
                                  ![c].sampleIndex = @ + Frames - voices[c].offset]
  BY <1>1 DEF PlayVoice, ProcessVoice, DisableVoice
<1>4. voices \in [Voice -> VoiceType] /\ TimesTyped
  BY VoicesAre DEF TimesInv
<1>5. "voice" \in graphs /\ RightTimes(c) /\ Awaited(c)
  BY <1>1, <1>2 DEF TimesInv, Awaited, Voice
<1>6. Timely(memory[c], voices[c].activatedThisChunk, begun[c], letGo[c], voices[c].offset, voices[c].releaseSample)
  BY <1>5 DEF RightTimes
<1>7. chunks \in Nat \ {0}
  BY <1>2 DEF VoicesInv, TypeOK, SamplesCount
<1>8. /\ voices[c].activatedThisChunk \in BOOLEAN /\ voices[c].offset \in Offset
      /\ voices[c].releaseSample \in Offset \cup {Never}
  <2>1. voices[c] \in VoiceType
    BY <1>4
  <2> QED
    BY <2>1 DEF VoiceType
<1>9. memory[c] \in Memory /\ begun[c] \in Nat /\ letGo[c] \in Nat \cup {Never}
  BY <1>4 DEF TimesTyped
<1>10. Remembers(m2, begun[c], letGo[c], End)
  BY <1>6, <1>7, <1>8, <1>9, Played
<1>11. m2 \in Memory
  BY <1>6, <1>7, <1>8, <1>9, Played
<1>12. begun[c] < End /\ letGo[c] < End
  BY <1>6, <1>7, <1>8, <1>9, Played
<1> HIDE DEF m1, m2
<1>13. memory'[c] = m2 /\ \A v \in Voice : v # c => memory'[v] = memory[v]
  BY <1>2, <1>4 DEF TimesTyped
<1>14. \A v \in Voice : v # c => voices'[v] = voices[v]
  BY <1>3, <1>4
<1>15. voices'[c].released = voices[c].released
  <2>1. voices[c] \in VoiceType
    BY <1>4
  <2>2. CASE voices' = [voices EXCEPT ![c].sampleIndex = @ + (Frames - voices[c].offset)]
    BY <1>4, <2>1, <2>2 DEF VoiceType
  <2>3. CASE voices' = [voices EXCEPT ![c].active = FALSE, ![c].activatedThisChunk = FALSE,
                                      ![c].sampleIndex = @ + Frames - voices[c].offset]
    BY <1>4, <2>1, <2>3 DEF VoiceType
  <2> QED
    BY <1>3, <2>2, <2>3
<1>16. End' = End
  BY <1>2 DEF End
<1>17. RightTimes(c)'
  <2>1. ~Awaited(c)'
    BY <1>2 DEF Awaited, Voice
  <2>2. Remembers(memory'[c], begun'[c], letGo'[c], End')
    BY <1>2, <1>10, <1>13, <1>16
  <2>3. Remembers(memory[c], begun[c], letGo[c], End)'
    BY <2>2 DEF Remembers
  <2> QED
    BY <1>2, <1>12, <1>16, <2>1, <2>3 DEF RightTimes
<1>18. ASSUME NEW v \in Voice, voices'[v].active PROVE RightTimes(v)'
  <2>1. CASE v = c
    BY <1>17, <2>1
  <2>2. CASE v # c
    <3>1. Awaited(v)' = Awaited(v)
      <4>1. current' <= v <=> current <= v
        BY <1>1, <1>2, <2>2 DEF Voice
      <4> QED
        BY <1>2, <4>1 DEF Awaited
    <3>2. RightTimes(v)
      BY <1>5, <1>14, <1>18, <2>2 DEF TimesInv
    <3> QED
      BY <1>2, <1>13, <1>14, <2>2, <3>1, <3>2, TimesStay
  <2> QED
    BY <2>1, <2>2
<1>19. \A v \in Voice : voices'[v].active => (voices'[v].released <=> letGo'[v] # Never)
  BY <1>2, <1>14, <1>15 DEF TimesInv
<1>20. TimesTyped'
  BY <1>2, <1>4, <1>11 DEF TimesTyped
<1> QED
  BY <1>2, <1>5, <1>18, <1>19, <1>20 DEF TimesInv

\* The other steps leave the times alone.
LEMMA TimesPass ==
  ASSUME VoicesInv, DriverInv, KeysInv, TimesInv,
         Play \/ Deliver \/ Tick \/ TakeEvents \/ TakeEvent \/ NotesAllocated \/ PlayRest \/ UNCHANGED playbackVars
  PROVE  TimesInv'
<1> USE VoiceAssumption
<1>1. UNCHANGED <<voices, graphs, chunks, memory, begun, letGo, notes>>
  BY DEF Play, Deliver, Tick, TakeEvents, TakeEvent, NotesAllocated, PlayRest, EndEvents, SkipVoice, EndVoices,
    ProcessFx, playbackVars, vars, callbackVars, historyVars
<1>2. \/ UNCHANGED <<phase, current>>
      \/ phase = "events" /\ current' = 0 /\ phase' = IF "voice" \in graphs THEN "voices" ELSE "fx"
      \/ phase = "voices" /\ phase' = phase /\ current \in Voice /\ ~voices[current].active /\ current' = current + 1
      \/ phase = "voices" /\ current = MaxVoices /\ phase' = "fx"
      \/ phase = "fx" /\ phase' = "idle"
  BY DEF Play, Deliver, Tick, TakeEvents, TakeEvent, NotesAllocated, PlayRest, EndEvents, SkipVoice, EndVoices,
    ProcessFx, playbackVars, vars
<1>3. ASSUME "voice" \in graphs, NEW v \in Voice, voices[v].active PROVE Awaited(v)' = Awaited(v)
  <2>1. v \in 0 .. MaxVoices - 1
    BY DEF Voice
  <2>2. CASE UNCHANGED <<phase, current>>
    BY <2>2 DEF Awaited
  <2>3. CASE phase = "events" /\ current' = 0 /\ phase' = IF "voice" \in graphs THEN "voices" ELSE "fx"
    BY <1>3, <2>1, <2>3 DEF Awaited
  <2>4. CASE phase = "voices" /\ phase' = phase /\ current \in Voice /\ ~voices[current].active /\ current' = current + 1
    <3>1. v # current
      BY <1>3, <2>4
    <3>2. current' <= v <=> current <= v
      BY <2>1, <2>4, <3>1 DEF Voice
    <3> QED
      BY <2>4, <3>2 DEF Awaited
  <2>5. CASE phase = "voices" /\ current = MaxVoices /\ phase' = "fx"
    BY <2>1, <2>5 DEF Awaited
  <2>6. CASE phase = "fx" /\ phase' = "idle"
    BY <2>6 DEF Awaited
  <2> QED
    BY <1>2, <2>2, <2>3, <2>4, <2>5, <2>6
<1>4. ASSUME "voice" \in graphs, NEW v \in Voice, voices[v].active PROVE RightTimes(v)'
  <2>1. RightTimes(v)
    BY <1>4 DEF TimesInv
  <2>2. Awaited(v)' = Awaited(v)
    BY <1>3, <1>4
  <2> QED
    BY <1>1, <2>1, <2>2, TimesStay
<1>5. phase' = "voices" => "voice" \in graphs
  BY <1>2 DEF TimesInv
<1>6. phase' = "events" => phase = "events"
  BY <1>2
<1>7. TimesTyped'
  BY <1>1 DEF TimesInv, TimesTyped
<1> QED
  BY <1>1, <1>4, <1>5, <1>6, <1>7 DEF TimesInv

\* Every step keeps the times.
LEMMA TimesKept ==
  ASSUME PlaybackInv, KeysInv, TimesInv, [PlaybackNext]_playbackVars PROVE TimesInv'
<1>1. VoicesInv /\ DriverInv
  BY DEF PlaybackInv
<1> QED
  BY <1>1, TimesSorted, TimesPressed, TimesReleased, TimesPlayed, TimesPass DEF PlaybackNext

\* What the tasks of a voice are told is right.
LEMMA DurationsRight ==
  ASSUME VoicesInv, TimesInv PROVE DurationsCount
<1> USE VoiceAssumption
<1> SUFFICES ASSUME phase = "voices", current \in Voice, voices[current].active,
                    NEW f \in 0 .. Frames - 1 - voices[current].offset
             PROVE  LET s == Sample(voices[current].offset + f)
                        m == Activated(current)
                    IN  /\ PressDuration(m, f) = s - begun[current]
                        /\ ReleaseDuration(m, ReleaseSample(current), f) =
                             IF letGo[current] = Never \/ s < letGo[current] THEN 0
                             ELSE s - letGo[current] + Excess(current, s)
  BY DEF DurationsCount
<1> DEFINE c == current
           a == voices[c].activatedThisChunk
           b == begun[c]
           r == letGo[c]
           o == voices[c].offset
           e == voices[c].releaseSample
           m == Activated(c)
           s == Begin + (o + f)
<1>1. RightTimes(c) /\ Awaited(c)
  BY DEF TimesInv, Awaited, Voice
<1>2. Timely(memory[c], voices[c].activatedThisChunk, begun[c], letGo[c], voices[c].offset, voices[c].releaseSample)
  BY <1>1 DEF RightTimes
<1>3. chunks \in Nat \ {0}
  BY DEF VoicesInv, TypeOK, SamplesCount
<1>4. /\ voices[c].activatedThisChunk \in BOOLEAN /\ voices[c].offset \in Offset
      /\ voices[c].releaseSample \in Offset \cup {Never}
  <2>1. voices[c] \in VoiceType
    BY VoicesAre
  <2> QED
    BY <2>1 DEF VoiceType
<1>5. memory[c] \in Memory /\ begun[c] \in Nat /\ letGo[c] \in Nat \cup {Never}
  BY DEF TimesInv, TimesTyped
<1>6. m = IF voices[c].activatedThisChunk THEN NewMemory ELSE memory[c]
  BY DEF Activated
<1>7. f \in 0 .. Frames - 1 - o
  OBVIOUS
<1> HIDE DEF a, b, r, o, e
<1>8. /\ PressDuration(IF a THEN NewMemory ELSE memory[c], f) = s - b
      /\ ReleaseDuration(IF a THEN NewMemory ELSE memory[c], e - o, f) =
           IF r = Never \/ s < r THEN 0
           ELSE s - r + (IF s \div Frames = r \div Frames THEN 0 ELSE r - BufferOf(b, r))
  <2>1. Timely(memory[c], a, b, r, o, e) /\ a \in BOOLEAN /\ o \in Offset /\ e \in Offset \cup {Never}
        /\ memory[c] \in Memory /\ b \in Nat /\ r \in Nat \cup {Never}
    BY <1>2, <1>4, <1>5 DEF a, b, r, o, e
  <2> HIDE DEF c
  <2> QED
    BY <1>3, <1>7, <2>1, Told
<1>9. Excess(c, s) = IF s \div Frames = r \div Frames THEN 0 ELSE r - BufferOf(b, r)
  BY DEF Excess, BufferOf, b, r
<1>10. Sample(o + f) = s
  BY DEF Sample, Begin
<1> QED
  BY <1>6, <1>8, <1>9, <1>10 DEF ReleaseSample, a, b, r, o, e

\* The invariants about the keys and the durations hold of every behaviour.
LEMMA HistoryKept == PlaybackSpec => [](KeysInv /\ TimesInv)
<1>1. PlaybackInit => KeysInv /\ TimesInv
  BY KeysStart, TimesStart
<1>2. PlaybackInv /\ PlaybackInv' /\ KeysInv /\ TimesInv /\ [PlaybackNext]_playbackVars => KeysInv' /\ TimesInv'
  BY KeysKept, TimesKept
<1> QED
  BY <1>1, <1>2, PlaybackKeepsInv, PTL DEF PlaybackSpec

-----------------------------------------------------------------------------
(* Recursion over 0 .. n.                                                  *)

\* A set of numbers that goes on with each number it has, up to n.
LEMMA Counting ==
  ASSUME NEW n \in Nat, NEW K, 0 \in K, \A k \in 1 .. n : k - 1 \in K => k \in K
  PROVE  \A k \in 0 .. n : k \in K
<1> DEFINE Missing == {k \in 0 .. n : k \notin K}
<1> SUFFICES ASSUME Missing # {} PROVE FALSE
  OBVIOUS
<1>1. PICK k \in Missing : \A j \in Missing : k <= j
  <2>1. Missing \in SUBSET Nat
    OBVIOUS
  <2> HIDE DEF Missing
  <2> QED
    BY <2>1, LeastMember
<1>2. k \in 1 .. n /\ k - 1 \in 0 .. n /\ k - 1 \notin Missing
  BY <1>1
<1>3. k \in K
  BY <1>2
<1> QED
  BY <1>1, <1>3

\* A function whose value at k is made of the one at k - 1.
Recurs(f, n, b, H) == f[0] = b /\ \A k \in 1 .. n : f[k] = H[k][f[k - 1]]

\* The function a recursive definition over 0 .. n chooses is there.
LEMMA Recursion ==
  ASSUME NEW n \in Nat, NEW X, NEW b \in X, NEW H, \A k \in 1 .. n, x \in X : H[k][x] \in X
  PROVE  \E f \in [0 .. n -> X] : Recurs(f, n, b, H)
<1> DEFINE Solved == {k \in 0 .. n : \E f \in [0 .. k -> X] : Recurs(f, k, b, H)}
<1>1. 0 \in Solved
  <2> DEFINE f == [i \in 0 .. 0 |-> b]
  <2>1. f \in [0 .. 0 -> X] /\ Recurs(f, 0, b, H)
    BY DEF Recurs
  <2> HIDE DEF f
  <2> QED
    BY <2>1
<1>2. ASSUME NEW k \in 1 .. n, k - 1 \in Solved PROVE k \in Solved
  <2>1. PICK f \in [0 .. k - 1 -> X] : Recurs(f, k - 1, b, H)
    BY <1>2
  <2> DEFINE g == [i \in 0 .. k |-> IF i = k THEN H[k][f[k - 1]] ELSE f[i]]
  <2>2. f[k - 1] \in X /\ \A i \in 0 .. k : i # k => i \in 0 .. k - 1
    BY <1>2
  <2>3. g \in [0 .. k -> X]
    BY <2>1, <2>2
  <2>4. g[0] = b
    BY <2>1 DEF Recurs
  <2>5. \A i \in 1 .. k : g[i] = H[i][g[i - 1]]
    BY <2>1, <2>2 DEF Recurs
  <2> HIDE DEF g
  <2>6. Recurs(g, k, b, H)
    BY <2>4, <2>5 DEF Recurs
  <2> QED
    BY <2>3, <2>6
<1> HIDE DEF Solved
<1>3. n \in Solved
  BY <1>1, <1>2, Counting
<1> QED
  BY <1>3 DEF Solved

-----------------------------------------------------------------------------
(* What a task reads.                                                      *)

\* v is the value, at frame f, of the first k changes of s after the value before.
Sounds(s, k, f, before, v) ==
  \/ v = before /\ \A i \in 1 .. k : s[i].at > f
  \/ \E j \in 1 .. k : /\ s[j].at <= f /\ v = s[j].event.value
                       /\ \A i \in j + 1 .. k : s[i].at > f

\* What get_parameter_value computes is that value.
LEMMA SignalSounds ==
  ASSUME NEW id, NEW buffer, ParameterChanges(id, buffer).changes \in Seq(DueEvent),
         NEW f \in 0 .. Frames - 1
  PROVE  LET read == ParameterChanges(id, buffer)
         IN  Sounds(read.changes, Len(read.changes), f, read.previous, ParameterValue(id, buffer, Frames)[f])
<1> DEFINE read == ParameterChanges(id, buffer)
           s == read.changes
           n == Len(s)
           Step(k, x) == [g \in 0 .. Frames - 1 |->
             IF k = 0 THEN read.previous
             ELSE IF g >= s[k].at THEN s[k].event.value ELSE x[g]]
           Whole(m) == m = [k \in 0 .. n |-> Step(k, m[k - 1])]
           V == {read.previous} \cup {s[k].event.value : k \in 1 .. n}
           X == [0 .. Frames - 1 -> V]
           b == Step(0, <<>>)
           H == [k \in 1 .. n |-> [x \in X |-> Step(k, x)]]
<1>1. n \in Nat /\ \A k \in 1 .. n : s[k].at \in Nat
  BY Events
<1>2. ParameterValue(id, buffer, Frames) = (CHOOSE m : Whole(m))[n]
  BY Zenon DEF ParameterValue
<1>3. \E m : Whole(m)
  <2>1. b \in X
    OBVIOUS
  <2>2. ASSUME NEW k \in 1 .. n, NEW x \in X PROVE Step(k, x) \in X /\ H[k][x] = Step(k, x)
    <3>1. Step(k, x) \in X
      BY <1>1
    <3> HIDE DEF Step, X
    <3> QED
      BY <3>1
  <2> HIDE DEF H, X
  <2>3. PICK m \in [0 .. n -> X] : Recurs(m, n, b, H)
    <3> HIDE DEF b, n, Step
    <3>1. \A k \in 1 .. n, x \in X : H[k][x] \in X
      BY <2>2
    <3> QED
      BY <1>1, <2>1, <3>1, Recursion
  <2>4. ASSUME NEW k \in 0 .. n PROVE m[k] = Step(k, m[k - 1])
    <3>1. CASE k = 0
      BY <2>3, <3>1 DEF Recurs
    <3>2. CASE k # 0
      <4>1. k \in 1 .. n /\ k - 1 \in 0 .. n
        BY <1>1, <3>2
      <4>2. m[k - 1] \in X /\ m[k] = H[k][m[k - 1]]
        BY <2>3, <4>1 DEF Recurs
      <4> HIDE DEF Step
      <4> QED
        BY <2>2, <4>1, <4>2
    <3> QED
      BY <3>1, <3>2
  <2> HIDE DEF Step
  <2>5. Whole(m)
    BY <2>3, <2>4
  <2> QED
    BY <2>5
<1> DEFINE m == CHOOSE m : Whole(m)
<1>4. Whole(m)
  BY <1>3
<1> HIDE DEF m
<1>5. \A k \in 0 .. n : m[k] = Step(k, m[k - 1])
  BY <1>4
<1>60. ASSUME NEW k \in 0 .. n
       PROVE m[k][f] = IF k = 0 THEN read.previous ELSE IF f >= s[k].at THEN s[k].event.value ELSE m[k - 1][f]
  <2>1. m[k] = Step(k, m[k - 1])
    BY <1>5
  <2> HIDE DEF m, n
  <2> QED
    BY <2>1
<1>6. m[0][f] = read.previous /\ \A k \in 1 .. n : m[k][f] = IF f >= s[k].at THEN s[k].event.value ELSE m[k - 1][f]
  BY <1>1, <1>60
<1> HIDE DEF Whole, Step, s, n
<1> DEFINE K == {k \in 0 .. n : Sounds(s, k, f, read.previous, m[k][f])}
<1>7. 0 \in K
  BY <1>1, <1>6 DEF Sounds
<1>8. ASSUME NEW k \in 1 .. n, k - 1 \in K PROVE k \in K
  <2>1. Sounds(s, k - 1, f, read.previous, m[k - 1][f]) /\ s[k].at \in Nat
    BY <1>1, <1>8
  <2>2. CASE f >= s[k].at
    <3>1. \A i \in k + 1 .. k : FALSE
      OBVIOUS
    <3>2. Sounds(s, k, f, read.previous, m[k][f])
      BY <1>6, <2>1, <2>2, <3>1 DEF Sounds
    <3> QED
      BY <3>2
  <2>3. CASE ~(f >= s[k].at)
    <3>1. m[k][f] = m[k - 1][f] /\ s[k].at > f
      BY <1>6, <2>1, <2>3
    <3>2. \A i \in 1 .. k : i = k \/ i \in 1 .. k - 1
      OBVIOUS
    <3>3. \A j \in 1 .. k - 1 : j \in 1 .. k /\ \A i \in j + 1 .. k : i = k \/ i \in j + 1 .. k - 1
      OBVIOUS
    <3>4. Sounds(s, k, f, read.previous, m[k][f])
      BY <2>1, <3>1, <3>2, <3>3 DEF Sounds
    <3> QED
      BY <3>4
  <2> QED
    BY <2>2, <2>3
<1> HIDE DEF K
<1>9. n \in K
  <2>1. n \in Nat /\ 0 \in K /\ \A k \in 1 .. n : k - 1 \in K => k \in K
    BY <1>1, <1>7, <1>8
  <2>2. \A k \in 0 .. n : k \in K
    BY <2>1, Counting
  <2> QED
    BY <2>1, <2>2
<1> QED
  BY <1>2, <1>9 DEF K, m, s, n

-----------------------------------------------------------------------------
(* The table of parameters.                                                *)

Entry == [lastActive : Nat, previous : Int, nextPrevious : Int, changes : Seq(DueEvent)]
Ids == {D \in SUBSET Nat : IsFiniteSet(D) /\ Cardinality(D) <= MaxParameters}
Tables == UNION {[D -> Entry] : D \in Ids}

Full(table) == Cardinality(DOMAIN table) = MaxParameters

\* The entry of a parameter after changes.
Renewed(table, id, changes, buffer) ==
  [lastActive |-> buffer,
   previous |-> IF id \in DOMAIN table THEN table[id].nextPrevious ELSE 0,
   nextPrevious |-> Last(changes).event.value,
   changes |-> changes]

\* What is known of a table.
LEMMA TableIs ==
  ASSUME NEW table \in Tables
  PROVE  /\ DOMAIN table \in SUBSET Nat /\ IsFiniteSet(DOMAIN table)
         /\ Cardinality(DOMAIN table) \in Nat /\ Cardinality(DOMAIN table) <= MaxParameters
         /\ \A id \in DOMAIN table : table[id] \in Entry
<1>1. PICK D \in Ids : table \in [D -> Entry]
  BY DEF Tables
<1>2. D \in SUBSET Nat /\ IsFiniteSet(D) /\ Cardinality(D) <= MaxParameters
  BY DEF Ids
<1>3. DOMAIN table = D
  BY <1>1
<1>4. Cardinality(D) \in Nat
  BY <1>2, FS_CardinalityType
<1> QED
  BY <1>1, <1>2, <1>3, <1>4

\* A table larger than another one is full if the other one is.
LEMMA FullStays ==
  ASSUME NEW small \in Tables, NEW large \in Tables, DOMAIN small \subseteq DOMAIN large, Full(small)
  PROVE  Full(large)
<1>1. Cardinality(DOMAIN small) <= Cardinality(DOMAIN large)
  BY TableIs, FS_Subset
<1>2. Cardinality(DOMAIN large) \in Nat /\ Cardinality(DOMAIN large) <= MaxParameters
  BY TableIs
<1> QED
  BY <1>1, <1>2, EventsAssumption DEF Full

\* The last value of a sequence that is not empty.
LEMMA LastIs ==
  ASSUME NEW S, NEW s \in Seq(S), s # <<>> PROVE Len(s) \in 1 .. Len(s) /\ Last(s) = s[Len(s)] /\ Last(s) \in S
<1>1. Len(s) \in Nat /\ Len(s) # 0
  OBVIOUS
<1>2. Last(s) = s[Len(s)]
  BY DEF Last
<1> QED
  BY <1>1, <1>2

\* The new table: only the entry of id differs, and it is missing only from a full table.
Renews(table, new, id, changes, buffer) ==
  /\ new \in Tables /\ DOMAIN table \subseteq DOMAIN new
  /\ \A p : p # id => (p \in DOMAIN new <=> p \in DOMAIN table)
  /\ \A p \in DOMAIN table : p # id => new[p] = table[p]
  /\ IF id \in DOMAIN new THEN new[id] = Renewed(table, id, changes, buffer)
                           ELSE Full(table) /\ Full(new)

\* update_parameter_state() makes such a table.
LEMMA UpdatedIs ==
  ASSUME NEW table \in Tables, NEW id \in Nat, NEW changes \in Seq(DueEvent), changes # <<>>,
         NEW buffer \in Nat
  PROVE  Renews(table, Updated(table, id, changes, buffer), id, changes, buffer)
<1> DEFINE D == DOMAIN table
           r == Renewed(table, id, changes, buffer)
           new == Updated(table, id, changes, buffer)
<1>1. /\ D \in SUBSET Nat /\ IsFiniteSet(D)
      /\ Cardinality(D) \in Nat /\ Cardinality(D) <= MaxParameters
      /\ \A p \in D : table[p] \in Entry
  BY TableIs
<1>2. r \in Entry
  <2>1. Last(changes) \in DueEvent
    BY LastIs
  <2>2. Last(changes).event.value \in Int
    BY <2>1 DEF DueEvent, PlayerEvent
  <2>3. id \in D => table[id].nextPrevious \in Int
    BY <1>1 DEF Entry
  <2> QED
    BY <2>2, <2>3 DEF Renewed, Entry
<1>3. CASE id \notin D /\ Cardinality(D) = MaxParameters
  <2>1. new = table
    BY <1>3 DEF Updated
  <2> QED
    BY <1>3, <2>1 DEF Full, Renews
<1>4. CASE ~(id \notin D /\ Cardinality(D) = MaxParameters)
  <2>1. new = [p \in D \cup {id} |-> IF p # id THEN table[p] ELSE r]
    BY <1>4 DEF Updated, Renewed
  <2>2. D \cup {id} \in Ids
    <3>1. CASE id \in D
      <4>1. D \cup {id} = D
        BY <3>1
      <4> QED
        BY <1>1, <4>1 DEF Ids
    <3>2. CASE id \notin D
      <4>1. IsFiniteSet(D \cup {id}) /\ Cardinality(D \cup {id}) = Cardinality(D) + 1
        BY <1>1, <3>2, FS_AddElement
      <4>2. Cardinality(D) + 1 <= MaxParameters
        BY <1>1, <1>4, <3>2, EventsAssumption
      <4> QED
        BY <1>1, <4>1, <4>2 DEF Ids
    <3> QED
      BY <3>1, <3>2
  <2> HIDE DEF r, new, D
  <2>3. new \in [D \cup {id} -> Entry]
    BY <1>1, <1>2, <2>1
  <2>4. new \in Tables
    BY <2>2, <2>3 DEF Tables
  <2>5. DOMAIN new = D \cup {id}
    BY <2>1
  <2>6. new[id] = r /\ \A p \in D : p # id => new[p] = table[p]
    BY <2>1
  <2> QED
    BY <2>4, <2>5, <2>6 DEF D, r, new, Renews
<1> QED
  BY <1>3, <1>4

-----------------------------------------------------------------------------
(* The groups of the sorted events.                                        *)

InOrder(s) == \A i, j \in 1 .. Len(s) : i < j => SortKey(s[i]) <= SortKey(s[j])
Changes(e, id) == ~IsNote(e) /\ e.event.id = id

\* The changes of a parameter are the events with its key.
LEMMA KeyTells ==
  ASSUME NEW e \in DueEvent
  PROVE  /\ SortKey(e) \in Nat /\ e.at \in Nat
         /\ ~IsNote(e) => e.event.id \in Nat
         /\ \A id \in Nat : Changes(e, id) <=> SortKey(e) = id + 1
         /\ \A id : Changes(e, id) => id \in Nat
<1>1. e.event \in PlayerEvent /\ e.at \in Nat
  BY Events
<1>2. ~IsNote(e) => e.event.id \in Nat
  BY <1>1 DEF PlayerEvent, IsNote
<1>3. SortKey(e) = IF IsNote(e) THEN 0 ELSE e.event.id + 1
  BY DEF SortKey
<1> QED
  BY <1>1, <1>2, <1>3 DEF Changes

\* Where the group that ends at k begins.
First(s, k) == Min({i \in DOMAIN s : SortKey(s[i]) = SortKey(s[k])})

\* A group has all the changes of its parameter, one after the other.
LEMMA GroupIs ==
  ASSUME NEW s \in Seq(DueEvent), InOrder(s), NEW k \in 1 .. Len(s), EndsGroup(s, k)
  PROVE  /\ First(s, k) \in 1 .. k /\ s[k].event.id \in Nat
         /\ \A i \in 1 .. Len(s) : Changes(s[i], s[k].event.id) <=> i \in First(s, k) .. k
         /\ Group(s, k) \in Seq(DueEvent) /\ Len(Group(s, k)) = k - First(s, k) + 1
         /\ \A i \in 1 .. k - First(s, k) + 1 : Group(s, k)[i] = s[First(s, k) + i - 1]
<1> DEFINE A == {i \in DOMAIN s : SortKey(s[i]) = SortKey(s[k])}
           a == First(s, k)
           id == s[k].event.id
<1>1. Len(s) \in Nat /\ DOMAIN s = 1 .. Len(s) /\ \A i \in 1 .. Len(s) : s[i] \in DueEvent /\ SortKey(s[i]) \in Nat
  <2>1. ASSUME NEW i \in 1 .. Len(s) PROVE s[i] \in DueEvent /\ SortKey(s[i]) \in Nat
    <3>1. s[i] \in DueEvent
      OBVIOUS
    <3> QED
      BY <3>1, KeyTells
  <2> QED
    BY <2>1
<1>2. ~IsNote(s[k]) /\ id \in Nat /\ SortKey(s[k]) = id + 1
  <2>1. ~IsNote(s[k]) /\ s[k] \in DueEvent
    BY <1>1 DEF EndsGroup
  <2> QED
    BY <2>1, KeyTells DEF SortKey
<1>3. a \in A /\ \A i \in A : a <= i
  <2>1. A \in SUBSET Nat /\ k \in A
    BY <1>1
  <2>2. \E i \in A : \A j \in A : i <= j
    <3> HIDE DEF A
    <3> QED
      BY <2>1, LeastMember
  <2>3. a = CHOOSE i \in A : \A j \in A : i <= j
    BY Zenon DEF First, Min
  <2> HIDE DEF A
  <2> QED
    BY <2>2, <2>3
<1> HIDE DEF a
<1>4. a \in 1 .. k /\ k \in Nat /\ SortKey(s[a]) = SortKey(s[k])
  BY <1>1, <1>3
<1>5. ASSUME NEW i \in 1 .. Len(s) PROVE SortKey(s[i]) = SortKey(s[k]) <=> i \in a .. k
  <2>1. ASSUME SortKey(s[i]) = SortKey(s[k]) PROVE i \in a .. k
    <3>1. a <= i
      BY <1>1, <1>3, <2>1
    <3>4. ASSUME i > k PROVE FALSE
      <4>1. k # Len(s) /\ k + 1 \in 1 .. Len(s) /\ (k + 1 = i \/ k + 1 < i) /\ k < k + 1
        <5>1. PICK n \in Nat : n = Len(s)
          BY <1>1
        <5>2. k \in 1 .. n /\ i \in 1 .. n
          BY <5>1
        <5> QED
          BY <3>4, <5>1, <5>2
      <4>2. SortKey(s[k + 1]) # SortKey(s[k])
        BY <4>1 DEF EndsGroup
      <4>3. SortKey(s[k]) <= SortKey(s[k + 1]) /\ (k + 1 = i \/ SortKey(s[k + 1]) <= SortKey(s[i]))
        BY <4>1 DEF InOrder
      <4>4. SortKey(s[k]) \in Nat /\ SortKey(s[k + 1]) \in Nat
        BY <1>1, <4>1
      <4> QED
        BY <2>1, <4>2, <4>3, <4>4
    <3> QED
      BY <1>1, <1>4, <3>1, <3>4
  <2>2. ASSUME i \in a .. k PROVE SortKey(s[i]) = SortKey(s[k])
    <3>1. a \in 1 .. Len(s) /\ (a = i \/ a < i) /\ (i = k \/ i < k)
      BY <1>1, <1>4, <2>2
    <3>2. SortKey(s[a]) <= SortKey(s[i]) /\ SortKey(s[i]) <= SortKey(s[k])
      BY <1>1, <3>1 DEF InOrder
    <3> QED
      BY <1>1, <1>4, <3>1, <3>2
  <2> QED
    BY <2>1, <2>2
<1>6. \A i \in 1 .. Len(s) : Changes(s[i], id) <=> i \in a .. k
  <2> TAKE i \in 1 .. Len(s)
  <2>1. Changes(s[i], id) <=> SortKey(s[i]) = id + 1
    BY <1>1, <1>2, KeyTells
  <2> QED
    BY <1>2, <1>5, <2>1
<1>7. Group(s, k) = SubSeq(s, a, k)
  BY Zenon DEF Group, First, a
<1>8. \A i \in a .. k : s[i] \in DueEvent
  BY <1>1, <1>4
<1>9. SubSeq(s, a, k) = [i \in 1 .. k - a + 1 |-> s[a + i - 1]]
  <2>1. SubSeq(s, a, k) = [i \in 1 .. k - a + 1 |-> s[i + a - 1]]
    BY <1>1, <1>4 
  <2>2. \A i \in 1 .. k - a + 1 : s[i + a - 1] = s[a + i - 1]
    BY <1>4
  <2> QED
    BY <2>1, <2>2
<1>10. k - a + 1 \in Nat /\ \A i \in 1 .. k - a + 1 : a + i - 1 \in a .. k
  BY <1>1, <1>4
<1>11. Group(s, k) \in Seq(DueEvent) /\ Len(Group(s, k)) = k - a + 1
  <2>1. SubSeq(s, a, k) \in [1 .. k - a + 1 -> DueEvent]
    BY <1>8, <1>9, <1>10
  <2>2. PICK m \in Nat : m = k - a + 1
    BY <1>10
  <2>3. SubSeq(s, a, k) \in Seq(DueEvent) /\ Len(SubSeq(s, a, k)) = m
    BY <2>1, <2>2, FunctionIsSeq
  <2> QED
    BY <1>7, <2>2, <2>3
<1> QED
  BY <1>2, <1>4, <1>6, <1>7, <1>9, <1>11 DEF a

\* A set of numbers up to n has a greatest one.
LEMMA Greatest ==
  ASSUME NEW n \in Nat, NEW A \in SUBSET (1 .. n), A # {}
  PROVE  Max(A) \in A /\ \A i \in A : i <= Max(A)
<1> DEFINE Rest == {n - i : i \in A}
<1>1. Rest \in SUBSET Nat /\ Rest # {}
  <2>1. \A i \in A : n - i \in Nat
    OBVIOUS
  <2>2. Rest \subseteq Nat
    BY <2>1
  <2>3. PICK i \in A : TRUE
    OBVIOUS
  <2>4. n - i \in Rest
    OBVIOUS
  <2> QED
    BY <2>2, <2>4
<1>2. PICK r \in Rest : \A q \in Rest : r <= q
  <2> HIDE DEF Rest
  <2> QED
    BY <1>1, LeastMember
<1>3. PICK k \in A : r = n - k
  BY <1>2
<1>4. \A i \in A : k >= i
  <2> TAKE i \in A
  <2>1. n - k <= n - i
    BY <1>2, <1>3
  <2>2. k \in Nat /\ i \in Nat
    OBVIOUS
  <2> QED
    BY <2>1, <2>2
<1>5. Max(A) = CHOOSE x \in A : \A y \in A : x >= y
  BY Zenon DEF Max
<1>6. Max(A) \in A /\ \A i \in A : Max(A) >= i
  BY <1>4, <1>5
<1> QED
  BY <1>6

\* The last change of a parameter ends its group.
LEMMA GroupEnds ==
  ASSUME NEW s \in Seq(DueEvent), InOrder(s), NEW id, NEW i \in 1 .. Len(s), Changes(s[i], id)
  PROVE  \E k \in 1 .. Len(s) : EndsGroup(s, k) /\ s[k].event.id = id
<1> DEFINE A == {j \in 1 .. Len(s) : Changes(s[j], id)}
           k == Max(A)
<1>1. Len(s) \in Nat /\ \A j \in 1 .. Len(s) : s[j] \in DueEvent
  OBVIOUS
<1>2. k \in A /\ \A j \in A : j <= k
  <2>1. A \in SUBSET (1 .. Len(s)) /\ A # {}
    OBVIOUS
  <2> HIDE DEF A
  <2> QED
    BY <1>1, <2>1, Greatest
<1> HIDE DEF k
<1>3. k \in 1 .. Len(s) /\ Changes(s[k], id) /\ id \in Nat
  BY <1>1, <1>2, KeyTells
<1>4. ASSUME k # Len(s) PROVE SortKey(s[k + 1]) # SortKey(s[k])
  <2>1. k + 1 \in 1 .. Len(s) /\ ~(k + 1 <= k)
    BY <1>1, <1>3, <1>4
  <2>2. ~Changes(s[k + 1], id)
    BY <1>2, <2>1
  <2>3. s[k] \in DueEvent /\ s[k + 1] \in DueEvent
    BY <1>1, <1>3, <2>1
  <2>4. SortKey(s[k]) = id + 1 /\ SortKey(s[k + 1]) # id + 1
    BY <1>3, <2>2, <2>3, KeyTells
  <2> QED
    BY <2>4
<1> QED
  BY <1>3, <1>4 DEF EndsGroup, Changes

-----------------------------------------------------------------------------
(* The table after some events.                                            *)

\* The group of the changes of id ends at k.
EndOf(s, k, id) == EndsGroup(s, k) /\ s[k].event.id = id

\* The table m after k events of s: the entry of id is the old one or the one its group makes.
Carried(s, k, m, id, buffer) ==
  \/ /\ \A j \in 1 .. k : ~EndOf(s, j, id)
     /\ id \in DOMAIN m <=> id \in DOMAIN parameters
     /\ id \in DOMAIN m => m[id] = parameters[id]
  \/ \E j \in 1 .. k :
       /\ EndOf(s, j, id)
       /\ IF id \in DOMAIN m THEN m[id] = Renewed(parameters, id, Group(s, j), buffer) ELSE Full(m)

\* One event more is followed.
LEMMA OneEventMore ==
  ASSUME NEW s \in Seq(DueEvent), InOrder(s), NEW k \in 1 .. Len(s), NEW m \in Tables, NEW id, NEW buffer \in Nat,
         Carried(s, k - 1, m, id, buffer)
  PROVE  LET new == IF EndsGroup(s, k) THEN Updated(m, s[k].event.id, Group(s, k), buffer) ELSE m
         IN  new \in Tables /\ Carried(s, k, new, id, buffer)
<1> DEFINE new == Updated(m, s[k].event.id, Group(s, k), buffer)
<1>1. Len(s) \in Nat
  OBVIOUS
<1>2. CASE ~EndsGroup(s, k)
  <2>1. ~EndOf(s, k, id)
    BY <1>2 DEF EndOf
  <2>2. \A j \in 1 .. k : j = k \/ j \in 1 .. k - 1
    OBVIOUS
  <2>3. \A j \in 1 .. k - 1 : j \in 1 .. k
    OBVIOUS
  <2>4. Carried(s, k, m, id, buffer)
    <3>1. CASE /\ \A j \in 1 .. k - 1 : ~EndOf(s, j, id)
               /\ id \in DOMAIN m <=> id \in DOMAIN parameters
               /\ id \in DOMAIN m => m[id] = parameters[id]
      <4>1. \A j \in 1 .. k : ~EndOf(s, j, id)
        BY <2>1, <2>2, <3>1
      <4> QED
        BY <3>1, <4>1 DEF Carried
    <3>2. CASE \E j \in 1 .. k - 1 :
                 /\ EndOf(s, j, id)
                 /\ IF id \in DOMAIN m THEN m[id] = Renewed(parameters, id, Group(s, j), buffer) ELSE Full(m)
      BY <2>3, <3>2 DEF Carried
    <3> QED
      BY <3>1, <3>2 DEF Carried
  <2> QED
    BY <1>2, <2>4
<1>3. CASE EndsGroup(s, k)
  <2> DEFINE other == s[k].event.id
             g == Group(s, k)
  <2>1. other \in Nat /\ g \in Seq(DueEvent) /\ g # <<>>
    <3>1. First(s, k) \in 1 .. k /\ other \in Nat
      BY <1>3, GroupIs
    <3>2. g \in Seq(DueEvent) /\ Len(g) = k - First(s, k) + 1
      BY <1>3, GroupIs
    <3>3. Len(g) # 0
      BY <3>1, <3>2
    <3> HIDE DEF g
    <3>4. g # <<>>
      BY <3>3
    <3> QED
      BY <3>1, <3>2, <3>4
  <2> HIDE DEF g
  <2> DEFINE n == Updated(m, other, g, buffer)
  <2> HIDE DEF other
  <2>20. Renews(m, n, other, g, buffer)
    BY <2>1, UpdatedIs
  <2> HIDE DEF n
  <2>2. n \in Tables /\ DOMAIN m \subseteq DOMAIN n
    BY <2>20 DEF Renews
  <2>3. /\ \A p : p # other => (p \in DOMAIN n <=> p \in DOMAIN m)
        /\ \A p \in DOMAIN m : p # other => n[p] = m[p]
    BY <2>20 DEF Renews
  <2>4. IF other \in DOMAIN n THEN n[other] = Renewed(m, other, g, buffer) ELSE Full(m) /\ Full(n)
    BY <2>20 DEF Renews
  <2>5. CASE id # other
    <3>1. ~EndOf(s, k, id)
      BY <2>5 DEF EndOf, other
    <3>2. \A j \in 1 .. k : j = k \/ j \in 1 .. k - 1
      OBVIOUS
    <3>3. \A j \in 1 .. k - 1 : j \in 1 .. k
      OBVIOUS
    <3>4. (id \in DOMAIN n <=> id \in DOMAIN m) /\ (id \in DOMAIN m => n[id] = m[id])
      BY <2>3, <2>5
    <3>7. Carried(s, k, n, id, buffer)
      <4>1. CASE /\ \A j \in 1 .. k - 1 : ~EndOf(s, j, id)
                 /\ id \in DOMAIN m <=> id \in DOMAIN parameters
                 /\ id \in DOMAIN m => m[id] = parameters[id]
        <5>1. \A j \in 1 .. k : ~EndOf(s, j, id)
          BY <3>1, <3>2, <4>1
        <5>2. (id \in DOMAIN n <=> id \in DOMAIN parameters) /\ (id \in DOMAIN n => n[id] = parameters[id])
          BY <3>4, <4>1
        <5> QED
          BY <5>1, <5>2 DEF Carried
      <4>2. CASE \E j \in 1 .. k - 1 :
                   /\ EndOf(s, j, id)
                   /\ IF id \in DOMAIN m THEN m[id] = Renewed(parameters, id, Group(s, j), buffer) ELSE Full(m)
        <5>1. Full(m) => Full(n)
          BY <2>2, FullStays
        <5>2. PICK j \in 1 .. k - 1 :
                   /\ EndOf(s, j, id)
                   /\ IF id \in DOMAIN m THEN m[id] = Renewed(parameters, id, Group(s, j), buffer) ELSE Full(m)
          BY <4>2
        <5>3. IF id \in DOMAIN n THEN n[id] = Renewed(parameters, id, Group(s, j), buffer) ELSE Full(n)
          BY <3>4, <5>1, <5>2
        <5> QED
          BY <3>3, <5>2, <5>3 DEF Carried
      <4> QED
        BY <4>1, <4>2 DEF Carried
    <3> QED
      BY <1>3, <2>2, <3>7 DEF n, g, other
  <2>6. CASE id = other
    <3>1. ASSUME NEW j \in 1 .. k - 1, EndOf(s, j, id) PROVE FALSE
      <4>1. j \in 1 .. Len(s) /\ EndsGroup(s, j) /\ s[j].event.id = id
        BY <1>1, <3>1 DEF EndOf
      <4>2. \A i \in 1 .. Len(s) : Changes(s[i], s[j].event.id) <=> i \in First(s, j) .. j
        BY <4>1, GroupIs
      <4>3. Changes(s[k], id)
        BY <1>3, <2>6 DEF other, EndsGroup, Changes
      <4>4. k \in First(s, j) .. j
        BY <4>1, <4>2, <4>3
      <4> QED
        BY <4>4
    <3>2. (id \in DOMAIN m <=> id \in DOMAIN parameters) /\ (id \in DOMAIN m => m[id] = parameters[id])
      BY <3>1 DEF Carried
    <3>3. Renewed(m, id, g, buffer) = Renewed(parameters, id, g, buffer)
      BY <3>2 DEF Renewed
    <3>4. k \in 1 .. k /\ EndOf(s, k, id)
      BY <1>3, <2>6 DEF other, EndOf
    <3>5. IF id \in DOMAIN n THEN n[id] = Renewed(parameters, id, Group(s, k), buffer) ELSE Full(n)
      BY <2>4, <2>6, <3>3 DEF g
    <3>6. Carried(s, k, n, id, buffer)
      BY <3>4, <3>5 DEF Carried
    <3> QED
      BY <1>3, <2>2, <3>6 DEF n, g, other
  <2> QED
    BY <2>5, <2>6
<1> QED
  BY <1>2, <1>3

\* The table after the events of a chunk.
LEMMA ProcessedIs ==
  ASSUME NEW s \in Seq(DueEvent), InOrder(s), parameters \in Tables, NEW buffer \in Nat, ProcessEvents(s, buffer)
  PROVE  /\ parameters' \in Tables /\ DOMAIN parameters \subseteq DOMAIN parameters'
         /\ \A id : Carried(s, Len(s), parameters', id, buffer)
<1> DEFINE n == Len(s)
           Step(k, x) == IF EndsGroup(s, k) THEN Updated(x, s[k].event.id, Group(s, k), buffer) ELSE x
           Body(k, x) == IF k = 0 THEN parameters ELSE Step(k, x)
           Whole(m) == m = [k \in 0 .. n |-> Body(k, m[k - 1])]
           CarriedAll(m, k) == DOMAIN parameters \subseteq DOMAIN m /\ \A id : Carried(s, k, m, id, buffer)
<1>1. n \in Nat
  OBVIOUS
<1>2. parameters' = (CHOOSE m : Whole(m))[n]
  BY Zenon DEF ProcessEvents
<1>3. ASSUME NEW k \in 1 .. n, NEW x \in Tables PROVE Step(k, x) \in Tables /\ DOMAIN x \subseteq DOMAIN Step(k, x)
  <2>1. CASE ~EndsGroup(s, k)
    BY <2>1
  <2>2. CASE EndsGroup(s, k)
    <3> DEFINE other == s[k].event.id
               g == Group(s, k)
    <3>1. other \in Nat /\ First(s, k) \in 1 .. k /\ g \in Seq(DueEvent) /\ Len(g) = k - First(s, k) + 1
      BY <2>2, GroupIs
    <3> HIDE DEF other, g
    <3>2. Len(g) # 0
      BY <3>1
    <3>3. g # <<>>
      BY <3>2
    <3>4. Renews(x, Updated(x, other, g, buffer), other, g, buffer)
      BY <3>1, <3>3, UpdatedIs
    <3> QED
      BY <2>2, <3>4 DEF Renews, other, g
  <2> QED
    BY <2>1, <2>2
<1>4. ASSUME NEW k \in 1 .. n, NEW x \in Tables, NEW id, Carried(s, k - 1, x, id, buffer)
      PROVE  Carried(s, k, Step(k, x), id, buffer)
  BY <1>4, OneEventMore
<1> HIDE DEF Step
<1>5. \E m : Whole(m)
  <2> DEFINE H == [k \in 1 .. n |-> [x \in Tables |-> Step(k, x)]]
  <2>1. \A k \in 1 .. n, x \in Tables : H[k][x] \in Tables /\ H[k][x] = Step(k, x)
    BY <1>3
  <2> HIDE DEF H
  <2>2. PICK m \in [0 .. n -> Tables] : Recurs(m, n, parameters, H)
    <3> HIDE DEF n
    <3> QED
      BY <1>1, <2>1, Recursion
  <2>3. ASSUME NEW k \in 0 .. n PROVE m[k] = Body(k, m[k - 1])
    <3>1. CASE k = 0
      BY <2>2, <3>1 DEF Recurs
    <3>2. CASE k # 0
      <4>1. k \in 1 .. n /\ k - 1 \in 0 .. n
        BY <1>1, <3>2
      <4>2. m[k - 1] \in Tables /\ m[k] = H[k][m[k - 1]]
        BY <2>2, <4>1 DEF Recurs
      <4> QED
        BY <2>1, <3>2, <4>1, <4>2
    <3> QED
      BY <3>1, <3>2
  <2> HIDE DEF Body
  <2>4. m = [k \in 0 .. n |-> m[k]]
    BY <2>2
  <2>5. Whole(m)
    BY <2>3, <2>4
  <2> QED
    BY <2>5
<1>6. PICK m : parameters' = m[n] /\ \A k \in 0 .. n : m[k] = Body(k, m[k - 1])
  <2> HIDE DEF Body
  <2> DEFINE c == CHOOSE m : Whole(m)
  <2>1. Whole(c)
    BY <1>5
  <2>2. parameters' = c[n]
    BY <1>2
  <2> HIDE DEF c
  <2>3. \A k \in 0 .. n : c[k] = Body(k, c[k - 1])
    BY <2>1
  <2> QED
    BY <2>2, <2>3
<1> DEFINE K == {k \in 0 .. n : m[k] \in Tables /\ CarriedAll(m[k], k)}
<1>7. 0 \in K
  <2>1. m[0] = parameters
    BY <1>1, <1>6
  <2>2. ASSUME NEW id PROVE Carried(s, 0, parameters, id, buffer)
    BY DEF Carried
  <2> QED
    BY <1>1, <2>1, <2>2
<1>8. ASSUME NEW k \in 1 .. n, k - 1 \in K PROVE k \in K
  <2>1. m[k] = Step(k, m[k - 1])
    BY <1>1, <1>6
  <2>2. /\ m[k - 1] \in Tables /\ DOMAIN parameters \subseteq DOMAIN m[k - 1]
        /\ \A id : Carried(s, k - 1, m[k - 1], id, buffer)
    BY <1>8
  <2>3. m[k] \in Tables /\ DOMAIN parameters \subseteq DOMAIN m[k]
    BY <1>3, <2>1, <2>2
  <2>4. \A id : Carried(s, k, m[k], id, buffer)
    BY <1>4, <2>1, <2>2
  <2> QED
    BY <1>1, <2>3, <2>4
<1>9. n \in K
  <2> HIDE DEF K, n
  <2>1. \A k \in 1 .. n : k - 1 \in K => k \in K
    BY <1>8
  <2>2. \A k \in 0 .. n : k \in K
    BY <1>1, <1>7, <2>1, Counting
  <2> QED
    BY <1>1, <2>2
<1> QED
  BY <1>6, <1>9

-----------------------------------------------------------------------------
(* The value of a parameter.                                               *)

\* v is the value of id at frame f after the events s, where it was before.
Valued(s, f, id, before, v) ==
  \/ v = before /\ \A i \in 1 .. Len(s) : Changes(s[i], id) => s[i].at > f
  \/ \E j \in 1 .. Len(s) :
       /\ Changes(s[j], id) /\ s[j].at <= f /\ v = s[j].event.value
       /\ \A i \in j + 1 .. Len(s) : Changes(s[i], id) => s[i].at > f

\* There is only one such value.
LEMMA ValuedOnce ==
  ASSUME NEW s \in Seq(DueEvent), NEW f \in Nat, NEW id, NEW before, NEW v, NEW w,
         Valued(s, f, id, before, v), Valued(s, f, id, before, w)
  PROVE  v = w
<1>1. Len(s) \in Nat /\ \A i \in 1 .. Len(s) : s[i].at \in Nat
  BY Events
<1>2. CASE v = before /\ \A i \in 1 .. Len(s) : Changes(s[i], id) => s[i].at > f
  <2>1. ~\E j \in 1 .. Len(s) : Changes(s[j], id) /\ s[j].at <= f
    BY <1>1, <1>2
  <2>2. w = before
    BY <2>1 DEF Valued
  <2> QED
    BY <1>2, <2>2
<1>3. CASE \E j \in 1 .. Len(s) :
             /\ Changes(s[j], id) /\ s[j].at <= f /\ v = s[j].event.value
             /\ \A i \in j + 1 .. Len(s) : Changes(s[i], id) => s[i].at > f
  <2>1. PICK j \in 1 .. Len(s) :
             /\ Changes(s[j], id) /\ s[j].at <= f /\ v = s[j].event.value
             /\ \A i \in j + 1 .. Len(s) : Changes(s[i], id) => s[i].at > f
    BY <1>3
  <2>2. ~(s[j].at > f)
    BY <1>1, <2>1
  <2>3. PICK k \in 1 .. Len(s) :
             /\ Changes(s[k], id) /\ s[k].at <= f /\ w = s[k].event.value
             /\ \A i \in k + 1 .. Len(s) : Changes(s[i], id) => s[i].at > f
    BY <2>1, <2>2 DEF Valued
  <2>4. ~(s[k].at > f)
    BY <1>1, <2>3
  <2>5. ~(j \in k + 1 .. Len(s)) /\ ~(k \in j + 1 .. Len(s))
    BY <2>1, <2>2, <2>3, <2>4
  <2>6. j = k
    BY <1>1, <2>5
  <2> QED
    BY <2>1, <2>3, <2>6
<1> QED
  BY <1>2, <1>3 DEF Valued

\* Value is such a value.
LEMMA ValueIs ==
  ASSUME taken \in Seq(DueEvent), NEW f \in Nat, NEW id
  PROVE  Valued(taken, f, id, controls[id], Value(f, id))
<1> DEFINE A == ChangesUpTo(f, id)
<1>1. Len(taken) \in Nat /\ \A i \in 1 .. Len(taken) : taken[i].at \in Nat
  BY Events
<1>2. A = {i \in 1 .. Len(taken) : Changes(taken[i], id) /\ taken[i].at <= f}
  BY DEF ChangesUpTo, Changes
<1>3. \A i \in 1 .. Len(taken) : Changes(taken[i], id) /\ i \notin A => taken[i].at > f
  BY <1>1, <1>2
<1> HIDE DEF A
<1>4. CASE A = {}
  <2>1. Value(f, id) = controls[id]
    BY <1>4 DEF Value, A
  <2> QED
    BY <1>3, <1>4, <2>1 DEF Valued
<1>5. CASE A # {}
  <2> DEFINE j == Max(A)
  <2>1. j \in A /\ \A i \in A : i <= j
    <3>1. A \in SUBSET (1 .. Len(taken))
      BY <1>2
    <3> QED
      BY <1>1, <1>5, <3>1, Greatest
  <2>2. Value(f, id) = taken[j].event.value
    BY <1>5 DEF Value, A
  <2> HIDE DEF j
  <2>3. j \in 1 .. Len(taken) /\ Changes(taken[j], id) /\ taken[j].at <= f
    BY <1>2, <2>1
  <2>4. \A i \in j + 1 .. Len(taken) : i \in 1 .. Len(taken) /\ ~(i <= j)
    BY <1>1, <2>3
  <2>5. \A i \in j + 1 .. Len(taken) : Changes(taken[i], id) => taken[i].at > f
    BY <1>3, <2>1, <2>4
  <2> QED
    BY <2>2, <2>3, <2>5 DEF Valued
<1> QED
  BY <1>4, <1>5

-----------------------------------------------------------------------------
(* The sorted changes of a parameter are those of the player.              *)

\* p says where the values of t are in s: those of one parameter are in the order of s.
Sorts(s, p, t) ==
  /\ t \in Seq(DueEvent) /\ Len(t) = Len(s) /\ InOrder(t)
  /\ \A i \in 1 .. Len(s) : p[i] \in 1 .. Len(s) /\ t[i] = s[p[i]]
  /\ \A j \in 1 .. Len(s) : \E i \in 1 .. Len(s) : p[i] = j
  /\ \A i, j \in 1 .. Len(s) : i < j /\ SortKey(t[i]) = SortKey(t[j]) => p[i] < p[j]

\* The sort is stable: it leaves the changes of a parameter in the order they came.
LEMMA SortedIs ==
  ASSUME NEW s \in Seq(DueEvent), Ascending(s)
  PROVE  \E p : Sorts(s, p, MergeSorted(s))
<1> DEFINE t == MergeSorted(s)
           n == Len(s)
<1>1. t \in Seq(DueEvent) /\ StableOrder(s, t)
  BY Events, EventsSortStably
<1>2. n \in Nat /\ Len(t) = n
  BY <1>1 DEF StableOrder
<1>3. PICK q \in [1 .. n -> 1 .. n] : Arranges(s, q, t)
  BY <1>1 DEF StableOrder
<1> HIDE DEF t
<1>4. \A j \in 1 .. n : \E i \in 1 .. n : q[i] = j
  BY <1>2, <1>3, Events, ArrangedOnce
<1>5. \A i \in 1 .. n : t[i] = s[q[i]] /\ q[i] \in 1 .. n
  BY <1>2, <1>3 DEF Arranges
<1>6. \A i, j \in 1 .. n : i < j => Prior(s, q[i], q[j])
  BY <1>2, <1>3 DEF Arranges
<1>7. \A i \in 1 .. n : s[i] \in DueEvent /\ SortKey(s[i]) \in Nat /\ s[i].at \in Nat
  <2> TAKE i \in 1 .. n
  <2>1. s[i] \in DueEvent
    OBVIOUS
  <2> QED
    BY <2>1, KeyTells
<1>8. ASSUME NEW i \in 1 .. n, NEW j \in 1 .. n, i < j
      PROVE  SortKey(t[i]) <= SortKey(t[j]) /\ (SortKey(t[i]) = SortKey(t[j]) => q[i] < q[j])
  <2>1. PICK a \in 1 .. n : a = q[i]
    BY <1>5
  <2>2. PICK b \in 1 .. n : b = q[j]
    BY <1>5
  <2>3. Prior(s, a, b) /\ t[i] = s[a] /\ t[j] = s[b]
    BY <1>5, <1>6, <1>8, <2>1, <2>2
  <2>4. SortKey(s[a]) \in Nat /\ SortKey(s[b]) \in Nat /\ s[a].at \in Nat /\ s[b].at \in Nat
    BY <1>7
  <2>5. SortKey(s[a]) <= SortKey(s[b])
    BY <2>3, <2>4 DEF Prior, Before
  <2>6. ASSUME SortKey(s[a]) = SortKey(s[b]) PROVE a < b
    <3>1. s[a].at < s[b].at \/ (~(s[b].at < s[a].at) /\ a < b)
      BY <2>3, <2>4, <2>6 DEF Prior, Before
    <3>2. b < a => s[b].at <= s[a].at
      BY DEF Ascending
    <3>3. a # b \/ s[a].at = s[b].at
      OBVIOUS
    <3> QED
      BY <1>2, <2>4, <3>1, <3>2, <3>3
  <2> QED
    BY <2>1, <2>2, <2>3, <2>5, <2>6
<1>9. InOrder(t)
  BY <1>2, <1>8 DEF InOrder
<1>10. Sorts(s, q, t)
  BY <1>1, <1>2, <1>4, <1>5, <1>8, <1>9 DEF Sorts
<1> QED
  BY <1>10 DEF t

\* A parameter has changes in both or in none.
LEMMA SortedChanges ==
  ASSUME NEW s \in Seq(DueEvent), NEW p, NEW t, Sorts(s, p, t), NEW id
  PROVE  (\E i \in 1 .. Len(s) : Changes(s[i], id)) <=> \E k \in 1 .. Len(t) : EndOf(t, k, id)
<1>1. ASSUME NEW i \in 1 .. Len(s), Changes(s[i], id) PROVE \E k \in 1 .. Len(t) : EndOf(t, k, id)
  <2>1. PICK j \in 1 .. Len(t) : p[j] = i
    BY DEF Sorts
  <2>2. Changes(t[j], id)
    BY <1>1, <2>1 DEF Sorts
  <2>3. t \in Seq(DueEvent) /\ InOrder(t)
    BY DEF Sorts
  <2> QED
    BY <2>2, <2>3, GroupEnds DEF EndOf
<1>2. ASSUME NEW k \in 1 .. Len(t), EndOf(t, k, id) PROVE \E i \in 1 .. Len(s) : Changes(s[i], id)
  <2>1. Changes(t[k], id) /\ k \in 1 .. Len(s)
    BY <1>2 DEF EndOf, EndsGroup, Changes, Sorts
  <2>2. p[k] \in 1 .. Len(s) /\ t[k] = s[p[k]]
    BY <2>1 DEF Sorts
  <2> QED
    BY <2>1, <2>2
<1> QED
  BY <1>1, <1>2

\* What the group of a parameter sounds like is its value.
LEMMA GroupSounds ==
  ASSUME NEW s \in Seq(DueEvent), Ascending(s), NEW p, NEW t, Sorts(s, p, t),
         NEW k \in 1 .. Len(t), NEW id, EndOf(t, k, id), NEW f \in Nat, NEW before, NEW v,
         Sounds(Group(t, k), Len(Group(t, k)), f, before, v)
  PROVE  Valued(s, f, id, before, v)
<1> DEFINE g == Group(t, k)
           a == First(t, k)
<1>1. Len(s) \in Nat /\ t \in Seq(DueEvent) /\ Len(t) = Len(s) /\ InOrder(t) /\ EndsGroup(t, k) /\ t[k].event.id = id
  BY DEF Sorts, EndOf
<1>2. a \in 1 .. k /\ id \in Nat
  BY <1>1, GroupIs
<1>3. \A i \in 1 .. Len(s) : Changes(t[i], id) <=> i \in a .. k
  BY <1>1, GroupIs
<1>4. Len(g) = k - a + 1
  BY <1>1, GroupIs
<1>5. \A i \in 1 .. k - a + 1 : g[i] = t[a + i - 1]
  BY <1>1, GroupIs
<1>6. k \in 1 .. Len(s)
  BY <1>1
<1> HIDE DEF g, a
<1>7. \A i \in 1 .. Len(s) : t[i] = s[p[i]] /\ p[i] \in 1 .. Len(s) /\ s[i].at \in Nat
  BY Events DEF Sorts
<1>8. \A i \in 1 .. Len(s) : Changes(s[i], id) => \E q \in a .. k : p[q] = i /\ t[q] = s[i]
  <2> SUFFICES ASSUME NEW i \in 1 .. Len(s), Changes(s[i], id) PROVE \E q \in a .. k : p[q] = i /\ t[q] = s[i]
    OBVIOUS
  <2>1. PICK q \in 1 .. Len(s) : p[q] = i
    BY DEF Sorts
  <2>2. t[q] = s[i]
    BY <1>7, <2>1
  <2>3. q \in a .. k
    BY <1>3, <2>2
  <2> QED
    BY <2>1, <2>2, <2>3
<1>9. \A q \in a .. k : q - a + 1 \in 1 .. k - a + 1 /\ g[q - a + 1] = t[q]
  <2> TAKE q \in a .. k
  <2>1. PICK m \in Nat : m = q - a + 1
    BY <1>2
  <2>2. m \in 1 .. k - a + 1 /\ a + m - 1 = q
    BY <1>2, <2>1
  <2>3. g[m] = t[a + m - 1]
    BY <1>5, <2>2
  <2> QED
    BY <2>1, <2>2, <2>3
<1>10. CASE v = before /\ \A i \in 1 .. Len(g) : g[i].at > f
  <2>1. ASSUME NEW i \in 1 .. Len(s), Changes(s[i], id) PROVE s[i].at > f
    <3>1. PICK q \in a .. k : p[q] = i /\ t[q] = s[i]
      BY <1>8, <2>1
    <3>2. q - a + 1 \in 1 .. Len(g) /\ g[q - a + 1] = t[q]
      BY <1>4, <1>9
    <3> QED
      BY <1>10, <3>1, <3>2
  <2> QED
    BY <1>10, <2>1 DEF Valued
<1>11. CASE \E j \in 1 .. Len(g) : /\ g[j].at <= f /\ v = g[j].event.value
                                    /\ \A i \in j + 1 .. Len(g) : g[i].at > f
  <2>1. PICK j \in 1 .. Len(g) : /\ g[j].at <= f /\ v = g[j].event.value
                                 /\ \A i \in j + 1 .. Len(g) : g[i].at > f
    BY <1>11
  <2>2. PICK m \in Nat : m = a + j - 1
    BY <1>2
  <2>3. m \in a .. k /\ m \in 1 .. Len(s) /\ m - a + 1 = j
    BY <1>2, <1>4, <1>6, <2>2
  <2>4. g[j] = t[m]
    BY <1>9, <2>3
  <2>5. PICK i \in 1 .. Len(s) : i = p[m]
    BY <1>7, <2>3
  <2>6. s[i] = t[m] /\ Changes(s[i], id)
    BY <1>3, <1>7, <2>3, <2>5
  <2>7. ASSUME NEW l \in i + 1 .. Len(s), Changes(s[l], id) PROVE s[l].at > f
    <3>1. l \in 1 .. Len(s) /\ i < l
      BY <1>1
    <3>2. PICK q \in a .. k : p[q] = l /\ t[q] = s[l]
      BY <1>8, <2>7, <3>1
    <3>3. q \in 1 .. Len(s)
      BY <1>2, <1>6
    <3>4. q # m
      BY <2>5, <3>1, <3>2
    <3>5. ASSUME q < m PROVE FALSE
      <4>1. t[q] \in DueEvent /\ t[m] \in DueEvent /\ Changes(t[q], id) /\ Changes(t[m], id)
        BY <1>1, <2>3, <2>6, <2>7, <3>2, <3>3
      <4>2. SortKey(t[q]) = SortKey(t[m])
        BY <1>2, <4>1, KeyTells
      <4>3. p[q] < p[m]
        BY <2>3, <3>3, <3>5, <4>2 DEF Sorts
      <4> QED
        BY <2>5, <3>1, <3>2, <4>3
    <3>6. q - a + 1 \in j + 1 .. Len(g) /\ g[q - a + 1] = t[q]
      <4>1. q - a + 1 \in 1 .. Len(g) /\ g[q - a + 1] = t[q]
        BY <1>4, <1>9
      <4>2. q > m
        BY <2>3, <3>3, <3>4, <3>5
      <4>3. q - a + 1 > j
        BY <1>2, <2>3, <4>2
      <4>4. j \in Nat
        OBVIOUS
      <4> QED
        BY <1>2, <4>1, <4>3, <4>4
    <3> QED
      BY <2>1, <3>2, <3>6
  <2>8. s[i].at <= f /\ v = s[i].event.value
    BY <2>1, <2>4, <2>6
  <2> QED
    BY <2>6, <2>7, <2>8 DEF Valued
<1> QED
  BY <1>10, <1>11 DEF Sounds, g

-----------------------------------------------------------------------------
(* The table of parameters carries their values.                           *)

Changed(id) == \E i \in 1 .. Len(taken) : Changes(taken[i], id)

\* The value before the chunk whose events are taken next, or are being taken.
Base(id) == IF popping THEN controls[id] ELSE Value(Frames, id)

\* What the table has of this chunk.
Current(id) ==
  IF id \notin DOMAIN parameters THEN Full(parameters) \/ (~Changed(id) /\ controls[id] = 0)
  ELSE IF ~Changed(id) THEN parameters[id].lastActive # chunks /\ parameters[id].nextPrevious = controls[id]
  ELSE /\ parameters[id].lastActive = chunks
       /\ \A f \in Nat : \A v : LET changes == parameters[id].changes
                            IN  Sounds(changes, Len(changes), f, parameters[id].previous, v)
                                  => Valued(taken, f, id, controls[id], v)

ParametersInv ==
  /\ parameters \in Tables
  /\ \A id \in DOMAIN parameters : parameters[id].lastActive <= chunks
  /\ \A id \in Parameters :
       IF id \in DOMAIN parameters THEN parameters[id].nextPrevious = Base(id)
                                   ELSE Full(parameters) \/ Base(id) = 0
  /\ phase # "idle" => \A id \in Parameters : Current(id)

\* There are no parameters at the start.
LEMMA ParametersStart == PlaybackInit => ParametersInv
<1> SUFFICES ASSUME PlaybackInit PROVE ParametersInv
  OBVIOUS
<1>1. /\ parameters = <<>> /\ phase = "idle" /\ popping = FALSE /\ taken = <<>>
      /\ controls = [id \in Parameters |-> 0]
  BY DEF PlaybackInit, DriverInit, Init
<1>2. DOMAIN parameters = {}
  BY <1>1
<1>3. parameters \in Tables
  <2>1. parameters \in [{} -> Entry]
    BY <1>1
  <2>2. {} \in Ids
    <3>1. IsFiniteSet({}) /\ Cardinality({}) = 0
      BY FS_EmptySet
    <3> QED
      BY <3>1, EventsAssumption DEF Ids
  <2> QED
    BY <2>1, <2>2 DEF Tables
<1>4. ASSUME NEW id \in Parameters PROVE Base(id) = 0
  <2>1. DOMAIN taken = {}
    BY <1>1
  <2>2. ChangesUpTo(Frames, id) = {}
    BY <2>1 DEF ChangesUpTo
  <2> QED
    BY <1>1, <2>2 DEF Base, Value
<1> QED
  BY <1>1, <1>2, <1>3, <1>4 DEF ParametersInv

\* Where a step leaves the table and the events alone, the values stay.
LEMMA ParametersStay ==
  ASSUME ParametersInv, UNCHANGED <<parameters, taken, controls, popping, chunks>>, phase' # "idle" => phase # "idle"
  PROVE  ParametersInv'
<1>1. \A id : Base(id)' = Base(id)
  BY DEF Base, Value, ChangesUpTo
<1>2. \A id : Current(id)' = Current(id)
  BY DEF Current, Changed
<1> QED
  BY <1>1, <1>2 DEF ParametersInv

\* The events of a chunk are taken.
LEMMA ParametersTaken ==
  ASSUME ParametersInv, OnTime, TakeEvents \/ TakeEvent PROVE ParametersInv'
<1>1. CASE TakeEvents
  <2>1. /\ phase = "idle" /\ ~popping /\ popping' = TRUE /\ UNCHANGED <<parameters, chunks, phase>>
        /\ controls' = [id \in Parameters |-> Value(Frames, id)]
    BY <1>1 DEF TakeEvents, BeginTaking, vars
  <2>2. \A id \in Parameters : Base(id)' = Base(id)
    BY <2>1 DEF Base
  <2> QED
    BY <2>1, <2>2 DEF ParametersInv
<1>2. CASE TakeEvent
  <2>1. popping /\ popping' = popping /\ UNCHANGED <<parameters, chunks, phase, controls>>
    BY <1>2 DEF TakeEvent, Take, vars, callbackVars, historyVars
  <2>2. phase = "idle"
    BY <2>1 DEF OnTime
  <2>3. \A id \in Parameters : Base(id)' = Base(id)
    BY <2>1 DEF Base
  <2> QED
    BY <2>1, <2>2, <2>3 DEF ParametersInv
<1> QED
  BY <1>1, <1>2

\* The entry a group makes goes on from the value before the chunk.
LEMMA RenewedSounds ==
  ASSUME NEW s \in Seq(DueEvent), Ascending(s), NEW p, NEW t, Sorts(s, p, t),
         NEW k \in 1 .. Len(t), NEW id, EndOf(t, k, id), NEW before,
         NEW r, r.changes = Group(t, k), r.previous = before, r.nextPrevious = Last(Group(t, k)).event.value
  PROVE  /\ Valued(s, Frames, id, before, r.nextPrevious)
         /\ \A f \in Nat : \A v : Sounds(r.changes, Len(r.changes), f, r.previous, v) => Valued(s, f, id, before, v)
<1> DEFINE g == Group(t, k)
<1>1. t \in Seq(DueEvent) /\ InOrder(t) /\ EndsGroup(t, k)
  BY DEF Sorts, EndOf
<1>2. g \in Seq(DueEvent) /\ Len(g) = k - First(t, k) + 1 /\ First(t, k) \in 1 .. k
  BY <1>1, GroupIs
<1>3. \A f \in Nat : \A v : Sounds(g, Len(g), f, before, v) => Valued(s, f, id, before, v)
  BY GroupSounds
<1>4. Sounds(g, Len(g), Frames, before, Last(g).event.value)
  <2> HIDE DEF g
  <2>1. g # <<>>
    <3>1. Len(g) # 0
      BY <1>2
    <3> QED
      BY <3>1
  <2>2. Len(g) \in 1 .. Len(g) /\ Last(g) = g[Len(g)]
    BY <1>2, <2>1, LastIs
  <2>3. g[Len(g)].at <= Frames
    <3>1. g[Len(g)] \in DueEvent
      BY <1>2, <2>2
    <3>2. g[Len(g)].at \in Nat /\ g[Len(g)].at < Frames
      BY <3>1, Events
    <3> QED
      BY <3>2, VoiceAssumption
  <2>4. \A i \in Len(g) + 1 .. Len(g) : FALSE
    BY <2>2
  <2> QED
    BY <2>2, <2>3, <2>4 DEF Sounds
<1>5. Frames \in Nat
  BY VoiceAssumption
<1> QED
  BY <1>3, <1>4, <1>5

\* The events are sorted and go into the table.
LEMMA ParametersSorted ==
  ASSUME VoicesInv, DriverInv, OnTime, ParametersInv, ProcessControllerEvents PROVE ParametersInv'
<1> DEFINE t == MergeSorted(taken)
<1>1. /\ popping /\ ~popping' /\ chunks' = chunks + 1
      /\ UNCHANGED <<taken, controls>> /\ ProcessEvents(t, chunks')
  BY DEF ProcessControllerEvents, EndTaking, StartChunk
<1>2. chunks \in Nat /\ taken \in Seq(DueEvent) /\ Ascending(taken)
  BY DEF VoicesInv, TypeOK, DriverInv, OnTime
<1>3. PICK p : Sorts(taken, p, t)
  BY <1>2, SortedIs
<1> HIDE DEF t
<1>4. t \in Seq(DueEvent) /\ InOrder(t) /\ Len(t) = Len(taken)
  BY <1>3 DEF Sorts
<1>5. PICK buffer \in Nat : buffer = chunks + 1 /\ buffer = chunks'
  BY <1>1, <1>2
<1>6. /\ parameters' \in Tables /\ DOMAIN parameters \subseteq DOMAIN parameters'
      /\ \A id : Carried(t, Len(t), parameters', id, buffer)
  <2>1. ProcessEvents(t, buffer)
    BY <1>1, <1>5
  <2>2. parameters \in Tables
    BY DEF ParametersInv
  <2> QED
    BY <1>4, <2>1, <2>2, ProcessedIs
<1>7. Full(parameters) => Full(parameters')
  BY <1>6, FullStays DEF ParametersInv
<1>8. ASSUME NEW id PROVE Changed(id) <=> \E k \in 1 .. Len(t) : EndOf(t, k, id)
  BY <1>2, <1>3, SortedChanges DEF Changed
<1>9. ASSUME NEW id, ~Changed(id)
      PROVE  /\ id \in DOMAIN parameters' <=> id \in DOMAIN parameters
             /\ id \in DOMAIN parameters' => parameters'[id] = parameters[id]
  BY <1>6, <1>8, <1>9 DEF Carried
<1>10. ASSUME NEW id, Changed(id)
       PROVE  \E k \in 1 .. Len(t) :
                /\ EndOf(t, k, id)
                /\ IF id \in DOMAIN parameters' THEN parameters'[id] = Renewed(parameters, id, Group(t, k), buffer)
                                                ELSE Full(parameters')
  BY <1>6, <1>8, <1>10 DEF Carried
<1>11. ASSUME NEW id \in DOMAIN parameters' PROVE parameters'[id].lastActive <= chunks'
  <2>1. CASE Changed(id)
    <3>1. parameters'[id].lastActive = buffer
      BY <1>10, <1>11, <2>1 DEF Renewed
    <3> QED
      BY <1>5, <3>1
  <2>2. CASE ~Changed(id)
    <3>1. id \in DOMAIN parameters /\ parameters'[id] = parameters[id]
      BY <1>9, <1>11, <2>2
    <3>2. parameters[id].lastActive <= chunks /\ parameters[id].lastActive \in Nat
      <4>1. parameters[id] \in Entry
        BY <3>1, TableIs DEF ParametersInv
      <4> QED
        BY <3>1, <4>1 DEF ParametersInv, Entry
    <3> QED
      BY <1>1, <1>2, <3>1, <3>2
  <2> QED
    BY <2>1, <2>2
<1>12. ASSUME NEW id \in Parameters
       PROVE  /\ IF id \in DOMAIN parameters' THEN parameters'[id].nextPrevious = Value(Frames, id)
                                              ELSE Full(parameters') \/ Value(Frames, id) = 0
              /\ Current(id)'
  <2>1. IF id \in DOMAIN parameters THEN parameters[id].nextPrevious = controls[id]
                                    ELSE Full(parameters) \/ controls[id] = 0
    BY <1>1 DEF ParametersInv, Base
  <2>2. Valued(taken, Frames, id, controls[id], Value(Frames, id))
    BY <1>2, VoiceAssumption, ValueIs
  <2>3. CASE ~Changed(id)
    <3>1. Value(Frames, id) = controls[id]
      BY <2>2, <2>3 DEF Valued, Changed
    <3>2. ~Changed(id)'
      BY <1>1, <2>3 DEF Changed
    <3>3. CASE id \in DOMAIN parameters'
      <4>1. id \in DOMAIN parameters /\ parameters'[id] = parameters[id]
        BY <1>9, <2>3, <3>3
      <4>2. parameters[id].lastActive <= chunks /\ parameters[id].lastActive \in Nat
        <5>1. parameters[id] \in Entry
          BY <4>1, TableIs DEF ParametersInv
        <5> QED
          BY <4>1, <5>1 DEF ParametersInv, Entry
      <4>3. parameters[id].lastActive # chunks'
        BY <1>1, <1>2, <4>2
      <4> QED
        BY <1>1, <2>1, <3>1, <3>2, <3>3, <4>1, <4>3 DEF Current
    <3>4. CASE id \notin DOMAIN parameters'
      <4>1. id \notin DOMAIN parameters
        BY <1>6, <3>4
      <4>2. Full(parameters') \/ controls[id] = 0
        BY <1>7, <2>1, <4>1
      <4>3. Current(id)'
        <5>1. Full(parameters)' = Full(parameters')
          BY DEF Full
        <5> QED
          BY <1>1, <3>2, <3>4, <4>2, <5>1 DEF Current
      <4> QED
        BY <3>1, <3>4, <4>2, <4>3
    <3> QED
      BY <3>3, <3>4
  <2>4. CASE Changed(id)
    <3>1. PICK k \in 1 .. Len(t) :
             /\ EndOf(t, k, id)
             /\ IF id \in DOMAIN parameters' THEN parameters'[id] = Renewed(parameters, id, Group(t, k), buffer)
                                             ELSE Full(parameters')
      BY <1>10, <2>4
    <3>2. Changed(id)'
      BY <1>1, <2>4 DEF Changed
    <3>3. CASE id \notin DOMAIN parameters'
      <4>1. Full(parameters')
        BY <3>1, <3>3
      <4>2. Current(id)'
        BY <3>3, <4>1 DEF Current, Full
      <4> QED
        BY <3>3, <4>1, <4>2
    <3>4. CASE id \in DOMAIN parameters'
      <4> DEFINE r == parameters'[id]
                 before == IF id \in DOMAIN parameters THEN parameters[id].nextPrevious ELSE 0
      <4>1. r.lastActive = buffer /\ r.changes = Group(t, k) /\ r.previous = before
            /\ r.nextPrevious = Last(Group(t, k)).event.value
        BY <3>1, <3>4 DEF Renewed
      <4>2. ASSUME id \notin DOMAIN parameters PROVE ~Full(parameters)
        <5>1. ASSUME Full(parameters) PROVE DOMAIN parameters = DOMAIN parameters'
          <6>1. Cardinality(DOMAIN parameters) = MaxParameters /\ Cardinality(DOMAIN parameters') = MaxParameters
            BY <1>7, <5>1 DEF Full
          <6>2. IsFiniteSet(DOMAIN parameters')
            BY <1>6, TableIs
          <6> QED
            BY <1>6, <6>1, <6>2, FS_Subset
        <5> QED
          BY <3>4, <4>2, <5>1
      <4>3. before = controls[id]
        BY <2>1, <4>2
      <4> HIDE DEF r, before
      <4>4. /\ Valued(taken, Frames, id, controls[id], r.nextPrevious)
            /\ \A f \in Nat : \A v : Sounds(r.changes, Len(r.changes), f, r.previous, v)
                                   => Valued(taken, f, id, controls[id], v)
        BY <1>2, <1>3, <3>1, <4>1, <4>3, RenewedSounds
      <4>5. r.nextPrevious = Value(Frames, id)
        BY <1>2, <2>2, <4>4, VoiceAssumption, ValuedOnce
      <4>6. Current(id)'
        <5>1. \A f, v : Valued(taken, f, id, controls[id], v)' = Valued(taken, f, id, controls[id], v)
          BY <1>1
        <5> QED
          BY <1>1, <1>5, <3>2, <3>4, <4>1, <4>4 DEF Current, r
      <4> QED
        BY <3>4, <4>5, <4>6 DEF r
    <3> QED
      BY <3>3, <3>4
  <2> QED
    BY <2>3, <2>4
<1>13. \A id : Base(id)' = Value(Frames, id)
  BY <1>1 DEF Base, Value, ChangesUpTo
<1>14. Full(parameters)' = Full(parameters')
  BY DEF Full
<1>15. \A id \in DOMAIN parameters' : parameters'[id].lastActive <= chunks'
  BY <1>11
<1>16. \A id \in Parameters : IF id \in DOMAIN parameters' THEN parameters'[id].nextPrevious = Base(id)'
                                                           ELSE Full(parameters') \/ Base(id)' = 0
  BY <1>12, <1>13
<1>17. \A id \in Parameters : Current(id)'
  BY <1>12
<1> QED
  BY <1>6, <1>14, <1>15, <1>16, <1>17 DEF ParametersInv

\* Every step keeps the values.
LEMMA ParametersKept ==
  ASSUME PlaybackInv, KeysInv, ParametersInv, [PlaybackNext]_playbackVars PROVE ParametersInv'
<1>1. VoicesInv /\ DriverInv /\ OnTime
  BY DEF PlaybackInv, KeysInv
<1>2. CASE TakeEvents \/ TakeEvent
  BY <1>1, <1>2, ParametersTaken
<1>3. CASE ProcessControllerEvents
  BY <1>1, <1>3, ParametersSorted
<1>4. CASE Play \/ Deliver \/ Tick \/ UNCHANGED playbackVars
  <2>1. UNCHANGED <<parameters, taken, controls, popping, chunks, phase>>
    BY <1>4 DEF Play, Deliver, Tick, Stamp, Push, TimePasses, playbackVars, vars, driverVars, callbackVars, historyVars
  <2> QED
    BY <2>1, ParametersStay
<1>5. CASE Press \/ Release \/ NotesAllocated \/ PlayVoice \/ PlayRest
  <2>1. UNCHANGED <<parameters, taken, controls, popping>>
    BY <1>5 DEF Press, Release, NotesAllocated, PlayVoice, PlayRest, driverVars, callbackVars, historyVars
  <2>2. UNCHANGED chunks /\ phase # "idle"
    BY <1>5 DEF Press, Release, NotesAllocated, PlayVoice, PlayRest, NoteOn, NoteOff, EndEvents, ProcessVoice,
      SkipVoice, EndVoices, ProcessFx
  <2> QED
    BY <2>1, <2>2, ParametersStay
<1> QED
  BY <1>2, <1>3, <1>4, <1>5 DEF PlaybackNext

\* What a task reads is the value.
LEMMA ParametersRight ==
  ASSUME VoicesInv, DriverInv, ParametersInv PROVE ParametersCarry
<1> SUFFICES ASSUME phase # "idle", NEW id \in Parameters, NEW f \in 0 .. Frames - 1
             PROVE  ParameterValue(id, chunks, Frames)[f] = IF Heard(id) THEN Value(f, id) ELSE 0
  BY DEF ParametersCarry
<1> DEFINE read == ParameterChanges(id, chunks)
           v == ParameterValue(id, chunks, Frames)[f]
<1>1. parameters \in Tables /\ Current(id) /\ taken \in Seq(DueEvent) /\ f \in Nat
  BY VoiceAssumption DEF ParametersInv, DriverInv
<1>2. Valued(taken, f, id, controls[id], Value(f, id))
  BY <1>1, ValueIs
<1>3. <<>> \in Seq(DueEvent) /\ Len(<<>>) = 0 /\ \A j \in 1 .. 0 : FALSE
  OBVIOUS
<1>4. Heard(id) <=> id \in DOMAIN parameters \/ ~Full(parameters)
  BY <1>1, TableIs, EventsAssumption DEF Heard, Full
<1>5. read.changes \in Seq(DueEvent)
  <2>1. id \in DOMAIN parameters => parameters[id].changes \in Seq(DueEvent)
    BY <1>1, TableIs DEF Entry
  <2> QED
    BY <1>3, <2>1 DEF ParameterChanges
<1>6. Sounds(read.changes, Len(read.changes), f, read.previous, v)
  BY <1>5, SignalSounds
<1> HIDE DEF v
<1>7. read.changes = <<>> => v = read.previous
  <2> HIDE DEF read
  <2> SUFFICES ASSUME read.changes = <<>> PROVE v = read.previous
    OBVIOUS
  <2>1. Sounds(<<>>, 0, f, read.previous, v)
    BY <1>3, <1>6
  <2> QED
    BY <1>3, <2>1 DEF Sounds
<1>8. ~Changed(id) => Value(f, id) = controls[id]
  BY <1>2 DEF Valued, Changed
<1>9. CASE id \notin DOMAIN parameters
  <2>1. read.changes = <<>> /\ read.previous = 0
    BY <1>9 DEF ParameterChanges
  <2>2. Full(parameters) \/ (~Changed(id) /\ controls[id] = 0)
    BY <1>1, <1>9 DEF Current
  <2> QED
    BY <1>4, <1>7, <1>8, <1>9, <2>1, <2>2 DEF v
<1>10. CASE id \in DOMAIN parameters /\ ~Changed(id)
  <2>1. parameters[id].lastActive # chunks /\ parameters[id].nextPrevious = controls[id]
    BY <1>1, <1>10 DEF Current
  <2>2. read.changes = <<>> /\ read.previous = controls[id]
    BY <1>10, <2>1 DEF ParameterChanges
  <2> QED
    BY <1>4, <1>7, <1>8, <1>10, <2>2 DEF v
<1>11. CASE id \in DOMAIN parameters /\ Changed(id)
  <2>1. /\ parameters[id].lastActive = chunks
        /\ \A w : Sounds(parameters[id].changes, Len(parameters[id].changes), f, parameters[id].previous, w)
                    => Valued(taken, f, id, controls[id], w)
    BY <1>1, <1>11 DEF Current
  <2>2. read.changes = parameters[id].changes /\ read.previous = parameters[id].previous
    BY <1>11, <2>1 DEF ParameterChanges
  <2>3. Valued(taken, f, id, controls[id], v)
    BY <1>6, <2>1, <2>2
  <2>4. v = Value(f, id)
    BY <1>1, <1>2, <2>3, ValuedOnce
  <2> QED
    BY <1>4, <1>11, <2>4 DEF v
<1> QED
  BY <1>9, <1>10, <1>11

\* The table carries the values in every behaviour.
LEMMA ParametersHeld == PlaybackSpec => []ParametersInv
<1>1. PlaybackInv /\ KeysInv /\ ParametersInv /\ [PlaybackNext]_playbackVars => ParametersInv'
  BY ParametersKept
<1> QED
  BY <1>1, ParametersStart, PlaybackKeepsInv, HistoryKept, PTL DEF PlaybackSpec

-----------------------------------------------------------------------------
\* Every variable of the voice allocator holds a value of its type, whatever is played: no sample
\* index passes the end of its chunk, no note starts behind it (s_voice).
THEOREM VoicesTyped == PlaybackSpec => []TypeOK
<1>1. PlaybackInv => TypeOK
  BY DEF PlaybackInv, VoicesInv
<1> QED
  BY <1>1, PlaybackKeepsInv, PTL

\* Both directions of m_voice_list show every voice once, in the same order, the inactive voices
\* first (allocate_voices_for_chunk, disable_voice).
THEOREM ListStaysOrdered == PlaybackSpec => []VoiceListOrdered
<1>1. PlaybackInv => VoiceListOrdered
  BY ListInvIsOrder DEF PlaybackInv, VoicesInv
<1> QED
  BY <1>1, PlaybackKeepsInv, PTL

\* The effects run in every chunk in which a note starts (activate_fx).
THEOREM EffectsHearNotes == PlaybackSpec => []FxHearsNewNotes
<1>1. PlaybackInv => FxHearsNewNotes
  BY DEF PlaybackInv, VoicesInv, FxWoken
<1> QED
  BY <1>1, PlaybackKeepsInv, PTL

\* The voices play what VoicePolicy promises: a key held already does not start again, the oldest
\* note gives way, and a note sounds until the instrument ends it (c_voice_allocator).
THEOREM VoicesFollowPolicy == PlaybackSpec => ImplementsPolicy
<1>1. PlaybackInit => Policy!Init
  BY SoundInit DEF PlaybackInit
<1>2. PlaybackInv /\ [PlaybackNext]_playbackVars => [Policy!Next]_Sounding
  BY PlaybackSteps
<1> QED
  BY <1>1, <1>2, PlaybackKeepsInv, PTL DEF PlaybackSpec, ImplementsPolicy, Policy!Spec

\* After the events of a chunk no voice holds a note whose key is up, and the key struck last has
\* its voice if it is down (process_controller_events, allocate_voices_for_chunk).
THEOREM VoicesFollowKeys == PlaybackSpec => []KeysAreFollowed
<1>1. PlaybackInv /\ KeysInv => KeysAreFollowed
  <2> SUFFICES ASSUME PlaybackInv, KeysInv, phase = "events", notes = <<>> PROVE KeysAreFollowed
    BY DEF KeysAreFollowed
  <2> QED
    BY KeysFollowed DEF PlaybackInv
<1> QED
  BY <1>1, PlaybackKeepsInv, HistoryKept, PTL

\* In every chunk a voice reads how long its note has been pressed and released, but for the excess
\* (get_note_press_duration, get_note_release_duration).
THEOREM DurationsAreRight == PlaybackSpec => []DurationsCount
<1>1. PlaybackInv /\ TimesInv => DurationsCount
  BY DurationsRight DEF PlaybackInv
<1> QED
  BY <1>1, PlaybackKeepsInv, HistoryKept, PTL

\* In every frame of every chunk a task reads the value of the last change of a parameter up to
\* then, however long ago, unless the table is full of others: then 0 (update_parameter_state,
\* get_parameter_value).
THEOREM ParametersAreHeard == PlaybackSpec => []ParametersCarry
<1>1. PlaybackInv /\ ParametersInv => ParametersCarry
  BY ParametersRight DEF PlaybackInv
<1> QED
  BY <1>1, PlaybackKeepsInv, ParametersHeld, PTL
=============================================================================
