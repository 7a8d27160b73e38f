----------------------- MODULE BufferManager_proofs -----------------------
(***************************************************************************)
(* Proofs about the task graph's estimates and about BufferManager.        *)
(***************************************************************************)
EXTENDS BufferManager, FiniteSetTheorems, SequenceTheorems, WellFoundedInduction, NaturalsInduction, TLAPS

-----------------------------------------------------------------------------
(* Recursion over 0 .. n.                                                  *)

\* Each nonempty set of naturals has a smallest element.
LEMMA LeastMember ==
  ASSUME NEW S \in SUBSET Nat, S # {}
  PROVE  \E m \in S : \A k \in S : m <= k
<1>1. PICK m \in S : \A k \in S : ~(<<k, m>> \in OpToRel(<, Nat))
  BY NatLessThanWellFounded, WFMin
<1>2. \A k \in S : ~(k < m)
  BY <1>1 DEF OpToRel
<1> QED
  BY <1>2

\* A set of numbers that goes on with each number it has, up to n.
LEMMA Counting ==
  ASSUME NEW n \in Nat, NEW K, 0 \in K, \A k \in 1 .. n : k - 1 \in K => k \in K
  PROVE  \A k \in 0 .. n : k \in K
<1> DEFINE Missing == {k \in 0 .. n : k \notin K}
<1> SUFFICES ASSUME Missing # {} PROVE FALSE
  OBVIOUS
<1>1. PICK k \in Missing : \A j \in Missing : k <= j
  <2>1. Missing \in SUBSET Nat
    OBVIOUS
  <2> HIDE DEF Missing
  <2> QED
    BY <2>1, LeastMember
<1>2. k \in 1 .. n /\ k - 1 \in 0 .. n /\ k - 1 \notin Missing
  BY <1>1
<1>3. k \in K
  BY <1>2
<1> QED
  BY <1>1, <1>3

\* A function whose value at k is made of the one at k - 1.
Recurs(f, n, b, H) == f[0] = b /\ \A k \in 1 .. n : f[k] = H[k][f[k - 1]]

\* The function a recursive definition over 0 .. n chooses is there.
LEMMA Recursion ==
  ASSUME NEW n \in Nat, NEW X, NEW b \in X, NEW H, \A k \in 1 .. n, x \in X : H[k][x] \in X
  PROVE  \E f \in [0 .. n -> X] : Recurs(f, n, b, H)
<1> DEFINE Solved == {k \in 0 .. n : \E f \in [0 .. k -> X] : Recurs(f, k, b, H)}
<1>1. 0 \in Solved
  <2> DEFINE f == [i \in 0 .. 0 |-> b]
  <2>1. f \in [0 .. 0 -> X] /\ Recurs(f, 0, b, H)
    BY DEF Recurs
  <2> HIDE DEF f
  <2> QED
    BY <2>1
<1>2. ASSUME NEW k \in 1 .. n, k - 1 \in Solved PROVE k \in Solved
  <2>1. PICK f \in [0 .. k - 1 -> X] : Recurs(f, k - 1, b, H)
    BY <1>2
  <2> DEFINE g == [i \in 0 .. k |-> IF i = k THEN H[k][f[k - 1]] ELSE f[i]]
  <2>2. f[k - 1] \in X /\ \A i \in 0 .. k : i # k => i \in 0 .. k - 1
    BY <1>2
  <2>3. g \in [0 .. k -> X]
    BY <2>1, <2>2
  <2>4. g[0] = b
    BY <2>1 DEF Recurs
  <2>5. \A i \in 1 .. k : g[i] = H[i][g[i - 1]]
    BY <2>1, <2>2 DEF Recurs
  <2> HIDE DEF g
  <2>6. Recurs(g, k, b, H)
    BY <2>4, <2>5 DEF Recurs
  <2> QED
    BY <2>3, <2>6
<1> HIDE DEF Solved
<1>3. n \in Solved
  BY <1>1, <1>2, Counting
<1> QED
  BY <1>3 DEF Solved

-----------------------------------------------------------------------------
(* The order of the tasks.                                                 *)

\* A task only has successors after it, as the nodes are visited in the order of the graph.
Ordered(successors) ==
  /\ successors \in Seq(SUBSET Nat)
  /\ \A k \in 1 .. Len(successors) : successors[k] \subseteq k + 1 .. Len(successors)

Direct(successors) ==
  [b \in 1 .. Len(successors) |-> {a \in 1 .. Len(successors) : b \in successors[a]}]

\* Row b has what is before b: the tasks that lead to b, and what is before one of these.
RowComplete(direct, rows, b) ==
  /\ rows[b] \subseteq 1 .. b - 1
  /\ direct[b] \subseteq rows[b]
  /\ \A a \in rows[b] : rows[a] \subseteq rows[b]
  /\ \A a \in rows[b] : a \in direct[b] \/ \E c \in direct[b] : a \in rows[c]

\* The row of b when the tasks up to a have been looked at.
RowSoFar(direct, rows, b, a, row) ==
  /\ row \subseteq 1 .. b - 1
  /\ direct[b] \subseteq row
  /\ \A x \in row : x <= a => rows[x] \subseteq row
  /\ \A x \in row : x \in direct[b] \/ \E c \in direct[b] : x \in rows[c]

\* What looking at task a does to a row.
WithRow(rows, a, row) == IF a \in row THEN row \cup rows[a] ELSE row

\* One task more.
LEMMA RowGoesOn ==
  ASSUME NEW direct, NEW rows, NEW b \in Nat, \A c \in 1 .. b - 1 : RowComplete(direct, rows, c),
         direct[b] \subseteq 1 .. b - 1,
         NEW a \in Nat \ {0}, NEW row, RowSoFar(direct, rows, b, a - 1, row)
  PROVE  RowSoFar(direct, rows, b, a, WithRow(rows, a, row))
<1>1. CASE a \notin row
  <2>1. \A x \in row : x \in 1 .. b - 1 /\ x # a
    BY <1>1 DEF RowSoFar
  <2>2. \A x \in row : x <= a => x <= a - 1
    BY <2>1
  <2> QED
    BY <1>1, <2>2 DEF RowSoFar, WithRow
<1>2. CASE a \in row
  <2> DEFINE new == row \cup rows[a]
  <2>1. a \in 1 .. b - 1 /\ RowComplete(direct, rows, a)
    BY <1>2 DEF RowSoFar
  <2>2. rows[a] \subseteq 1 .. a - 1 /\ \A x \in rows[a] : rows[x] \subseteq rows[a]
    BY <2>1 DEF RowComplete
  <2>3. new \subseteq 1 .. b - 1 /\ direct[b] \subseteq new
    <3>1. 1 .. a - 1 \subseteq 1 .. b - 1
      BY <2>1
    <3>2. row \subseteq 1 .. b - 1 /\ direct[b] \subseteq row
      BY DEF RowSoFar
    <3> HIDE DEF RowSoFar
    <3> QED
      BY <2>2, <3>1, <3>2, Zenon
  <2>4. ASSUME NEW x \in new, x <= a PROVE rows[x] \subseteq new
    <3>1. CASE x \in rows[a]
      BY <2>2, <3>1
    <3>2. CASE x \in row /\ x # a
      <4>1. x <= a - 1
        BY <2>3, <2>4, <3>2
      <4> QED
        BY <3>2, <4>1 DEF RowSoFar
    <3> QED
      BY <3>1, <3>2
  <2>5. ASSUME NEW x \in new PROVE x \in direct[b] \/ \E c \in direct[b] : x \in rows[c]
    <3>1. CASE x \in row
      BY <3>1 DEF RowSoFar
    <3>2. CASE x \in rows[a] /\ a \in direct[b]
      BY <3>2
    <3>3. CASE x \in rows[a] /\ a \notin direct[b]
      <4>1. PICK c \in direct[b] : a \in rows[c]
        BY <1>2, <3>3 DEF RowSoFar
      <4>2. rows[a] \subseteq rows[c]
        BY <4>1 DEF RowComplete
      <4> QED
        BY <3>3, <4>1, <4>2
    <3> QED
      BY <3>1, <3>2, <3>3
  <2> QED
    BY <1>2, <2>3, <2>4, <2>5 DEF RowSoFar, WithRow
<1> QED
  BY <1>1, <1>2

\* The rows that the inner loop of the resolver makes for b, one for each task.
JoinSteps(rows, b, m) ==
  /\ m[0] = rows[b]
  /\ \A a \in 1 .. Len(rows) : m[a] = WithRow(rows, a, m[a - 1])
  /\ Joined(rows, b) = m[Len(rows)]

\* What Joined chooses is there: the inner loop, step by step.
LEMMA JoinIsLoop ==
  ASSUME NEW n \in Nat, NEW rows \in [1 .. n -> SUBSET (1 .. n)], NEW b \in 1 .. n
  PROVE  \E m : JoinSteps(rows, b, m)
<1> DEFINE Step(a, x) == WithRow(rows, a, x)
           Body(a, x) == IF a = 0 THEN rows[b] ELSE Step(a, x)
           Whole(m) == m = [a \in 0 .. n |-> Body(a, m[a - 1])]
           X == SUBSET (1 .. n)
           H == [a \in 1 .. n |-> [x \in X |-> Step(a, x)]]
<1>1. Len(rows) = n
  OBVIOUS
<1>2. Joined(rows, b) = (CHOOSE m : Whole(m))[n]
  BY <1>1, Zenon DEF Joined, WithRow
<1>3. \A a \in 1 .. n, x \in X : H[a][x] \in X /\ H[a][x] = Step(a, x)
  BY DEF WithRow
<1>4. \E m : Whole(m)
  <2> HIDE DEF H, X
  <2>1. PICK m \in [0 .. n -> X] : Recurs(m, n, rows[b], H)
    <3>1. rows[b] \in X
      BY DEF X
    <3> QED
      BY <1>3, <3>1, Recursion
  <2>2. ASSUME NEW a \in 0 .. n PROVE m[a] = Body(a, m[a - 1])
    <3>1. CASE a = 0
      BY <2>1, <3>1 DEF Recurs
    <3>2. CASE a # 0
      <4>1. a \in 1 .. n /\ a - 1 \in 0 .. n
        BY <3>2
      <4>2. m[a - 1] \in X /\ m[a] = H[a][m[a - 1]]
        BY <2>1, <4>1 DEF Recurs
      <4> HIDE DEF Step
      <4> QED
        BY <1>3, <3>2, <4>1, <4>2
    <3> QED
      BY <3>1, <3>2
  <2> HIDE DEF Body
  <2>3. Whole(m)
    BY <2>1, <2>2
  <2> QED
    BY <2>3
<1> DEFINE m == CHOOSE m : Whole(m)
<1>5. Whole(m)
  BY <1>4
<1> HIDE DEF m
<1>6. m[0] = rows[b] /\ \A a \in 1 .. n : m[a] = Step(a, m[a - 1])
  <2>1. \A a \in 0 .. n : m[a] = Body(a, m[a - 1])
    <3> HIDE DEF Body
    <3> QED
      BY <1>5
  <2> HIDE DEF Step
  <2>2. ASSUME NEW a \in 1 .. n PROVE m[a] = Step(a, m[a - 1])
    <3>1. a # 0 /\ m[a] = Body(a, m[a - 1])
      <4> HIDE DEF Body
      <4> QED
        BY <2>1
    <3> QED
      BY <3>1, Zenon
  <2>3. m[0] = rows[b]
    <3>1. m[0] = Body(0, m[0 - 1])
      <4> HIDE DEF Body
      <4> QED
        BY <2>1
    <3> QED
      BY <3>1, Zenon
  <2> QED
    BY <2>2, <2>3
<1> HIDE DEF Step
<1> QED
  BY <1>1, <1>2, <1>6 DEF JoinSteps, Step, m

\* A row stays a set of tasks.
LEMMA JoinedType ==
  ASSUME NEW n \in Nat, NEW rows \in [1 .. n -> SUBSET (1 .. n)], NEW b \in 1 .. n
  PROVE  Joined(rows, b) \in SUBSET (1 .. n)
<1>1. PICK m : JoinSteps(rows, b, m)
  BY JoinIsLoop
<1>2. Len(rows) = n
  OBVIOUS
<1> DEFINE K == {a \in 0 .. n : m[a] \in SUBSET (1 .. n)}
<1>3. 0 \in K
  BY <1>1 DEF JoinSteps
<1>4. ASSUME NEW a \in 1 .. n, a - 1 \in K PROVE a \in K
  <2>1. m[a] = WithRow(rows, a, m[a - 1]) /\ m[a - 1] \in SUBSET (1 .. n)
    BY <1>1, <1>2, <1>4 DEF JoinSteps
  <2>2. rows[a] \in SUBSET (1 .. n)
    OBVIOUS
  <2> QED
    BY <2>1, <2>2 DEF WithRow
<1>5. n \in K
  <2> HIDE DEF K
  <2>1. \A a \in 1 .. n : a - 1 \in K => a \in K
    BY <1>4
  <2>2. \A a \in 0 .. n : a \in K
    BY <1>3, <2>1, Counting
  <2> QED
    BY <2>2
<1> QED
  BY <1>1, <1>2, <1>5 DEF JoinSteps

\* The inner loop of the resolver completes the row of b, when the rows before are complete.
LEMMA JoinedIs ==
  ASSUME NEW n \in Nat, NEW direct, NEW rows \in [1 .. n -> SUBSET (1 .. n)], NEW b \in 1 .. n,
         \A c \in 1 .. b - 1 : RowComplete(direct, rows, c),
         rows[b] = direct[b], direct[b] \subseteq 1 .. b - 1
  PROVE  RowSoFar(direct, rows, b, n, Joined(rows, b))
<1>1. PICK m : JoinSteps(rows, b, m)
  BY JoinIsLoop
<1>2. Len(rows) = n
  OBVIOUS
<1> DEFINE K == {a \in 0 .. n : RowSoFar(direct, rows, b, a, m[a])}
<1>3. 0 \in K
  <2>1. m[0] = rows[b]
    BY <1>1 DEF JoinSteps
  <2>2. \A x \in rows[b] : x \in Nat /\ ~(x <= 0)
    OBVIOUS
  <2> QED
    BY <2>1, <2>2 DEF RowSoFar
<1>4. ASSUME NEW a \in 1 .. n, a - 1 \in K PROVE a \in K
  <2>1. m[a] = WithRow(rows, a, m[a - 1])
    BY <1>1, <1>2 DEF JoinSteps
  <2>2. RowSoFar(direct, rows, b, a - 1, m[a - 1])
    BY <1>4
  <2>3. b \in Nat /\ a \in Nat \ {0}
    OBVIOUS
  <2>4. RowSoFar(direct, rows, b, a, m[a])
    BY <2>1, <2>2, <2>3, RowGoesOn
  <2> QED
    BY <2>4
<1>5. n \in K
  <2> HIDE DEF K
  <2>1. \A a \in 1 .. n : a - 1 \in K => a \in K
    BY <1>4
  <2>2. \A a \in 0 .. n : a \in K
    BY <1>3, <2>1, Counting
  <2> QED
    BY <2>2
<1> QED
  BY <1>1, <1>2, <1>5 DEF JoinSteps

\* The rows when the tasks up to b have had their pass.
RowsSoFar(n, direct, b, rows) ==
  /\ rows \in [1 .. n -> SUBSET (1 .. n)]
  /\ \A c \in 1 .. b : RowComplete(direct, rows, c)
  /\ \A c \in b + 1 .. n : rows[c] = direct[c]

\* One pass of the outer loop.
LEMMA RowsGoOn ==
  ASSUME NEW n \in Nat, NEW direct, NEW b \in 1 .. n, direct[b] \subseteq 1 .. b - 1,
         NEW rows, RowsSoFar(n, direct, b - 1, rows)
  PROVE  RowsSoFar(n, direct, b, [rows EXCEPT ![b] = Joined(rows, b)])
<1> DEFINE row == Joined(rows, b)
           new == [rows EXCEPT ![b] = row]
<1>1. /\ rows \in [1 .. n -> SUBSET (1 .. n)]
      /\ \A c \in 1 .. b - 1 : RowComplete(direct, rows, c)
      /\ \A c \in b .. n : rows[c] = direct[c]
  BY DEF RowsSoFar
<1>2. row \in SUBSET (1 .. n)
  BY <1>1, JoinedType
<1>3. RowSoFar(direct, rows, b, n, row)
  BY <1>1, JoinedIs
<1> HIDE DEF row
<1>4. /\ new \in [1 .. n -> SUBSET (1 .. n)]
      /\ new[b] = row
      /\ \A c \in 1 .. n : c # b => new[c] = rows[c]
  BY <1>1, <1>2
<1> HIDE DEF new
<1>5. ASSUME NEW c \in 1 .. b - 1 PROVE RowComplete(direct, new, c)
  <2>1. RowComplete(direct, rows, c) /\ new[c] = rows[c]
    BY <1>1, <1>4
  <2>2. \A a \in rows[c] : new[a] = rows[a]
    BY <1>4, <2>1 DEF RowComplete
  <2>3. \A a \in direct[c] : new[a] = rows[a]
    BY <2>1, <2>2 DEF RowComplete
  <2> QED
    BY <2>1, <2>2, <2>3 DEF RowComplete
<1>6. RowComplete(direct, new, b)
  <2>1. \A a \in row : new[a] = rows[a] /\ rows[a] \subseteq row
    BY <1>3, <1>4 DEF RowSoFar
  <2>2. direct[b] \subseteq row /\ row \subseteq 1 .. b - 1
    BY <1>3 DEF RowSoFar
  <2>3. \A a \in row : a \in direct[b] \/ \E c \in direct[b] : a \in rows[c]
    BY <1>3 DEF RowSoFar
  <2> QED
    BY <1>4, <2>1, <2>2, <2>3 DEF RowComplete
<1>7. \A c \in 1 .. b : RowComplete(direct, new, c)
  BY <1>5, <1>6
<1>8. \A c \in b + 1 .. n : new[c] = direct[c]
  BY <1>1, <1>4
<1>9. RowsSoFar(n, direct, b, new)
  BY <1>4, <1>7, <1>8 DEF RowsSoFar
<1> QED
  BY <1>9 DEF new, row

\* The resolver makes one pass over the tasks and finds all that is before each of them.
LEMMA ResolvedIs ==
  ASSUME NEW successors, Ordered(successors), NEW n, n = Len(successors)
  PROVE  RowsSoFar(n, Direct(successors), n, Resolve(successors))
<1> DEFINE direct == Direct(successors)
           Step(b, x) == [x EXCEPT ![b] = Joined(x, b)]
           Body(b, x) == IF b = 0 THEN direct ELSE Step(b, x)
           Whole(m) == m = [b \in 0 .. n |-> Body(b, m[b - 1])]
           X == [1 .. n -> SUBSET (1 .. n)]
           H == [b \in 1 .. n |-> [x \in X |-> Step(b, x)]]
<1>1. n \in Nat /\ \A k \in 1 .. n : successors[k] \subseteq k + 1 .. n
  BY DEF Ordered
<1>2. direct \in X /\ \A b \in 1 .. n : direct[b] \subseteq 1 .. b - 1
  <2>1. direct \in X /\ \A b \in 1 .. n : direct[b] = {a \in 1 .. n : b \in successors[a]}
    BY DEF Direct
  <2>2. ASSUME NEW b \in 1 .. n, NEW a \in 1 .. n, b \in successors[a] PROVE a \in 1 .. b - 1
    BY <1>1, <2>2
  <2> QED
    BY <2>1, <2>2
<1>3. Resolve(successors) = (CHOOSE m : Whole(m))[n]
  BY Zenon DEF Resolve, Direct
<1> HIDE DEF direct
<1>4. ASSUME NEW b \in 1 .. n, NEW x \in X PROVE H[b][x] = Step(b, x) /\ Step(b, x) \in X
  <2>1. Joined(x, b) \in SUBSET (1 .. n)
    BY <1>1, JoinedType
  <2> QED
    BY <2>1
<1> HIDE DEF Step
<1>5. \E m : Whole(m)
  <2>1. PICK m \in [0 .. n -> X] : Recurs(m, n, direct, H)
    <3> HIDE DEF X, H
    <3>1. \A b \in 1 .. n, x \in X : H[b][x] \in X
      BY <1>4
    <3> QED
      BY <1>1, <1>2, <3>1, Recursion
  <2> HIDE DEF X, H
  <2>2. ASSUME NEW b \in 0 .. n PROVE m[b] = Body(b, m[b - 1])
    <3>1. CASE b = 0
      BY <2>1, <3>1 DEF Recurs
    <3>2. CASE b # 0
      <4>1. b \in 1 .. n /\ b - 1 \in 0 .. n
        BY <1>1, <3>2
      <4>2. m[b - 1] \in X /\ m[b] = H[b][m[b - 1]]
        BY <2>1, <4>1 DEF Recurs
      <4> QED
        BY <1>4, <3>2, <4>1, <4>2
    <3> QED
      BY <3>1, <3>2
  <2> HIDE DEF Body
  <2>3. Whole(m)
    BY <2>1, <2>2
  <2> QED
    BY <2>3
<1> DEFINE m == CHOOSE m : Whole(m)
<1>6. Whole(m)
  BY <1>5
<1> HIDE DEF m
<1>7. m[0] = direct /\ \A b \in 1 .. n : m[b] = Step(b, m[b - 1])
  <2>1. \A b \in 0 .. n : m[b] = Body(b, m[b - 1])
    <3> HIDE DEF Body
    <3> QED
      BY <1>6
  <2>2. ASSUME NEW b \in 1 .. n PROVE m[b] = Step(b, m[b - 1])
    BY <2>1
  <2>3. m[0] = direct
    BY <1>1, <2>1
  <2> QED
    BY <2>2, <2>3
<1> DEFINE K == {b \in 0 .. n : RowsSoFar(n, direct, b, m[b])}
<1>8. 0 \in K
  BY <1>1, <1>2, <1>7 DEF RowsSoFar
<1>9. ASSUME NEW b \in 1 .. n, b - 1 \in K PROVE b \in K
  <2>1. RowsSoFar(n, direct, b - 1, m[b - 1])
    BY <1>9
  <2>2. RowsSoFar(n, direct, b, [m[b - 1] EXCEPT ![b] = Joined(m[b - 1], b)])
    BY <1>1, <1>2, <2>1, RowsGoOn
  <2>3. m[b] = [m[b - 1] EXCEPT ![b] = Joined(m[b - 1], b)]
    BY <1>7 DEF Step
  <2> HIDE DEF m
  <2> QED
    BY <2>2, <2>3
<1>10. n \in K
  <2> HIDE DEF K
  <2>1. \A b \in 1 .. n : b - 1 \in K => b \in K
    BY <1>9
  <2>2. \A b \in 0 .. n : b \in K
    BY <1>1, <1>8, <2>1, Counting
  <2> QED
    BY <1>1, <2>2
<1> QED
  BY <1>3, <1>10 DEF m, direct

-----------------------------------------------------------------------------
(* The estimate of how many of some nodes are concurrent at most.          *)

\* Each of the first k nodes is in a group, and no group has two nodes of S.
GroupsSoFar(nodes, V, S, k, groups) ==
  /\ groups \in Seq(SUBSET V)
  /\ \A i \in 1 .. k : \E g \in 1 .. Len(groups) : nodes[i] \in groups[g]
  /\ \A g \in 1 .. Len(groups) : \A x \in groups[g], y \in groups[g] : x \in S /\ y \in S => x = y

\* A node has a new group or joins one it is concurrent with none of.
Joins(groups, x, concurrent, new) ==
  \/ new = Append(groups, {x})
  \/ \E g \in 1 .. Len(groups) :
       groups[g] \cap concurrent[x] = {} /\ new = [groups EXCEPT ![g] = @ \cup {x}]

\* What a node that joins a group, or starts one, makes of the groups.
LEMMA MergedIs ==
  ASSUME NEW V, NEW groups \in Seq(SUBSET V), NEW x \in V, NEW concurrent
  PROVE  Joins(groups, x, concurrent, Merged(groups, x, concurrent))
<1> DEFINE fits == {i \in DOMAIN groups : groups[i] \cap concurrent[x] = {}}
<1>1. CASE fits = {}
  BY <1>1 DEF Merged, Joins
<1>2. CASE fits # {}
  <2>1. fits \in SUBSET Nat /\ fits \subseteq 1 .. Len(groups)
    OBVIOUS
  <2>2. Min(fits) \in fits
    <3> HIDE DEF fits
    <3>1. \E m \in fits : \A k \in fits : m <= k
      BY <1>2, <2>1, LeastMember
    <3> QED
      BY <3>1 DEF Min
  <2>3. Merged(groups, x, concurrent) = [groups EXCEPT ![Min(fits)] = @ \cup {x}]
    BY <1>2, Zenon DEF Merged
  <2> QED
    BY <2>1, <2>2, <2>3 DEF Joins
<1> QED
  BY <1>1, <1>2

\* Groups stay sets of nodes.
LEMMA MergedType ==
  ASSUME NEW V, NEW groups \in Seq(SUBSET V), NEW x \in V, NEW concurrent
  PROVE  Merged(groups, x, concurrent) \in Seq(SUBSET V)
<1>1. {x} \in SUBSET V
  OBVIOUS
<1>2. CASE Merged(groups, x, concurrent) = Append(groups, {x})
  BY <1>1, <1>2, AppendProperties
<1>3. ASSUME NEW g \in 1 .. Len(groups), Merged(groups, x, concurrent) = [groups EXCEPT ![g] = @ \cup {x}]
      PROVE  Merged(groups, x, concurrent) \in Seq(SUBSET V)
  <2>1. groups[g] \cup {x} \in SUBSET V
    BY ElementOfSeq
  <2>2. [groups EXCEPT ![g] = @ \cup {x}] = [groups EXCEPT ![g] = groups[g] \cup {x}]
    OBVIOUS
  <2>3. [groups EXCEPT ![g] = groups[g] \cup {x}] \in Seq(SUBSET V)
    <3> PICK v \in SUBSET V : v = groups[g] \cup {x}
      BY <2>1
    <3> QED
      BY ExceptSeq
  <2> QED
    BY <1>3, <2>2, <2>3
<1> QED
  BY <1>2, <1>3, MergedIs DEF Joins

\* One node more, where the nodes of S are concurrent with each other.
LEMMA GroupsGoOn ==
  ASSUME NEW V, NEW nodes \in Seq(V), NEW concurrent, NEW S,
         \A x \in S, y \in S : x # y => y \in concurrent[x],
         NEW k \in 1 .. Len(nodes), NEW groups, GroupsSoFar(nodes, V, S, k - 1, groups)
  PROVE  GroupsSoFar(nodes, V, S, k, Merged(groups, nodes[k], concurrent))
<1> DEFINE x == nodes[k]
           new == Merged(groups, x, concurrent)
<1>1. /\ groups \in Seq(SUBSET V)
      /\ \A i \in 1 .. k - 1 : \E g \in 1 .. Len(groups) : nodes[i] \in groups[g]
      /\ \A g \in 1 .. Len(groups) : \A a \in groups[g], b \in groups[g] : a \in S /\ b \in S => a = b
  BY DEF GroupsSoFar
<1>2. x \in V /\ {x} \in SUBSET V
  OBVIOUS
<1>3. new \in Seq(SUBSET V)
  BY <1>1, <1>2, MergedType
<1>4. CASE new = Append(groups, {x})
  <2>1. /\ Len(new) = Len(groups) + 1 /\ new[Len(groups) + 1] = {x}
        /\ \A g \in 1 .. Len(groups) : new[g] = groups[g]
        /\ Len(groups) \in Nat
    BY <1>1, <1>2, <1>4, AppendProperties
  <2> HIDE DEF new
  <2>2. ASSUME NEW i \in 1 .. k PROVE \E g \in 1 .. Len(new) : nodes[i] \in new[g]
    <3>1. CASE i = k
      BY <2>1, <3>1
    <3>2. CASE i # k
      <4>1. PICK g \in 1 .. Len(groups) : nodes[i] \in groups[g]
        BY <1>1, <3>2
      <4> QED
        BY <2>1, <4>1
    <3> QED
      BY <3>1, <3>2
  <2>3. ASSUME NEW g \in 1 .. Len(new), NEW a \in new[g], NEW b \in new[g], a \in S, b \in S PROVE a = b
    <3>1. CASE g = Len(groups) + 1
      BY <2>1, <2>3, <3>1
    <3>2. CASE g # Len(groups) + 1
      <4>1. g \in 1 .. Len(groups) /\ new[g] = groups[g]
        BY <2>1, <3>2
      <4> QED
        BY <1>1, <2>3, <4>1
    <3> QED
      BY <3>1, <3>2
  <2>4. GroupsSoFar(nodes, V, S, k, new)
    BY <1>3, <2>2, <2>3 DEF GroupsSoFar
  <2> QED
    BY <2>4 DEF new
<1>5. ASSUME NEW h \in 1 .. Len(groups), groups[h] \cap concurrent[x] = {},
             new = [groups EXCEPT ![h] = @ \cup {x}]
      PROVE  GroupsSoFar(nodes, V, S, k, new)
  <2>1. /\ Len(new) = Len(groups) /\ new[h] = groups[h] \cup {x}
        /\ \A g \in 1 .. Len(groups) : g # h => new[g] = groups[g]
    BY <1>1, <1>5
  <2> HIDE DEF new
  <2>2. ASSUME NEW i \in 1 .. k PROVE \E g \in 1 .. Len(new) : nodes[i] \in new[g]
    <3>1. CASE i = k
      BY <2>1, <3>1
    <3>2. CASE i # k
      <4>1. PICK g \in 1 .. Len(groups) : nodes[i] \in groups[g]
        BY <1>1, <3>2
      <4>2. groups[g] \subseteq new[g]
        BY <2>1
      <4> QED
        BY <2>1, <4>1, <4>2
    <3> QED
      BY <3>1, <3>2
  <2>3. ASSUME NEW g \in 1 .. Len(new), NEW a \in new[g], NEW b \in new[g], a \in S, b \in S PROVE a = b
    <3>1. CASE g = h
      <4>1. ASSUME NEW c \in groups[h], c \in S, x \in S PROVE c = x
        BY <1>5, <4>1
      <4>2. a \in groups[h] \cup {x} /\ b \in groups[h] \cup {x}
        BY <2>1, <3>1
      <4> QED
        BY <1>1, <2>3, <4>1, <4>2
    <3>2. CASE g # h
      <4>1. g \in 1 .. Len(groups) /\ new[g] = groups[g]
        BY <2>1, <3>2
      <4> QED
        BY <1>1, <2>3, <4>1
    <3> QED
      BY <3>1, <3>2
  <2> QED
    BY <1>3, <2>2, <2>3 DEF GroupsSoFar
<1>6. \/ new = Append(groups, {x})
      \/ \E h \in 1 .. Len(groups) :
           groups[h] \cap concurrent[x] = {} /\ new = [groups EXCEPT ![h] = @ \cup {x}]
  <2>1. Joins(groups, x, concurrent, new)
    <3> HIDE DEF x
    <3> QED
      BY <1>1, <1>2, MergedIs
  <2> HIDE DEF x, new
  <2> QED
    BY <2>1 DEF Joins
<1> HIDE DEF new
<1>7. GroupsSoFar(nodes, V, S, k, new)
  BY <1>4, <1>5, <1>6 DEF new
<1> QED
  BY <1>7 DEF new

\* The groups after each of the nodes.
GroupSteps(nodes, concurrent, m) ==
  /\ m[0] = <<>>
  /\ \A k \in 1 .. Len(nodes) : m[k] = Merged(m[k - 1], nodes[k], concurrent)
  /\ MaxConcurrency(nodes, concurrent) = Len(m[Len(nodes)])

\* What MaxConcurrency chooses is there: the loop over the nodes, step by step.
LEMMA GroupingIsLoop ==
  ASSUME NEW V, NEW nodes \in Seq(V), NEW concurrent
  PROVE  \E m : GroupSteps(nodes, concurrent, m)
<1> DEFINE n == Len(nodes)
           Step(k, x) == Merged(x, nodes[k], concurrent)
           Body(k, x) == IF k = 0 THEN <<>> ELSE Step(k, x)
           Whole(m) == m = [k \in 0 .. n |-> Body(k, m[k - 1])]
           X == Seq(SUBSET V)
           H == [k \in 1 .. n |-> [x \in X |-> Step(k, x)]]
<1>1. n \in Nat /\ \A k \in 1 .. n : nodes[k] \in V
  OBVIOUS
<1>2. MaxConcurrency(nodes, concurrent) = Len((CHOOSE m : Whole(m))[n])
  BY Zenon DEF MaxConcurrency
<1> HIDE DEF n
<1>3. <<>> \in X
  OBVIOUS
<1>4. ASSUME NEW k \in 1 .. n, NEW x \in X PROVE H[k][x] = Step(k, x) /\ Step(k, x) \in X
  <2>1. Step(k, x) \in X
    BY <1>1, MergedType
  <2> HIDE DEF Step
  <2> QED
    BY <2>1
<1> HIDE DEF Step
<1>5. \E m : Whole(m)
  <2>1. PICK m \in [0 .. n -> X] : Recurs(m, n, <<>>, H)
    <3> HIDE DEF X, H
    <3>1. \A k \in 1 .. n, x \in X : H[k][x] \in X
      BY <1>4
    <3> QED
      BY <1>1, <1>3, <3>1, Recursion
  <2> HIDE DEF X, H
  <2>2. ASSUME NEW k \in 0 .. n PROVE m[k] = Body(k, m[k - 1])
    <3>1. CASE k = 0
      BY <2>1, <3>1 DEF Recurs
    <3>2. CASE k # 0
      <4>1. k \in 1 .. n /\ k - 1 \in 0 .. n
        BY <1>1, <3>2
      <4>2. m[k - 1] \in X /\ m[k] = H[k][m[k - 1]]
        BY <2>1, <4>1 DEF Recurs
      <4> QED
        BY <1>4, <3>2, <4>1, <4>2
    <3> QED
      BY <3>1, <3>2
  <2> HIDE DEF Body
  <2>3. Whole(m)
    BY <2>1, <2>2
  <2> QED
    BY <2>3
<1> DEFINE m == CHOOSE m : Whole(m)
<1>6. Whole(m)
  BY <1>5
<1> HIDE DEF m
<1>7. m[0] = <<>> /\ \A k \in 1 .. n : m[k] = Step(k, m[k - 1])
  <2>1. \A k \in 0 .. n : m[k] = Body(k, m[k - 1])
    <3> HIDE DEF Body
    <3> QED
      BY <1>6
  <2>2. ASSUME NEW k \in 1 .. n PROVE m[k] = Step(k, m[k - 1])
    BY <2>1
  <2>3. m[0] = <<>>
    BY <1>1, <2>1
  <2> QED
    BY <2>2, <2>3
<1> QED
  BY <1>2, <1>7 DEF GroupSteps, Step, m, n

\* "It is an overestimate": no more of the nodes are concurrent at a time than
\* estimate_max_concurrency() counts, however the concurrent ones are chosen.
THEOREM ConcurrencyIsEnough ==
  ASSUME NEW V, NEW nodes \in Seq(V), NEW concurrent, NEW S,
         \A x \in S : \E i \in 1 .. Len(nodes) : nodes[i] = x,
         \A x \in S, y \in S : x # y => y \in concurrent[x]
  PROVE  /\ MaxConcurrency(nodes, concurrent) \in Nat
         /\ IsFiniteSet(S)
         /\ Cardinality(S) <= MaxConcurrency(nodes, concurrent)
<1> DEFINE n == Len(nodes)
<1>1. n \in Nat
  OBVIOUS
<1>2. PICK m : GroupSteps(nodes, concurrent, m)
  BY GroupingIsLoop
<1> DEFINE K == {k \in 0 .. n : GroupsSoFar(nodes, V, S, k, m[k])}
<1>3. 0 \in K
  <2>1. m[0] = <<>>
    BY <1>2 DEF GroupSteps
  <2>2. GroupsSoFar(nodes, V, S, 0, <<>>)
    BY DEF GroupsSoFar
  <2> QED
    BY <1>1, <2>1, <2>2
<1>4. ASSUME NEW k \in 1 .. n, k - 1 \in K PROVE k \in K
  <2>1. m[k] = Merged(m[k - 1], nodes[k], concurrent)
    BY <1>2 DEF GroupSteps
  <2>2. GroupsSoFar(nodes, V, S, k - 1, m[k - 1])
    BY <1>4
  <2>3. GroupsSoFar(nodes, V, S, k, m[k])
    BY <2>1, <2>2, GroupsGoOn
  <2> QED
    BY <2>3
<1>5. n \in K
  <2> HIDE DEF K, n
  <2>1. \A k \in 1 .. n : k - 1 \in K => k \in K
    BY <1>4
  <2>2. \A k \in 0 .. n : k \in K
    BY <1>1, <1>3, <2>1, Counting
  <2> QED
    BY <1>1, <2>2
<1> DEFINE groups == m[n]
           count == Len(groups)
           f == [x \in S |-> CHOOSE g \in 1 .. count : x \in groups[g]]
<1>6. /\ groups \in Seq(SUBSET V)
      /\ \A i \in 1 .. n : \E g \in 1 .. count : nodes[i] \in groups[g]
      /\ \A g \in 1 .. count : \A x \in groups[g], y \in groups[g] : x \in S /\ y \in S => x = y
  BY <1>5 DEF GroupsSoFar
<1>7. count \in Nat /\ MaxConcurrency(nodes, concurrent) = count
  BY <1>2, <1>6 DEF GroupSteps
<1> HIDE DEF groups, count
<1>8. ASSUME NEW x \in S PROVE f[x] \in 1 .. count /\ x \in groups[f[x]]
  <2>1. \E g \in 1 .. count : x \in groups[g]
    BY <1>6
  <2> QED
    BY <2>1
<1> HIDE DEF f
<1>9. f \in Injection(S, 1 .. count)
  <2>1. f \in [S -> 1 .. count]
    BY <1>8 DEF f
  <2>2. ASSUME NEW x \in S, NEW y \in S, f[x] = f[y] PROVE x = y
    BY <1>6, <1>8, <2>2
  <2> QED
    BY <2>1, <2>2 DEF Injection, IsInjective
<1>10. IsFiniteSet(1 .. count) /\ Cardinality(1 .. count) = count
  BY <1>7, FS_Interval
<1> QED
  BY <1>7, <1>9, <1>10, FS_Injection

-----------------------------------------------------------------------------
(* What the tasks and their estimates are good for.                        *)

\* The rows of a task graph are complete.
LEMMA RowsAre ==
  ASSUME NEW t, WellOrdered(t)
  PROVE  /\ DOMAIN t.rows = Tasks(t)
         /\ \A b \in Tasks(t) : /\ Predecessors(t, b) \subseteq 1 .. b - 1
                                /\ Direct(t.successors)[b] = Predecessors(t, b)
                                /\ RowComplete(Direct(t.successors), t.rows, b)
<1> DEFINE n == Len(t.tasks)
           direct == Direct(t.successors)
<1>1. /\ n \in Nat /\ DOMAIN t.tasks = 1 .. n /\ Tasks(t) = 1 .. n
      /\ t.successors \in [1 .. n -> SUBSET (1 .. n)]
      /\ \A k \in 1 .. n : \A j \in t.successors[k] : k < j
      /\ t.rows = Resolve(t.successors)
  BY DEF WellOrdered, Tasks
<1> HIDE DEF n
<1>2. Len(t.successors) = n
  BY <1>1
<1>3. Ordered(t.successors)
  <2>1. t.successors \in Seq(SUBSET Nat)
    <3>1. t.successors \in [1 .. n -> SUBSET Nat]
      BY <1>1
    <3> QED
      BY <1>1, <3>1
  <2>2. ASSUME NEW k \in 1 .. n, NEW j \in t.successors[k] PROVE j \in k + 1 .. n
    BY <1>1
  <2> QED
    BY <1>2, <2>1, <2>2 DEF Ordered
<1>4. RowsSoFar(n, direct, n, t.rows)
  BY <1>1, <1>2, <1>3, ResolvedIs
<1>5. ASSUME NEW b \in 1 .. n
      PROVE  Predecessors(t, b) \subseteq 1 .. b - 1 /\ direct[b] = Predecessors(t, b)
  <2>1. direct[b] = {a \in 1 .. n : b \in t.successors[a]}
    BY <1>2 DEF Direct
  <2>2. Predecessors(t, b) = {a \in 1 .. n : b \in t.successors[a]}
    BY <1>1 DEF Predecessors
  <2>3. ASSUME NEW a \in 1 .. n, b \in t.successors[a] PROVE a \in 1 .. b - 1
    BY <1>1, <2>3
  <2> QED
    BY <2>1, <2>2, <2>3
<1>6. t.rows \in [1 .. n -> SUBSET (1 .. n)] /\ \A b \in 1 .. n : RowComplete(direct, t.rows, b)
  BY <1>1, <1>4 DEF RowsSoFar
<1> QED
  BY <1>1, <1>5, <1>6

\* The order that the estimates rest on is complete.
LEMMA OrderIs ==
  ASSUME NEW t, WellOrdered(t)
  PROVE  OrderResolved(t)
<1>1. ASSUME NEW b \in Tasks(t)
      PROVE  /\ b \notin t.rows[b]
             /\ Predecessors(t, b) \subseteq t.rows[b]
             /\ \A a \in t.rows[b] : /\ t.rows[a] \subseteq t.rows[b]
                                     /\ a \in Predecessors(t, b) \/ \E c \in t.rows[b] : a \in t.rows[c]
  <2>1. /\ Direct(t.successors)[b] = Predecessors(t, b)
        /\ RowComplete(Direct(t.successors), t.rows, b)
    BY RowsAre
  <2>2. b \notin t.rows[b]
    <3>1. b \in Nat /\ t.rows[b] \subseteq 1 .. b - 1
      BY <2>1 DEF RowComplete, WellOrdered, Tasks
    <3> QED
      BY <3>1
  <2> QED
    BY <2>1, <2>2 DEF RowComplete
<1>2. DOMAIN t.rows = Tasks(t)
  BY RowsAre
<1> QED
  BY <1>1, <1>2 DEF OrderResolved

\* Where no task is done before those that lead to it, all that is before a task whose
\* direct predecessors are done is done.
LEMMA DoneBefore ==
  ASSUME NEW t, WellOrdered(t), NEW F, \A c \in F : Predecessors(t, c) \subseteq F,
         NEW b \in Tasks(t), Predecessors(t, b) \subseteq F
  PROVE  t.rows[b] \subseteq F
<1> DEFINE n == Len(t.tasks)
           K == {k \in 0 .. n : \A c \in 1 .. k : Predecessors(t, c) \subseteq F => t.rows[c] \subseteq F}
<1>1. n \in Nat /\ Tasks(t) = 1 .. n
  BY DEF WellOrdered, Tasks
<1> HIDE DEF n
<1>2. 0 \in K
  BY <1>1
<1>3. ASSUME NEW k \in 1 .. n, k - 1 \in K PROVE k \in K
  <2>1. /\ Predecessors(t, k) \subseteq 1 .. k - 1
        /\ Direct(t.successors)[k] = Predecessors(t, k)
        /\ RowComplete(Direct(t.successors), t.rows, k)
    BY <1>1, RowsAre
  <2>2. ASSUME Predecessors(t, k) \subseteq F, NEW a \in t.rows[k] PROVE a \in F
    <3>1. CASE a \in Predecessors(t, k)
      BY <2>2, <3>1
    <3>2. CASE a \notin Predecessors(t, k)
      <4>1. PICK c \in Predecessors(t, k) : a \in t.rows[c]
        BY <2>1, <3>2 DEF RowComplete
      <4>2. c \in 1 .. k - 1 /\ c \in F
        BY <2>1, <2>2, <4>1
      <4>3. Predecessors(t, c) \subseteq F
        BY <4>2
      <4> QED
        BY <1>3, <4>1, <4>2, <4>3
    <3> QED
      BY <3>1, <3>2
  <2>3. \A c \in 1 .. k : c = k \/ c \in 1 .. k - 1
    OBVIOUS
  <2> QED
    BY <1>3, <2>2, <2>3
<1>4. n \in K
  <2> HIDE DEF K
  <2>1. \A k \in 1 .. n : k - 1 \in K => k \in K
    BY <1>3
  <2>2. \A k \in 0 .. n : k \in K
    BY <1>1, <1>2, <2>1, Counting
  <2> QED
    BY <1>1, <2>2
<1> QED
  BY <1>1, <1>4

\* Tasks that can be run in any order are no more than the pool of threads has room for.
LEMMA TasksAreFew ==
  ASSUME NEW t, WellOrdered(t), NEW S \in SUBSET Tasks(t),
         \A a \in S, b \in S : a \notin t.rows[b]
  PROVE  IsFiniteSet(S) /\ t.maxTasks \in Nat /\ Cardinality(S) <= t.maxTasks
<1> DEFINE n == Len(t.tasks)
           nodes == Numbered(n)
           unordered == [a \in Tasks(t) |-> {b \in Tasks(t) : Unordered(t.rows, a, b)}]
<1>1. n \in Nat /\ Tasks(t) = 1 .. n /\ t.maxTasks = MaxConcurrency(nodes, unordered)
  BY DEF WellOrdered, Tasks
<1> HIDE DEF n
<1>2. nodes \in Seq(Nat) /\ Len(nodes) = n /\ \A x \in 1 .. n : nodes[x] = x
  <2>1. nodes = [i \in 1 .. n |-> i]
    BY DEF Numbered
  <2> HIDE DEF nodes
  <2> QED
    BY <1>1, <2>1
<1>3. \A x \in S : \E i \in 1 .. Len(nodes) : nodes[i] = x
  BY <1>1, <1>2
<1>4. \A x \in S, y \in S : x # y => y \in unordered[x]
  BY DEF Unordered
<1> HIDE DEF nodes, unordered
<1>5. PICK list \in Seq(Nat) : list = nodes
  BY <1>2
<1>6. /\ MaxConcurrency(list, unordered) \in Nat /\ IsFiniteSet(S)
      /\ Cardinality(S) <= MaxConcurrency(list, unordered)
  BY <1>3, <1>4, <1>5, ConcurrencyIsEnough
<1> QED
  BY <1>1, <1>5, <1>6

-----------------------------------------------------------------------------
(* The tasks of a chunk.                                                   *)

\* The engine by itself: it is initialized for any task graph that build() makes.
LoadGraph == \E t : WellMade(t) /\ Initialize(t)

EngineSpec == EngineInit /\ [][LoadGraph \/ ChunkNext]_engineVars

\* The tasks that have run: no predecessor is left, and they have been taken from the pool.
Done == {k \in Tasks(taskGraph) : left[k] = 0} \ (ready \cup running)

Scheduled ==
  /\ ready \subseteq Tasks(taskGraph) /\ running \subseteq Tasks(taskGraph)
  /\ ready \cap running = {}
  /\ \A k \in ready \cup running : left[k] = 0
  /\ DOMAIN left = Tasks(taskGraph)
  /\ \A k \in Tasks(taskGraph) : left[k] = Cardinality(Predecessors(taskGraph, k) \ Done)
  /\ remaining = Cardinality(Tasks(taskGraph) \ Done)

Stages == {"unloaded", "idle", "tasks", "exhausted", "mix", "done"}

TasksInv ==
  /\ chunk \in Stages
  /\ chunk # "unloaded" => WellMade(taskGraph)
  /\ chunk \in {"unloaded", "idle"} => ready = {} /\ running = {}
  /\ chunk = "tasks" => Scheduled
  /\ Cardinality(ready) <= Max({1, taskGraph.maxTasks})

\* The predecessors of a task are finitely many, and so are the tasks.
LEMMA FewTasks ==
  ASSUME NEW t, WellOrdered(t)
  PROVE  /\ IsFiniteSet(Tasks(t))
         /\ \A S \in SUBSET Tasks(t) : IsFiniteSet(S) /\ Cardinality(S) \in Nat
         /\ \A k \in Tasks(t) : Predecessors(t, k) \subseteq Tasks(t)
<1>1. IsFiniteSet(Tasks(t))
  <2>1. Len(t.tasks) \in Int
    BY DEF WellOrdered
  <2> QED
    BY <2>1, FS_Interval DEF Tasks
<1>2. ASSUME NEW S \in SUBSET Tasks(t) PROVE IsFiniteSet(S) /\ Cardinality(S) \in Nat
  BY <1>1, FS_Subset, FS_CardinalityType
<1>3. \A k \in Tasks(t) : Predecessors(t, k) \subseteq Tasks(t)
  BY DEF WellOrdered, Predecessors
<1> QED
  BY <1>1, <1>2, <1>3

\* What is before a task that waits for nothing has run, and so has what is before that.
LEMMA ScheduledBefore ==
  ASSUME WellOrdered(taskGraph), Scheduled, NEW k \in Tasks(taskGraph), left[k] = 0
  PROVE  Predecessors(taskGraph, k) \subseteq Done /\ taskGraph.rows[k] \subseteq Done
<1>1. ASSUME NEW c \in Tasks(taskGraph), left[c] = 0 PROVE Predecessors(taskGraph, c) \subseteq Done
  <2> DEFINE S == Predecessors(taskGraph, c) \ Done
  <2>1. S \in SUBSET Tasks(taskGraph) /\ Cardinality(S) = 0
    BY <1>1, FewTasks DEF Scheduled
  <2>2. IsFiniteSet(S)
    BY <2>1, FewTasks
  <2> HIDE DEF S
  <2>3. S = {}
    BY <2>1, <2>2, FS_EmptySet
  <2> QED
    BY <2>3 DEF S
<1>2. \A c \in Done : Predecessors(taskGraph, c) \subseteq Done
  BY <1>1 DEF Done
<1>3. Predecessors(taskGraph, k) \subseteq Done
  BY <1>1
<1> HIDE DEF Done
<1> QED
  BY <1>2, <1>3, DoneBefore

\* The tasks in the thread pool have no order among them.
LEMMA ReadyFits ==
  ASSUME WellOrdered(taskGraph), Scheduled
  PROVE  Cardinality(ready) <= Max({1, taskGraph.maxTasks})
<1>1. ready \in SUBSET Tasks(taskGraph)
  BY DEF Scheduled
<1>2. ASSUME NEW a \in ready, NEW b \in ready PROVE a \notin taskGraph.rows[b]
  <2>1. taskGraph.rows[b] \subseteq Done
    BY ScheduledBefore DEF Scheduled
  <2>2. a \notin Done
    BY DEF Done
  <2> QED
    BY <2>1, <2>2
<1>3. IsFiniteSet(ready) /\ taskGraph.maxTasks \in Nat /\ Cardinality(ready) <= taskGraph.maxTasks
  BY <1>1, <1>2, TasksAreFew
<1>4. Max({1, taskGraph.maxTasks}) >= taskGraph.maxTasks /\ Max({1, taskGraph.maxTasks}) \in Nat
  <2> PICK max \in Nat : max = taskGraph.maxTasks
    BY <1>3
  <2>1. \E x \in {1, max} : \A y \in {1, max} : x >= y
    <3>1. CASE max >= 1
      BY <3>1
    <3>2. CASE ~(max >= 1)
      BY <3>2
    <3> QED
      BY <3>1, <3>2
  <2>2. Max({1, max}) \in {1, max} /\ \A y \in {1, max} : Max({1, max}) >= y
    BY <2>1 DEF Max
  <2> QED
    BY <2>2
<1>5. Cardinality(ready) \in Nat
  BY <1>3, FS_CardinalityType
<1> QED
  BY <1>3, <1>4, <1>5

\* At the start no task has run, and those without predecessors are ready.
LEMMA ChunkBegins ==
  ASSUME TasksInv, BeginChunk
  PROVE  Scheduled' /\ taskGraph' = taskGraph /\ Done' = {} /\ WellMade(taskGraph)
<1>1. /\ WellMade(taskGraph) /\ WellOrdered(taskGraph)
      /\ taskGraph' = taskGraph /\ running' = {}
      /\ left' = [k \in DOMAIN taskGraph.tasks |-> Cardinality(Predecessors(taskGraph, k))]
      /\ ready' = {k \in DOMAIN taskGraph.tasks : Predecessors(taskGraph, k) = {}}
      /\ remaining' = Len(taskGraph.tasks)
  BY DEF TasksInv, BeginChunk, WellMade
<1> DEFINE tasks == Tasks(taskGraph)
<1>2. DOMAIN taskGraph.tasks = tasks
  BY <1>1 DEF WellOrdered
<1>3. ASSUME NEW k \in tasks
      PROVE  /\ left'[k] = Cardinality(Predecessors(taskGraph, k))
             /\ left'[k] = 0 <=> k \in ready'
  <2>1. IsFiniteSet(Predecessors(taskGraph, k))
    BY <1>1, FewTasks
  <2> QED
    BY <1>1, <1>2, <2>1, FS_EmptySet
<1>4. Done' = {}
  BY <1>1, <1>3 DEF Done
<1>5. remaining' = Cardinality(tasks)
  <2>1. Len(taskGraph.tasks) \in Nat
    BY <1>1 DEF WellOrdered
  <2>2. Cardinality(1 .. Len(taskGraph.tasks)) = Len(taskGraph.tasks)
    BY <2>1, FS_Interval
  <2> QED
    BY <1>1, <2>2 DEF Tasks
<1>6. \A S : S \ {} = S
  OBVIOUS
<1>7. \A k \in tasks : left'[k] = Cardinality(Predecessors(taskGraph', k) \ Done')
  BY <1>1, <1>3, <1>4, <1>6
<1>8. remaining' = Cardinality(Tasks(taskGraph)' \ Done')
  BY <1>1, <1>4, <1>5, <1>6
<1>9. Scheduled'
  BY <1>1, <1>2, <1>3, <1>7, <1>8 DEF Scheduled
<1> QED
  BY <1>1, <1>4, <1>9

\* A task that is started was ready; none has run that had not.
LEMMA TaskStarts ==
  ASSUME Scheduled, NEW k \in ready, StartTask(k)
  PROVE  Scheduled' /\ taskGraph' = taskGraph /\ Done' = Done
<1>1. /\ taskGraph' = taskGraph /\ left' = left /\ remaining' = remaining
      /\ ready' = ready \ {k} /\ running' = running \cup {k}
  BY DEF StartTask
<1>2. Done' = Done
  BY <1>1 DEF Done
<1>3. \A j \in Tasks(taskGraph) : left[j] = Cardinality(Predecessors(taskGraph, j) \ Done)
  BY DEF Scheduled
<1>4. \A j \in Tasks(taskGraph)' : left'[j] = Cardinality(Predecessors(taskGraph', j) \ Done')
  BY <1>1, <1>2, <1>3
<1>5. remaining' = Cardinality(Tasks(taskGraph)' \ Done')
  BY <1>1, <1>2 DEF Scheduled
<1> QED
  BY <1>1, <1>2, <1>4, <1>5 DEF Scheduled

\* A task that ends has run, and adds those that waited for nothing else.
LEMMA TaskEnds ==
  ASSUME WellOrdered(taskGraph), Scheduled, NEW k \in running, FinishTask(k)
  PROVE  Scheduled' /\ taskGraph' = taskGraph /\ Done' = Done \cup {k} /\ k \notin Done
<1> DEFINE tasks == Tasks(taskGraph)
           next == taskGraph.successors[k]
           waiting(j, D) == Predecessors(taskGraph, j) \ D
<1>1. /\ taskGraph' = taskGraph /\ remaining' = remaining - 1
      /\ left' = [j \in DOMAIN left |-> left[j] - IF j \in next THEN 1 ELSE 0]
      /\ ready' = ready \cup {j \in next : left'[j] = 0}
      /\ running' = running \ {k}
  BY DEF FinishTask
<1>2. /\ ready \subseteq tasks /\ running \subseteq tasks /\ ready \cap running = {} /\ DOMAIN left = tasks
      /\ \A j \in ready \cup running : left[j] = 0
      /\ \A j \in tasks : left[j] = Cardinality(waiting(j, Done))
      /\ remaining = Cardinality(tasks \ Done)
  BY DEF Scheduled
<1>3. /\ k \in tasks /\ k \notin Done /\ next \subseteq tasks
      /\ \A j \in tasks : j \in next <=> k \in Predecessors(taskGraph, j)
  BY <1>2 DEF Done, WellOrdered, Predecessors
<1>4. Done \subseteq tasks
  BY DEF Done
<1> HIDE DEF next
<1>5. ASSUME NEW j \in tasks
      PROVE  /\ left[j] \in Nat
             /\ left'[j] = Cardinality(waiting(j, Done \cup {k}))
             /\ j \notin next => left'[j] = left[j]
             /\ j \in next => left[j] # 0
  <2> DEFINE S == waiting(j, Done)
  <2>1. S \in SUBSET tasks
    BY FewTasks
  <2>2. IsFiniteSet(S) /\ Cardinality(S) \in Nat
    BY <2>1, FewTasks
  <2>3. k \in S <=> j \in next
    BY <1>3
  <2>4. waiting(j, Done \cup {k}) = S \ {k}
    OBVIOUS
  <2>5. left[j] = Cardinality(S)
    BY <1>2
  <2> HIDE DEF S, waiting
  <2>6. Cardinality(S \ {k}) = IF k \in S THEN Cardinality(S) - 1 ELSE Cardinality(S)
    BY <2>2, FS_RemoveElement
  <2>7. IsFiniteSet(S \ {k}) /\ Cardinality(S \ {k}) \in Nat
    BY <2>2, FS_RemoveElement, FS_CardinalityType
  <2>8. CASE j \in next
    <3>1. left'[j] = left[j] - 1
      BY <1>1, <1>2, <2>8
    <3>2. Cardinality(S \ {k}) = Cardinality(S) - 1
      BY <2>3, <2>6, <2>8
    <3>3. Cardinality(S) # 0
      BY <2>2, <2>7, <3>2
    <3>4. left'[j] = Cardinality(S \ {k})
      BY <2>5, <3>1, <3>2
    <3> QED
      BY <2>2, <2>4, <2>5, <2>8, <3>3, <3>4
  <2>9. CASE j \notin next
    <3>1. left'[j] = left[j] - 0
      BY <1>1, <1>2, <2>9
    <3> QED
      BY <2>2, <2>3, <2>4, <2>5, <2>6, <2>9, <3>1
  <2> QED
    BY <2>8, <2>9
<1>6. Done' = Done \cup {k}
  <2>1. ASSUME NEW j \in tasks PROVE j \in Done' <=> j \in Done \cup {k}
    <3>0. j \in Done' <=> left'[j] = 0 /\ j \notin ready' /\ j \notin running'
      BY <1>1 DEF Done
    <3>1. CASE j = k
      <4>1. k \notin next
        <5>1. Predecessors(taskGraph, k) \subseteq 1 .. k - 1 /\ k \in Nat
          <6>1. Predecessors(taskGraph, k) \subseteq 1 .. k - 1
            BY <1>3, RowsAre
          <6>2. k \in Nat
            BY <1>3 DEF Tasks
          <6> QED
            BY <6>1, <6>2
        <5>2. k \notin Predecessors(taskGraph, k)
          BY <5>1
        <5> QED
          BY <1>3, <5>2
      <4> QED
        BY <1>1, <1>2, <1>5, <3>0, <3>1, <4>1
    <3>2. CASE j # k /\ j \in next
      <4>1. left[j] # 0
        BY <1>5, <3>2
      <4>2. j \notin Done
        BY <4>1 DEF Done
      <4> QED
        BY <1>1, <3>0, <3>2, <4>2
    <3>3. CASE j # k /\ j \notin next
      BY <1>1, <1>5, <3>0, <3>3 DEF Done
    <3> QED
      BY <3>1, <3>2, <3>3
  <2>2. Done' \subseteq tasks
    BY <1>1 DEF Done
  <2> QED
    BY <1>3, <1>4, <2>1, <2>2
<1>7. /\ ready' \subseteq tasks /\ running' \subseteq tasks /\ DOMAIN left' = tasks
      /\ \A j \in ready' \cup running' : left'[j] = 0
  <2>1. ready' \subseteq tasks /\ running' \subseteq tasks /\ DOMAIN left' = tasks
    BY <1>1, <1>2, <1>3
  <2>2. ASSUME NEW j \in ready \cup running PROVE left'[j] = 0
    <3>1. j \in tasks /\ left[j] = 0
      BY <1>2
    <3> QED
      BY <1>5, <3>1
  <2> QED
    BY <1>1, <2>1, <2>2
<1>8. ready' \cap running' = {}
  <2>1. ASSUME NEW j \in next, j \in running PROVE FALSE
    BY <1>2, <1>3, <1>5, <2>1
  <2> QED
    BY <1>1, <1>2, <2>1
<1>9. remaining' = Cardinality(tasks \ (Done \cup {k}))
  <2> DEFINE S == tasks \ Done
  <2>1. S \in SUBSET tasks /\ k \in S /\ tasks \ (Done \cup {k}) = S \ {k}
    BY <1>3
  <2>2. IsFiniteSet(S)
    BY <2>1, FewTasks
  <2>3. remaining = Cardinality(S)
    BY <1>2
  <2> HIDE DEF S
  <2>4. Cardinality(S \ {k}) = Cardinality(S) - 1
    BY <2>1, <2>2, FS_RemoveElement
  <2> QED
    BY <1>1, <2>1, <2>3, <2>4
<1>10. \A j \in tasks : left'[j] = Cardinality(Predecessors(taskGraph', j) \ Done')
  BY <1>1, <1>5, <1>6
<1>11. remaining' = Cardinality(Tasks(taskGraph)' \ Done')
  BY <1>1, <1>6, <1>9
<1>12. Tasks(taskGraph)' = tasks
  BY <1>1
<1>13. Scheduled'
  BY <1>7, <1>8, <1>10, <1>11, <1>12 DEF Scheduled
<1> QED
  BY <1>1, <1>3, <1>6, <1>13

\* An empty thread pool has room.
LEMMA NoneFit ==
  ASSUME NEW n \in Nat
  PROVE  Cardinality({}) <= Max({1, n})
<1>1. \E x \in {1, n} : \A y \in {1, n} : x >= y
  <2>1. CASE n >= 1
    BY <2>1
  <2>2. CASE ~(n >= 1)
    BY <2>2
  <2> QED
    BY <2>1, <2>2
<1>2. Max({1, n}) \in {1, n}
  BY <1>1 DEF Max
<1>3. Cardinality({}) = 0
  BY FS_EmptySet
<1> QED
  BY <1>2, <1>3

\* The estimate is a number.
LEMMA MaxTasksType ==
  ASSUME NEW t, WellOrdered(t)
  PROVE  t.maxTasks \in Nat
<1>1. {} \in SUBSET Tasks(t) /\ \A a \in {}, b \in {} : a \notin t.rows[b]
  OBVIOUS
<1> QED
  BY <1>1, TasksAreFew

\* No task is there before a graph is loaded.
LEMMA TasksStart ==
  EngineInit => TasksInv
<1> SUFFICES ASSUME EngineInit PROVE TasksInv
  OBVIOUS
<1>1. taskGraph.maxTasks = 0
  BY DEF EngineInit, EmptyTaskGraph
<1>2. Cardinality({}) <= Max({1, 0})
  BY NoneFit
<1> QED
  BY <1>1, <1>2 DEF EngineInit, TasksInv, Stages

\* Every step keeps what is known of the tasks.
LEMMA TasksStep ==
  TasksInv /\ [LoadGraph \/ ChunkNext]_engineVars => TasksInv'
<1> SUFFICES ASSUME TasksInv, [LoadGraph \/ ChunkNext]_engineVars PROVE TasksInv'
  OBVIOUS
<1>1. CASE LoadGraph
  <2>1. PICK t : WellMade(t) /\ Initialize(t)
    BY <1>1 DEF LoadGraph
  <2>2. /\ chunk = "unloaded" /\ chunk' = "idle" /\ taskGraph' = t
        /\ ready' = ready /\ running' = running
    BY <2>1 DEF Initialize
  <2>3. ready' = {} /\ running' = {}
    BY <2>2 DEF TasksInv
  <2>4. t.maxTasks \in Nat
    BY <2>1, MaxTasksType DEF WellMade
  <2>5. Cardinality({}) <= Max({1, t.maxTasks})
    BY <2>4, NoneFit
  <2> QED
    BY <2>1, <2>2, <2>3, <2>5 DEF TasksInv, Stages
<1>2. CASE BeginChunk
  <2>1. Scheduled' /\ taskGraph' = taskGraph /\ WellMade(taskGraph)
    BY <1>2, ChunkBegins
  <2>2. chunk' = "tasks"
    BY <1>2 DEF BeginChunk
  <2>3. WellOrdered(taskGraph)'
    BY <2>1 DEF WellMade
  <2>4. (Cardinality(ready) <= Max({1, taskGraph.maxTasks}))'
    BY <2>1, <2>3, ReadyFits, PTL
  <2>5. WellMade(taskGraph)'
    BY <2>1
  <2> QED
    BY <2>1, <2>2, <2>4, <2>5 DEF TasksInv, Stages
<1>3. ASSUME NEW k \in ready, StartTask(k) PROVE TasksInv'
  <2>1. chunk = "tasks" /\ chunk' = "tasks"
    BY <1>3 DEF StartTask, Startable
  <2>2. Scheduled /\ WellMade(taskGraph)
    BY <2>1 DEF TasksInv
  <2>3. Scheduled' /\ taskGraph' = taskGraph
    BY <1>3, <2>2, TaskStarts
  <2>4. WellOrdered(taskGraph)'
    BY <2>2, <2>3 DEF WellMade
  <2>5. (Cardinality(ready) <= Max({1, taskGraph.maxTasks}))'
    BY <2>3, <2>4, ReadyFits, PTL
  <2>6. WellMade(taskGraph)'
    BY <2>2, <2>3
  <2> QED
    BY <2>1, <2>3, <2>5, <2>6 DEF TasksInv, Stages
<1>4. ASSUME NEW k \in ready, RunDry(k) PROVE TasksInv'
  <2>1. /\ chunk = "tasks" /\ chunk' = "exhausted" /\ taskGraph' = taskGraph /\ ready' = ready
    BY <1>4 DEF RunDry, Startable, stageVars
  <2>2. WellMade(taskGraph)' /\ (Cardinality(ready) <= Max({1, taskGraph.maxTasks}))'
    BY <2>1 DEF TasksInv
  <2> QED
    BY <2>1, <2>2 DEF TasksInv, Stages
<1>5. ASSUME NEW k \in running, FinishTask(k) PROVE TasksInv'
  <2>1. chunk = "tasks" /\ chunk' = "tasks"
    BY <1>5 DEF FinishTask
  <2>2. Scheduled /\ WellMade(taskGraph) /\ WellOrdered(taskGraph)
    BY <2>1 DEF TasksInv, WellMade
  <2>3. Scheduled' /\ taskGraph' = taskGraph
    BY <1>5, <2>2, TaskEnds
  <2>4. WellOrdered(taskGraph)'
    BY <2>2, <2>3
  <2>5. (Cardinality(ready) <= Max({1, taskGraph.maxTasks}))'
    BY <2>3, <2>4, ReadyFits, PTL
  <2>6. WellMade(taskGraph)'
    BY <2>2, <2>3
  <2> QED
    BY <2>1, <2>3, <2>5, <2>6 DEF TasksInv, Stages
<1>6. CASE StoreOutput
  <2>1. chunk = "tasks" /\ chunk' = "mix" /\ taskGraph' = taskGraph /\ ready' = ready
    BY <1>6 DEF StoreOutput, stageVars
  <2>2. WellMade(taskGraph)' /\ (Cardinality(ready) <= Max({1, taskGraph.maxTasks}))'
    BY <2>1 DEF TasksInv
  <2> QED
    BY <2>1, <2>2 DEF TasksInv, Stages
<1>7. CASE MixOutput
  <2>1. chunk = "mix" /\ chunk' = "done" /\ taskGraph' = taskGraph /\ ready' = ready
    BY <1>7 DEF MixOutput, stageVars
  <2>2. WellMade(taskGraph)' /\ (Cardinality(ready) <= Max({1, taskGraph.maxTasks}))'
    BY <2>1 DEF TasksInv
  <2> QED
    BY <2>1, <2>2 DEF TasksInv, Stages
<1>8. CASE UNCHANGED engineVars
  <2>1. /\ chunk' = chunk /\ taskGraph' = taskGraph /\ ready' = ready /\ running' = running
        /\ left' = left /\ remaining' = remaining
    BY <1>8 DEF engineVars, stageVars
  <2>2. Done' = Done
    BY <2>1 DEF Done
  <2>3. Scheduled' = Scheduled
    BY <2>1, <2>2 DEF Scheduled
  <2> QED
    BY <2>1, <2>3 DEF TasksInv
<1> QED
  BY <1>1, <1>2, <1>3, <1>4, <1>5, <1>6, <1>7, <1>8 DEF ChunkNext

\* The thread pool that initialize_thread_pool() makes for as many tasks as the estimate
\* has room for every task, in whatever order they run, and the order the estimate rests on
\* is complete, for every task graph that build() makes.
THEOREM TasksHaveRoom ==
  EngineSpec => []TasksFit
<1>1. TasksInv => TasksFit
  <2>1. ASSUME TasksInv, chunk = "idle" PROVE OrderResolved(taskGraph)
    <3>1. WellOrdered(taskGraph)
      BY <2>1 DEF TasksInv, WellMade
    <3> QED
      BY <3>1, OrderIs
  <2> QED
    BY <2>1 DEF TasksInv, TasksFit
<1> QED
  BY <1>1, TasksStart, TasksStep, PTL DEF EngineSpec

-----------------------------------------------------------------------------
(* How often something occurs.                                             *)

\* A set and what corresponds to it one to one have the same size.
LEMMA SameSize ==
  ASSUME NEW A, IsFiniteSet(A), NEW B, NEW g, \A a \in A : g[a] \in B,
         \A b \in B : \E a \in A : g[a] = b, \A a, c \in A : g[a] = g[c] => a = c
  PROVE  IsFiniteSet(B) /\ Cardinality(B) = Cardinality(A)
<1> DEFINE h == [a \in A |-> g[a]]
<1>1. h \in Bijection(A, B)
  <2>1. h \in [A -> B] /\ \A a \in A : h[a] = g[a]
    OBVIOUS
  <2> HIDE DEF h
  <2>2. h \in Injection(A, B)
    BY <2>1 DEF Injection, IsInjective
  <2>3. h \in Surjection(A, B)
    BY <2>1 DEF Surjection
  <2> QED
    BY <2>2, <2>3 DEF Bijection
<1>2. ExistsBijection(A, B)
  BY <1>1 DEF ExistsBijection
<1> QED
  BY <1>2, FS_Bijection

\* Sets apart add up.
LEMMA SetsAddUp ==
  ASSUME NEW A, IsFiniteSet(A), NEW B, IsFiniteSet(B), A \cap B = {}
  PROVE  /\ IsFiniteSet(A \cup B) /\ Cardinality(A) \in Nat /\ Cardinality(B) \in Nat
         /\ Cardinality(A \cup B) = Cardinality(A) + Cardinality(B)
<1>1. Cardinality(A \cap B) = 0
  BY FS_EmptySet
<1>2. Cardinality(A) \in Nat /\ Cardinality(B) \in Nat
  BY FS_CardinalityType
<1>3. /\ IsFiniteSet(A \cup B)
      /\ Cardinality(A \cup B) = Cardinality(A) + Cardinality(B) - Cardinality(A \cap B)
  BY FS_Union, Zenon
<1> QED
  BY <1>1, <1>2, <1>3

Is(v, x) == IF v = x THEN 1 ELSE 0

\* Something occurs a number of times, and never only if nothing equals it.
LEMMA CountType ==
  ASSUME NEW f, IsFiniteSet(DOMAIN f), NEW x
  PROVE  /\ IsFiniteSet({i \in DOMAIN f : f[i] = x}) /\ Count(f, x) \in Nat
         /\ Count(f, x) = 0 <=> \A i \in DOMAIN f : f[i] # x
<1> DEFINE S == {i \in DOMAIN f : f[i] = x}
<1>1. IsFiniteSet(S)
  BY FS_Subset
<1>2. Cardinality(S) \in Nat /\ (Cardinality(S) = 0 <=> S = {})
  <2> HIDE DEF S
  <2> QED
    BY <1>1, FS_CardinalityType, FS_EmptySet
<1> QED
  BY <1>1, <1>2 DEF Count

\* The same of a sequence.
LEMMA CountInSequence ==
  ASSUME NEW S, NEW s \in Seq(S), NEW x
  PROVE  Count(s, x) \in Nat /\ IsFiniteSet(DOMAIN s)
<1>1. Len(s) \in Int /\ DOMAIN s = 1 .. Len(s)
  OBVIOUS
<1>2. IsFiniteSet(DOMAIN s)
  BY <1>1, FS_Interval
<1> QED
  BY <1>2, CountType

\* An element more.
LEMMA CountAppend ==
  ASSUME NEW S, NEW s \in Seq(S), NEW v \in S, NEW x
  PROVE  Count(Append(s, v), x) = Count(s, x) + Is(v, x)
<1> DEFINE n == Len(s)
           A == {i \in DOMAIN s : s[i] = x}
           t == Append(s, v)
           B == {i \in DOMAIN t : t[i] = x}
<1>1. /\ n \in Nat /\ DOMAIN s = 1 .. n /\ DOMAIN t = 1 .. n + 1
      /\ t[n + 1] = v /\ \A i \in 1 .. n : t[i] = s[i]
  OBVIOUS
<1>2. IsFiniteSet(A) /\ Cardinality(A) \in Nat
  BY CountInSequence, CountType DEF Count
<1> HIDE DEF t
<1>3. CASE v = x
  <2>1. B = A \cup {n + 1} /\ n + 1 \notin A
    BY <1>1, <1>3
  <2>2. Cardinality(B) = Cardinality(A) + 1
    <3> HIDE DEF A, B, n
    <3> QED
      BY <1>2, <2>1, FS_AddElement
  <2> QED
    BY <1>3, <2>2 DEF Count, Is, t
<1>4. CASE v # x
  <2>1. B = A
    BY <1>1, <1>4
  <2>2. Count(t, x) = Cardinality(B) /\ Count(s, x) = Cardinality(A)
    BY DEF Count
  <2> HIDE DEF A, B
  <2> QED
    BY <1>2, <1>4, <2>1, <2>2 DEF Is, t
<1> QED
  BY <1>3, <1>4

\* Without its last element.
LEMMA CountFront ==
  ASSUME NEW S, NEW s \in Seq(S), s # <<>>
  PROVE  /\ Front(s) \in Seq(S) /\ Last(s) \in S /\ Len(Front(s)) = Len(s) - 1
         /\ \A i \in 1 .. Len(s) - 1 : Front(s)[i] = s[i]
         /\ \A x : Count(s, x) = Count(Front(s), x) + Is(Last(s), x)
<1> DEFINE n == Len(s)
<1>1. n \in Nat \ {0}
  BY EmptySeq
<1>2. /\ Front(s) \in Seq(S) /\ Len(Front(s)) = n - 1
      /\ \A i \in 1 .. n - 1 : Front(s)[i] = s[i]
  <2>1. \A i \in 1 .. n - 1 : s[i] \in S
    BY <1>1
  <2>2. /\ SubSeq(s, 1, n - 1) \in Seq(S)
        /\ Len(SubSeq(s, 1, n - 1)) = IF 1 <= n - 1 THEN (n - 1) - 1 + 1 ELSE 0
        /\ \A i \in 1 .. (n - 1) - 1 + 1 : SubSeq(s, 1, n - 1)[i] = s[1 + i - 1]
    <3>1. 1 \in Int /\ n - 1 \in Int
      BY <1>1
    <3> HIDE DEF n
    <3> QED
      BY <2>1, <3>1, SubSeqProperties
  <2>3. Len(SubSeq(s, 1, n - 1)) = n - 1
    <3>1. CASE 1 <= n - 1
      BY <1>1, <2>2, <3>1
    <3>2. CASE ~(1 <= n - 1)
      <4>1. n - 1 = 0
        <5> HIDE DEF n
        <5> QED
          BY <1>1, <3>2
      <4>2. Len(SubSeq(s, 1, n - 1)) = 0
        BY <2>2, <3>2, Zenon
      <4> QED
        BY <4>1, <4>2
    <3> QED
      BY <3>1, <3>2
  <2>4. ASSUME NEW i \in 1 .. n - 1 PROVE SubSeq(s, 1, n - 1)[i] = s[i]
    <3>1. i \in 1 .. (n - 1) - 1 + 1 /\ 1 + i - 1 = i
      BY <1>1
    <3>2. SubSeq(s, 1, n - 1)[i] = s[1 + i - 1]
      BY <2>2, <3>1
    <3> QED
      BY <3>1, <3>2
  <2> QED
    BY <2>2, <2>3, <2>4 DEF Front
<1>3. Last(s) \in S
  BY <1>1 DEF Last
<1>4. s = Append(Front(s), Last(s))
  <2> DEFINE f == Front(s)
             v == Last(s)
             t == Append(f, v)
  <2>1. f \in Seq(S) /\ v \in S /\ v = s[n] /\ Len(f) = n - 1 /\ \A i \in 1 .. n - 1 : f[i] = s[i]
    BY <1>2, <1>3 DEF Last
  <2> HIDE DEF f, v
  <2>2. /\ t \in Seq(S) /\ Len(t) = n /\ t[n] = v /\ \A i \in 1 .. n - 1 : t[i] = f[i]
    BY <1>1, <2>1
  <2> HIDE DEF t
  <2>3. \A i \in 1 .. n : s[i] = t[i]
    BY <1>1, <2>1, <2>2
  <2>4. s = t
    BY <2>2, <2>3, SeqEqual
  <2> QED
    BY <2>4 DEF f, v, t
<1>5. ASSUME NEW x PROVE Count(s, x) = Count(Front(s), x) + Is(Last(s), x)
  BY <1>2, <1>3, <1>4, CountAppend
<1> QED
  BY <1>2, <1>3, <1>5

\* One value is replaced.
LEMMA CountExcept ==
  ASSUME NEW f, IsFiniteSet(DOMAIN f), NEW i \in DOMAIN f, NEW g, DOMAIN g = DOMAIN f, NEW x, g[i] # x,
         \A j \in DOMAIN f : j # i => g[j] = f[j]
  PROVE  Count(f, x) = Count(g, x) + Is(f[i], x)
<1> DEFINE A == {j \in DOMAIN f : f[j] = x}
           B == {j \in DOMAIN g : g[j] = x}
<1>1. IsFiniteSet(A) /\ Cardinality(A) \in Nat
  BY CountType DEF Count
<1>2. B = A \ {i}
  OBVIOUS
<1>3. i \in A <=> f[i] = x
  OBVIOUS
<1>4. Cardinality(B) = IF i \in A THEN Cardinality(A) - 1 ELSE Cardinality(A)
  <2> HIDE DEF A, B
  <2> QED
    BY <1>1, <1>2, FS_RemoveElement
<1>5. Count(f, x) = Cardinality(A) /\ Count(g, x) = Cardinality(B)
  BY DEF Count
<1> HIDE DEF A, B
<1>6. CASE f[i] = x
  BY <1>1, <1>3, <1>4, <1>5, <1>6 DEF Is
<1>7. CASE f[i] # x
  BY <1>1, <1>3, <1>4, <1>5, <1>7 DEF Is
<1> QED
  BY <1>6, <1>7

\* A sequence in two parts.
LEMMA CountParts ==
  ASSUME NEW S, NEW s \in Seq(S), NEW n \in 0 .. Len(s)
  PROVE  /\ SubSeq(s, 1, n) \in Seq(S) /\ Len(SubSeq(s, 1, n)) = n
         /\ SubSeq(s, n + 1, Len(s)) \in Seq(S) /\ Len(SubSeq(s, n + 1, Len(s))) = Len(s) - n
         /\ \A x : Count(s, x) = Count(SubSeq(s, 1, n), x) + Count(SubSeq(s, n + 1, Len(s)), x)
<1> DEFINE m == Len(s)
           p == SubSeq(s, 1, n)
           q == SubSeq(s, n + 1, m)
<1>1. m \in Nat /\ n \in Nat /\ n <= m /\ DOMAIN s = 1 .. m /\ \A i \in 1 .. m : s[i] \in S
  OBVIOUS
<1>2. p \in Seq(S) /\ Len(p) = n /\ \A i \in 1 .. n : p[i] = s[i]
  <2>1. /\ SubSeq(s, 1, n) \in Seq(S)
        /\ Len(SubSeq(s, 1, n)) = IF 1 <= n THEN n - 1 + 1 ELSE 0
        /\ \A i \in 1 .. n - 1 + 1 : SubSeq(s, 1, n)[i] = s[1 + i - 1]
    <3>1. 1 \in Int /\ n \in Int /\ \A i \in 1 .. n : s[i] \in S
      BY <1>1
    <3> HIDE DEF m
    <3> QED
      BY <3>1, SubSeqProperties
  <2>2. Len(SubSeq(s, 1, n)) = n
    <3>1. CASE 1 <= n
      BY <1>1, <2>1, <3>1
    <3>2. CASE ~(1 <= n)
      BY <1>1, <2>1, <3>2
    <3> QED
      BY <3>1, <3>2
  <2>3. ASSUME NEW i \in 1 .. n PROVE SubSeq(s, 1, n)[i] = s[i]
    <3>1. i \in 1 .. n - 1 + 1 /\ 1 + i - 1 = i
      BY <1>1
    <3>2. SubSeq(s, 1, n)[i] = s[1 + i - 1]
      BY <2>1, <3>1
    <3> QED
      BY <3>1, <3>2
  <2> QED
    BY <2>1, <2>2, <2>3
<1>3. q \in Seq(S) /\ Len(q) = m - n /\ \A i \in 1 .. m - n : q[i] = s[n + i]
  <2>1. /\ SubSeq(s, n + 1, m) \in Seq(S)
        /\ Len(SubSeq(s, n + 1, m)) = IF n + 1 <= m THEN m - (n + 1) + 1 ELSE 0
        /\ \A i \in 1 .. m - (n + 1) + 1 : SubSeq(s, n + 1, m)[i] = s[(n + 1) + i - 1]
    <3>1. n + 1 \in Int /\ m \in Int /\ \A i \in n + 1 .. m : s[i] \in S
      BY <1>1
    <3> HIDE DEF m
    <3> QED
      BY <3>1, SubSeqProperties
  <2>2. Len(SubSeq(s, n + 1, m)) = m - n
    <3>1. CASE n + 1 <= m
      BY <1>1, <2>1, <3>1
    <3>2. CASE ~(n + 1 <= m)
      <4>1. m - n = 0
        <5> HIDE DEF m
        <5> QED
          BY <1>1, <3>2
      <4>2. Len(SubSeq(s, n + 1, m)) = 0
        BY <2>1, <3>2, Zenon
      <4> QED
        BY <4>1, <4>2
    <3> QED
      BY <3>1, <3>2
  <2>3. ASSUME NEW i \in 1 .. m - n PROVE SubSeq(s, n + 1, m)[i] = s[n + i]
    <3>1. i \in 1 .. m - (n + 1) + 1 /\ (n + 1) + i - 1 = n + i
      BY <1>1
    <3>2. SubSeq(s, n + 1, m)[i] = s[(n + 1) + i - 1]
      BY <2>1, <3>1
    <3> QED
      BY <3>1, <3>2
  <2> QED
    BY <2>1, <2>2, <2>3
<1> HIDE DEF p, q, m
<1>4. ASSUME NEW x PROVE Count(s, x) = Count(p, x) + Count(q, x)
  <2> DEFINE A == {i \in DOMAIN p : p[i] = x}
             B == {i \in DOMAIN q : q[i] = x}
             C == {i \in n + 1 .. m : s[i] = x}
             g == [i \in Int |-> n + i]
  <2>0. DOMAIN p = 1 .. n /\ DOMAIN q = 1 .. m - n
    BY <1>2, <1>3
  <2>1. IsFiniteSet(A) /\ IsFiniteSet(B)
    <3>1. IsFiniteSet(DOMAIN p) /\ IsFiniteSet(DOMAIN q)
      BY <1>2, <1>3, CountInSequence
    <3> QED
      BY <3>1, CountType
  <2>2. IsFiniteSet(C) /\ Cardinality(C) = Cardinality(B)
    <3>1. \A i \in B : g[i] \in C
      BY <1>1, <1>3, <2>0
    <3>2. ASSUME NEW j \in C PROVE \E i \in B : g[i] = j
      <4>1. j - n \in B /\ g[j - n] = j
        BY <1>1, <1>3, <2>0
      <4> QED
        BY <4>1
    <3>3. \A i, j \in B : g[i] = g[j] => i = j
      BY <1>1, <2>0
    <3> HIDE DEF B, C, g
    <3> QED
      BY <2>1, <3>1, <3>2, <3>3, SameSize
  <2>3. {i \in DOMAIN s : s[i] = x} = A \cup C /\ A \cap C = {}
    BY <1>1, <1>2, <2>0
  <2>4. Cardinality(A \cup C) = Cardinality(A) + Cardinality(C)
    <3> HIDE DEF A, C
    <3> QED
      BY <2>1, <2>2, <2>3, SetsAddUp
  <2> HIDE DEF C
  <2> QED
    BY <2>2, <2>3, <2>4 DEF Count
<1> QED
  BY <1>2, <1>3, <1>4 DEF p, q, m

\* How often something occurs among the first of a sequence.
Before(s, i, x) == Cardinality({j \in 1 .. i : s[j] = x})

\* From none of a sequence to all of it, one by one.
LEMMA BeforeIs ==
  ASSUME NEW S, NEW s \in Seq(S), NEW x
  PROVE  /\ Before(s, 0, x) = 0 /\ Before(s, Len(s), x) = Count(s, x)
         /\ \A i \in 0 .. Len(s) : Before(s, i, x) \in Nat /\ Before(s, i, x) <= Count(s, x)
         /\ \A i \in 1 .. Len(s) : Before(s, i, x) = Before(s, i - 1, x) + Is(s[i], x)
<1> DEFINE n == Len(s)
           A(i) == {j \in 1 .. i : s[j] = x}
<1>1. n \in Nat /\ DOMAIN s = 1 .. n
  OBVIOUS
<1>2. Before(s, 0, x) = 0
  <2>1. A(0) = {}
    OBVIOUS
  <2> QED
    BY <2>1, FS_EmptySet DEF Before
<1>3. Before(s, n, x) = Count(s, x)
  BY <1>1 DEF Before, Count
<1>4. IsFiniteSet(A(n))
  BY <1>1, CountInSequence, CountType
<1>5. ASSUME NEW i \in 0 .. n
      PROVE  IsFiniteSet(A(i)) /\ Cardinality(A(i)) \in Nat /\ Cardinality(A(i)) <= Cardinality(A(n))
  <2>1. A(i) \in SUBSET A(n)
    BY <1>1
  <2> HIDE DEF A
  <2>2. IsFiniteSet(A(i)) /\ Cardinality(A(i)) <= Cardinality(A(n))
    BY <1>4, <2>1, FS_Subset
  <2> QED
    BY <2>2, FS_CardinalityType
<1>6. ASSUME NEW i \in 1 .. n PROVE Before(s, i, x) = Before(s, i - 1, x) + Is(s[i], x)
  <2>1. i - 1 \in 0 .. n /\ i \in Nat
    BY <1>1
  <2>2. IsFiniteSet(A(i - 1)) /\ Cardinality(A(i - 1)) \in Nat
    BY <1>5, <2>1
  <2>3. CASE s[i] = x
    <3>1. A(i) = A(i - 1) \cup {i} /\ i \notin A(i - 1)
      BY <2>1, <2>3
    <3>2. Cardinality(A(i)) = Cardinality(A(i - 1)) + 1
      <4> HIDE DEF A
      <4> QED
        BY <2>2, <3>1, FS_AddElement
    <3> QED
      BY <2>3, <3>2 DEF Before, Is
  <2>4. CASE s[i] # x
    <3>1. A(i) = A(i - 1)
      BY <2>1, <2>4
    <3>2. Is(s[i], x) = 0
      BY <2>4 DEF Is
    <3>3. Before(s, i, x) = Cardinality(A(i)) /\ Before(s, i - 1, x) = Cardinality(A(i - 1))
      BY DEF Before
    <3> HIDE DEF A
    <3> QED
      BY <2>2, <3>1, <3>2, <3>3
  <2> QED
    BY <2>3, <2>4
<1>7. ASSUME NEW i \in 0 .. n PROVE Before(s, i, x) \in Nat /\ Before(s, i, x) <= Count(s, x)
  BY <1>3, <1>5 DEF Before
<1> QED
  BY <1>2, <1>3, <1>6, <1>7

\* In new, b has the value of s that is handed out to it or, when none is, that of f.
Handed(B, f, s, I, g, new) ==
  /\ DOMAIN f = B /\ DOMAIN new = B
  /\ \A i \in I : g[i] \in B
  /\ \A i, j \in I : g[i] = g[j] => i = j
  /\ \A b \in B : (\E i \in I : g[i] = b) => \E i \in I : g[i] = b /\ new[b] = s[i]
  /\ \A b \in B : (\A i \in I : g[i] # b) => new[b] = f[b]

CountAt(I, s, x) == Cardinality({i \in I : s[i] = x})

\* What is handed out one to one is added to what there was.
LEMMA HandedOut ==
  ASSUME NEW B, IsFiniteSet(B), NEW f, NEW S, NEW s \in Seq(S), NEW I \in SUBSET DOMAIN s,
         NEW g, NEW new, Handed(B, f, s, I, g, new), NEW x, \A i \in I : f[g[i]] # x
  PROVE  Count(new, x) = Count(f, x) + CountAt(I, s, x)
<1> DEFINE A == {b \in B : f[b] = x}
           J == {i \in I : s[i] = x}
           C == {b \in B : \E i \in J : g[i] = b}
<1>0. /\ DOMAIN f = B /\ DOMAIN new = B
      /\ \A i \in I : g[i] \in B
      /\ \A i, j \in I : g[i] = g[j] => i = j
      /\ \A b \in B : (\E i \in I : g[i] = b) => \E i \in I : g[i] = b /\ new[b] = s[i]
      /\ \A b \in B : (\A i \in I : g[i] # b) => new[b] = f[b]
  BY DEF Handed
<1>1. IsFiniteSet(A) /\ IsFiniteSet(J)
  <2>1. IsFiniteSet(DOMAIN s)
    BY CountInSequence
  <2> QED
    BY <2>1, FS_Subset
<1>2. IsFiniteSet(C) /\ Cardinality(C) = Cardinality(J)
  <2>1. \A i \in J : g[i] \in C
    BY <1>0
  <2>2. \A b \in C : \E i \in J : g[i] = b
    OBVIOUS
  <2>3. \A i, j \in J : g[i] = g[j] => i = j
    BY <1>0
  <2> HIDE DEF C, J
  <2> QED
    BY <1>1, <2>1, <2>2, <2>3, SameSize
<1>3. A \cap C = {}
  OBVIOUS
<1>4. \A b \in B : new[b] = x <=> b \in A \cup C
  <2> SUFFICES ASSUME NEW b \in B PROVE new[b] = x <=> b \in A \cup C
    OBVIOUS
  <2>1. CASE \E i \in I : g[i] = b
    <3>1. PICK i \in I : g[i] = b /\ new[b] = s[i]
      BY <1>0, <2>1
    <3>2. b \notin A
      BY <3>1
    <3>3. b \in C <=> i \in J
      BY <1>0, <3>1
    <3> QED
      BY <3>1, <3>2, <3>3
  <2>2. CASE ~\E i \in I : g[i] = b
    BY <1>0, <2>2
  <2> QED
    BY <2>1, <2>2
<1>5. {b \in DOMAIN new : new[b] = x} = A \cup C /\ {b \in DOMAIN f : f[b] = x} = A
  BY <1>0, <1>4
<1>6. Cardinality(A \cup C) = Cardinality(A) + Cardinality(C)
  <2> HIDE DEF A, C
  <2> QED
    BY <1>1, <1>2, <1>3, SetsAddUp
<1> HIDE DEF C
<1> QED
  BY <1>2, <1>5, <1>6 DEF Count, CountAt

-----------------------------------------------------------------------------
(* The loops over memory.                                                  *)

\* The sequences that picking makes, one for each value.
PickSteps(s, I, m) ==
  /\ m[0] = <<>>
  /\ \A i \in 1 .. Len(s) : m[i] = IF i \in I THEN Append(m[i - 1], s[i]) ELSE m[i - 1]
  /\ Picked(s, I) = m[Len(s)]

\* What Picked chooses is there: the loop over the sequence, step by step.
LEMMA PickIsLoop ==
  ASSUME NEW S, NEW s \in Seq(S), NEW I
  PROVE  \E m : PickSteps(s, I, m)
<1> DEFINE n == Len(s)
           Step(i, x) == IF i \in I THEN Append(x, s[i]) ELSE x
           Body(i, x) == IF i = 0 THEN <<>> ELSE Step(i, x)
           Whole(m) == m = [i \in 0 .. n |-> Body(i, m[i - 1])]
           X == Seq(S)
           H == [i \in 1 .. n |-> [x \in X |-> Step(i, x)]]
<1>1. n \in Nat
  OBVIOUS
<1>2. Picked(s, I) = (CHOOSE m : Whole(m))[n]
  BY Zenon DEF Picked
<1>3. \A i \in 1 .. n, x \in X : H[i][x] \in X /\ H[i][x] = Step(i, x)
  <2>1. \A i \in 1 .. n : s[i] \in S
    OBVIOUS
  <2>2. \A i \in 1 .. n, x \in X : Step(i, x) \in X
    BY <2>1
  <2> HIDE DEF Step, X, n
  <2> QED
    BY <2>2
<1> HIDE DEF n
<1>4. \E m : Whole(m)
  <2> HIDE DEF H, X
  <2>1. PICK m \in [0 .. n -> X] : Recurs(m, n, <<>>, H)
    <3>1. <<>> \in X
      BY DEF X
    <3> QED
      BY <1>1, <1>3, <3>1, Recursion
  <2>2. ASSUME NEW i \in 0 .. n PROVE m[i] = Body(i, m[i - 1])
    <3>1. CASE i = 0
      BY <2>1, <3>1 DEF Recurs
    <3>2. CASE i # 0
      <4>1. i \in 1 .. n /\ i - 1 \in 0 .. n
        BY <1>1, <3>2
      <4>2. m[i - 1] \in X /\ m[i] = H[i][m[i - 1]]
        BY <2>1, <4>1 DEF Recurs
      <4> HIDE DEF Step
      <4> QED
        BY <1>3, <3>2, <4>1, <4>2
    <3> QED
      BY <3>1, <3>2
  <2> HIDE DEF Body
  <2>3. Whole(m)
    BY <2>1, <2>2
  <2> QED
    BY <2>3
<1> DEFINE m == CHOOSE m : Whole(m)
<1>5. Whole(m)
  BY <1>4
<1> HIDE DEF m
<1>6. \A i \in 0 .. n : m[i] = Body(i, m[i - 1])
  <2> HIDE DEF Body
  <2> QED
    BY <1>5
<1>7. m[0] = <<>>
  <2>1. m[0] = Body(0, m[0 - 1])
    <3> HIDE DEF Body
    <3> QED
      BY <1>1, <1>6
  <2> QED
    BY <2>1, Zenon
<1> HIDE DEF Step
<1>8. ASSUME NEW i \in 1 .. n PROVE m[i] = Step(i, m[i - 1])
  <2>1. i # 0 /\ m[i] = Body(i, m[i - 1])
    <3> HIDE DEF Body
    <3> QED
      BY <1>1, <1>6
  <2> QED
    BY <2>1, Zenon
<1> QED
  BY <1>2, <1>7, <1>8 DEF PickSteps, Step, m, n

\* What picking has made of the first i values.
PickedSoFar(S, s, I, i, list) ==
  /\ list \in Seq(S)
  /\ \A j \in 1 .. Len(list) : \E l \in 1 .. i : l \in I /\ list[j] = s[l]
  /\ \A l \in 1 .. i : l \in I => \E j \in 1 .. Len(list) : list[j] = s[l]
  /\ \A x : Count(list, x) = Cardinality({l \in 1 .. i : l \in I /\ s[l] = x})
  /\ (\A k, l \in DOMAIN s : s[k] = s[l] => k = l) =>
       \A j, k \in 1 .. Len(list) : list[j] = list[k] => j = k

\* One element more is looked at.
LEMMA PickGoesOn ==
  ASSUME NEW S, NEW s \in Seq(S), NEW I, NEW i \in 1 .. Len(s), NEW list, PickedSoFar(S, s, I, i - 1, list)
  PROVE  PickedSoFar(S, s, I, i, IF i \in I THEN Append(list, s[i]) ELSE list)
<1> DEFINE A(j, x) == {l \in 1 .. j : l \in I /\ s[l] = x}
<1>1. /\ Len(s) \in Nat /\ DOMAIN s = 1 .. Len(s) /\ s[i] \in S /\ i \in Nat \ {0}
      /\ \A l \in 1 .. i : l # i => l \in 1 .. i - 1
      /\ \A l \in 1 .. i - 1 : l \in 1 .. i /\ l # i /\ l \in DOMAIN s
  OBVIOUS
<1>2. CASE i \notin I
  <2>1. \A x : A(i, x) = A(i - 1, x)
    BY <1>1, <1>2
  <2>2. \A x : Count(list, x) = Cardinality(A(i, x))
    BY <2>1 DEF PickedSoFar
  <2>3. \A j \in 1 .. Len(list) : \E l \in 1 .. i : l \in I /\ list[j] = s[l]
    BY <1>1 DEF PickedSoFar
  <2>4. \A l \in 1 .. i : l \in I => \E j \in 1 .. Len(list) : list[j] = s[l]
    BY <1>1, <1>2 DEF PickedSoFar
  <2> QED
    BY <1>2, <2>2, <2>3, <2>4 DEF PickedSoFar
<1>3. CASE i \in I
  <2> DEFINE new == Append(list, s[i])
             n == Len(list)
  <2>1. /\ list \in Seq(S) /\ n \in Nat /\ new \in Seq(S) /\ Len(new) = n + 1
        /\ new[n + 1] = s[i] /\ \A j \in 1 .. n : new[j] = list[j]
        /\ \A j \in 1 .. n + 1 : j # n + 1 => j \in 1 .. n
    <3>1. list \in Seq(S)
      BY DEF PickedSoFar
    <3> QED
      BY <1>1, <3>1
  <2> HIDE DEF n
  <2>2. \A x : Count(new, x) = Cardinality(A(i, x))
    <3> SUFFICES ASSUME NEW x PROVE Count(new, x) = Cardinality(A(i, x))
      OBVIOUS
    <3>1. Count(new, x) = Count(list, x) + Is(s[i], x)
      BY <1>1, <2>1, CountAppend
    <3>2. Count(list, x) = Cardinality(A(i - 1, x)) /\ Count(list, x) \in Nat
      BY <2>1, CountInSequence DEF PickedSoFar
    <3>3. IsFiniteSet(A(i - 1, x))
      <4>1. A(i - 1, x) \in SUBSET DOMAIN s
        BY <1>1
      <4> QED
        BY <4>1, CountInSequence, FS_Subset
    <3>4. CASE s[i] = x
      <4>1. A(i, x) = A(i - 1, x) \cup {i} /\ i \notin A(i - 1, x)
        BY <1>1, <1>3, <3>4
      <4> HIDE DEF A, new
      <4>2. Cardinality(A(i, x)) = Cardinality(A(i - 1, x)) + 1
        BY <3>3, <4>1, FS_AddElement
      <4> QED
        BY <3>1, <3>2, <3>4, <4>2 DEF Is
    <3>5. CASE s[i] # x
      <4>1. A(i, x) = A(i - 1, x)
        BY <1>1, <3>5
      <4>2. Is(s[i], x) = 0
        BY <3>5 DEF Is
      <4> HIDE DEF A, new
      <4> QED
        BY <3>1, <3>2, <4>1, <4>2
    <3> QED
      BY <3>4, <3>5
  <2> HIDE DEF new
  <2>3. ASSUME NEW j \in 1 .. n + 1 PROVE \E l \in 1 .. i : l \in I /\ new[j] = s[l]
    <3>1. CASE j = n + 1
      BY <1>1, <1>3, <2>1, <3>1
    <3>2. CASE j # n + 1
      BY <1>1, <2>1, <3>2 DEF PickedSoFar, n
    <3> QED
      BY <3>1, <3>2
  <2>4. ASSUME NEW l \in 1 .. i, l \in I PROVE \E j \in 1 .. n + 1 : new[j] = s[l]
    <3>1. CASE l = i
      BY <2>1, <3>1
    <3>2. CASE l # i
      <4>1. PICK j \in 1 .. n : list[j] = s[l]
        BY <1>1, <2>4, <3>2 DEF PickedSoFar, n
      <4> QED
        BY <2>1, <4>1
    <3> QED
      BY <3>1, <3>2
  <2>5. ASSUME \A k, l \in DOMAIN s : s[k] = s[l] => k = l, NEW j \in 1 .. n + 1, NEW k \in 1 .. n + 1, new[j] = new[k]
        PROVE  j = k
    <3>1. \A h \in 1 .. n : new[h] # s[i]
      <4> SUFFICES ASSUME NEW h \in 1 .. n PROVE new[h] # s[i]
        OBVIOUS
      <4>1. PICK l \in 1 .. i - 1 : list[h] = s[l]
        BY DEF PickedSoFar, n
      <4>2. s[l] # s[i]
        BY <1>1, <2>5
      <4> QED
        BY <2>1, <4>1, <4>2
    <3>2. CASE j = n + 1 \/ k = n + 1
      BY <2>1, <2>5, <3>1, <3>2
    <3>3. CASE j # n + 1 /\ k # n + 1
      <4>1. j \in 1 .. n /\ k \in 1 .. n /\ list[j] = list[k]
        BY <2>1, <2>5, <3>3
      <4> QED
        BY <2>5, <4>1 DEF PickedSoFar, n
    <3> QED
      BY <3>2, <3>3
  <2>6. PickedSoFar(S, s, I, i, new)
    BY <2>1, <2>2, <2>3, <2>4, <2>5 DEF PickedSoFar
  <2> QED
    BY <1>3, <2>6 DEF new
<1> QED
  BY <1>2, <1>3

\* The picked values are those at the indices, as often as there.
LEMMA PickedIs ==
  ASSUME NEW S, NEW s \in Seq(S), NEW I
  PROVE  PickedSoFar(S, s, I, Len(s), Picked(s, I))
<1>1. PICK m : PickSteps(s, I, m)
  BY PickIsLoop
<1> DEFINE n == Len(s)
           K == {i \in 0 .. n : PickedSoFar(S, s, I, i, m[i])}
<1>2. n \in Nat
  OBVIOUS
<1>3. 0 \in K
  <2>1. m[0] = <<>>
    BY <1>1 DEF PickSteps
  <2>2. \A x : Count(<<>>, x) = 0
    BY FS_EmptySet DEF Count
  <2>3. \A x : Cardinality({l \in 1 .. 0 : l \in I /\ s[l] = x}) = 0
    <3>1. \A x : {l \in 1 .. 0 : l \in I /\ s[l] = x} = {}
      OBVIOUS
    <3> QED
      BY <3>1, FS_EmptySet
  <2>4. <<>> \in Seq(S) /\ 1 .. Len(<<>>) = {} /\ 1 .. 0 = {} /\ 0 \in 0 .. n
    BY <1>2
  <2>5. PickedSoFar(S, s, I, 0, <<>>)
    BY <2>2, <2>3, <2>4 DEF PickedSoFar
  <2> QED
    BY <2>1, <2>4, <2>5
<1>4. ASSUME NEW i \in 1 .. n, i - 1 \in K PROVE i \in K
  <2>1. PickedSoFar(S, s, I, i - 1, m[i - 1])
    BY <1>4
  <2>2. m[i] = IF i \in I THEN Append(m[i - 1], s[i]) ELSE m[i - 1]
    BY <1>1 DEF PickSteps
  <2>3. PickedSoFar(S, s, I, i, m[i])
    BY <2>1, <2>2, PickGoesOn
  <2> QED
    BY <2>3
<1>5. n \in K
  <2> HIDE DEF K
  <2>1. \A i \in 1 .. n : i - 1 \in K => i \in K
    BY <1>4
  <2> HIDE DEF n
  <2>2. \A i \in 0 .. n : i \in K
    BY <1>2, <1>3, <2>1, Counting
  <2> QED
    BY <1>2, <2>2
<1> QED
  BY <1>1, <1>5 DEF PickSteps

\* Pools of some types with pieces of memory in them, each in the pool of its type.
Filed(T, P) ==
  {pools \in [T -> Seq(P)] : \A type \in T : \A i \in DOMAIN pools[type] : pools[type][i][1] = type}

\* The states that allocating for each of the types makes.
AllocateSteps(pools, types, m) ==
  /\ m[0] = [free |-> pools, taken |-> <<>>, dry |-> FALSE]
  /\ \A i \in 1 .. Len(types) : m[i] = Allocate(m[i - 1], types[i])
  /\ Allocated(pools, types) = m[Len(types)]

\* What Allocated chooses is there: the loop over the types, step by step.
LEMMA AllocateIsLoop ==
  ASSUME NEW T, NEW P, NEW pools \in [T -> Seq(P)], NEW types \in Seq(T)
  PROVE  \E m : AllocateSteps(pools, types, m)
<1> DEFINE n == Len(types)
           start == [free |-> pools, taken |-> <<>>, dry |-> FALSE]
           Step(i, x) == Allocate(x, types[i])
           Body(i, x) == IF i = 0 THEN start ELSE Step(i, x)
           Whole(m) == m = [i \in 0 .. n |-> Body(i, m[i - 1])]
           X == [free : [T -> Seq(P)], taken : Seq(P), dry : BOOLEAN]
           H == [i \in 1 .. n |-> [x \in X |-> Step(i, x)]]
<1>1. n \in Nat
  OBVIOUS
<1>2. Allocated(pools, types) = (CHOOSE m : Whole(m))[n]
  BY Zenon DEF Allocated
<1>3. \A i \in 1 .. n, x \in X : H[i][x] \in X /\ H[i][x] = Step(i, x)
  <2>1. \A i \in 1 .. n : types[i] \in T
    OBVIOUS
  <2>2. ASSUME NEW x \in X, NEW type \in T PROVE Allocate(x, type) \in X
    <3>1. x.free[type] \in Seq(P)
      OBVIOUS
    <3>2. CASE x.free[type] = <<>>
      BY <3>2 DEF Allocate
    <3>3. CASE x.free[type] # <<>>
      <4> DEFINE rest == Front(x.free[type])
                 m == Last(x.free[type])
      <4>1. rest \in Seq(P) /\ m \in P
        BY <3>1, <3>3, CountFront
      <4>2. Allocate(x, type) = [x EXCEPT !.free[type] = rest, !.taken = Append(x.taken, m)]
        BY <3>3 DEF Allocate
      <4> HIDE DEF rest, m
      <4>3. Append(x.taken, m) \in Seq(P) /\ [x.free EXCEPT ![type] = rest] \in [T -> Seq(P)]
        BY <4>1
      <4> QED
        BY <4>2, <4>3
    <3> QED
      BY <3>2, <3>3
  <2>3. \A i \in 1 .. n, x \in X : Step(i, x) \in X
    <3> HIDE DEF X, n
    <3> QED
      BY <2>1, <2>2
  <2> HIDE DEF Step, X, n
  <2> QED
    BY <2>3
<1> HIDE DEF n
<1>4. \E m : Whole(m)
  <2>0. start \in X
    OBVIOUS
  <2> HIDE DEF H, X, start
  <2>1. PICK m \in [0 .. n -> X] : Recurs(m, n, start, H)
    BY <1>1, <1>3, <2>0, Recursion
  <2>2. ASSUME NEW i \in 0 .. n PROVE m[i] = Body(i, m[i - 1])
    <3>1. CASE i = 0
      BY <2>1, <3>1 DEF Recurs
    <3>2. CASE i # 0
      <4>1. i \in 1 .. n /\ i - 1 \in 0 .. n
        BY <1>1, <3>2
      <4>2. m[i - 1] \in X /\ m[i] = H[i][m[i - 1]]
        BY <2>1, <4>1 DEF Recurs
      <4> HIDE DEF Step
      <4> QED
        BY <1>3, <3>2, <4>1, <4>2
    <3> QED
      BY <3>1, <3>2
  <2> HIDE DEF Body
  <2>3. Whole(m)
    BY <2>1, <2>2
  <2> QED
    BY <2>3
<1> DEFINE m == CHOOSE m : Whole(m)
<1>5. Whole(m)
  BY <1>4
<1> HIDE DEF m, start
<1>6. \A i \in 0 .. n : m[i] = Body(i, m[i - 1])
  <2> HIDE DEF Body
  <2> QED
    BY <1>5
<1>7. m[0] = start
  <2>1. m[0] = Body(0, m[0 - 1])
    <3> HIDE DEF Body
    <3> QED
      BY <1>1, <1>6
  <2> QED
    BY <2>1, Zenon
<1> HIDE DEF Step
<1>8. ASSUME NEW i \in 1 .. n PROVE m[i] = Step(i, m[i - 1])
  <2>1. i # 0 /\ m[i] = Body(i, m[i - 1])
    <3> HIDE DEF Body
    <3> QED
      BY <1>1, <1>6
  <2> QED
    BY <2>1, Zenon
<1> QED
  BY <1>2, <1>7, <1>8 DEF AllocateSteps, Step, m, n, start

\* One type is all that is asked for, and there is enough of it.
Enough(pools, types, type) ==
  (\A j \in 1 .. Len(types) : types[j] = type) /\ Len(types) <= Len(pools[type])

\* What has been taken for the first i types: no memory is lost or there twice.
TakenSoFar(T, P, pools, types, i, s) ==
  /\ s \in [free : Filed(T, P), taken : Seq(P), dry : BOOLEAN]
  /\ ~s.dry => Len(s.taken) = i
  /\ \A x \in P : Count(pools[x[1]], x) = Count(s.free[x[1]], x) + Count(s.taken, x)
  /\ \A type \in T : Enough(pools, types, type) =>
                       ~s.dry /\ Len(s.free[type]) = Len(pools[type]) - i

\* One allocation more.
LEMMA TakenGoesOn ==
  ASSUME NEW T, NEW P, \A x \in P : x[1] \in T, NEW pools \in Filed(T, P), NEW types \in Seq(T),
         NEW i \in 1 .. Len(types), NEW s, TakenSoFar(T, P, pools, types, i - 1, s)
  PROVE  TakenSoFar(T, P, pools, types, i, Allocate(s, types[i]))
<1> DEFINE type == types[i]
           new == Allocate(s, type)
<1>1. /\ type \in T /\ i \in Nat \ {0} /\ Len(types) \in Nat /\ i <= Len(types)
      /\ s \in [free : Filed(T, P), taken : Seq(P), dry : BOOLEAN]
      /\ s.free \in [T -> Seq(P)] /\ s.free[type] \in Seq(P) /\ s.taken \in Seq(P)
      /\ \A t \in T : Len(pools[t]) \in Nat
  BY DEF TakenSoFar, Filed
<1>2. \A t \in T : Enough(pools, types, t) => t = type
  BY <1>1 DEF Enough
<1>3. CASE s.free[type] = <<>>
  <2>1. new = [s EXCEPT !.dry = TRUE]
    BY <1>3 DEF Allocate
  <2>2. new \in [free : Filed(T, P), taken : Seq(P), dry : BOOLEAN] /\ new.free = s.free
        /\ new.taken = s.taken /\ new.dry = TRUE
    BY <1>1, <2>1
  <2>3. ~Enough(pools, types, type)
    <3> SUFFICES ASSUME Enough(pools, types, type) PROVE FALSE
      OBVIOUS
    <3>1. Len(s.free[type]) = Len(pools[type]) - (i - 1)
      BY <1>1 DEF TakenSoFar
    <3>2. Len(s.free[type]) = 0 /\ Len(types) <= Len(pools[type])
      BY <1>3 DEF Enough
    <3>3. Len(pools[type]) \in Nat
      BY <1>1
    <3> HIDE DEF type
    <3> QED
      BY <1>1, <3>1, <3>2, <3>3
  <2> HIDE DEF new, type
  <2>4. TakenSoFar(T, P, pools, types, i, new)
    BY <1>2, <2>2, <2>3 DEF TakenSoFar
  <2> QED
    BY <2>4 DEF new, type
<1>4. CASE s.free[type] # <<>>
  <2> DEFINE m == Last(s.free[type])
             rest == Front(s.free[type])
  <2>1. /\ rest \in Seq(P) /\ m \in P /\ Len(rest) = Len(s.free[type]) - 1
        /\ \A j \in 1 .. Len(s.free[type]) - 1 : rest[j] = s.free[type][j]
        /\ \A x : Count(s.free[type], x) = Count(rest, x) + Is(m, x)
    BY <1>1, <1>4, CountFront
  <2>2. Len(s.free[type]) \in Nat \ {0} /\ m = s.free[type][Len(s.free[type])]
    BY <1>1, <1>4, EmptySeq DEF Last
  <2>3. m[1] = type /\ \A j \in DOMAIN rest : rest[j][1] = type
    <3>1. \A j \in 1 .. Len(s.free[type]) : s.free[type][j][1] = type
      BY <1>1 DEF Filed
    <3>2. \A j \in 1 .. Len(rest) : j \in 1 .. Len(s.free[type]) - 1 /\ j \in 1 .. Len(s.free[type])
      BY <2>1, <2>2
    <3>3. DOMAIN rest = 1 .. Len(rest)
      BY <2>1
    <3> HIDE DEF rest, m, type
    <3>4. m[1] = type
      BY <2>2, <3>1
    <3>5. ASSUME NEW j \in DOMAIN rest PROVE rest[j][1] = type
      <4>1. j \in 1 .. Len(rest)
        BY <3>3
      <4>2. rest[j] = s.free[type][j] /\ j \in 1 .. Len(s.free[type])
        BY <2>1, <3>2, <4>1
      <4> QED
        BY <3>1, <4>2
    <3> QED
      BY <3>4, <3>5
  <2> HIDE DEF rest, m
  <2>4. new = [s EXCEPT !.free[type] = rest, !.taken = Append(s.taken, m)]
    BY <1>4 DEF Allocate, rest, m
  <2>5. /\ new.free = [s.free EXCEPT ![type] = rest] /\ new.taken = Append(s.taken, m)
        /\ new.dry = s.dry /\ new \in [free : [T -> Seq(P)], taken : Seq(P), dry : BOOLEAN]
    <3> HIDE DEF type
    <3>1. Append(s.taken, m) \in Seq(P) /\ [s.free EXCEPT ![type] = rest] \in [T -> Seq(P)]
      BY <1>1, <2>1
    <3>2. new = [s EXCEPT !.free = [s.free EXCEPT ![type] = rest], !.taken = Append(s.taken, m)]
      BY <1>1, <2>4
    <3> HIDE DEF new
    <3> QED
      BY <1>1, <3>1, <3>2
  <2> HIDE DEF new, type
  <2>6. new.free \in Filed(T, P)
    <3>1. \A t \in T : \A j \in DOMAIN new.free[t] : new.free[t][j][1] = t
      <4> SUFFICES ASSUME NEW t \in T, NEW j \in DOMAIN new.free[t] PROVE new.free[t][j][1] = t
        OBVIOUS
      <4>1. CASE t = type
        <5>1. new.free[t] = rest
          BY <1>1, <2>5, <4>1
        <5> QED
          BY <2>3, <4>1, <5>1
      <4>2. CASE t # type
        <5>1. new.free[t] = s.free[t]
          BY <1>1, <2>5, <4>2
        <5> QED
          BY <1>1, <5>1 DEF Filed
      <4> QED
        BY <4>1, <4>2
    <3> QED
      BY <2>5, <3>1 DEF Filed
  <2>7. ASSUME NEW x \in P
        PROVE  Count(pools[x[1]], x) = Count(new.free[x[1]], x) + Count(new.taken, x)
    <3>1. Count(new.taken, x) = Count(s.taken, x) + Is(m, x) /\ Count(s.taken, x) \in Nat
      BY <1>1, <2>1, <2>5, CountAppend, CountInSequence
    <3>2. Count(pools[x[1]], x) = Count(s.free[x[1]], x) + Count(s.taken, x)
      BY DEF TakenSoFar
    <3>3. CASE x[1] = type
      <4>1. new.free[x[1]] = rest
        BY <1>1, <2>5, <3>3
      <4>2. Count(s.free[x[1]], x) = Count(rest, x) + Is(m, x)
        BY <2>1, <3>3
      <4>3. Count(rest, x) \in Nat /\ Is(m, x) \in Nat
        BY <2>1, CountInSequence DEF Is
      <4> QED
        BY <3>1, <3>2, <4>1, <4>2, <4>3
    <3>4. CASE x[1] # type
      <4>1. new.free[x[1]] = s.free[x[1]]
        BY <1>1, <2>5, <3>4
      <4>2. Is(m, x) = 0
        BY <2>3, <3>4 DEF Is
      <4> QED
        BY <3>1, <3>2, <4>1, <4>2
    <3> QED
      BY <3>3, <3>4
  <2>8. ~new.dry => Len(new.taken) = i
    <3>1. Len(new.taken) = Len(s.taken) + 1
      BY <1>1, <2>1, <2>5
    <3>2. ~s.dry => Len(s.taken) = i - 1
      BY DEF TakenSoFar
    <3> QED
      BY <1>1, <2>5, <3>1, <3>2
  <2>9. ASSUME NEW t \in T, Enough(pools, types, t)
        PROVE  ~new.dry /\ Len(new.free[t]) = Len(pools[t]) - i
    <3>1. t = type /\ ~s.dry /\ Len(s.free[t]) = Len(pools[t]) - (i - 1)
      BY <1>2, <2>9 DEF TakenSoFar
    <3>2. Len(new.free[t]) = Len(s.free[t]) - 1
      BY <1>1, <2>1, <2>5, <3>1
    <3>3. Len(pools[t]) \in Nat /\ i \in Nat
      BY <1>1
    <3>4. Len(new.free[t]) = Len(pools[t]) - i
      BY <3>1, <3>2, <3>3
    <3> QED
      BY <2>5, <3>1, <3>4
  <2>10. TakenSoFar(T, P, pools, types, i, new)
    BY <2>5, <2>6, <2>7, <2>8, <2>9 DEF TakenSoFar
  <2> QED
    BY <2>10 DEF new, type
<1> QED
  BY <1>3, <1>4

\* Allocating moves memory from the pools to those who asked for it.
LEMMA AllocatedIs ==
  ASSUME NEW T, NEW P, \A x \in P : x[1] \in T, NEW pools \in Filed(T, P), NEW types \in Seq(T)
  PROVE  TakenSoFar(T, P, pools, types, Len(types), Allocated(pools, types))
<1>0. pools \in [T -> Seq(P)]
  BY DEF Filed
<1>1. PICK m : AllocateSteps(pools, types, m)
  BY <1>0, AllocateIsLoop
<1> DEFINE n == Len(types)
           K == {i \in 0 .. n : TakenSoFar(T, P, pools, types, i, m[i])}
<1>2. n \in Nat
  OBVIOUS
<1>3. 0 \in K
  <2> DEFINE start == [free |-> pools, taken |-> <<>>, dry |-> FALSE]
  <2>1. \A x : Count(<<>>, x) = 0
    BY FS_EmptySet DEF Count
  <2>2. \A x \in P : Count(pools[x[1]], x) \in Nat
    BY <1>0, CountInSequence
  <2>3. \A type \in T : Len(pools[type]) \in Nat
    BY <1>0
  <2>4. start \in [free : Filed(T, P), taken : Seq(P), dry : BOOLEAN]
    OBVIOUS
  <2>5. TakenSoFar(T, P, pools, types, 0, start)
    BY <2>1, <2>2, <2>3, <2>4 DEF TakenSoFar
  <2> QED
    BY <1>1, <1>2, <2>5 DEF AllocateSteps
<1>4. ASSUME NEW i \in 1 .. n, i - 1 \in K PROVE i \in K
  <2>1. TakenSoFar(T, P, pools, types, i - 1, m[i - 1])
    BY <1>4
  <2>2. m[i] = Allocate(m[i - 1], types[i])
    BY <1>1 DEF AllocateSteps
  <2>3. TakenSoFar(T, P, pools, types, i, m[i])
    BY <2>1, <2>2, TakenGoesOn
  <2> QED
    BY <2>3
<1>5. n \in K
  <2> HIDE DEF K
  <2>1. \A i \in 1 .. n : i - 1 \in K => i \in K
    BY <1>4
  <2> HIDE DEF n
  <2>2. \A i \in 0 .. n : i \in K
    BY <1>2, <1>3, <2>1, Counting
  <2> QED
    BY <1>2, <2>2
<1> QED
  BY <1>1, <1>5 DEF AllocateSteps

\* A piece of memory goes back to the pool of its type.
LEMMA ReturnedIs ==
  ASSUME NEW T, NEW P, \A x \in P : x[1] \in T, NEW pools \in Filed(T, P), NEW m \in P
  PROVE  /\ Returned(pools, m) \in Filed(T, P)
         /\ \A x \in P : Count(Returned(pools, m)[x[1]], x) = Count(pools[x[1]], x) + Is(m, x)
<1> DEFINE type == m[1]
           new == Returned(pools, m)
<1>1. /\ type \in T /\ pools \in [T -> Seq(P)] /\ new = [pools EXCEPT ![type] = Append(pools[type], m)]
      /\ pools[type] \in Seq(P) /\ Append(pools[type], m) \in Seq(P)
  BY DEF Filed, Returned
<1>2. \A t \in T : new[t] = IF t = type THEN Append(pools[type], m) ELSE pools[t]
  BY <1>1
<1>3. new \in [T -> Seq(P)]
  BY <1>1
<1> HIDE DEF new
<1>4. ASSUME NEW t \in T, NEW j \in DOMAIN new[t] PROVE new[t][j][1] = t
  <2>1. \A i \in 1 .. Len(pools[t]) : pools[t][i][1] = t
    BY <1>1 DEF Filed
  <2>2. CASE t = type
    <3> DEFINE s == pools[type]
               a == Append(s, m)
    <3>1. DOMAIN a = 1 .. Len(s) + 1 /\ a[Len(s) + 1] = m /\ \A i \in 1 .. Len(s) : a[i] = s[i]
      BY <1>1
    <3>2. new[t] = a /\ Len(s) \in Nat
      BY <1>1, <1>2, <2>2
    <3> HIDE DEF s, a
    <3>3. CASE j = Len(s) + 1
      BY <2>2, <3>1, <3>2, <3>3
    <3>4. CASE j # Len(s) + 1
      <4>1. j \in 1 .. Len(s)
        BY <3>1, <3>2, <3>4
      <4> QED
        BY <2>1, <2>2, <3>1, <3>2, <4>1 DEF s
    <3> QED
      BY <3>3, <3>4
  <2>3. CASE t # type
    BY <1>1, <1>2, <2>1, <2>3
  <2> QED
    BY <2>2, <2>3
<1>5. ASSUME NEW x \in P PROVE Count(new[x[1]], x) = Count(pools[x[1]], x) + Is(m, x)
  <2>1. CASE x[1] = type
    <3>1. Count(Append(pools[type], m), x) = Count(pools[type], x) + Is(m, x)
      BY <1>1, CountAppend
    <3> QED
      BY <1>1, <1>2, <2>1, <3>1
  <2>2. CASE x[1] # type
    <3>1. Is(m, x) = 0 /\ new[x[1]] = pools[x[1]]
      BY <1>2, <2>2 DEF Is
    <3>2. Count(pools[x[1]], x) \in Nat
      BY <1>1, CountInSequence
    <3> QED
      BY <3>1, <3>2
  <2> QED
    BY <2>1, <2>2
<1> QED
  BY <1>3, <1>4, <1>5 DEF Filed, new

\* The pools that giving memory back makes, one for each piece.
FreeSteps(pools, memory, m) ==
  /\ m[0] = pools
  /\ \A i \in 1 .. Len(memory) : m[i] = Returned(m[i - 1], memory[i])
  /\ Freed(pools, memory) = m[Len(memory)]

\* What Freed chooses is there: the loop over the memory, step by step.
LEMMA FreeIsLoop ==
  ASSUME NEW T, NEW P, NEW pools \in [T -> Seq(P)], NEW memory \in Seq(P)
  PROVE  \E m : FreeSteps(pools, memory, m)
<1> DEFINE n == Len(memory)
           Step(i, x) == Returned(x, memory[i])
           Body(i, x) == IF i = 0 THEN pools ELSE Step(i, x)
           Whole(m) == m = [i \in 0 .. n |-> Body(i, m[i - 1])]
           X == [T -> Seq(P)]
           H == [i \in 1 .. n |-> [x \in X |-> Step(i, x)]]
<1>1. n \in Nat
  OBVIOUS
<1>2. Freed(pools, memory) = (CHOOSE m : Whole(m))[n]
  BY Zenon DEF Freed
<1>3. \A i \in 1 .. n, x \in X : H[i][x] \in X /\ H[i][x] = Step(i, x)
  <2>1. \A i \in 1 .. n : memory[i] \in P
    OBVIOUS
  <2>2. ASSUME NEW x \in X, NEW m \in P PROVE Returned(x, m) \in X
    <3>1. CASE m[1] \in T
      <4>1. Append(x[m[1]], m) \in Seq(P)
        BY <3>1
      <4> QED
        BY <4>1 DEF Returned
    <3>2. CASE m[1] \notin T
      BY <3>2 DEF Returned
    <3> QED
      BY <3>1, <3>2
  <2>3. \A i \in 1 .. n, x \in X : Step(i, x) \in X
    <3> HIDE DEF X, n
    <3> QED
      BY <2>1, <2>2
  <2> HIDE DEF Step, X, n
  <2> QED
    BY <2>3
<1> HIDE DEF n
<1>4. \E m : Whole(m)
  <2> HIDE DEF H, X
  <2>1. PICK m \in [0 .. n -> X] : Recurs(m, n, pools, H)
    <3>1. pools \in X
      BY DEF X
    <3> QED
      BY <1>1, <1>3, <3>1, Recursion
  <2>2. ASSUME NEW i \in 0 .. n PROVE m[i] = Body(i, m[i - 1])
    <3>1. CASE i = 0
      BY <2>1, <3>1 DEF Recurs
    <3>2. CASE i # 0
      <4>1. i \in 1 .. n /\ i - 1 \in 0 .. n
        BY <1>1, <3>2
      <4>2. m[i - 1] \in X /\ m[i] = H[i][m[i - 1]]
        BY <2>1, <4>1 DEF Recurs
      <4> HIDE DEF Step
      <4> QED
        BY <1>3, <3>2, <4>1, <4>2
    <3> QED
      BY <3>1, <3>2
  <2> HIDE DEF Body
  <2>3. Whole(m)
    BY <2>1, <2>2
  <2> QED
    BY <2>3
<1> DEFINE m == CHOOSE m : Whole(m)
<1>5. Whole(m)
  BY <1>4
<1> HIDE DEF m
<1>6. \A i \in 0 .. n : m[i] = Body(i, m[i - 1])
  <2> HIDE DEF Body
  <2> QED
    BY <1>5
<1>7. m[0] = pools
  <2>1. m[0] = Body(0, m[0 - 1])
    <3> HIDE DEF Body
    <3> QED
      BY <1>1, <1>6
  <2> QED
    BY <2>1, Zenon
<1> HIDE DEF Step
<1>8. ASSUME NEW i \in 1 .. n PROVE m[i] = Step(i, m[i - 1])
  <2>1. i # 0 /\ m[i] = Body(i, m[i - 1])
    <3> HIDE DEF Body
    <3> QED
      BY <1>1, <1>6
  <2> QED
    BY <2>1, Zenon
<1> QED
  BY <1>2, <1>7, <1>8 DEF FreeSteps, Step, m, n

\* Giving memory back moves it to the pools.
LEMMA FreedIs ==
  ASSUME NEW T, NEW P, \A x \in P : x[1] \in T, NEW pools \in Filed(T, P), NEW memory \in Seq(P)
  PROVE  /\ Freed(pools, memory) \in Filed(T, P)
         /\ \A x \in P : Count(Freed(pools, memory)[x[1]], x) = Count(pools[x[1]], x) + Count(memory, x)
<1>0. pools \in [T -> Seq(P)]
  BY DEF Filed
<1>1. PICK m : FreeSteps(pools, memory, m)
  BY <1>0, FreeIsLoop
<1> DEFINE n == Len(memory)
           SoFar(i, p) == /\ p \in Filed(T, P)
                          /\ \A x \in P : Count(p[x[1]], x) = Count(pools[x[1]], x) + Before(memory, i, x)
           K == {i \in 0 .. n : SoFar(i, m[i])}
<1>2. n \in Nat
  OBVIOUS
<1>3. 0 \in K
  <2>1. \A x : Before(memory, 0, x) = 0
    BY BeforeIs
  <2>2. \A x \in P : Count(pools[x[1]], x) \in Nat
    BY <1>0, CountInSequence
  <2>3. SoFar(0, pools)
    BY <2>1, <2>2
  <2> HIDE DEF SoFar
  <2> QED
    BY <1>1, <1>2, <2>3 DEF FreeSteps
<1>4. ASSUME NEW i \in 1 .. n, i - 1 \in K PROVE i \in K
  <2>1. SoFar(i - 1, m[i - 1])
    BY <1>4
  <2>2. m[i] = Returned(m[i - 1], memory[i]) /\ memory[i] \in P
    BY <1>1 DEF FreeSteps
  <2>3. /\ m[i] \in Filed(T, P)
        /\ \A x \in P : Count(m[i][x[1]], x) = Count(m[i - 1][x[1]], x) + Is(memory[i], x)
    <3>1. PICK old \in Filed(T, P) : old = m[i - 1]
      BY <2>1
    <3>2. PICK piece \in P : piece = memory[i]
      BY <2>2
    <3>3. /\ Returned(old, piece) \in Filed(T, P)
          /\ \A x \in P : Count(Returned(old, piece)[x[1]], x) = Count(old[x[1]], x) + Is(piece, x)
      BY ReturnedIs
    <3> QED
      BY <2>2, <3>1, <3>2, <3>3
  <2>4. ASSUME NEW x \in P PROVE Count(m[i][x[1]], x) = Count(pools[x[1]], x) + Before(memory, i, x)
    <3>1. Before(memory, i, x) = Before(memory, i - 1, x) + Is(memory[i], x)
      BY BeforeIs
    <3>2. Before(memory, i - 1, x) \in Nat
      <4>1. i - 1 \in 0 .. n
        BY <1>2
      <4> HIDE DEF K, SoFar
      <4> QED
        BY <4>1, BeforeIs
    <3>3. Count(pools[x[1]], x) \in Nat /\ Is(memory[i], x) \in Nat
      BY <1>0, CountInSequence DEF Is
    <3>4. Count(m[i - 1][x[1]], x) = Count(pools[x[1]], x) + Before(memory, i - 1, x)
      BY <2>1
    <3> QED
      BY <2>3, <3>1, <3>2, <3>3, <3>4
  <2>5. SoFar(i, m[i])
    BY <2>3, <2>4
  <2> HIDE DEF SoFar
  <2> QED
    BY <2>5
<1>5. n \in K
  <2> HIDE DEF K
  <2>1. \A i \in 1 .. n : i - 1 \in K => i \in K
    BY <1>4
  <2> HIDE DEF n
  <2>2. \A i \in 0 .. n : i \in K
    BY <1>2, <1>3, <2>1, Counting
  <2> QED
    BY <1>2, <2>2
<1>6. \A x \in P : Before(memory, n, x) = Count(memory, x)
  BY BeforeIs
<1> QED
  BY <1>1, <1>5, <1>6 DEF FreeSteps

\* The states that decrementing the usages of each of the buffers makes.
DecrementSteps(buffers, m) ==
  /\ m[0] = [usages |-> usages, at |-> at, free |-> free]
  /\ \A i \in 1 .. Len(buffers) : m[i] = Decrement(m[i - 1], buffers[i])
  /\ Decremented(buffers) = m[Len(buffers)]

\* What Decremented chooses is there: the loop over the buffers, step by step.
LEMMA DecrementIsLoop ==
  ASSUME NEW T, NEW P, NEW B, usages \in [B -> Nat], at \in [B -> P \cup {Nowhere}], free \in Filed(T, P),
         NEW buffers \in Seq(B)
  PROVE  \E m : DecrementSteps(buffers, m)
<1> DEFINE n == Len(buffers)
           Q == P \cup {Nowhere}
           start == [usages |-> usages, at |-> at, free |-> free]
           Step(i, x) == Decrement(x, buffers[i])
           Body(i, x) == IF i = 0 THEN start ELSE Step(i, x)
           Whole(m) == m = [i \in 0 .. n |-> Body(i, m[i - 1])]
           X == [usages : [B -> Int], at : [B -> Q], free : [T -> Seq(Q)]]
           H == [i \in 1 .. n |-> [x \in X |-> Step(i, x)]]
<1>1. n \in Nat
  OBVIOUS
<1>2. Decremented(buffers) = (CHOOSE m : Whole(m))[n]
  BY Zenon DEF Decremented
<1>3. \A i \in 1 .. n, x \in X : H[i][x] \in X /\ H[i][x] = Step(i, x)
  <2>1. \A i \in 1 .. n : buffers[i] \in B
    OBVIOUS
  <2>2. ASSUME NEW x \in X, NEW b \in B PROVE Decrement(x, b) \in X
    <3>1. /\ x.usages \in [B -> Int] /\ x.at \in [B -> Q] /\ x.free \in [T -> Seq(Q)]
          /\ x.usages[b] \in Int /\ x.at[b] \in Q
      OBVIOUS
    <3>2. CASE x.usages[b] = 1
      <4> DEFINE m == x.at[b]
      <4>1. m \in Q
        BY <3>1
      <4> HIDE DEF m
      <4>2. Returned(x.free, m) \in [T -> Seq(Q)]
        <5>1. CASE m[1] \in T
          <6>1. Append(x.free[m[1]], m) \in Seq(Q)
            BY <3>1, <4>1, <5>1
          <6> HIDE DEF Q
          <6> QED
            BY <3>1, <6>1 DEF Returned
        <5>2. CASE m[1] \notin T
          BY <3>1, <5>2 DEF Returned
        <5> QED
          BY <5>1, <5>2
      <4>3. [x.at EXCEPT ![b] = Nowhere] \in [B -> Q] /\ [x.usages EXCEPT ![b] = 0] \in [B -> Int]
        BY <3>1
      <4> QED
        BY <3>2, <4>2, <4>3 DEF Decrement, m
    <3>3. CASE x.usages[b] # 1
      <4> DEFINE uses == [x.usages EXCEPT ![b] = x.usages[b] - 1]
      <4>1. uses \in [B -> Int]
        BY <3>1
      <4>2. Decrement(x, b) = [x EXCEPT !.usages = uses]
        BY <3>1, <3>3 DEF Decrement
      <4> HIDE DEF uses
      <4> QED
        BY <3>1, <4>1, <4>2
    <3> QED
      BY <3>2, <3>3
  <2>3. \A i \in 1 .. n, x \in X : Step(i, x) \in X
    <3> HIDE DEF X, n
    <3> QED
      BY <2>1, <2>2
  <2> HIDE DEF Step, X, n
  <2> QED
    BY <2>3
<1> HIDE DEF n
<1>4. \E m : Whole(m)
  <2>0. start \in X
    <3>1. free \in [T -> Seq(P)] /\ \A s \in Seq(P) : s \in Seq(Q)
      BY DEF Filed
    <3>2. free \in [T -> Seq(Q)] /\ usages \in [B -> Int]
      BY <3>1
    <3> QED
      BY <3>2
  <2> HIDE DEF H, X, start
  <2>1. PICK m \in [0 .. n -> X] : Recurs(m, n, start, H)
    BY <1>1, <1>3, <2>0, Recursion
  <2>2. ASSUME NEW i \in 0 .. n PROVE m[i] = Body(i, m[i - 1])
    <3>1. CASE i = 0
      BY <2>1, <3>1 DEF Recurs
    <3>2. CASE i # 0
      <4>1. i \in 1 .. n /\ i - 1 \in 0 .. n
        BY <1>1, <3>2
      <4>2. m[i - 1] \in X /\ m[i] = H[i][m[i - 1]]
        BY <2>1, <4>1 DEF Recurs
      <4> HIDE DEF Step
      <4> QED
        BY <1>3, <3>2, <4>1, <4>2
    <3> QED
      BY <3>1, <3>2
  <2> HIDE DEF Body
  <2>3. Whole(m)
    BY <2>1, <2>2
  <2> QED
    BY <2>3
<1> DEFINE m == CHOOSE m : Whole(m)
<1>5. Whole(m)
  BY <1>4
<1> HIDE DEF m, start
<1>6. \A i \in 0 .. n : m[i] = Body(i, m[i - 1])
  <2> HIDE DEF Body
  <2> QED
    BY <1>5
<1>7. m[0] = start
  <2>1. m[0] = Body(0, m[0 - 1])
    <3> HIDE DEF Body
    <3> QED
      BY <1>1, <1>6
  <2> QED
    BY <2>1, Zenon
<1> HIDE DEF Step
<1>8. ASSUME NEW i \in 1 .. n PROVE m[i] = Step(i, m[i - 1])
  <2>1. i # 0 /\ m[i] = Body(i, m[i - 1])
    <3> HIDE DEF Body
    <3> QED
      BY <1>1, <1>6
  <2> QED
    BY <2>1, Zenon
<1> QED
  BY <1>2, <1>7, <1>8 DEF DecrementSteps, Step, m, n, start

\* What decrementing has made of the first i buffers: those used no more have given back
\* their memory.
DecrementedSoFar(T, P, B, buffers, i, s) ==
  /\ s.usages \in [B -> Nat] /\ s.at \in [B -> P \cup {Nowhere}] /\ s.free \in Filed(T, P)
  /\ \A b \in B : /\ s.usages[b] = usages[b] - Before(buffers, i, b)
                  /\ s.at[b] = IF s.usages[b] = 0 THEN Nowhere ELSE at[b]
  /\ \A x \in P : Count(s.at, x) + Count(s.free[x[1]], x) = Count(at, x) + Count(free[x[1]], x)

\* One usage less.
LEMMA DecrementGoesOn ==
  ASSUME NEW T, NEW P, \A x \in P : x[1] \in T, Nowhere \notin P, NEW B, IsFiniteSet(B),
         usages \in [B -> Nat], at \in [B -> P \cup {Nowhere}], NEW buffers \in Seq(B),
         \A b \in B : Count(buffers, b) <= usages[b], \A i \in DOMAIN buffers : at[buffers[i]] # Nowhere,
         NEW i \in 1 .. Len(buffers), NEW s, DecrementedSoFar(T, P, B, buffers, i - 1, s)
  PROVE  DecrementedSoFar(T, P, B, buffers, i, Decrement(s, buffers[i]))
<1> DEFINE a == buffers[i]
           new == Decrement(s, a)
<1>1. /\ a \in B /\ at[a] \in P /\ i - 1 \in 0 .. Len(buffers) /\ i \in 0 .. Len(buffers)
      /\ s.usages \in [B -> Nat] /\ s.at \in [B -> P \cup {Nowhere}] /\ s.free \in Filed(T, P)
      /\ \A b \in B : /\ s.usages[b] = usages[b] - Before(buffers, i - 1, b)
                      /\ s.at[b] = IF s.usages[b] = 0 THEN Nowhere ELSE at[b]
      /\ \A x \in P : Count(s.at, x) + Count(s.free[x[1]], x) = Count(at, x) + Count(free[x[1]], x)
  BY DEF DecrementedSoFar
<1>2. \A b \in B : /\ Before(buffers, i, b) = Before(buffers, i - 1, b) + Is(a, b)
                   /\ Before(buffers, i, b) \in Nat /\ Before(buffers, i - 1, b) \in Nat
                   /\ Before(buffers, i, b) <= usages[b] /\ usages[b] \in Nat
  <2> SUFFICES ASSUME NEW b \in B
               PROVE  /\ Before(buffers, i, b) = Before(buffers, i - 1, b) + Is(a, b)
                      /\ Before(buffers, i, b) \in Nat /\ Before(buffers, i - 1, b) \in Nat
                      /\ Before(buffers, i, b) <= usages[b] /\ usages[b] \in Nat
    OBVIOUS
  <2>1. /\ Before(buffers, i, b) = Before(buffers, i - 1, b) + Is(a, b)
        /\ Before(buffers, i, b) \in Nat /\ Before(buffers, i - 1, b) \in Nat
        /\ Before(buffers, i, b) <= Count(buffers, b)
    <3>1. i \in 0 .. Len(buffers) /\ i - 1 \in 0 .. Len(buffers)
      BY <1>1
    <3> QED
      BY <3>1, BeforeIs
  <2>2. Count(buffers, b) \in Nat /\ Count(buffers, b) <= usages[b] /\ usages[b] \in Nat
    BY CountInSequence
  <2> QED
    BY <2>1, <2>2
<1> HIDE DEF a
<1>3. s.usages[a] \in Nat \ {0} /\ s.at[a] = at[a] /\ s.at[a] # Nowhere
  <2>1. Is(a, a) = 1
    BY DEF Is
  <2>2. PICK x \in Nat, y \in Nat, u \in Nat :
          /\ x = Before(buffers, i - 1, a) /\ y = Before(buffers, i, a) /\ u = usages[a]
          /\ y = x + 1 /\ y <= u
    BY <1>1, <1>2, <2>1
  <2>3. s.usages[a] = u - x
    BY <1>1, <2>2
  <2>4. s.usages[a] \in Nat \ {0}
    BY <2>2, <2>3
  <2> QED
    BY <1>1, <2>4
<1>4. \A b \in B : s.usages[b] - Is(a, b) = usages[b] - Before(buffers, i, b)
  <2> SUFFICES ASSUME NEW b \in B PROVE s.usages[b] - Is(a, b) = usages[b] - Before(buffers, i, b)
    OBVIOUS
  <2>1. s.usages[b] = usages[b] - Before(buffers, i - 1, b)
    BY <1>1
  <2>2. Is(a, b) \in Nat
    BY DEF Is
  <2> QED
    BY <1>2, <2>1, <2>2
<1>5. CASE s.usages[a] = 1
  <2> DEFINE m == s.at[a]
             uses == [s.usages EXCEPT ![a] = 0]
             places == [s.at EXCEPT ![a] = Nowhere]
             pools == Returned(s.free, m)
  <2>0. m \in P
    BY <1>1, <1>3
  <2>1. new = [usages |-> uses, at |-> places, free |-> pools]
    BY <1>5 DEF Decrement
  <2>2. new.usages = uses /\ new.at = places /\ new.free = pools
    BY <2>1
  <2>3. /\ pools \in Filed(T, P)
        /\ \A x \in P : Count(pools[x[1]], x) = Count(s.free[x[1]], x) + Is(m, x)
    <3> HIDE DEF m
    <3>1. PICK old \in Filed(T, P) : old = s.free
      BY <1>1
    <3>2. /\ Returned(old, m) \in Filed(T, P)
          /\ \A x \in P : Count(Returned(old, m)[x[1]], x) = Count(old[x[1]], x) + Is(m, x)
      BY <2>0, ReturnedIs
    <3> QED
      BY <3>1, <3>2
  <2>4. uses \in [B -> Nat] /\ places \in [B -> P \cup {Nowhere}]
    BY <1>1
  <2>5. ASSUME NEW b \in B
        PROVE  /\ uses[b] = usages[b] - Before(buffers, i, b)
               /\ places[b] = IF uses[b] = 0 THEN Nowhere ELSE at[b]
    <3>1. CASE b = a
      <4>1. uses[b] = 0 /\ places[b] = Nowhere
        BY <1>1, <3>1
      <4>2. Is(a, b) = 1
        BY <3>1 DEF Is
      <4>3. s.usages[b] - Is(a, b) = 0
        BY <1>5, <3>1, <4>2
      <4> QED
        BY <1>4, <4>1, <4>3
    <3>2. CASE b # a
      <4>1. uses[b] = s.usages[b] /\ places[b] = s.at[b]
        BY <1>1, <3>2
      <4>2. Is(a, b) = 0 /\ s.usages[b] \in Nat
        BY <1>1, <3>2 DEF Is
      <4>3. s.usages[b] = usages[b] - Before(buffers, i, b)
        BY <1>4, <4>2
      <4> QED
        BY <1>1, <4>1, <4>3
    <3> QED
      BY <3>1, <3>2
  <2>6. ASSUME NEW x \in P
        PROVE  Count(places, x) + Count(pools[x[1]], x) = Count(at, x) + Count(free[x[1]], x)
    <3>1. Count(s.at, x) = Count(places, x) + Is(m, x)
      <4>1. PICK f : f = s.at
        OBVIOUS
      <4>2. /\ DOMAIN f = B /\ IsFiniteSet(DOMAIN f) /\ a \in DOMAIN f /\ DOMAIN places = DOMAIN f
            /\ places[a] # x /\ \A b \in DOMAIN f : b # a => places[b] = f[b]
        BY <1>1, <4>1
      <4> HIDE DEF places
      <4>3. Count(f, x) = Count(places, x) + Is(f[a], x)
        BY <4>2, CountExcept
      <4> QED
        BY <4>1, <4>3
    <3>2. Count(pools[x[1]], x) = Count(s.free[x[1]], x) + Is(m, x)
      BY <2>3
    <3>3. Count(s.at, x) + Count(s.free[x[1]], x) = Count(at, x) + Count(free[x[1]], x)
      BY <1>1
    <3>4. Count(s.free[x[1]], x) \in Nat /\ Is(m, x) \in Nat
      <4>1. s.free[x[1]] \in Seq(P)
        BY <1>1 DEF Filed
      <4> QED
        BY <4>1, CountInSequence DEF Is
    <3>5. Count(places, x) \in Nat
      <4>1. DOMAIN places = B
        BY <1>1
      <4> HIDE DEF places
      <4> QED
        BY <4>1, CountType
    <3> HIDE DEF places, pools, m
    <3> QED
      BY <3>1, <3>2, <3>3, <3>4, <3>5
  <2> HIDE DEF uses, places, pools, new
  <2>7. DecrementedSoFar(T, P, B, buffers, i, new)
    BY <2>2, <2>3, <2>4, <2>5, <2>6 DEF DecrementedSoFar
  <2> QED
    BY <2>7 DEF new, a
<1>6. CASE s.usages[a] # 1
  <2> DEFINE uses == [s.usages EXCEPT ![a] = s.usages[a] - 1]
  <2>1. new.usages = uses /\ new.at = s.at /\ new.free = s.free
    BY <1>1, <1>6 DEF Decrement
  <2>2. uses \in [B -> Nat] /\ \A b \in B : uses[b] = s.usages[b] - Is(a, b)
    <3>1. s.usages[a] - 1 \in Nat
      BY <1>3
    <3>2. \A b \in B : s.usages[b] \in Nat /\ Is(a, b) = IF a = b THEN 1 ELSE 0
      BY <1>1 DEF Is
    <3> QED
      BY <1>1, <3>1, <3>2
  <2>3. uses[a] # 0
    BY <1>1, <1>3, <1>6
  <2>4. ASSUME NEW b \in B PROVE s.at[b] = IF uses[b] = 0 THEN Nowhere ELSE at[b]
    <3>1. CASE b = a
      BY <1>3, <2>3, <3>1
    <3>2. CASE b # a
      <4>1. uses[b] = s.usages[b]
        BY <1>1, <3>2
      <4> QED
        BY <1>1, <4>1
    <3> QED
      BY <3>1, <3>2
  <2> HIDE DEF uses, new
  <2>5. DecrementedSoFar(T, P, B, buffers, i, new)
    BY <1>1, <1>4, <2>1, <2>2, <2>4 DEF DecrementedSoFar
  <2> QED
    BY <2>5 DEF new, a
<1> QED
  BY <1>5, <1>6

\* Decrementing gives back the memory of the buffers that are used no more.
LEMMA DecrementedIs ==
  ASSUME NEW T, NEW P, \A x \in P : x[1] \in T, Nowhere \notin P, NEW B, IsFiniteSet(B),
         usages \in [B -> Nat], at \in [B -> P \cup {Nowhere}], free \in Filed(T, P), NEW buffers \in Seq(B),
         \A b \in B : Count(buffers, b) <= usages[b], \A i \in DOMAIN buffers : at[buffers[i]] # Nowhere,
         \A b \in B : usages[b] = 0 => at[b] = Nowhere
  PROVE  DecrementedSoFar(T, P, B, buffers, Len(buffers), Decremented(buffers))
<1>1. PICK m : DecrementSteps(buffers, m)
  BY DecrementIsLoop
<1> DEFINE n == Len(buffers)
           K == {i \in 0 .. n : DecrementedSoFar(T, P, B, buffers, i, m[i])}
<1>2. n \in Nat
  OBVIOUS
<1>3. 0 \in K
  <2> DEFINE start == [usages |-> usages, at |-> at, free |-> free]
  <2>1. \A b : Before(buffers, 0, b) = 0
    BY BeforeIs
  <2>2. start.usages = usages /\ start.at = at /\ start.free = free
    OBVIOUS
  <2> HIDE DEF start
  <2>3. \A b \in B : start.usages[b] = usages[b] - Before(buffers, 0, b)
    BY <2>1, <2>2
  <2>4. \A b \in B : start.at[b] = IF start.usages[b] = 0 THEN Nowhere ELSE at[b]
    BY <2>2
  <2>5. DecrementedSoFar(T, P, B, buffers, 0, start)
    BY <2>2, <2>3, <2>4 DEF DecrementedSoFar
  <2> QED
    BY <1>1, <1>2, <2>5 DEF DecrementSteps, start
<1>4. ASSUME NEW i \in 1 .. n, i - 1 \in K PROVE i \in K
  <2>1. DecrementedSoFar(T, P, B, buffers, i - 1, m[i - 1])
    BY <1>4
  <2>2. m[i] = Decrement(m[i - 1], buffers[i])
    BY <1>1 DEF DecrementSteps
  <2>3. DecrementedSoFar(T, P, B, buffers, i, m[i])
    BY <2>1, <2>2, DecrementGoesOn
  <2> QED
    BY <2>3
<1>5. n \in K
  <2> HIDE DEF K
  <2>1. \A i \in 1 .. n : i - 1 \in K => i \in K
    BY <1>4
  <2> HIDE DEF n
  <2>2. \A i \in 0 .. n : i \in K
    BY <1>2, <1>3, <2>1, Counting
  <2> QED
    BY <1>2, <2>2
<1> QED
  BY <1>1, <1>5 DEF DecrementSteps

-----------------------------------------------------------------------------
(* The memory of a chunk.                                                  *)

\* The memory that initialize() makes: for each type as much as its pool has room for.
Pieces(t) == {m \in Types(t) \X Nat : m[2] \in 1 .. PoolSize(t, m[1])}

\* The greatest of three numbers.
LEMMA MaxOfThree ==
  ASSUME NEW a \in Nat, NEW b \in Nat, NEW c \in Nat
  PROVE  Max({a, b, c}) \in Nat /\ Max({a, b, c}) >= a
<1>1. \E x \in {a, b, c} : \A y \in {a, b, c} : x >= y
  <2>1. CASE a >= b /\ a >= c
    BY <2>1
  <2>2. CASE b >= a /\ b >= c
    BY <2>2
  <2>3. CASE c >= a /\ c >= b
    BY <2>3
  <2> QED
    BY <2>1, <2>2, <2>3
<1>2. Max({a, b, c}) \in {a, b, c} /\ \A y \in {a, b, c} : Max({a, b, c}) >= y
  BY <1>1 DEF Max
<1> QED
  BY <1>2

\* What is known of the pools: their sizes, and room for the channels and the inputs.
LEMMA PiecesAre ==
  ASSUME NEW t, WellMade(t)
  PROVE  /\ RealType \in Types(t) /\ \A type \in Types(t) : PoolSize(t, type) \in Nat
         /\ ChannelCount(t) \in Nat /\ InputCount(t) \in Nat /\ OutputCount(t) \in Nat
         /\ PoolSize(t, RealType) >= ChannelCount(t) + InputCount(t)
         /\ \A m \in Pieces(t) : m[1] \in Types(t)
         /\ Nowhere \notin Pieces(t)
<1>1. /\ t.usage \in [DOMAIN t.usage -> Nat] /\ InputCount(t) \in Nat /\ OutputCount(t) \in Nat
  BY DEF WellMade, WellBuffered
<1>2. ChannelCount(t) \in Nat /\ OutChannels \in Nat
  BY ChannelsAssumption DEF ChannelCount
<1>3. RealType \in Types(t)
  BY DEF Types
<1>4. ASSUME NEW type \in Types(t), type # RealType PROVE PoolSize(t, type) \in Nat
  BY <1>1, <1>4 DEF PoolSize, Types
<1>5. PoolSize(t, RealType) \in Nat /\ PoolSize(t, RealType) >= ChannelCount(t) + InputCount(t)
  <2> DEFINE usage == IF RealType \in DOMAIN t.usage THEN t.usage[RealType] ELSE 0
             a == ChannelCount(t) + InputCount(t)
             b == usage + OutputCount(t)
             c == OutputCount(t) + OutChannels
  <2>1. PoolSize(t, RealType) = Max({a, b, c})
    BY DEF PoolSize
  <2>2. usage \in Nat
    BY <1>1
  <2>3. a \in Nat /\ b \in Nat /\ c \in Nat
    <3> HIDE DEF usage
    <3> QED
      BY <1>1, <1>2, <2>2
  <2> HIDE DEF a, b, c
  <2> QED
    BY <2>1, <2>3, MaxOfThree DEF a
<1>6. \A m \in Pieces(t) : m[1] \in Types(t)
  BY DEF Pieces
<1>7. Nowhere \notin Pieces(t)
  <2> SUFFICES ASSUME Nowhere \in Types(t) \X Nat PROVE FALSE
    BY DEF Pieces
  <2>1. PICK type \in Types(t), n \in Nat : <<>> = <<type, n>>
    BY DEF Nowhere
  <2>2. Len(<<>>) = 0 /\ Len(<<type, n>>) = 2
    OBVIOUS
  <2> QED
    BY <2>1, <2>2
<1>8. \A type \in Types(t) : PoolSize(t, type) \in Nat
  BY <1>4, <1>5
<1> QED
  BY <1>1, <1>2, <1>3, <1>5, <1>6, <1>7, <1>8

\* What is known of the buffers of a task graph.
LEMMA BuffersAre ==
  ASSUME NEW t, WellMade(t)
  PROVE  /\ IsFiniteSet(DOMAIN t.buffers) /\ Buffers(t) \subseteq DOMAIN t.buffers
         /\ OutputsToDecrement(t) \in Seq(Buffers(t))
         /\ \A k \in Tasks(t) : TaskBuffers(t, k) \in Seq(Buffers(t))
         /\ \A S \in SUBSET Arguments(t) : IsFiniteSet(S)
<1>1. /\ Len(t.buffers) \in Nat /\ DOMAIN t.buffers = 1 .. Len(t.buffers) /\ DOMAIN t.tasks = Tasks(t)
      /\ OutputCount(t) \in Nat
      /\ t.outputs \in [(0 .. OutputCount(t) - 1) \cup {RemainActive} -> DOMAIN t.buffers]
      /\ \A k \in Tasks(t) : InputBuffers(t, k) \in Seq(Buffers(t)) /\ t.tasks[k].outs \in Seq(Buffers(t))
      /\ IsFiniteSet(Tasks(t))
  BY FewTasks DEF WellMade, WellOrdered, WellBuffered, WellShared
<1>2. IsFiniteSet(DOMAIN t.buffers) /\ Buffers(t) \subseteq DOMAIN t.buffers
  <2>1. Len(t.buffers) \in Int
    BY <1>1
  <2>2. IsFiniteSet(1 .. Len(t.buffers))
    BY <2>1, FS_Interval
  <2> QED
    BY <1>1, <2>2 DEF Buffers
<1>3. \A k \in Tasks(t) : TaskBuffers(t, k) \in Seq(Buffers(t))
  BY <1>1 DEF TaskBuffers
<1>4. OutputsToDecrement(t) \in Seq(Buffers(t))
  <2> DEFINE all == Outputs(t) \o <<t.outputs[RemainActive]>>
             I == {i \in DOMAIN all : Dynamic(t, all[i])}
             s == Picked(all, I)
             D == DOMAIN t.buffers
  <2>1. all \in Seq(D)
    <3>1. Outputs(t) \in Seq(D)
      <4>1. \A i \in 1 .. OutputCount(t) : t.outputs[i - 1] \in D
        BY <1>1
      <4>2. Outputs(t) \in [1 .. OutputCount(t) -> D]
        BY <4>1 DEF Outputs
      <4> QED
        BY <1>1, <4>2
    <3>2. <<t.outputs[RemainActive]>> \in Seq(D)
      BY <1>1
    <3> QED
      BY <3>1, <3>2
  <2>2. OutputsToDecrement(t) = s
    BY DEF OutputsToDecrement
  <2>3. \A i \in I : all[i] \in Buffers(t)
    <3> HIDE DEF all
    <3> QED
      BY <1>1, <2>1 DEF Buffers
  <2> HIDE DEF all, D, I
  <2>4. PickedSoFar(D, all, I, Len(all), s)
    BY <2>1, PickedIs
  <2> HIDE DEF s
  <2>5. \A j \in 1 .. Len(s) : s[j] \in Buffers(t)
    BY <2>3, <2>4 DEF PickedSoFar
  <2>6. s \in Seq(D)
    BY <2>4 DEF PickedSoFar
  <2>7. s \in Seq(Buffers(t))
    <3>1. s \in [1 .. Len(s) -> Buffers(t)] /\ Len(s) \in Nat
      BY <2>5, <2>6
    <3> QED
      BY <3>1
  <2> QED
    BY <2>2, <2>7
<1>5. IsFiniteSet(Arguments(t))
  <2> DEFINE Of(k) == {k} \X DOMAIN TaskBuffers(t, k)
             All == {Of(k) : k \in Tasks(t)}
             f == [k \in Tasks(t) |-> Of(k)]
  <2>1. IsFiniteSet(All)
    <3>1. f \in Surjection(Tasks(t), All)
      BY DEF Surjection
    <3> HIDE DEF f, All
    <3> QED
      BY <1>1, <3>1, FS_Surjection
  <2>2. ASSUME NEW A \in All PROVE IsFiniteSet(A)
    <3>1. PICK k \in Tasks(t) : A = {k} \X DOMAIN TaskBuffers(t, k)
      BY <2>2
    <3>2. IsFiniteSet({k})
      BY FS_Singleton
    <3>3. IsFiniteSet(DOMAIN TaskBuffers(t, k))
      <4>1. TaskBuffers(t, k) \in Seq(Buffers(t))
        BY <1>3
      <4> QED
        BY <4>1, CountInSequence
    <3> QED
      BY <3>1, <3>2, <3>3, FS_Product
  <2>3. Arguments(t) = UNION All
    BY <1>1 DEF Arguments
  <2> HIDE DEF All
  <2> QED
    BY <2>1, <2>2, <2>3, FS_UNION
<1>6. \A S \in SUBSET Arguments(t) : IsFiniteSet(S)
  BY <1>5, FS_Subset
<1> QED
  BY <1>2, <1>3, <1>4, <1>6

\* The arguments of a task are what it reads and what it writes.
LEMMA ArgumentsAre ==
  ASSUME NEW t, WellMade(t), NEW k \in Tasks(t)
  PROVE  ToSet(TaskBuffers(t, k)) = ToSet(InputBuffers(t, k)) \cup ToSet(t.tasks[k].outs)
<1> DEFINE outs == t.tasks[k].outs
           ins == InputBuffers(t, k)
           all == ins \o outs
<1>1. outs \in Seq(Buffers(t)) /\ ins \in Seq(Buffers(t)) /\ TaskBuffers(t, k) = all
  BY DEF WellMade, WellShared, TaskBuffers
<1> HIDE DEF outs, ins
<1>2. /\ all \in Seq(Buffers(t)) /\ Len(all) = Len(ins) + Len(outs)
      /\ \A i \in 1 .. Len(ins) + Len(outs) : all[i] = IF i <= Len(ins) THEN ins[i] ELSE outs[i - Len(ins)]
  BY <1>1, ConcatProperties
<1>3. /\ DOMAIN all = 1 .. Len(ins) + Len(outs) /\ DOMAIN ins = 1 .. Len(ins) /\ DOMAIN outs = 1 .. Len(outs)
      /\ Len(ins) \in Nat /\ Len(outs) \in Nat
  BY <1>1, <1>2
<1> HIDE DEF all
<1>4. ASSUME NEW i \in DOMAIN all PROVE all[i] \in ToSet(ins) \cup ToSet(outs)
  <2>1. CASE i <= Len(ins)
    BY <1>2, <1>3, <2>1 DEF ToSet
  <2>2. CASE ~(i <= Len(ins))
    <3>1. i - Len(ins) \in DOMAIN outs /\ all[i] = outs[i - Len(ins)]
      BY <1>2, <1>3, <2>2
    <3> QED
      BY <3>1 DEF ToSet
  <2> QED
    BY <2>1, <2>2
<1>5. ASSUME NEW i \in DOMAIN ins PROVE ins[i] \in ToSet(all)
  <2>1. i \in DOMAIN all /\ all[i] = ins[i]
    BY <1>2, <1>3
  <2> QED
    BY <2>1 DEF ToSet
<1>6. ASSUME NEW i \in DOMAIN outs PROVE outs[i] \in ToSet(all)
  <2>1. i + Len(ins) \in DOMAIN all /\ all[i + Len(ins)] = outs[i]
    BY <1>2, <1>3
  <2> QED
    BY <2>1 DEF ToSet
<1>7. ToSet(all) = ToSet(ins) \cup ToSet(outs)
  BY <1>4, <1>5, <1>6 DEF ToSet
<1> QED
  BY <1>1, <1>7 DEF ins, outs

\* What a task is given memory for: what it writes, but what it reads.
LEMMA ToAllocateIs ==
  ASSUME NEW t, WellMade(t), NEW k \in Tasks(t)
  PROVE  /\ BuffersToAllocate(t, k) \in Seq(Buffers(t))
         /\ \A i, j \in DOMAIN BuffersToAllocate(t, k) :
              BuffersToAllocate(t, k)[i] = BuffersToAllocate(t, k)[j] => i = j
         /\ ToSet(BuffersToAllocate(t, k)) \subseteq ToSet(TaskBuffers(t, k))
         /\ ToSet(TaskBuffers(t, k)) \subseteq ToSet(InputBuffers(t, k)) \cup ToSet(BuffersToAllocate(t, k))
<1> DEFINE outs == t.tasks[k].outs
           ins == InputBuffers(t, k)
           I == {i \in DOMAIN outs : ~Contains(ins, outs[i])}
           s == BuffersToAllocate(t, k)
<1>1. /\ outs \in Seq(Buffers(t)) /\ ins \in Seq(Buffers(t))
      /\ \A i, j \in DOMAIN outs : outs[i] = outs[j] => i = j
  BY DEF WellMade, WellShared
<1>2. s = Picked(outs, I)
  BY DEF BuffersToAllocate
<1> HIDE DEF outs, ins, s
<1>4. PickedSoFar(Buffers(t), outs, I, Len(outs), s)
  BY <1>1, <1>2, PickedIs
<1>5. /\ s \in Seq(Buffers(t)) /\ \A i, j \in DOMAIN s : s[i] = s[j] => i = j
      /\ \A j \in DOMAIN s : \E l \in DOMAIN outs : s[j] = outs[l]
      /\ \A l \in DOMAIN outs : l \in I => \E j \in DOMAIN s : s[j] = outs[l]
  <2> HIDE DEF I
  <2>1. s \in Seq(Buffers(t)) /\ DOMAIN s = 1 .. Len(s) /\ DOMAIN outs = 1 .. Len(outs)
    BY <1>1, <1>4 DEF PickedSoFar
  <2>2. \A i, j \in DOMAIN s : s[i] = s[j] => i = j
    BY <1>1, <1>4, <2>1 DEF PickedSoFar
  <2>3. \A j \in DOMAIN s : \E l \in DOMAIN outs : s[j] = outs[l]
    BY <1>4, <2>1 DEF PickedSoFar
  <2>4. \A l \in DOMAIN outs : l \in I => \E j \in DOMAIN s : s[j] = outs[l]
    BY <1>4, <2>1 DEF PickedSoFar
  <2> QED
    BY <2>1, <2>2, <2>3, <2>4
<1>6. ToSet(TaskBuffers(t, k)) = ToSet(ins) \cup ToSet(outs)
  BY ArgumentsAre DEF ins, outs
<1>7. ToSet(s) \subseteq ToSet(outs)
  BY <1>5 DEF ToSet
<1>8. ASSUME NEW l \in DOMAIN outs PROVE outs[l] \in ToSet(ins) \cup ToSet(s)
  <2>1. CASE l \in I
    BY <1>5, <2>1 DEF ToSet
  <2>2. CASE l \notin I
    <3>1. Contains(ins, outs[l])
      BY <2>2
    <3>2. DOMAIN ins = 1 .. Len(ins)
      BY <1>1
    <3> QED
      BY <3>1, <3>2 DEF Contains, ToSet
  <2> QED
    BY <2>1, <2>2
<1>9. ToSet(outs) \subseteq ToSet(ins) \cup ToSet(s)
  BY <1>8 DEF ToSet
<1> QED
  BY <1>5, <1>6, <1>7, <1>9 DEF s, ins

\* The arguments that a buffer is of tasks that have not run.
Pending(t, b, done) == {x \in Arguments(t) : x[1] \notin done /\ TaskBuffers(t, x[1])[x[2]] = b}

\* Arguments that are pending can be counted.
LEMMA PendingType ==
  ASSUME NEW t, WellMade(t), NEW b, NEW done
  PROVE  /\ IsFiniteSet(Pending(t, b, done)) /\ Cardinality(Pending(t, b, done)) \in Nat
         /\ Count(OutputsToDecrement(t), b) \in Nat
<1>1. Pending(t, b, done) \in SUBSET Arguments(t)
  BY DEF Pending
<1>2. IsFiniteSet(Pending(t, b, done))
  BY <1>1, BuffersAre
<1>3. PICK s \in Seq(Buffers(t)) : s = OutputsToDecrement(t)
  BY BuffersAre
<1> QED
  BY <1>2, <1>3, FS_CardinalityType, CountInSequence

\* What a task has left to read and write is used.
LEMMA ArgumentsPending ==
  ASSUME NEW t, WellMade(t), NEW done, NEW k \in Tasks(t), k \notin done, NEW b \in ToSet(TaskBuffers(t, k))
  PROVE  Cardinality(Pending(t, b, done)) > 0
<1>1. PICK i \in DOMAIN TaskBuffers(t, k) : TaskBuffers(t, k)[i] = b
  BY DEF ToSet
<1>2. DOMAIN t.tasks = Tasks(t)
  BY DEF WellMade, WellOrdered
<1>3. <<k, i>> \in Pending(t, b, done)
  BY <1>1, <1>2 DEF Pending, Arguments
<1>4. IsFiniteSet(Pending(t, b, done)) /\ Cardinality(Pending(t, b, done)) \in Nat
  BY PendingType
<1>5. Cardinality(Pending(t, b, done)) # 0
  BY <1>3, <1>4, FS_EmptySet
<1> QED
  BY <1>4, <1>5

\* What runs is not pending any more.
LEMMA PendingShrinks ==
  ASSUME NEW t, WellMade(t), NEW done, NEW k \in Tasks(t), k \notin done, NEW b
  PROVE  Cardinality(Pending(t, b, done)) = Cardinality(Pending(t, b, done \cup {k})) + Count(TaskBuffers(t, k), b)
<1> DEFINE s == TaskBuffers(t, k)
           A == Pending(t, b, done \cup {k})
           J == {i \in DOMAIN s : s[i] = b}
           C == {<<k, i>> : i \in J}
           g == [i \in J |-> <<k, i>>]
<1>1. DOMAIN t.tasks = Tasks(t)
  BY DEF WellMade, WellOrdered
<1>2. IsFiniteSet(J) /\ Count(s, b) = Cardinality(J)
  <2>1. PICK list \in Seq(Buffers(t)) : list = s
    BY BuffersAre
  <2> HIDE DEF s
  <2>2. IsFiniteSet(DOMAIN list)
    BY CountInSequence
  <2> QED
    BY <2>1, <2>2, CountType DEF Count
<1>3. IsFiniteSet(C) /\ Cardinality(C) = Cardinality(J)
  <2>1. \A i \in J : g[i] \in C
    OBVIOUS
  <2>2. \A c \in C : \E i \in J : g[i] = c
    OBVIOUS
  <2>3. \A i, j \in J : g[i] = g[j] => i = j
    OBVIOUS
  <2> HIDE DEF J, C, g
  <2> QED
    BY <1>2, <2>1, <2>2, <2>3, SameSize
<1>4. Pending(t, b, done) = A \cup C
  <2>1. \A x \in Arguments(t) : x[1] = k => x = <<k, x[2]>> /\ x[2] \in DOMAIN s
    BY <1>1 DEF Arguments
  <2>2. \A i \in DOMAIN s : <<k, i>> \in Arguments(t)
    BY <1>1 DEF Arguments
  <2>3. Pending(t, b, done) \subseteq A \cup C
    <3> SUFFICES ASSUME NEW x \in Pending(t, b, done), x[1] = k PROVE x \in C
      BY DEF Pending
    <3>1. x = <<k, x[2]>> /\ x[2] \in DOMAIN s /\ s[x[2]] = b
      BY <2>1 DEF Pending
    <3> QED
      BY <3>1
  <2>4. A \subseteq Pending(t, b, done)
    BY DEF Pending
  <2>5. C \subseteq Pending(t, b, done)
    BY <2>2 DEF Pending
  <2> QED
    BY <2>3, <2>4, <2>5
<1>5. A \cap C = {}
  BY DEF Pending
<1>6. IsFiniteSet(A)
  BY PendingType
<1>7. Cardinality(A \cup C) = Cardinality(A) + Cardinality(C)
  <2> HIDE DEF A, C
  <2> QED
    BY <1>3, <1>5, <1>6, SetsAddUp
<1> HIDE DEF A, C, J
<1> QED
  BY <1>2, <1>3, <1>4, <1>7 DEF A

\* Each piece of memory is in one place: a buffer, an FX output or the pool of its type.
Placed ==
  /\ DOMAIN content = Pieces(taskGraph)
  /\ at \in [DOMAIN taskGraph.buffers -> Pieces(taskGraph) \cup {Nowhere}]
  /\ fxOutputs \in Seq(Pieces(taskGraph))
  /\ free \in Filed(Types(taskGraph), Pieces(taskGraph))
  /\ \A m \in Pieces(taskGraph) : Uses(m) = 1

\* The usages are those that tasks and outputs still have, and a buffer has memory from when
\* it is written to its last use.
Counted ==
  /\ usages \in [DOMAIN taskGraph.buffers -> Nat]
  /\ \A b \in DOMAIN taskGraph.buffers :
       /\ usages[b] = Cardinality(Pending(taskGraph, b, Done)) + Count(OutputsToDecrement(taskGraph), b)
       /\ at[b] # Nowhere <=> usages[b] > 0 /\ b \in Written(taskGraph, Done \cup running)

MemoryInv ==
  /\ chunk = "unloaded" => DOMAIN content = {} /\ fxOutputs = <<>>
  /\ chunk # "unloaded" => Placed
  /\ chunk = "idle" => /\ fxOutputs = <<>> /\ \A b \in DOMAIN at : at[b] = Nowhere
                       /\ Len(free[RealType]) = PoolSize(taskGraph, RealType)
  /\ chunk = "tasks" => Counted
  /\ chunk \in {"mix", "done"} => \A b \in DOMAIN at : at[b] = Nowhere /\ usages[b] = 0
  /\ chunk = "done" => fxOutputs = <<>>

\* Initialized, all of the memory is in the pools.
LEMMA MemoryStarts ==
  ASSUME NEW t, WellMade(t), Initialize(t), fxOutputs = <<>>
  PROVE  /\ Placed' /\ fxOutputs' = <<>> /\ \A b \in DOMAIN at' : at'[b] = Nowhere
         /\ Len(free'[RealType]) = PoolSize(taskGraph', RealType)
<1> DEFINE T == Types(t)
           P == Pieces(t)
           pools == [type \in T |-> [i \in 1 .. PoolSize(t, type) |-> <<type, i>>]]
<1>1. /\ taskGraph' = t /\ fxOutputs' = <<>> /\ at' = [b \in DOMAIN t.buffers |-> Nowhere]
      /\ free' = pools /\ DOMAIN content' = UNION {ToSet(pools[type]) : type \in T}
  BY DEF Initialize, Types
<1>2. /\ RealType \in T /\ Nowhere \notin P /\ \A type \in T : PoolSize(t, type) \in Nat
      /\ \A m \in P : m[1] \in T
  BY PiecesAre
<1>3. \A type \in T : \A i \in 1 .. PoolSize(t, type) : <<type, i>> \in P
  BY <1>2 DEF Pieces
<1>4. \A m \in P : m = <<m[1], m[2]>> /\ m[2] \in 1 .. PoolSize(t, m[1])
  BY DEF Pieces
<1>5. \A type \in T : /\ pools[type] \in Seq(P) /\ Len(pools[type]) = PoolSize(t, type)
                      /\ DOMAIN pools[type] = 1 .. PoolSize(t, type)
                      /\ \A i \in 1 .. PoolSize(t, type) : pools[type][i] = <<type, i>>
  <2> HIDE DEF P, T
  <2> SUFFICES ASSUME NEW type \in T
               PROVE  /\ pools[type] \in Seq(P) /\ Len(pools[type]) = PoolSize(t, type)
                      /\ DOMAIN pools[type] = 1 .. PoolSize(t, type)
                      /\ \A i \in 1 .. PoolSize(t, type) : pools[type][i] = <<type, i>>
    OBVIOUS
  <2>1. pools[type] = [i \in 1 .. PoolSize(t, type) |-> <<type, i>>]
    OBVIOUS
  <2>2. pools[type] \in [1 .. PoolSize(t, type) -> P]
    BY <1>3, <2>1
  <2> HIDE DEF pools
  <2> QED
    BY <1>2, <2>1, <2>2
<1>6. free' \in Filed(T, P)
  <2>1. pools \in [T -> Seq(P)]
    <3>1. DOMAIN pools = T /\ pools = [type \in T |-> pools[type]]
      OBVIOUS
    <3> HIDE DEF pools, P, T
    <3> QED
      BY <1>5, <3>1
  <2>2. \A type \in T : \A i \in DOMAIN pools[type] : pools[type][i][1] = type
    <3> HIDE DEF pools, P, T
    <3> QED
      BY <1>5
  <2> HIDE DEF pools, P, T
  <2> QED
    BY <1>1, <2>1, <2>2 DEF Filed
<1>7. DOMAIN content' = P
  <2> HIDE DEF pools
  <2>1. \A type \in T : ToSet(pools[type]) \subseteq P
    <3> HIDE DEF P, T
    <3> QED
      BY <1>3, <1>5 DEF ToSet
  <2>2. \A m \in P : m \in ToSet(pools[m[1]])
    <3> HIDE DEF P, T
    <3> SUFFICES ASSUME NEW m \in P PROVE m \in ToSet(pools[m[1]])
      OBVIOUS
    <3>1. /\ m[1] \in T /\ m[2] \in 1 .. PoolSize(t, m[1]) /\ m = <<m[1], m[2]>>
      BY <1>2, <1>4
    <3>2. pools[m[1]][m[2]] = m /\ m[2] \in DOMAIN pools[m[1]]
      BY <1>5, <3>1
    <3> QED
      BY <3>2 DEF ToSet
  <2> HIDE DEF P, T
  <2> QED
    BY <1>1, <1>2, <2>1, <2>2
<1>8. ASSUME NEW m \in P PROVE Uses(m)' = 1
  <2> HIDE DEF P, T, pools
  <2>1. {b \in DOMAIN at' : at'[b] = m} = {} /\ {i \in DOMAIN fxOutputs' : fxOutputs'[i] = m} = {}
    BY <1>1, <1>2
  <2>2. Count(at', m) = 0 /\ Count(fxOutputs', m) = 0
    BY <2>1, FS_EmptySet DEF Count
  <2>3. {i \in DOMAIN pools[m[1]] : pools[m[1]][i] = m} = {m[2]}
    <3>1. /\ m[1] \in T /\ m[2] \in 1 .. PoolSize(t, m[1]) /\ m = <<m[1], m[2]>>
      BY <1>2, <1>4
    <3>2. \A i \in DOMAIN pools[m[1]] : i \in 1 .. PoolSize(t, m[1]) /\ pools[m[1]][i] = <<m[1], i>>
      BY <1>5, <3>1
    <3>3. m[2] \in DOMAIN pools[m[1]] /\ pools[m[1]][m[2]] = m
      BY <1>5, <3>1
    <3>4. \A i \in DOMAIN pools[m[1]] : pools[m[1]][i] = m => i = m[2]
      <4> SUFFICES ASSUME NEW i \in DOMAIN pools[m[1]], pools[m[1]][i] = m PROVE i = m[2]
        OBVIOUS
      <4>1. m = <<m[1], i>>
        BY <3>2
      <4>2. PICK type : type = m[1]
        OBVIOUS
      <4>3. m = <<type, i>>
        BY <4>1, <4>2
      <4> QED
        BY <4>3
    <3> QED
      BY <3>3, <3>4
  <2>4. Count(free'[m[1]], m) = 1
    BY <1>1, <2>3, FS_Singleton DEF Count
  <2> QED
    BY <2>2, <2>4 DEF Uses
<1>9. at' \in [DOMAIN t.buffers -> P \cup {Nowhere}]
  BY <1>1
<1>10. fxOutputs' \in Seq(P)
  BY <1>1
<1>11. Len(free'[RealType]) = PoolSize(t, RealType)
  BY <1>1, <1>2, <1>5
<1>12. Placed'
  <2> HIDE DEF pools
  <2> QED
    BY <1>1, <1>6, <1>7, <1>8, <1>9, <1>10 DEF Placed
<1> QED
  BY <1>1, <1>11, <1>12

\* A task is given the memory for what it writes.
LEMMA MemoryIsTaken ==
  ASSUME WellMade(taskGraph), Scheduled, Placed, Counted, NEW k \in ready, StartTask(k)
  PROVE  Placed' /\ Counted'
<1> DEFINE t == taskGraph
           T == Types(t)
           P == Pieces(t)
           B == DOMAIN t.buffers
           s == BuffersToAllocate(t, k)
           types == TypesOf(s)
           taking == Allocated(free, types)
<1>1. /\ taskGraph' = t /\ fxOutputs' = fxOutputs /\ content' = content /\ usages' = usages
      /\ free' = taking.free /\ ~taking.dry /\ running' = running \cup {k}
      /\ at' = [b \in DOMAIN at |-> IF Contains(s, b) THEN taking.taken[CHOOSE i \in DOMAIN s : s[i] = b]
                                                      ELSE at[b]]
  BY DEF StartTask
<1>2. Done' = Done
  BY TaskStarts
<1>3. k \in Tasks(t) /\ k \notin running /\ k \notin Done
  BY DEF Scheduled, Done
<1>4. /\ s \in Seq(Buffers(t)) /\ \A i, j \in DOMAIN s : s[i] = s[j] => i = j
      /\ ToSet(s) \subseteq ToSet(TaskBuffers(t, k))
  BY <1>3, ToAllocateIs
<1>5. /\ IsFiniteSet(B) /\ Buffers(t) \subseteq B
      /\ \A m \in P : m[1] \in T
      /\ Nowhere \notin P
  BY BuffersAre, PiecesAre
<1>6. /\ DOMAIN content = P /\ at \in [B -> P \cup {Nowhere}] /\ fxOutputs \in Seq(P)
      /\ free \in Filed(T, P) /\ \A m \in P : Uses(m) = 1
  BY DEF Placed
<1>7. /\ usages \in [B -> Nat]
      /\ \A b \in B :
           /\ usages[b] = Cardinality(Pending(t, b, Done)) + Count(OutputsToDecrement(t), b)
           /\ at[b] # Nowhere <=> usages[b] > 0 /\ b \in Written(t, Done \cup running)
  BY DEF Counted
<1>8. types \in Seq(T) /\ Len(types) = Len(s)
  <2>1. \A b \in Buffers(t) : t.buffers[b].type \in T
    BY DEF WellMade, WellBuffered
  <2>2. types = [i \in DOMAIN s |-> t.buffers[s[i]].type]
    BY DEF TypesOf
  <2>3. DOMAIN s = 1 .. Len(s) /\ Len(s) \in Nat /\ \A i \in DOMAIN s : s[i] \in Buffers(t)
    BY <1>4
  <2> HIDE DEF s, types, T
  <2>4. types \in [1 .. Len(s) -> T]
    BY <2>1, <2>2, <2>3
  <2> QED
    BY <2>3, <2>4
<1>9. \A b \in B : b \in Written(t, Done \cup (running \cup {k})) <=>
                     b \in Written(t, Done \cup running) \/ b \in ToSet(s)
  BY DEF Written
<1>10. \A b \in ToSet(s) : b \in B /\ at[b] = Nowhere /\ usages[b] > 0
  <2> SUFFICES ASSUME NEW b \in ToSet(s) PROVE b \in B /\ at[b] = Nowhere /\ usages[b] > 0
    OBVIOUS
  <2>1. b \in B
    BY <1>4, <1>5 DEF ToSet
  <2>2. b \notin Written(t, Tasks(t) \ {k})
    BY <1>3 DEF WellMade, WellShared
  <2>3. Done \cup running \subseteq Tasks(t) \ {k}
    BY <1>3 DEF Scheduled, Done
  <2>4. b \notin Written(t, Done \cup running)
    BY <2>2, <2>3 DEF Written
  <2>5. Cardinality(Pending(t, b, Done)) > 0
    BY <1>3, <1>4, ArgumentsPending
  <2>6. Cardinality(Pending(t, b, Done)) \in Nat /\ Count(OutputsToDecrement(t), b) \in Nat
    BY PendingType
  <2>7. usages[b] > 0
    BY <1>7, <2>1, <2>5, <2>6
  <2> QED
    BY <1>7, <2>1, <2>4, <2>7
<1> HIDE DEF types, s
<1>11. TakenSoFar(T, P, free, types, Len(types), taking)
  BY <1>5, <1>6, <1>8, AllocatedIs
<1> HIDE DEF taking
<1>12. /\ taking.free \in Filed(T, P) /\ taking.taken \in Seq(P) /\ Len(taking.taken) = Len(s)
       /\ \A x \in P : Count(free[x[1]], x) = Count(taking.free[x[1]], x) + Count(taking.taken, x)
  BY <1>1, <1>8, <1>11 DEF TakenSoFar
<1> HIDE DEF T, P, B, t
<1>13. DOMAIN s = 1 .. Len(s) /\ DOMAIN taking.taken = DOMAIN s /\ \A i \in DOMAIN s : taking.taken[i] \in P
  BY <1>4, <1>12
<1>14. /\ DOMAIN at' = B
       /\ \A b \in B : Contains(s, b) <=> b \in ToSet(s)
       /\ \A b \in B : b \in ToSet(s) => \E i \in DOMAIN s : s[i] = b /\ at'[b] = taking.taken[i]
       /\ \A b \in B : b \notin ToSet(s) => at'[b] = at[b]
  <2>1. DOMAIN at = B
    BY <1>6
  <2>2. \A b : Contains(s, b) <=> b \in ToSet(s)
    BY <1>13 DEF Contains, ToSet
  <2>3. \A b : b \in ToSet(s) => (CHOOSE i \in DOMAIN s : s[i] = b) \in DOMAIN s
                                  /\ s[CHOOSE i \in DOMAIN s : s[i] = b] = b
    BY DEF ToSet
  <2> QED
    BY <1>1, <2>1, <2>2, <2>3
<1>15. at' \in [B -> P \cup {Nowhere}]
  <2>1. \A b \in B : at'[b] \in P \cup {Nowhere}
    BY <1>6, <1>13, <1>14
  <2>2. at' = [b \in DOMAIN at' |-> at'[b]]
    BY <1>1
  <2> QED
    BY <1>14, <2>1, <2>2
<1>16. ASSUME NEW x \in P PROVE Uses(x)' = 1
  <2>1. Count(at', x) = Count(at, x) + Count(taking.taken, x)
    <3> DEFINE I == DOMAIN s
    <3>1. PICK new : new = at'
      OBVIOUS
    <3>2. PICK f : f = at
      OBVIOUS
    <3>3. PICK list \in Seq(P) : list = taking.taken
      BY <1>12
    <3>4. Handed(B, f, list, I, s, new)
      <4>1. DOMAIN f = B /\ DOMAIN new = B /\ \A i \in I : s[i] \in B
        BY <1>4, <1>5, <1>6, <1>14, <3>1, <3>2
      <4>2. \A b \in B : (\E i \in I : s[i] = b) => \E i \in I : s[i] = b /\ new[b] = list[i]
        BY <1>14, <3>1, <3>3 DEF ToSet
      <4>3. \A b \in B : (\A i \in I : s[i] # b) => new[b] = f[b]
        BY <1>14, <3>1, <3>2 DEF ToSet
      <4> QED
        BY <1>4, <4>1, <4>2, <4>3 DEF Handed
    <3>5. I = DOMAIN list /\ \A i \in I : f[s[i]] # x
      <4>1. \A i \in I : s[i] \in ToSet(s)
        BY DEF ToSet
      <4> QED
        BY <1>5, <1>10, <1>13, <3>2, <3>3, <4>1
    <3> HIDE DEF I
    <3>6. Count(new, x) = Count(f, x) + CountAt(I, list, x)
      BY <1>5, <3>4, <3>5, HandedOut
    <3> QED
      BY <3>1, <3>2, <3>3, <3>5, <3>6 DEF Count, CountAt
  <2>2. Count(free[x[1]], x) = Count(taking.free[x[1]], x) + Count(taking.taken, x)
    BY <1>12
  <2>3. Count(at, x) + Count(fxOutputs, x) + Count(free[x[1]], x) = 1
    BY <1>6 DEF Uses
  <2>4. Count(at, x) \in Nat
    <3>1. IsFiniteSet(DOMAIN at)
      BY <1>5, <1>6
    <3> QED
      BY <3>1, CountType
  <2>5. Count(fxOutputs, x) \in Nat
    BY <1>6, CountInSequence
  <2>6. Count(taking.taken, x) \in Nat
    BY <1>12, CountInSequence
  <2>7. Count(taking.free[x[1]], x) \in Nat
    <3>1. taking.free[x[1]] \in Seq(P)
      BY <1>5, <1>12 DEF Filed
    <3> QED
      BY <3>1, CountInSequence
  <2>8. Count(at', x) + Count(fxOutputs, x) + Count(taking.free[x[1]], x) = 1
    BY <2>1, <2>2, <2>3, <2>4, <2>5, <2>6, <2>7
  <2> QED
    BY <1>1, <2>8 DEF Uses
<1>17. Placed'
  BY <1>1, <1>6, <1>12, <1>15, <1>16 DEF Placed, t, T, P, B
<1>18. ASSUME NEW b \in B
       PROVE  at'[b] # Nowhere <=> usages[b] > 0 /\ b \in Written(t, Done \cup (running \cup {k}))
  <2>1. CASE b \in ToSet(s)
    <3>1. at'[b] \in P
      BY <1>13, <1>14, <2>1
    <3> QED
      BY <1>5, <1>9, <1>10, <2>1, <3>1
  <2>2. CASE b \notin ToSet(s)
    BY <1>7, <1>9, <1>14, <2>2
  <2> QED
    BY <2>1, <2>2
<1>19. Counted'
  BY <1>1, <1>2, <1>7, <1>18 DEF Counted, t, B
<1> QED
  BY <1>17, <1>19

\* The memory of buffers that are used no more is given back, and no other.
LEMMA MemoryIsGivenBack ==
  ASSUME WellMade(taskGraph), Placed, Counted, NEW buffers \in Seq(Buffers(taskGraph)),
         \A b \in DOMAIN taskGraph.buffers : Count(buffers, b) <= usages[b],
         \A i \in DOMAIN buffers : at[buffers[i]] # Nowhere,
         usages' = Decremented(buffers).usages, at' = Decremented(buffers).at,
         free' = Decremented(buffers).free, taskGraph' = taskGraph, fxOutputs' = fxOutputs,
         DOMAIN content' = DOMAIN content
  PROVE  /\ Placed' /\ usages' \in [DOMAIN taskGraph.buffers -> Nat]
         /\ \A b \in DOMAIN taskGraph.buffers :
              /\ usages[b] \in Nat /\ usages'[b] \in Nat /\ usages'[b] = usages[b] - Count(buffers, b)
              /\ at'[b] = IF usages'[b] = 0 THEN Nowhere ELSE at[b]
<1> DEFINE t == taskGraph
           T == Types(t)
           P == Pieces(t)
           B == DOMAIN t.buffers
           s == Decremented(buffers)
<1>1. /\ IsFiniteSet(B) /\ Buffers(t) \subseteq B
      /\ \A m \in P : m[1] \in T
      /\ Nowhere \notin P
  BY BuffersAre, PiecesAre
<1>2. /\ DOMAIN content = P /\ at \in [B -> P \cup {Nowhere}] /\ fxOutputs \in Seq(P)
      /\ free \in Filed(T, P) /\ \A m \in P : Uses(m) = 1
  BY DEF Placed
<1>3. usages \in [B -> Nat] /\ \A b \in B : usages[b] = 0 => at[b] = Nowhere
  <2>1. usages \in [B -> Nat] /\ \A b \in B : at[b] # Nowhere => usages[b] > 0
    BY DEF Counted
  <2> HIDE DEF B
  <2> QED
    BY <2>1
<1> HIDE DEF T, P, B
<1>4. buffers \in Seq(B)
  BY <1>1
<1>5. DecrementedSoFar(T, P, B, buffers, Len(buffers), s)
  <2>1. \A b \in B : Count(buffers, b) <= usages[b]
    BY DEF B
  <2> QED
    BY <1>1, <1>2, <1>3, <1>4, <2>1, DecrementedIs
<1>6. /\ usages' = s.usages /\ at' = s.at /\ free' = s.free
  OBVIOUS
<1> HIDE DEF s
<1>7. /\ usages' \in [B -> Nat] /\ at' \in [B -> P \cup {Nowhere}] /\ free' \in Filed(T, P)
      /\ \A b \in B : /\ usages'[b] = usages[b] - Before(buffers, Len(buffers), b)
                      /\ at'[b] = IF usages'[b] = 0 THEN Nowhere ELSE at[b]
      /\ \A x \in P : Count(at', x) + Count(free'[x[1]], x) = Count(at, x) + Count(free[x[1]], x)
  BY <1>5, <1>6 DEF DecrementedSoFar
<1>8. \A b \in B : Before(buffers, Len(buffers), b) = Count(buffers, b)
  BY <1>4, BeforeIs
<1>9. ASSUME NEW x \in P PROVE Uses(x)' = 1
  <2>1. Count(at, x) + Count(fxOutputs, x) + Count(free[x[1]], x) = 1
    BY <1>2 DEF Uses
  <2>2. Count(at, x) \in Nat /\ Count(at', x) \in Nat
    <3>1. IsFiniteSet(DOMAIN at) /\ IsFiniteSet(DOMAIN at')
      BY <1>1, <1>2, <1>7
    <3> QED
      BY <3>1, CountType
  <2>3. Count(fxOutputs, x) \in Nat
    BY <1>2, CountInSequence
  <2>4. Count(free[x[1]], x) \in Nat /\ Count(free'[x[1]], x) \in Nat
    <3>1. free[x[1]] \in Seq(P) /\ free'[x[1]] \in Seq(P)
      BY <1>1, <1>2, <1>7 DEF Filed
    <3> QED
      BY <3>1, CountInSequence
  <2>5. Count(at', x) + Count(free'[x[1]], x) = Count(at, x) + Count(free[x[1]], x)
    BY <1>7
  <2>6. Count(at', x) + Count(fxOutputs, x) + Count(free'[x[1]], x) = 1
    BY <2>1, <2>2, <2>3, <2>4, <2>5
  <2> QED
    BY <2>6 DEF Uses
<1>10. Placed'
  BY <1>2, <1>7, <1>9 DEF Placed, T, P, B
<1>11. \A b \in B : usages[b] \in Nat /\ usages'[b] \in Nat /\ usages'[b] = usages[b] - Count(buffers, b)
  BY <1>3, <1>7, <1>8
<1> QED
  BY <1>7, <1>10, <1>11 DEF B

\* A task that ends has used its buffers.
LEMMA MemoryIsUsed ==
  ASSUME WellMade(taskGraph), Scheduled, Placed, Counted, NEW k \in running, FinishTask(k)
  PROVE  Placed' /\ Counted'
<1> DEFINE t == taskGraph
           B == DOMAIN t.buffers
<1>1. PICK s \in Seq(Buffers(t)) : s = TaskBuffers(t, k)
  BY BuffersAre DEF Scheduled
<1>2. /\ taskGraph' = t /\ fxOutputs' = fxOutputs /\ DOMAIN content' = DOMAIN content
      /\ usages' = Decremented(s).usages /\ at' = Decremented(s).at /\ free' = Decremented(s).free
      /\ running' = running \ {k}
  BY <1>1 DEF FinishTask
<1>3. Done' = Done \cup {k} /\ k \notin Done /\ k \in Tasks(t) /\ WellOrdered(t)
  BY TaskEnds DEF Scheduled, WellMade
<1>4. /\ usages \in [B -> Nat]
      /\ \A b \in B :
           /\ usages[b] = Cardinality(Pending(t, b, Done)) + Count(OutputsToDecrement(t), b)
           /\ at[b] # Nowhere <=> usages[b] > 0 /\ b \in Written(t, Done \cup running)
  BY DEF Counted
<1>5. IsFiniteSet(B) /\ Buffers(t) \subseteq B
  BY BuffersAre
<1>6. ASSUME NEW b \in B
      PROVE  /\ Cardinality(Pending(t, b, Done)) = Cardinality(Pending(t, b, Done \cup {k})) + Count(s, b)
             /\ Cardinality(Pending(t, b, Done \cup {k})) \in Nat /\ Cardinality(Pending(t, b, Done)) \in Nat
             /\ Count(s, b) \in Nat /\ Count(OutputsToDecrement(t), b) \in Nat
  <2>1. Cardinality(Pending(t, b, Done)) = Cardinality(Pending(t, b, Done \cup {k})) + Count(TaskBuffers(t, k), b)
    BY <1>3, PendingShrinks
  <2>2. Count(s, b) \in Nat
    BY CountInSequence
  <2> QED
    BY <1>1, <2>1, <2>2, PendingType
<1>7. \A b \in B : Count(s, b) <= usages[b]
  BY <1>4, <1>6
<1>8. ASSUME NEW i \in DOMAIN s PROVE at[s[i]] # Nowhere
  <2> DEFINE b == s[i]
  <2>1. b \in ToSet(TaskBuffers(t, k)) /\ b \in B
    BY <1>1, <1>5 DEF ToSet
  <2>2. b \in ToSet(InputBuffers(t, k)) \cup ToSet(BuffersToAllocate(t, k))
    BY <1>3, <2>1, ToAllocateIs
  <2> HIDE DEF b
  <2>3. ToSet(InputBuffers(t, k)) \subseteq Written(t, t.rows[k])
    BY <1>3 DEF WellMade, WellShared
  <2>4. t.rows[k] \subseteq Done
    BY <1>3, ScheduledBefore DEF Scheduled
  <2>5. Written(t, t.rows[k]) \subseteq Written(t, Done \cup running)
    BY <2>4 DEF Written
  <2>6. ToSet(BuffersToAllocate(t, k)) \subseteq Written(t, Done \cup running)
    BY DEF Written
  <2>7. Cardinality(Pending(t, b, Done)) > 0
    BY <1>3, <2>1, ArgumentsPending
  <2>8. usages[b] > 0
    BY <1>4, <1>6, <2>1, <2>7
  <2> QED
    BY <1>4, <2>1, <2>2, <2>3, <2>5, <2>6, <2>8 DEF b
<1>9. /\ Placed' /\ usages' \in [B -> Nat]
      /\ \A b \in B :
           /\ usages[b] \in Nat /\ usages'[b] \in Nat /\ usages'[b] = usages[b] - Count(s, b)
           /\ at'[b] = IF usages'[b] = 0 THEN Nowhere ELSE at[b]
  BY <1>2, <1>7, <1>8, MemoryIsGivenBack
<1>10. Done' \cup running' = Done \cup running
  BY <1>2, <1>3
<1>11. ASSUME NEW b \in B
       PROVE  /\ usages'[b] = Cardinality(Pending(t, b, Done')) + Count(OutputsToDecrement(t), b)
              /\ at'[b] # Nowhere <=> usages'[b] > 0 /\ b \in Written(t, Done' \cup running')
  <2>1. usages'[b] = Cardinality(Pending(t, b, Done')) + Count(OutputsToDecrement(t), b)
    <3>1. usages'[b] = usages[b] - Count(s, b)
      BY <1>9
    <3>2. usages[b] = Cardinality(Pending(t, b, Done)) + Count(OutputsToDecrement(t), b)
      BY <1>4
    <3>3. Pending(t, b, Done') = Pending(t, b, Done \cup {k})
      BY <1>3
    <3> HIDE DEF B, t
    <3>4. PICK x \in Nat, y \in Nat, n \in Nat, o \in Nat :
            /\ x = Cardinality(Pending(t, b, Done)) /\ y = Cardinality(Pending(t, b, Done \cup {k}))
            /\ n = Count(s, b) /\ o = Count(OutputsToDecrement(t), b) /\ x = y + n
      BY <1>6
    <3>5. usages'[b] = y + o
      BY <3>1, <3>2, <3>4
    <3> QED
      BY <3>3, <3>4, <3>5
  <2>2. at'[b] # Nowhere <=> usages'[b] # 0 /\ at[b] # Nowhere
    BY <1>9
  <2>3. usages'[b] > 0 => usages[b] > 0
    <3>1. usages[b] \in Nat /\ usages'[b] \in Nat /\ usages'[b] = usages[b] - Count(s, b) /\ Count(s, b) \in Nat
      BY <1>6, <1>9
    <3> QED
      BY <3>1
  <2>4. usages'[b] # 0 <=> usages'[b] > 0
    BY <1>9
  <2>5. at'[b] # Nowhere <=> usages'[b] > 0 /\ b \in Written(t, Done \cup running)
    BY <1>4, <2>2, <2>3, <2>4
  <2> QED
    BY <1>10, <2>1, <2>5
<1>12. Counted'
  BY <1>2, <1>9, <1>11 DEF Counted
<1> QED
  BY <1>9, <1>12

\* When all tasks have run and the outputs are copied, no buffer has memory any more.
LEMMA MemoryIsStored ==
  ASSUME WellMade(taskGraph), Scheduled, Placed, Counted, StoreOutput
  PROVE  Placed' /\ \A b \in DOMAIN at' : at'[b] = Nowhere /\ usages'[b] = 0
<1> DEFINE t == taskGraph
           B == DOMAIN t.buffers
<1>1. PICK s \in Seq(Buffers(t)) : s = OutputsToDecrement(t)
  BY BuffersAre
<1>2. /\ taskGraph' = t /\ fxOutputs' = fxOutputs /\ DOMAIN content' = DOMAIN content
      /\ usages' = Decremented(s).usages /\ at' = Decremented(s).at /\ free' = Decremented(s).free
      /\ remaining = 0
  BY <1>1 DEF StoreOutput
<1>3. Tasks(t) \subseteq Done /\ WellOrdered(t)
  <2>1. WellOrdered(t)
    BY DEF WellMade
  <2>2. Tasks(t) \ Done \in SUBSET Tasks(t) /\ Cardinality(Tasks(t) \ Done) = 0
    BY <1>2 DEF Scheduled
  <2>3. IsFiniteSet(Tasks(t) \ Done)
    BY <2>1, <2>2, FewTasks
  <2>4. Tasks(t) \ Done = {}
    BY <2>2, <2>3, FS_EmptySet
  <2> QED
    BY <2>1, <2>4
<1>4. /\ usages \in [B -> Nat]
      /\ \A b \in B :
           /\ usages[b] = Cardinality(Pending(t, b, Done)) + Count(OutputsToDecrement(t), b)
           /\ at[b] # Nowhere <=> usages[b] > 0 /\ b \in Written(t, Done \cup running)
  BY DEF Counted
<1>5. IsFiniteSet(B) /\ Buffers(t) \subseteq B
  BY BuffersAre
<1>6. \A b \in B : usages[b] = Count(s, b) /\ Count(s, b) \in Nat
  <2> SUFFICES ASSUME NEW b \in B PROVE usages[b] = Count(s, b) /\ Count(s, b) \in Nat
    OBVIOUS
  <2>1. \A x \in Arguments(t) : x[1] \in Done
    <3>1. DOMAIN t.tasks = Tasks(t)
      BY <1>3 DEF WellOrdered
    <3>2. \A x \in Arguments(t) : x[1] \in Tasks(t)
      BY <3>1 DEF Arguments
    <3> QED
      BY <1>3, <3>2
  <2>2. Pending(t, b, Done) = {}
    BY <2>1 DEF Pending
  <2>3. Cardinality(Pending(t, b, Done)) = 0
    BY <2>2, FS_EmptySet
  <2>4. Count(s, b) \in Nat
    BY CountInSequence
  <2> QED
    BY <1>1, <1>4, <2>3, <2>4
<1>7. \A b \in B : Count(s, b) <= usages[b]
  BY <1>6
<1>8. ASSUME NEW i \in DOMAIN s PROVE at[s[i]] # Nowhere
  <2> DEFINE b == s[i]
  <2>1. b \in ToSet(OutputsToDecrement(t)) /\ b \in B
    BY <1>1, <1>5 DEF ToSet
  <2>2. b \in Written(t, Done \cup running)
    <3>1. b \in Written(t, Tasks(t))
      BY <2>1 DEF WellMade, WellShared
    <3> QED
      BY <1>3, <3>1 DEF Written
  <2>3. Count(s, b) # 0
    <3>1. IsFiniteSet(DOMAIN s)
      BY CountInSequence
    <3> QED
      BY <3>1, CountType
  <2> HIDE DEF b
  <2>4. usages[b] > 0
    BY <1>6, <2>1, <2>3
  <2> QED
    BY <1>4, <2>1, <2>2, <2>4 DEF b
<1>9. /\ Placed'
      /\ \A b \in B :
           /\ usages[b] \in Nat /\ usages'[b] \in Nat /\ usages'[b] = usages[b] - Count(s, b)
           /\ at'[b] = IF usages'[b] = 0 THEN Nowhere ELSE at[b]
  BY <1>2, <1>7, <1>8, MemoryIsGivenBack
<1>10. DOMAIN at' = B
  BY <1>2, <1>9 DEF Placed
<1>11. \A b \in B : usages'[b] = 0
  BY <1>6, <1>9
<1> QED
  BY <1>9, <1>10, <1>11

\* Once the outputs are mixed, what they and the channels were in is free.
LEMMA MemoryIsMixed ==
  ASSUME WellMade(taskGraph), Placed, MixOutput
  PROVE  Placed'
<1> DEFINE t == taskGraph
           T == Types(t)
           P == Pieces(t)
           B == DOMAIN t.buffers
           types == Reals(OutChannels)
           mixing == Allocated(free, types)
           stored == Freed(mixing.free, fxOutputs)
<1>1. /\ taskGraph' = t /\ fxOutputs' = <<>> /\ content' = content /\ at' = at
      /\ free' = Freed(stored, mixing.taken)
  BY DEF MixOutput
<1>2. IsFiniteSet(B) /\ RealType \in T /\ \A m \in P : m[1] \in T
  BY BuffersAre, PiecesAre
<1>3. /\ DOMAIN content = P /\ at \in [B -> P \cup {Nowhere}] /\ fxOutputs \in Seq(P)
      /\ free \in Filed(T, P) /\ \A m \in P : Uses(m) = 1
  BY DEF Placed
<1> HIDE DEF T, P, B, t
<1>4. types \in Seq(T)
  <2>1. types \in [1 .. OutChannels -> T] /\ OutChannels \in Nat
    BY <1>2, ChannelsAssumption DEF Reals
  <2> QED
    BY <2>1
<1> HIDE DEF types
<1>5. TakenSoFar(T, P, free, types, Len(types), mixing)
  BY <1>2, <1>3, <1>4, AllocatedIs
<1> HIDE DEF mixing
<1>6. /\ mixing.free \in Filed(T, P) /\ mixing.taken \in Seq(P)
      /\ \A x \in P : Count(free[x[1]], x) = Count(mixing.free[x[1]], x) + Count(mixing.taken, x)
  BY <1>5 DEF TakenSoFar
<1>7. PICK pools \in Filed(T, P), taken \in Seq(P) : pools = mixing.free /\ taken = mixing.taken
  BY <1>6
<1>8. /\ stored \in Filed(T, P)
      /\ \A x \in P : Count(stored[x[1]], x) = Count(pools[x[1]], x) + Count(fxOutputs, x)
  BY <1>2, <1>3, <1>7, FreedIs
<1> HIDE DEF stored
<1>9. /\ free' \in Filed(T, P)
      /\ \A x \in P : Count(free'[x[1]], x) = Count(stored[x[1]], x) + Count(taken, x)
  BY <1>1, <1>2, <1>7, <1>8, FreedIs
<1>10. ASSUME NEW x \in P PROVE Uses(x)' = 1
  <2>1. Count(at, x) + Count(fxOutputs, x) + Count(free[x[1]], x) = 1
    BY <1>3 DEF Uses
  <2>2. Count(at, x) \in Nat
    BY <1>2, <1>3, CountType
  <2>3. Count(fxOutputs, x) \in Nat /\ Count(taken, x) \in Nat /\ Count(<<>>, x) = 0
    <3>1. Count(<<>>, x) = 0
      BY FS_EmptySet DEF Count
    <3> QED
      BY <1>3, <3>1, CountInSequence
  <2>4. Count(pools[x[1]], x) \in Nat
    <3>1. pools[x[1]] \in Seq(P)
      BY <1>2 DEF Filed
    <3> QED
      BY <3>1, CountInSequence
  <2>5. Count(at, x) + 0 + Count(free'[x[1]], x) = 1
    BY <1>6, <1>7, <1>8, <1>9, <2>1, <2>2, <2>3, <2>4
  <2> QED
    BY <1>1, <2>3, <2>5 DEF Uses
<1>11. fxOutputs' \in Seq(P)
  BY <1>1
<1> QED
  BY <1>1, <1>3, <1>9, <1>10, <1>11 DEF Placed, T, P, B, t

\* The channels need memory only while they are mixed into the inputs; there is enough for both.
LEMMA InputsAreMixed ==
  ASSUME NEW t, WellMade(t), NEW pools \in Filed(Types(t), Pieces(t)),
         Len(pools[RealType]) = PoolSize(t, RealType)
  PROVE  /\ MixedInput(t, pools).free \in Filed(Types(t), Pieces(t))
         /\ MixedInput(t, pools).inputs \in Seq(Pieces(t))
         /\ Len(MixedInput(t, pools).inputs) = InputCount(t)
         /\ \A x \in Pieces(t) :
              Count(pools[x[1]], x) = Count(MixedInput(t, pools).free[x[1]], x)
                                      + Count(MixedInput(t, pools).inputs, x)
<1> DEFINE T == Types(t)
           P == Pieces(t)
           c == ChannelCount(t)
           n == ChannelCount(t) + InputCount(t)
           types == Reals(n)
           mixing == Allocated(pools, types)
           channels == SubSeq(mixing.taken, 1, c)
           inputs == SubSeq(mixing.taken, c + 1, n)
           given == Freed(mixing.free, channels)
<1>1. MixedInput(t, pools).free = given /\ MixedInput(t, pools).inputs = inputs
  BY DEF MixedInput
<1>2. /\ RealType \in T /\ \A m \in P : m[1] \in T
      /\ c \in Nat /\ InputCount(t) \in Nat /\ PoolSize(t, RealType) >= n
  BY PiecesAre
<1>3. n \in Nat /\ n - c = InputCount(t) /\ c \in 0 .. n
  <2> HIDE DEF c
  <2>1. n = c + InputCount(t)
    BY DEF c
  <2> HIDE DEF n
  <2> QED
    BY <1>2, <2>1
<1> HIDE DEF T, P, c, n
<1>4. types \in Seq(T) /\ Len(types) = n /\ \A i \in 1 .. Len(types) : types[i] = RealType
  <2>1. types \in [1 .. n -> T] /\ types = [i \in 1 .. n |-> RealType]
    BY <1>2 DEF Reals
  <2> HIDE DEF types
  <2> QED
    BY <1>3, <2>1
<1> HIDE DEF types
<1>5. pools \in Filed(T, P) /\ Enough(pools, types, RealType)
  <2>1. Len(types) <= Len(pools[RealType])
    BY <1>2, <1>4
  <2> QED
    BY <1>4, <2>1 DEF Enough, T, P
<1>6. TakenSoFar(T, P, pools, types, Len(types), mixing)
  BY <1>2, <1>4, <1>5, AllocatedIs
<1> HIDE DEF mixing
<1>7. /\ mixing.free \in Filed(T, P) /\ mixing.taken \in Seq(P) /\ Len(mixing.taken) = n
      /\ \A x \in P : Count(pools[x[1]], x) = Count(mixing.free[x[1]], x) + Count(mixing.taken, x)
  BY <1>2, <1>4, <1>5, <1>6 DEF TakenSoFar
<1>8. /\ channels \in Seq(P) /\ inputs \in Seq(P) /\ Len(inputs) = n - c
      /\ \A x : Count(mixing.taken, x) = Count(channels, x) + Count(inputs, x)
  <2>1. PICK taken \in Seq(P) : taken = mixing.taken /\ Len(taken) = n
    BY <1>7
  <2> QED
    BY <1>3, <2>1, CountParts
<1>9. PICK rest \in Filed(T, P), first \in Seq(P) : rest = mixing.free /\ first = channels
  BY <1>7, <1>8
<1>10. /\ given \in Filed(T, P)
       /\ \A x \in P : Count(given[x[1]], x) = Count(rest[x[1]], x) + Count(first, x)
  <2>1. /\ Freed(rest, first) \in Filed(T, P)
        /\ \A x \in P : Count(Freed(rest, first)[x[1]], x) = Count(rest[x[1]], x) + Count(first, x)
    BY <1>2, FreedIs
  <2>2. given = Freed(rest, first)
    BY <1>9
  <2> QED
    BY <2>1, <2>2
<1> HIDE DEF given, channels, inputs
<1>11. ASSUME NEW x \in P PROVE Count(pools[x[1]], x) = Count(given[x[1]], x) + Count(inputs, x)
  <2>1. Count(rest[x[1]], x) \in Nat
    <3>1. rest[x[1]] \in Seq(P)
      BY <1>2 DEF Filed
    <3> QED
      BY <3>1, CountInSequence
  <2>2. Count(first, x) \in Nat /\ Count(inputs, x) \in Nat
    BY <1>8, CountInSequence
  <2> QED
    BY <1>7, <1>8, <1>9, <1>10, <2>1, <2>2
<1> QED
  BY <1>1, <1>3, <1>8, <1>10, <1>11 DEF T, P

\* At first every argument is pending.
LEMMA UsagesAtFirst ==
  ASSUME NEW t, WellMade(t)
  PROVE  /\ InitialUsages(t) \in [DOMAIN t.buffers -> Nat]
         /\ \A b \in DOMAIN t.buffers :
              InitialUsages(t)[b] = Cardinality(Pending(t, b, {})) + Count(OutputsToDecrement(t), b)
<1> DEFINE B == DOMAIN t.buffers
<1>1. ASSUME NEW b \in B
      PROVE  {x \in Arguments(t) : TaskBuffers(t, x[1])[x[2]] = b} = Pending(t, b, {})
  BY DEF Pending
<1>2. InitialUsages(t) = [b \in B |-> Cardinality(Pending(t, b, {})) + Count(OutputsToDecrement(t), b)]
  BY <1>1 DEF InitialUsages
<1>3. \A b \in B : Cardinality(Pending(t, b, {})) + Count(OutputsToDecrement(t), b) \in Nat
  <2> SUFFICES ASSUME NEW b \in B
               PROVE  Cardinality(Pending(t, b, {})) + Count(OutputsToDecrement(t), b) \in Nat
    OBVIOUS
  <2>1. PICK x \in Nat, y \in Nat : x = Cardinality(Pending(t, b, {})) /\ y = Count(OutputsToDecrement(t), b)
    BY PendingType
  <2> QED
    BY <2>1
<1> HIDE DEF B
<1> QED
  BY <1>2, <1>3 DEF B

\* The memory of an input is that of its buffer, or left over when nothing uses the buffer.
LEMMA InputsAreTransferred ==
  ASSUME NEW t, WellMade(t), NEW inputs \in Seq(Pieces(t)), Len(inputs) = InputCount(t)
  PROVE  /\ Transferred(t, inputs).at \in [DOMAIN t.buffers -> Pieces(t) \cup {Nowhere}]
         /\ Transferred(t, inputs).unused \in Seq(Pieces(t))
         /\ \A x \in Pieces(t) :
              Count(inputs, x) = Count(Transferred(t, inputs).at, x) + Count(Transferred(t, inputs).unused, x)
         /\ \A b \in DOMAIN t.buffers :
              Transferred(t, inputs).at[b] # Nowhere <=> InitialUsages(t)[b] > 0 /\ b \in Inputs(t)
<1> DEFINE P == Pieces(t)
           B == DOMAIN t.buffers
           used(i) == InitialUsages(t)[t.inputs[i - 1]] > 0
           owner(b) == {i \in DOMAIN inputs : t.inputs[i - 1] = b /\ used(i)}
           new == [b \in B |-> IF owner(b) = {} THEN Nowhere ELSE inputs[CHOOSE i \in owner(b) : TRUE]]
           I == {i \in DOMAIN inputs : used(i)}
           J == {i \in DOMAIN inputs : ~used(i)}
           unused == Picked(inputs, J)
           f == [b \in B |-> Nowhere]
           g == [i \in DOMAIN inputs |-> t.inputs[i - 1]]
<1>1. Transferred(t, inputs).at = new /\ Transferred(t, inputs).unused = unused
  BY DEF Transferred
<1>2. /\ InputCount(t) \in Nat /\ t.inputs \in [0 .. InputCount(t) - 1 -> B]
      /\ \A i, j \in DOMAIN t.inputs : t.inputs[i] = t.inputs[j] => i = j
  BY BuffersAre DEF WellMade, WellBuffered
<1>3. IsFiniteSet(B) /\ Nowhere \notin P
  BY BuffersAre, PiecesAre
<1> HIDE DEF P, B
<1>4. DOMAIN inputs = 1 .. InputCount(t) /\ \A i \in DOMAIN inputs : inputs[i] \in P
  BY DEF P
<1>5. \A i \in DOMAIN inputs : i - 1 \in DOMAIN t.inputs /\ t.inputs[i - 1] \in B
  BY <1>2, <1>4
<1>6. \A i, j \in DOMAIN inputs : t.inputs[i - 1] = t.inputs[j - 1] => i = j
  <2> SUFFICES ASSUME NEW i \in DOMAIN inputs, NEW j \in DOMAIN inputs, t.inputs[i - 1] = t.inputs[j - 1]
               PROVE  i = j
    OBVIOUS
  <2>1. i - 1 = j - 1
    BY <1>2, <1>5
  <2> QED
    BY <1>4, <2>1
<1>7. \A b \in B : b \in Inputs(t) <=> \E i \in DOMAIN inputs : t.inputs[i - 1] = b
  <2> SUFFICES ASSUME NEW b \in B PROVE b \in Inputs(t) <=> \E i \in DOMAIN inputs : t.inputs[i - 1] = b
    OBVIOUS
  <2>1. ASSUME NEW i \in DOMAIN t.inputs, t.inputs[i] = b PROVE \E j \in DOMAIN inputs : t.inputs[j - 1] = b
    <3>1. i \in 0 .. InputCount(t) - 1
      BY <1>2
    <3>2. i + 1 \in DOMAIN inputs /\ (i + 1) - 1 = i
      BY <1>2, <1>4, <3>1
    <3> QED
      BY <2>1, <3>2
  <2> QED
    BY <1>5, <2>1 DEF Inputs
<1>8. \A b \in B : owner(b) # {} => (CHOOSE i \in owner(b) : TRUE) \in owner(b)
  <2> HIDE DEF owner
  <2> QED
    OBVIOUS
<1>9. ASSUME NEW b \in B
      PROVE  /\ owner(b) # {} => \E i \in DOMAIN inputs : t.inputs[i - 1] = b /\ used(i) /\ new[b] = inputs[i]
             /\ owner(b) = {} => new[b] = Nowhere
  <2>1. owner(b) # {} => new[b] = inputs[CHOOSE i \in owner(b) : TRUE]
    <3> HIDE DEF owner
    <3> QED
      OBVIOUS
  <2>2. owner(b) = {} => new[b] = Nowhere
    <3> HIDE DEF owner
    <3> QED
      OBVIOUS
  <2>3. ASSUME owner(b) # {}
        PROVE  \E i \in DOMAIN inputs : t.inputs[i - 1] = b /\ used(i) /\ new[b] = inputs[i]
    <3>1. PICK i \in owner(b) : new[b] = inputs[i]
      <4> HIDE DEF owner, new
      <4> QED
        BY <1>8, <2>1, <2>3
    <3> QED
      BY <3>1
  <2> QED
    BY <2>2, <2>3
<1>10. DOMAIN new = B /\ new = [b \in B |-> new[b]]
  OBVIOUS
<1> HIDE DEF new
<1>11. new \in [B -> P \cup {Nowhere}]
  <2>1. \A b \in B : new[b] \in P \cup {Nowhere}
    BY <1>4, <1>9
  <2> QED
    BY <1>10, <2>1
<1>12. PickedSoFar(P, inputs, J, Len(inputs), unused)
  <2> HIDE DEF J
  <2> QED
    BY PickedIs DEF P
<1> HIDE DEF unused
<1>13. unused \in Seq(P) /\ \A x : Count(unused, x) = CountAt(J, inputs, x)
  <2>1. unused \in Seq(P) /\ \A x : Count(unused, x) = Cardinality({l \in 1 .. Len(inputs) : l \in J /\ inputs[l] = x})
    BY <1>12 DEF PickedSoFar
  <2>2. \A x : {l \in 1 .. Len(inputs) : l \in J /\ inputs[l] = x} = {l \in J : inputs[l] = x}
    <3>1. DOMAIN inputs = 1 .. Len(inputs)
      OBVIOUS
    <3> QED
      BY <3>1
  <2> QED
    BY <2>1, <2>2 DEF CountAt
<1>14. Handed(B, f, inputs, I, g, new)
  <2>1. DOMAIN f = B /\ DOMAIN new = B /\ \A b \in B : f[b] = Nowhere
    BY <1>10
  <2>2. \A i \in I : i \in DOMAIN inputs /\ used(i) /\ g[i] = t.inputs[i - 1]
    OBVIOUS
  <2>3. \A i \in DOMAIN inputs : used(i) => i \in I /\ g[i] = t.inputs[i - 1]
    OBVIOUS
  <2>4. ASSUME NEW b \in B PROVE /\ (\E i \in I : g[i] = b) => \E i \in I : g[i] = b /\ new[b] = inputs[i]
                                 /\ (\A i \in I : g[i] # b) => new[b] = f[b]
    <3>1. (\E i \in I : g[i] = b) => owner(b) # {}
      BY <2>2
    <3>2. (\A i \in I : g[i] # b) => owner(b) = {}
      BY <2>3
    <3> HIDE DEF owner, I, g, f, used
    <3> QED
      BY <1>9, <2>1, <2>3, <3>1, <3>2
  <2> HIDE DEF I, g, f, used
  <2>5. \A i \in I : g[i] \in B
    BY <1>5, <2>2
  <2>6. \A i, j \in I : g[i] = g[j] => i = j
    BY <1>6, <2>2
  <2> QED
    BY <2>1, <2>4, <2>5, <2>6 DEF Handed
<1>15. ASSUME NEW x \in P PROVE Count(inputs, x) = Count(new, x) + Count(unused, x)
  <2>1. inputs \in Seq(P) /\ I \in SUBSET DOMAIN inputs
    BY DEF P
  <2>2. \A b \in B : f[b] # x
    BY <1>3
  <2>3. \A i \in I : f[g[i]] # x
    <3>1. \A i \in I : g[i] \in B
      BY <1>5
    <3> HIDE DEF I, f, g
    <3> QED
      BY <2>2, <3>1
  <2>4. Count(f, x) = 0
    <3>1. DOMAIN f = B
      OBVIOUS
    <3> HIDE DEF f
    <3> QED
      BY <1>3, <2>2, <3>1, CountType
  <2>5. Count(inputs, x) = CountAt(I, inputs, x) + CountAt(J, inputs, x) /\ CountAt(I, inputs, x) \in Nat
    <3> DEFINE A == {i \in I : inputs[i] = x}
               C == {i \in J : inputs[i] = x}
    <3>1. {i \in DOMAIN inputs : inputs[i] = x} = A \cup C /\ A \cap C = {}
      OBVIOUS
    <3>2. IsFiniteSet(A) /\ IsFiniteSet(C)
      <4>1. IsFiniteSet(DOMAIN inputs)
        BY CountInSequence
      <4>2. A \in SUBSET DOMAIN inputs /\ C \in SUBSET DOMAIN inputs
        OBVIOUS
      <4> HIDE DEF A, C
      <4> QED
        BY <4>1, <4>2, FS_Subset
    <3>3. Count(inputs, x) = Cardinality(A \cup C) /\ CountAt(I, inputs, x) = Cardinality(A)
          /\ CountAt(J, inputs, x) = Cardinality(C)
      BY <3>1 DEF Count, CountAt
    <3> HIDE DEF A, C
    <3>4. Cardinality(A) \in Nat /\ Cardinality(A \cup C) = Cardinality(A) + Cardinality(C)
      BY <3>1, <3>2, SetsAddUp
    <3> QED
      BY <3>3, <3>4
  <2> HIDE DEF I, J, f, g
  <2>6. Count(new, x) = Count(f, x) + CountAt(I, inputs, x)
    <3>1. PICK to : to = new
      OBVIOUS
    <3>2. PICK K \in SUBSET DOMAIN inputs : K = I
      BY <2>1
    <3>3. PICK from, index : from = f /\ index = g
      OBVIOUS
    <3>4. Handed(B, from, inputs, K, index, to) /\ \A i \in K : from[index[i]] # x
      BY <1>14, <2>3, <3>1, <3>2, <3>3
    <3>5. Count(to, x) = Count(from, x) + CountAt(K, inputs, x)
      <4>1. PICK D, S : D = B /\ S = P
        OBVIOUS
      <4>2. PICK list \in Seq(S) : list = inputs
        BY <2>1, <4>1
      <4>3. K \in SUBSET DOMAIN list /\ IsFiniteSet(D)
        BY <1>3, <4>1, <4>2
      <4>4. Handed(D, from, list, K, index, to) /\ \A i \in K : from[index[i]] # x
        BY <3>4, <4>1, <4>2
      <4> HIDE DEF used, owner, P, B
      <4>5. Count(to, x) = Count(from, x) + CountAt(K, list, x)
        BY <4>3, <4>4, HandedOut
      <4> QED
        BY <4>2, <4>5
    <3> QED
      BY <3>1, <3>2, <3>3, <3>5
  <2> QED
    BY <1>13, <2>4, <2>5, <2>6
<1>16. ASSUME NEW b \in B PROVE new[b] # Nowhere <=> InitialUsages(t)[b] > 0 /\ b \in Inputs(t)
  <2>1. CASE owner(b) = {}
    <3>1. ~(InitialUsages(t)[b] > 0 /\ b \in Inputs(t))
      BY <1>7, <2>1
    <3> QED
      BY <1>9, <2>1, <3>1
  <2>2. CASE owner(b) # {}
    <3>1. PICK i \in DOMAIN inputs : t.inputs[i - 1] = b /\ used(i) /\ new[b] = inputs[i]
      BY <1>9, <2>2
    <3>2. InitialUsages(t)[b] > 0
      BY <3>1
    <3> QED
      BY <1>3, <1>4, <1>7, <3>1, <3>2
  <2> QED
    BY <2>1, <2>2
<1> QED
  BY <1>1, <1>11, <1>13, <1>15, <1>16 DEF P, B

\* At the start of a chunk the memory is shared out among the inputs and the FX outputs.
LEMMA MemoryBegins ==
  ASSUME TasksInv, Placed, fxOutputs = <<>>, \A b \in DOMAIN at : at[b] = Nowhere,
         Len(free[RealType]) = PoolSize(taskGraph, RealType), BeginChunk
  PROVE  Placed' /\ Counted'
<1> DEFINE t == taskGraph
           T == Types(t)
           P == Pieces(t)
           B == DOMAIN t.buffers
           mixed == MixedInput(t, free)
           types == Reals(OutputCount(t))
           storing == Allocated(mixed.free, types)
           transferred == Transferred(t, mixed.inputs)
<1>1. /\ usages' = InitialUsages(t) /\ fxOutputs' = storing.taken /\ at' = transferred.at
      /\ free' = Freed(storing.free, transferred.unused) /\ DOMAIN content' = DOMAIN content
      /\ chunk = "idle" /\ running' = running
  BY DEF BeginChunk
<1>2. WellMade(t) /\ taskGraph' = t /\ Done' = {} /\ running = {}
  BY <1>1, ChunkBegins DEF TasksInv
<1>3. /\ IsFiniteSet(B) /\ RealType \in T /\ OutputCount(t) \in Nat
      /\ \A m \in P : m[1] \in T
  BY <1>2, BuffersAre, PiecesAre
<1>4. /\ DOMAIN content = P /\ at \in [B -> P \cup {Nowhere}]
      /\ free \in Filed(T, P) /\ \A m \in P : Uses(m) = 1
  BY DEF Placed
<1>5. /\ mixed.free \in Filed(T, P) /\ mixed.inputs \in Seq(P) /\ Len(mixed.inputs) = InputCount(t)
      /\ \A x \in P : Count(free[x[1]], x) = Count(mixed.free[x[1]], x) + Count(mixed.inputs, x)
  <2>1. PICK pools \in Filed(Types(t), Pieces(t)) : pools = free /\ Len(pools[RealType]) = PoolSize(t, RealType)
    BY <1>4
  <2> QED
    BY <1>2, <2>1, InputsAreMixed
<1>6. /\ at' \in [B -> P \cup {Nowhere}] /\ transferred.unused \in Seq(P)
      /\ \A x \in P : Count(mixed.inputs, x) = Count(at', x) + Count(transferred.unused, x)
      /\ \A b \in B : at'[b] # Nowhere <=> InitialUsages(t)[b] > 0 /\ b \in Inputs(t)
  <2>1. PICK inputs \in Seq(Pieces(t)) : inputs = mixed.inputs /\ Len(inputs) = InputCount(t)
    BY <1>5
  <2> HIDE DEF mixed
  <2>2. transferred = Transferred(t, inputs)
    BY <2>1
  <2> HIDE DEF transferred
  <2>3. /\ transferred.at \in [B -> P \cup {Nowhere}] /\ transferred.unused \in Seq(P)
        /\ \A x \in P : Count(inputs, x) = Count(transferred.at, x) + Count(transferred.unused, x)
        /\ \A b \in B : transferred.at[b] # Nowhere <=> InitialUsages(t)[b] > 0 /\ b \in Inputs(t)
    BY <1>2, <2>1, <2>2, InputsAreTransferred
  <2> QED
    BY <1>1, <2>1, <2>3
<1>7. InitialUsages(t) \in [B -> Nat]
      /\ \A b \in B : InitialUsages(t)[b] = Cardinality(Pending(t, b, {})) + Count(OutputsToDecrement(t), b)
  BY <1>2, UsagesAtFirst
<1>8. Written(t, Done' \cup running') = Inputs(t)
  BY <1>1, <1>2 DEF Written
<1> HIDE DEF mixed, transferred, T, P, B, t
<1>9. PICK rest \in Filed(T, P), unused \in Seq(P) : rest = mixed.free /\ unused = transferred.unused
  BY <1>5, <1>6
<1>10. types \in Seq(T)
  <2>1. types \in [1 .. OutputCount(t) -> T]
    BY <1>3 DEF Reals
  <2> QED
    BY <1>3, <2>1
<1> HIDE DEF types
<1>11. TakenSoFar(T, P, rest, types, Len(types), storing)
  <2>1. TakenSoFar(T, P, rest, types, Len(types), Allocated(rest, types))
    BY <1>3, <1>10, AllocatedIs
  <2> QED
    BY <1>9, <2>1
<1> HIDE DEF storing
<1>12. PICK pools \in Filed(T, P), taken \in Seq(P) :
         /\ pools = storing.free /\ taken = storing.taken
         /\ \A x \in P : Count(rest[x[1]], x) = Count(pools[x[1]], x) + Count(taken, x)
  BY <1>11 DEF TakenSoFar
<1>13. /\ free' \in Filed(T, P)
       /\ \A x \in P : Count(free'[x[1]], x) = Count(pools[x[1]], x) + Count(unused, x)
  <2>1. /\ Freed(pools, unused) \in Filed(T, P)
        /\ \A x \in P : Count(Freed(pools, unused)[x[1]], x) = Count(pools[x[1]], x) + Count(unused, x)
    BY <1>3, FreedIs
  <2>2. free' = Freed(pools, unused)
    BY <1>1, <1>9, <1>12
  <2> QED
    BY <2>1, <2>2
<1>14. ASSUME NEW x \in P PROVE Uses(x)' = 1
  <2>1. Count(at, x) + Count(fxOutputs, x) + Count(free[x[1]], x) = 1
    BY <1>4 DEF Uses
  <2>2. Count(at, x) = 0 /\ Count(fxOutputs, x) = 0
    <3>1. \A b \in DOMAIN at : at[b] # x
      BY <1>2, PiecesAre DEF P, t
    <3>2. {b \in DOMAIN at : at[b] = x} = {} /\ {i \in DOMAIN fxOutputs : fxOutputs[i] = x} = {}
      BY <3>1
    <3> QED
      BY <3>2, FS_EmptySet DEF Count
  <2>3. Count(at', x) \in Nat /\ Count(unused, x) \in Nat /\ Count(taken, x) \in Nat
    <3>1. IsFiniteSet(DOMAIN at')
      BY <1>3, <1>6
    <3> QED
      BY <3>1, CountType, CountInSequence
  <2>4. Count(pools[x[1]], x) \in Nat /\ Count(free[x[1]], x) \in Nat
    <3>1. pools[x[1]] \in Seq(P) /\ free[x[1]] \in Seq(P)
      BY <1>3, <1>4 DEF Filed
    <3> QED
      BY <3>1, CountInSequence
  <2>5. Count(free[x[1]], x) = 1
    BY <2>1, <2>2, <2>4
  <2>6. /\ Count(free[x[1]], x) = Count(rest[x[1]], x) + Count(mixed.inputs, x)
        /\ Count(mixed.inputs, x) = Count(at', x) + Count(unused, x)
        /\ Count(rest[x[1]], x) = Count(pools[x[1]], x) + Count(taken, x)
        /\ Count(free'[x[1]], x) = Count(pools[x[1]], x) + Count(unused, x)
    BY <1>5, <1>6, <1>9, <1>12, <1>13
  <2>7. Count(at', x) + Count(taken, x) + Count(free'[x[1]], x) = 1
    BY <2>3, <2>4, <2>5, <2>6
  <2> QED
    BY <1>1, <1>12, <2>7 DEF Uses
<1>15. fxOutputs' \in Seq(P)
  BY <1>1, <1>12
<1>16. Placed'
  BY <1>1, <1>2, <1>4, <1>6, <1>13, <1>14, <1>15 DEF Placed, T, P, B, t
<1>17. ASSUME NEW b \in B
       PROVE  /\ usages'[b] = Cardinality(Pending(t, b, Done')) + Count(OutputsToDecrement(t), b)
              /\ at'[b] # Nowhere <=> usages'[b] > 0 /\ b \in Written(t, Done' \cup running')
  BY <1>1, <1>2, <1>6, <1>7, <1>8
<1>18. Counted'
  BY <1>1, <1>2, <1>7, <1>17 DEF Counted, t, B
<1> QED
  BY <1>16, <1>18

\* Before a graph is loaded there is no memory.
LEMMA MemoryAtInit ==
  EngineInit => MemoryInv
BY DEF EngineInit, MemoryInv

\* Every step keeps what is known of the memory.
LEMMA MemoryStep ==
  TasksInv /\ MemoryInv /\ [LoadGraph \/ ChunkNext]_engineVars => MemoryInv'
<1> SUFFICES ASSUME TasksInv, MemoryInv, [LoadGraph \/ ChunkNext]_engineVars PROVE MemoryInv'
  OBVIOUS
<1>1. CASE LoadGraph
  <2>1. PICK t : WellMade(t) /\ Initialize(t)
    BY <1>1 DEF LoadGraph
  <2>2. chunk = "unloaded" /\ chunk' = "idle"
    BY <2>1 DEF Initialize
  <2>3. fxOutputs = <<>>
    BY <2>2 DEF MemoryInv
  <2>4. /\ Placed' /\ fxOutputs' = <<>> /\ \A b \in DOMAIN at' : at'[b] = Nowhere
        /\ Len(free'[RealType]) = PoolSize(taskGraph', RealType)
    BY <2>1, <2>3, MemoryStarts
  <2> QED
    BY <2>2, <2>4 DEF MemoryInv
<1>2. CASE BeginChunk
  <2>1. chunk = "idle" /\ chunk' = "tasks"
    BY <1>2 DEF BeginChunk
  <2>2. /\ Placed /\ fxOutputs = <<>> /\ \A b \in DOMAIN at : at[b] = Nowhere
        /\ Len(free[RealType]) = PoolSize(taskGraph, RealType)
    BY <2>1 DEF MemoryInv
  <2>3. Placed' /\ Counted'
    BY <1>2, <2>2, MemoryBegins
  <2> QED
    BY <2>1, <2>3 DEF MemoryInv
<1>3. ASSUME NEW k \in ready, StartTask(k) PROVE MemoryInv'
  <2>1. chunk = "tasks" /\ chunk' = "tasks"
    BY <1>3 DEF StartTask, Startable
  <2>2. WellMade(taskGraph) /\ Scheduled /\ Placed /\ Counted
    BY <2>1 DEF TasksInv, MemoryInv
  <2>3. Placed' /\ Counted'
    BY <1>3, <2>2, MemoryIsTaken
  <2> QED
    BY <2>1, <2>3 DEF MemoryInv
<1>4. ASSUME NEW k \in ready, RunDry(k) PROVE MemoryInv'
  <2>1. /\ chunk = "tasks" /\ chunk' = "exhausted" /\ taskGraph' = taskGraph
        /\ at' = at /\ fxOutputs' = fxOutputs /\ free' = free /\ content' = content
    BY <1>4 DEF RunDry, Startable, bufferVars
  <2>2. Placed
    BY <2>1 DEF MemoryInv
  <2>3. Placed'
    BY <2>1, <2>2 DEF Placed, Uses
  <2> QED
    BY <2>1, <2>3 DEF MemoryInv
<1>5. ASSUME NEW k \in running, FinishTask(k) PROVE MemoryInv'
  <2>1. chunk = "tasks" /\ chunk' = "tasks"
    BY <1>5 DEF FinishTask
  <2>2. WellMade(taskGraph) /\ Scheduled /\ Placed /\ Counted
    BY <2>1 DEF TasksInv, MemoryInv
  <2>3. Placed' /\ Counted'
    BY <1>5, <2>2, MemoryIsUsed
  <2> QED
    BY <2>1, <2>3 DEF MemoryInv
<1>6. CASE StoreOutput
  <2>1. chunk = "tasks" /\ chunk' = "mix"
    BY <1>6 DEF StoreOutput
  <2>2. WellMade(taskGraph) /\ Scheduled /\ Placed /\ Counted
    BY <2>1 DEF TasksInv, MemoryInv
  <2>3. Placed' /\ \A b \in DOMAIN at' : at'[b] = Nowhere /\ usages'[b] = 0
    BY <1>6, <2>2, MemoryIsStored
  <2> QED
    BY <2>1, <2>3 DEF MemoryInv
<1>7. CASE MixOutput
  <2>1. chunk = "mix" /\ chunk' = "done" /\ at' = at /\ usages' = usages /\ fxOutputs' = <<>>
    BY <1>7 DEF MixOutput
  <2>2. WellMade(taskGraph) /\ Placed /\ \A b \in DOMAIN at : at[b] = Nowhere /\ usages[b] = 0
    BY <2>1 DEF TasksInv, MemoryInv
  <2>3. Placed'
    BY <1>7, <2>2, MemoryIsMixed
  <2> QED
    BY <2>1, <2>2, <2>3 DEF MemoryInv
<1>8. CASE UNCHANGED engineVars
  <2>1. /\ chunk' = chunk /\ taskGraph' = taskGraph /\ ready' = ready /\ running' = running /\ left' = left
        /\ at' = at /\ usages' = usages /\ fxOutputs' = fxOutputs /\ free' = free /\ content' = content
    BY <1>8 DEF engineVars, stageVars, bufferVars
  <2>2. Placed' <=> Placed
    BY <2>1 DEF Placed, Uses
  <2>3. Counted' <=> Counted
    <3>1. Done' = Done
      BY <2>1 DEF Done
    <3> QED
      BY <2>1, <3>1 DEF Counted
  <2> QED
    BY <2>1, <2>2, <2>3 DEF MemoryInv
<1> QED
  BY <1>1, <1>2, <1>3, <1>4, <1>5, <1>6, <1>7, <1>8 DEF ChunkNext

\* What is awaited has memory: it has been written, or is about to be, and is used yet.
LEMMA AwaitedIsThere ==
  ASSUME WellMade(taskGraph), Scheduled, Placed, Counted, NEW b \in Awaited
  PROVE  at[b] # Nowhere
<1> DEFINE t == taskGraph
           B == DOMAIN t.buffers
<1>1. \A c \in B :
        /\ usages[c] = Cardinality(Pending(t, c, Done)) + Count(OutputsToDecrement(t), c)
        /\ at[c] # Nowhere <=> usages[c] > 0 /\ c \in Written(t, Done \cup running)
  BY DEF Counted
<1>2. /\ Buffers(t) \subseteq B /\ OutputsToDecrement(t) \in Seq(Buffers(t))
      /\ \A k \in Tasks(t) : TaskBuffers(t, k) \in Seq(Buffers(t))
  BY BuffersAre
<1>3. /\ ready \cup running \subseteq Tasks(t) /\ WellOrdered(t)
      /\ \A k \in ready \cup running : left[k] = 0 /\ k \notin Done
  BY DEF Scheduled, Done, WellMade
<1>4. ASSUME NEW k \in ready \cup running, b \in ToSet(TaskBuffers(t, k)), b \in Written(t, Done \cup running)
      PROVE  at[b] # Nowhere
  <2>1. k \in Tasks(t) /\ k \notin Done
    BY <1>3
  <2>2. b \in B
    <3>1. PICK s \in Seq(Buffers(t)) : s = TaskBuffers(t, k)
      BY <1>2, <2>1
    <3> QED
      BY <1>2, <1>4, <3>1 DEF ToSet
  <2>3. Cardinality(Pending(t, b, Done)) > 0
    BY <1>4, <2>1, ArgumentsPending
  <2>4. PICK x \in Nat, y \in Nat : x = Cardinality(Pending(t, b, Done)) /\ y = Count(OutputsToDecrement(t), b)
    BY PendingType
  <2>5. usages[b] > 0
    <3>1. usages[b] = x + y /\ x > 0
      BY <1>1, <2>2, <2>3, <2>4
    <3> QED
      BY <2>4, <3>1
  <2> QED
    BY <1>1, <1>4, <2>2, <2>5
<1>5. ASSUME NEW k \in ready \cup running PROVE ToSet(InputBuffers(t, k)) \subseteq Written(t, Done \cup running)
  <2>1. k \in Tasks(t) /\ left[k] = 0
    BY <1>3
  <2>2. ToSet(InputBuffers(t, k)) \subseteq Written(t, t.rows[k])
    BY <2>1 DEF WellMade, WellShared
  <2>3. t.rows[k] \subseteq Done
    BY <1>3, <2>1, ScheduledBefore
  <2> QED
    BY <2>2, <2>3 DEF Written
<1>6. CASE b \in UNION {ToSet(InputBuffers(t, k)) : k \in ready \cup running}
  <2>1. PICK k \in ready \cup running : b \in ToSet(InputBuffers(t, k))
    BY <1>6
  <2>2. b \in ToSet(TaskBuffers(t, k))
    BY <1>3, <2>1, ArgumentsAre
  <2> QED
    BY <1>4, <1>5, <2>1, <2>2
<1>7. CASE b \in UNION {ToSet(t.tasks[k].outs) : k \in running}
  <2>1. PICK k \in running : b \in ToSet(t.tasks[k].outs)
    BY <1>7
  <2>2. b \in ToSet(TaskBuffers(t, k))
    BY <1>3, <2>1, ArgumentsAre
  <2>3. b \in ToSet(InputBuffers(t, k)) \cup ToSet(BuffersToAllocate(t, k))
    BY <1>3, <2>2, ToAllocateIs
  <2>4. ToSet(BuffersToAllocate(t, k)) \subseteq Written(t, Done \cup running)
    BY DEF Written
  <2> QED
    BY <1>4, <1>5, <2>2, <2>3, <2>4
<1>8. CASE remaining = 0 /\ b \in ToSet(OutputsToDecrement(t))
  <2>1. Tasks(t) \subseteq Done
    <3>1. Tasks(t) \ Done \in SUBSET Tasks(t) /\ Cardinality(Tasks(t) \ Done) = 0
      BY <1>8 DEF Scheduled
    <3>2. IsFiniteSet(Tasks(t) \ Done)
      BY <1>3, <3>1, FewTasks
    <3> QED
      BY <3>1, <3>2, FS_EmptySet
  <2>2. b \in Written(t, Done \cup running)
    <3>1. b \in Written(t, Tasks(t))
      BY <1>8 DEF WellMade, WellShared
    <3> QED
      BY <2>1, <3>1 DEF Written
  <2>3. PICK s \in Seq(Buffers(t)) : s = OutputsToDecrement(t)
    BY <1>2
  <2>4. b \in B /\ Count(s, b) # 0
    <3>1. IsFiniteSet(DOMAIN s)
      BY CountInSequence
    <3>2. \E i \in DOMAIN s : s[i] = b
      BY <1>8, <2>3 DEF ToSet
    <3>3. b \in B
      BY <1>2, <3>2
    <3>4. Count(s, b) # 0
      BY <3>1, <3>2, CountType
    <3> QED
      BY <3>3, <3>4
  <2>5. PICK x \in Nat, y \in Nat : x = Cardinality(Pending(t, b, Done)) /\ y = Count(OutputsToDecrement(t), b)
    BY PendingType
  <2>6. usages[b] > 0
    <3>1. usages[b] = x + y /\ y # 0
      BY <1>1, <2>3, <2>4, <2>5
    <3> QED
      BY <2>5, <3>1
  <2> QED
    BY <1>1, <2>2, <2>4, <2>6
<1> QED
  BY <1>6, <1>7, <1>8 DEF Awaited

\* Every buffer, FX output and channel has memory of its own while it is needed, what a task
\* reads or writes is there, and nothing is lost, for every task graph that build() makes.
THEOREM BuffersStayApart ==
  EngineSpec => []BuffersApart
<1>1. TasksInv /\ MemoryInv => MemoryApart
  <2> SUFFICES ASSUME TasksInv, MemoryInv PROVE MemoryApart
    OBVIOUS
  <2>1. \A m \in DOMAIN content : Uses(m) = 1
    <3>1. CASE chunk = "unloaded"
      BY <3>1 DEF MemoryInv
    <3>2. CASE chunk # "unloaded"
      BY <3>2 DEF MemoryInv, Placed
    <3> QED
      BY <3>1, <3>2
  <2>2. ASSUME chunk = "tasks"
        PROVE  /\ \A b \in Awaited : at[b] # Nowhere
               /\ \A b \in DOMAIN at : at[b] # Nowhere => usages[b] > 0
    <3>1. WellMade(taskGraph) /\ Scheduled /\ Placed /\ Counted
      BY <2>2 DEF TasksInv, MemoryInv
    <3>2. DOMAIN at = DOMAIN taskGraph.buffers
      BY <3>1 DEF Placed
    <3>3. \A b \in DOMAIN at : at[b] # Nowhere => usages[b] > 0
      BY <3>1, <3>2 DEF Counted
    <3> QED
      BY <3>1, <3>3, AwaitedIsThere
  <2>3. chunk \in {"mix", "done"} => \A b \in DOMAIN at : at[b] = Nowhere /\ usages[b] = 0
    BY DEF MemoryInv
  <2>4. chunk = "done" => fxOutputs = <<>>
    BY DEF MemoryInv
  <2> QED
    BY <2>1, <2>2, <2>3, <2>4 DEF MemoryApart
<1>2. EngineSpec => [](TasksInv /\ MemoryInv)
  BY TasksStart, TasksStep, MemoryAtInit, MemoryStep, PTL DEF EngineSpec
<1>3. EngineSpec => []MemoryApart
  BY <1>1, <1>2, PTL
<1> QED
  BY <1>3, TasksHaveRoom, PTL DEF BuffersApart

=============================================================================
