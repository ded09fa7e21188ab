---------------------------- MODULE HuffmanProofs ----------------------------
(***************************************************************************)
(* generateHuffmanCodes for every file, whatever its characters and their  *)
(* frequencies: the first loop never overwrites what it still needs and    *)
(* never uses an index outside of the array; the second loop leaves the    *)
(* lengths of a complete prefix code there, and no lengths are better; the *)
(* third makes that code.                                                  *)
(***************************************************************************)
EXTENDS Compression, FiniteSetTheorems, SequenceTheorems, WellFoundedInduction, TLAPS

\* The array is as long as there are characters, and the indices are in it.
ArrayOK ==
    /\ n \in Nat
    /\ DOMAIN freq = 0 .. n - 1
    /\ hpc = "tree" =>
        /\ DOMAIN A = 0 .. n - 1
        /\ leaf \in Nat /\ root \in Nat /\ next \in Nat /\ pass \in {0, 1}
        /\ pass = 1 => next < n - 1

IInv == ArrayOK /\ InPlace

-----------------------------------------------------------------------------
(* The array deflate passes. *)

\* A sequence has finitely many different elements.
LEMMA ElementsFinite ==
    ASSUME NEW S, IsFiniteSet(S), NEW t \in Seq(S)
    PROVE  IsFiniteSet(ToSet(t)) /\ Cardinality(ToSet(t)) \in Nat
<1>1. DOMAIN t = 1 .. Len(t)
  OBVIOUS
<1>2. \A k \in 1 .. Len(t) : t[k] \in S
  OBVIOUS
<1>3. ToSet(t) \in SUBSET S
  BY <1>1, <1>2, Zenon DEF ToSet
<1>4. IsFiniteSet(ToSet(t))
  BY <1>3, FS_Subset, Zenon
<1> QED BY <1>4, FS_CardinalityType, Zenon

\* A file has finitely many different characters.
LEMMA CharactersFinite ==
    ASSUME NEW t \in Seq(0 .. 255)
    PROVE  IsFiniteSet(ToSet(t)) /\ Cardinality(ToSet(t)) \in Nat
<1>1. 0 \in Int /\ 255 \in Int
  OBVIOUS
<1>2. IsFiniteSet(0 .. 255)
  BY <1>1, FS_Interval, Zenon
<1> QED BY <1>2, ElementsFinite, Zenon

\* charAccordingToFreq lists every character of the file.
LEMMA CharactersOrdered ==
    ASSUME NEW t \in Seq(0 .. 255)
    PROVE  Len(charAccordingToFreq(t)) = Cardinality(ToSet(t))
  BY CharactersFinite DEF charAccordingToFreq, Ordered

\* The array of frequencies has one element for every character.
LEMMA ArrayPassed ==
    ASSUME NEW t \in Seq(0 .. 255), freq = frequencyIncreasing(t)
    PROVE  n \in Nat /\ DOMAIN freq = 0 .. n - 1
<1> DEFINE N == Cardinality(ToSet(t))
<1>1. N \in Nat
  BY CharactersFinite
<1>2. DOMAIN freq = 0 .. N - 1
  BY CharactersOrdered DEF frequencyIncreasing
<1>3. Cardinality(0 .. N - 1) = N
  BY <1>1, FS_Interval
<1> QED BY <1>1, <1>2, <1>3 DEF n

\* On entry of generateHuffmanCodes the array holds the frequencies.
LEMMA InitInv == Init => IInv
<1> SUFFICES ASSUME Init PROVE IInv
  OBVIOUS
<1>1. text \in Seq(0 .. 255) /\ freq = frequencyIncreasing(text)
  BY CompressionAssumption DEF Init, HuffmanInit
<1>2. n \in Nat /\ DOMAIN freq = 0 .. n - 1
  BY <1>1, ArrayPassed
<1>3. A = freq /\ leaf = 0 /\ root = 0 /\ next = 0 /\ pass = 0
  BY DEF Init, HuffmanInit
<1> QED BY <1>2, <1>3 DEF IInv, ArrayOK, InPlace

-----------------------------------------------------------------------------
(* The first loop. *)

\* Where there is something to take, the node taken is there.
LEMMA Taken ==
    ASSUME IInv, hpc = "tree", next < n - 1
    PROVE  /\ TakesRoot => root < next
           /\ ~TakesRoot => leaf < n
           /\ pass = 1 /\ TakesRoot => next < leaf
  BY DEF IInv, ArrayOK, InPlace, TakesRoot

\* Taking a weight keeps the invariant: the first of a pair leaves its parent's
\* index behind, the second also completes the sum in a place already free.
LEMMA TakeRootInv == ASSUME IInv, TakeRoot PROVE IInv'
<1>1. root < next /\ next < n - 1 /\ hpc = "tree" /\ hpc' = "tree"
  BY Taken DEF TakeRoot
<1>2. n' = n /\ freq' = freq /\ leaf' = leaf /\ root' = root + 1
  BY DEF TakeRoot, n
<1>types. /\ n \in Nat /\ DOMAIN A = 0 .. n - 1 /\ DOMAIN freq = 0 .. n - 1
      /\ leaf \in Nat /\ root \in Nat /\ next \in Nat /\ pass \in {0, 1}
  BY <1>1 DEF IInv, ArrayOK
<1>order. next <= leaf /\ leaf <= n /\ leaf + root = 2 * next + pass
  BY <1>1 DEF IInv, InPlace
<1>leaves. \A j \in leaf .. n - 1 : A[j] = freq[j]
  BY <1>1 DEF IInv, InPlace
<1>parents. \A j \in 0 .. root - 1 : A[j] \in j + 1 .. next
  BY <1>1 DEF IInv, InPlace
<1>3. CASE pass = 0
  <2>1. A' = [A EXCEPT ![root] = next] /\ next' = next /\ pass' = 1
    BY <1>3 DEF TakeRoot, Combine
  <2>2. ArrayOK'
    BY <1>1, <1>2, <1>types, <2>1 DEF ArrayOK
  <2>3. \A j \in leaf .. n - 1 : A'[j] = freq[j]
    BY <1>1, <1>types, <1>order, <1>leaves, <2>1
  <2>4. \A j \in 0 .. root : A'[j] \in j + 1 .. next
    BY <1>1, <1>types, <1>parents, <2>1
  <2>5. root + 1 <= next /\ leaf + (root + 1) = 2 * next + 1
    BY <1>1, <1>3, <1>types, <1>order
  <2>6. leaf = n => root + 1 < next
    BY <2>5, <1>1, <1>types
  <2>7. \A j \in 0 .. root' - 1 : A'[j] \in j + 1 .. next'
    <3>1. root' - 1 = root
      BY <1>2, <1>types
    <3> QED BY <3>1, <2>1, <2>4
  <2>8. leaf' + root' = 2 * next' + pass'
    BY <1>2, <2>1, <2>5
  <2>9. InPlace'
    BY <1>1, <1>2, <1>order, <2>1, <2>3, <2>5, <2>6, <2>7, <2>8, Zenon DEF InPlace
  <2> QED BY <2>2, <2>9 DEF IInv
<1>4. CASE pass = 1
  <2>1. A' = [A EXCEPT ![root] = next, ![next] = sum + A[root]] /\ next' = next + 1 /\ pass' = 0
    BY <1>4 DEF TakeRoot, Combine
  <2>2. ArrayOK'
    BY <1>1, <1>2, <1>types, <2>1 DEF ArrayOK
  <2>8. next < leaf
    BY <1>1, <1>4, <1>types, <1>order
  <2>3. \A j \in leaf .. n - 1 : A'[j] = freq[j]
    BY <1>1, <1>types, <2>8, <1>leaves, <2>1
  <2>4. \A j \in 0 .. root : A'[j] \in j + 1 .. next + 1
    <3>1. A'[root] = next /\ \A j \in 0 .. root - 1 : A'[j] = A[j]
      BY <1>1, <1>types, <2>1
    <3>2. next \in root + 1 .. next + 1
      BY <1>1, <1>types
    <3>3. \A j \in 0 .. root - 1 : A'[j] \in j + 1 .. next + 1
      BY <1>types, <1>parents, <3>1
    <3> QED BY <1>types, <3>1, <3>2, <3>3
  <2>5. root + 1 < next + 1 /\ next + 1 <= leaf
    BY <1>1, <1>types, <2>8
  <2>6. leaf + (root + 1) = 2 * (next + 1) + 0
    BY <1>4, <1>types, <1>order
  <2>7. root + 1 <= next + 1
    BY <1>types, <2>5
  <2>10. \A j \in 0 .. root' - 1 : A'[j] \in j + 1 .. next'
    <3>1. root' - 1 = root
      BY <1>2, <1>types
    <3> QED BY <3>1, <2>1, <2>4
  <2>11. leaf' + root' = 2 * next' + pass'
    BY <1>2, <2>1, <2>6
  <2>9. InPlace'
    BY <1>1, <1>2, <1>order, <2>1, <2>3, <2>5, <2>7, <2>10, <2>11, Zenon DEF InPlace
  <2> QED BY <2>2, <2>9 DEF IInv
<1> QED BY <1>3, <1>4, <1>types

\* Taking a leaf keeps the invariant: it clears at most the leaf itself.
LEMMA TakeLeafInv == ASSUME IInv, TakeLeaf PROVE IInv'
<1>1. leaf < n /\ next < n - 1 /\ hpc = "tree" /\ hpc' = "tree"
  BY Taken DEF TakeLeaf
<1>2. n' = n /\ freq' = freq /\ leaf' = leaf + 1 /\ root' = root
  BY DEF TakeLeaf, n
<1>types. /\ n \in Nat /\ DOMAIN A = 0 .. n - 1 /\ DOMAIN freq = 0 .. n - 1
      /\ leaf \in Nat /\ root \in Nat /\ next \in Nat /\ pass \in {0, 1}
  BY <1>1 DEF IInv, ArrayOK
<1>order. root <= next /\ next <= leaf /\ leaf + root = 2 * next + pass
  BY <1>1 DEF IInv, InPlace
<1> DEFINE B == IF leaf > next THEN [A EXCEPT ![leaf] = 0] ELSE A
<1>array. DOMAIN B = 0 .. n - 1 /\ \A j \in 0 .. n - 1 : j # leaf => B[j] = A[j]
  BY <1>types
<1> HIDE DEF B
<1>leaves. \A j \in leaf + 1 .. n - 1 : B[j] = freq[j]
  <2>1. \A j \in leaf .. n - 1 : A[j] = freq[j]
    BY <1>1 DEF IInv, InPlace
  <2> QED BY <2>1, <1>1, <1>types, <1>array
<1>parents. \A j \in 0 .. root - 1 : B[j] \in j + 1 .. next
  <2>1. \A j \in 0 .. root - 1 : A[j] \in j + 1 .. next
    BY <1>1 DEF IInv, InPlace
  <2> QED BY <2>1, <1>1, <1>types, <1>order, <1>array
<1>first. CASE pass = 0
  <2>1. A' = B /\ next' = next /\ pass' = 1
    BY <1>first DEF TakeLeaf, Combine, B
  <2>2. ArrayOK'
    BY <1>1, <1>2, <1>types, <1>array, <2>1 DEF ArrayOK
  <2>5. next <= leaf + 1 /\ leaf + 1 <= n /\ (leaf + 1) + root = 2 * next + 1
    BY <1>1, <1>first, <1>types, <1>order
  <2>6. leaf + 1 = n => root < next
    BY <2>5, <1>1, <1>types
  <2> QED BY <1>1, <1>2, <1>order, <1>leaves, <1>parents, <2>1, <2>2, <2>5, <2>6 DEF IInv, InPlace
<1>second. CASE pass = 1
  <2>1. A' = [B EXCEPT ![next] = sum + A[leaf]] /\ next' = next + 1 /\ pass' = 0
    BY <1>second DEF TakeLeaf, Combine, B
  <2>2. ArrayOK'
    BY <1>1, <1>2, <1>types, <1>array, <2>1 DEF ArrayOK
  <2>3. \A j \in leaf + 1 .. n - 1 : A'[j] = freq[j]
    BY <1>array, <1>types, <1>order, <1>leaves, <2>1
  <2>4. \A j \in 0 .. root - 1 : A'[j] \in j + 1 .. next + 1
    BY <1>1, <1>array, <1>types, <1>order, <1>parents, <2>1
  <2>5. /\ root <= next + 1 /\ next + 1 <= leaf + 1 /\ leaf + 1 <= n
        /\ (leaf + 1) + root = 2 * (next + 1)
    BY <1>1, <1>second, <1>types, <1>order
  <2>6. root < next + 1 /\ 2 * (next + 1) + 0 = 2 * (next + 1)
    BY <1>types, <1>order
  <2> QED BY <1>1, <1>2, <2>1, <2>2, <2>3, <2>4, <2>5, <2>6 DEF IInv, InPlace
<1> QED BY <1>first, <1>second, <1>types

-----------------------------------------------------------------------------

\* Every other step leaves the loop, or leaves the array to it as it is.
LEMMA LaterInv ==
    ASSUME IInv, [Next]_cvars, ~TakeRoot, ~TakeLeaf
    PROVE  IInv'
<1>1. freq' = freq
  BY DEF Next, HuffmanStep, TreeBuilt, Level, FirstCode, PushCode, EmptyCrashes, GetCodes,
         Deflate, combineBinaryFiles, separateBinaryFile, decodeBinaryFileToMap,
         inflateOpens, inflate, hvars, cvars
<1>2. \/ hpc' # "tree"
      \/ UNCHANGED <<hpc, A, leaf, root, next, pass>>
  BY DEF Next, HuffmanStep, TreeBuilt, Level, FirstCode, PushCode, EmptyCrashes, GetCodes,
         Deflate, combineBinaryFiles, separateBinaryFile, decodeBinaryFileToMap,
         inflateOpens, inflate, hvars, cvars, treeVars
<1>3. n' = n
  BY <1>1 DEF n
<1> QED BY <1>1, <1>2, <1>3 DEF IInv, ArrayOK, InPlace

\* However often its characters occur in a file, the first loop overwrites no
\* frequency and no weight before it has been taken, keeps the parents of the
\* nodes taken, and stays inside of the array.
THEOREM InPlaceSafe == Spec => []InPlace
<1>1. IInv /\ [Next]_cvars => IInv'
  BY TakeRootInv, TakeLeafInv, LaterInv
<1>2. IInv => InPlace
  BY DEF IInv
<1> QED BY InitInv, <1>1, <1>2, PTL DEF Spec

-----------------------------------------------------------------------------
(* The codes.  What the second loop reads are the parents of the internal   *)
(* nodes, which the first loop leaves in A[0 .. n-3], the root being n-2.   *)

\* The first m elements do not decrease, and no three of them are equal.
Rising(B, m) ==
    /\ \A j, k \in 0 .. m - 1 : j <= k => B[j] <= B[k]
    /\ \A j \in 0 .. m - 3 : B[j] < B[j + 2]

\* A parent has two children, taken one after the other.
Parents ==
    hpc = "tree" =>
        /\ Rising(A, root)
        /\ \A j \in 0 .. root - 1 : A[j] = next => pass = 1 /\ j = root - 1
        /\ pass = 0 /\ next > 0 => root < next
        /\ heap

LEMMA TakeRootParents == ASSUME IInv, Parents, TakeRoot PROVE Parents'
<1>1. root < next /\ next < n - 1 /\ hpc = "tree" /\ hpc' = "tree" /\ root' = root + 1
  BY Taken DEF TakeRoot
<1>2. /\ n \in Nat /\ DOMAIN A = 0 .. n - 1 /\ leaf \in Nat /\ root \in Nat /\ next \in Nat
      /\ pass \in {0, 1} /\ \A j \in 0 .. root - 1 : A[j] \in j + 1 .. next
  BY <1>1 DEF IInv, ArrayOK, InPlace
<1>3. Rising(A, root) /\ \A j \in 0 .. root - 1 : A[j] = next => pass = 1 /\ j = root - 1
  BY <1>1 DEF Parents
<1>4. /\ A'[root] = next /\ (\A j \in 0 .. root - 1 : A'[j] = A[j])
      /\ (pass = 0 /\ pass' = 1 /\ next' = next) \/ (pass = 1 /\ pass' = 0 /\ next' = next + 1)
  <2>1. CASE pass = 0
    <3>1. A' = [A EXCEPT ![root] = next] /\ next' = next /\ pass' = 1
      BY <2>1 DEF TakeRoot, Combine
    <3> QED BY <3>1, <2>1, <1>1, <1>2
  <2>2. CASE pass = 1
    <3>1. A' = [A EXCEPT ![root] = next, ![next] = sum + A[root]] /\ next' = next + 1 /\ pass' = 0
      BY <2>2 DEF TakeRoot, Combine
    <3> QED BY <3>1, <2>2, <1>1, <1>2
  <2> QED BY <2>1, <2>2, <1>2
<1>5. \A j, k \in 0 .. root : j <= k => A'[j] <= A'[k]
  <2>1. \A j, k \in 0 .. root - 1 : j <= k => A'[j] <= A'[k]
    BY <1>2, <1>3, <1>4 DEF Rising
  <2>2. \A j \in 0 .. root : A'[j] <= A'[root]
    BY <1>2, <1>4
  <2> QED BY <2>1, <2>2, <1>2
<1>6. \A j \in 0 .. root - 2 : A'[j] < A'[j + 2]
  <2>1. ASSUME NEW j \in 0 .. root - 3 PROVE A'[j] < A'[j + 2]
    BY <1>2, <1>3, <1>4 DEF Rising
  <2>2. ASSUME NEW j \in 0 .. root - 2, j = root - 2 PROVE A'[j] < A'[j + 2]
    <3>1. j \in 0 .. root - 1 /\ j # root - 1 /\ j + 2 = root
      BY <2>2, <1>2
    <3>2. A[j] # next /\ A'[j] = A[j] /\ A[j] \in j + 1 .. next
      BY <3>1, <1>2, <1>3, <1>4, Zenon
    <3>3. A'[j + 2] = next
      BY <3>1, <1>4
    <3>4. \A a, c \in Nat : \A b \in a + 1 .. c : b # c => b < c
      OBVIOUS
    <3>5. A[j] < next
      BY <3>1, <3>2, <3>4, <1>2
    <3> QED BY <3>2, <3>3, <3>5
  <2>3. \A j \in 0 .. root - 2 : j = root - 2 \/ j \in 0 .. root - 3
    BY <1>2
  <2> QED BY <2>1, <2>2, <2>3, Zenon
<1>7. \A j \in 0 .. root : A'[j] = next' => pass' = 1 /\ j = root
  BY <1>2, <1>3, <1>4
<1>8. pass' = 0 /\ next' > 0 => root + 1 < next'
  BY <1>1, <1>2, <1>4
<1>9. root' - 1 = root /\ root' - 3 = root - 2
  BY <1>1, <1>2
<1>10. heap'
  BY <1>1 DEF TakeRoot, Parents
<1> QED BY <1>1, <1>5, <1>6, <1>7, <1>8, <1>9, <1>10 DEF Parents, Rising

LEMMA TakeLeafParents == ASSUME IInv, Parents, TakeLeaf PROVE Parents'
<1>1. leaf < n /\ next < n - 1 /\ hpc = "tree" /\ hpc' = "tree" /\ root' = root
  BY Taken DEF TakeLeaf
<1>2. /\ n \in Nat /\ DOMAIN A = 0 .. n - 1 /\ leaf \in Nat /\ root \in Nat /\ next \in Nat
      /\ pass \in {0, 1} /\ root <= next /\ next <= leaf
      /\ \A j \in 0 .. root - 1 : A[j] \in j + 1 .. next
  BY <1>1 DEF IInv, ArrayOK, InPlace
<1>3. Rising(A, root) /\ \A j \in 0 .. root - 1 : A[j] = next => pass = 1 /\ j = root - 1
  BY <1>1 DEF Parents
<1> DEFINE B == IF leaf > next THEN [A EXCEPT ![leaf] = 0] ELSE A
<1>4. \A j \in 0 .. root - 1 : B[j] = A[j]
  BY <1>2
<1>5. DOMAIN B = 0 .. n - 1
  BY <1>2
<1> HIDE DEF B
<1>6. /\ \A j \in 0 .. root - 1 : A'[j] = A[j]
      /\ (pass = 0 /\ pass' = 1 /\ next' = next) \/ (pass = 1 /\ pass' = 0 /\ next' = next + 1)
  <2>1. CASE pass = 0
    BY <2>1, <1>4 DEF TakeLeaf, Combine, B
  <2>2. CASE pass = 1
    <3>1. A' = [B EXCEPT ![next] = sum + A[leaf]] /\ next' = next + 1 /\ pass' = 0
      BY <2>2 DEF TakeLeaf, Combine, B
    <3> QED BY <3>1, <2>2, <1>2, <1>4, <1>5
  <2> QED BY <2>1, <2>2, <1>2
<1>7. Rising(A, root)'
  BY <1>1, <1>2, <1>3, <1>6 DEF Rising
<1>8. /\ \A j \in 0 .. root - 1 : A'[j] = next' => pass' = 1 /\ j = root - 1
      /\ pass' = 0 /\ next' > 0 => root < next'
  BY <1>2, <1>3, <1>6
<1>9. heap'
  BY <1>1 DEF TakeLeaf, Parents
<1> QED BY <1>1, <1>7, <1>8, <1>9 DEF Parents

-----------------------------------------------------------------------------
(* The second loop.  t[d] internal nodes are d levels or more below the     *)
(* root; they are A[0 .. t[d] - 1].                                         *)

\* The internal nodes of depth d, and the characters whose code is not shorter
\* than d.
Room(t, d) == t[d] - t[d + 1]
Left(t, d) == 2 * t[d - 1] - t[d]

\* Every level but the last has internal nodes, at most two for each internal
\* node of the level above, and never more characters are left below.
Shape(t, D) ==
    /\ t \in [0 .. D -> 0 .. n - 1]
    /\ t[0] = n - 1 /\ t[1] = n - 2
    /\ \A d \in 1 .. D - 1 : /\ t[d + 1] <= t[d] /\ (t[d] > 0 => t[d + 1] < t[d])
                             /\ Room(t, d) <= 2 * Room(t, d - 1)
    /\ \A d, e \in 1 .. D : d <= e => Left(t, e) <= Left(t, d)

\* The nodes still to be looked at are there with their parents on the level
\* above, and from i on every element is the length of a code.
LevelsAt(t) ==
    /\ Shape(t, depth)
    /\ level_top = t[depth]
    /\ total_nodes_at_level = 2 * Room(t, depth - 1)
    /\ i = Left(t, depth)
    /\ \A j \in 0 .. t[depth] - 1 : A[j] \in j + 1 .. t[depth - 1] - 1
    /\ Rising(A, t[depth])
    /\ \A j \in i .. n - 1 :
          A[j] \in 1 .. depth - 1 /\ Left(t, A[j] + 1) <= j /\ j < Left(t, A[j])

Levels ==
    hpc = "levels" /\ n > 1 =>
        /\ heap
        /\ depth \in Nat \ {0}
        /\ DOMAIN A = 0 .. n - 1
        /\ \E t \in [0 .. depth -> 0 .. n - 1] : LevelsAt(t)

\* Every non-empty set of naturals has a least element.
LEMMA Least ==
    ASSUME NEW S \in SUBSET Nat, S # {}
    PROVE  \E m \in S : \A k \in S : m <= k
<1>1. PICK m \in S : \A k \in S : ~ (<<k, m>> \in OpToRel(<, Nat))
  BY WFMin, NatLessThanWellFounded
<1>2. \A k \in S : ~ (k < m)
  BY <1>1 DEF OpToRel
<1> QED BY <1>2

\* Where no three parents are equal, the nodes whose parents lie in lo .. hi-1
\* are at most twice as many.
LEMMA TwoChildren ==
    ASSUME NEW B, NEW m \in Nat, Rising(B, m), NEW k \in 0 .. m, NEW lo \in Nat, NEW hi \in Nat,
           lo <= hi, \A j \in k .. m - 1 : B[j] \in lo .. hi - 1
    PROVE  m - k <= 2 * (hi - lo)
<1> DEFINE Slow == {q \in Nat : k + 2 * q <= m - 1 /\ B[k + 2 * q] < B[k] + q}
<1>1. Slow = {}
  <2>1. SUFFICES ASSUME Slow # {} PROVE FALSE
    OBVIOUS
  <2>2. PICK q \in Slow : \A r \in Slow : q <= r
    BY <2>1, Least
  <2>3. q \in Nat /\ k + 2 * q <= m - 1 /\ B[k + 2 * q] < B[k] + q
    BY <2>2
  <2>4. k \in k .. m - 1 /\ B[k] \in Int
    BY <2>3
  <2>5. q # 0
    <3>1. q = 0 => B[k] < B[k] + 0
      BY <2>3
    <3> QED BY <3>1, <2>4
  <2>6. PICK r \in Nat : q = r + 1
    BY <2>3, <2>5
  <2>7. r \notin Slow
    BY <2>2, <2>6
  <2>8. B[k + 2 * r] >= B[k] + r
    <3>1. k + 2 * r \in k .. m - 1 /\ k + 2 * r <= m - 1
      BY <2>3, <2>6
    <3>2. B[k + 2 * r] \in Int
      BY <3>1
    <3> QED BY <2>4, <2>7, <3>1, <3>2
  <2>9. k + 2 * r \in 0 .. m - 3 /\ (k + 2 * r) + 2 = k + 2 * q
    BY <2>3, <2>6
  <2>10. B[k + 2 * r] < B[k + 2 * q]
    BY <2>9 DEF Rising
  <2>11. B[k + 2 * r] \in Int /\ B[k + 2 * q] \in Int
    <3>1. k + 2 * r \in k .. m - 1 /\ k + 2 * q \in k .. m - 1
      BY <2>3, <2>6
    <3> QED BY <3>1
  <2> QED BY <2>3, <2>4, <2>6, <2>8, <2>10, <2>11
<1>2. SUFFICES ASSUME m - k > 2 * (hi - lo) PROVE FALSE
  OBVIOUS
<1>3. PICK q \in Nat : q = hi - lo
  OBVIOUS
<1>4. k + 2 * q \in k .. m - 1 /\ k \in k .. m - 1
  BY <1>2, <1>3
<1>5. B[k + 2 * q] >= B[k] + q
  <2>1. B[k + 2 * q] \in Int /\ B[k] \in Int
    BY <1>4
  <2> QED BY <1>1, <1>4, <2>1
<1>6. B[k] \in lo .. hi - 1 /\ B[k + 2 * q] \in lo .. hi - 1
  BY <1>4
<1> QED BY <1>3, <1>5, <1>6

\* The inner loop stops at the first node whose parent is on the level above.
LEMMA LevelStartFacts ==
    ASSUME level_top \in Nat, \A j \in 0 .. level_top - 1 : A[j] \in Int /\ A[j] >= j + 1
    PROVE  /\ LevelStart \in 0 .. level_top
           /\ level_top > 0 => LevelStart < level_top
           /\ LevelStart > 0 => A[LevelStart - 1] < level_top
           /\ \A j \in LevelStart .. level_top - 1 : A[j] >= level_top
<1>1. CASE level_top = 0
  BY <1>1 DEF LevelStart
<1>2. CASE level_top > 0
  <2> DEFINE Above == {k \in 0 .. level_top : \A l \in k + 1 .. level_top : A[l - 1] >= level_top}
             stops(k) == /\ k > 0 => A[k - 1] < level_top
                         /\ \A l \in k + 1 .. level_top : A[l - 1] >= level_top
  <2>1. level_top \in Above /\ Above \in SUBSET Nat
    OBVIOUS
  <2>2. PICK k \in Above : \A l \in Above : k <= l
    BY <2>1, Least
  <2>3. stops(k)
    <3>1. SUFFICES ASSUME k > 0, ~ (A[k - 1] < level_top) PROVE FALSE
      BY <2>2
    <3>2. PICK m \in 0 .. level_top - 1 : k = m + 1
      BY <3>1, <2>2
    <3>3. A[m] >= level_top
      BY <3>1, <3>2
    <3>4. \A l \in m + 1 .. level_top : A[l - 1] >= level_top
      BY <2>2, <3>2, <3>3
    <3>5. m \in Above
      BY <3>4
    <3> QED BY <2>2, <3>2, <3>5
  <2>4. k \in 0 .. level_top
    BY <2>2
  <2>5. LevelStart \in 0 .. level_top /\ stops(LevelStart)
    <3>1. LevelStart = CHOOSE l \in 0 .. level_top : stops(l)
      BY <1>2 DEF LevelStart
    <3> HIDE DEF stops
    <3> QED BY <2>3, <2>4, <3>1
  <2>6. \A j \in LevelStart .. level_top - 1 : A[j] >= level_top
    <3> TAKE j \in LevelStart .. level_top - 1
    <3>1. j + 1 \in LevelStart + 1 .. level_top /\ (j + 1) - 1 = j
      BY <2>5
    <3> QED BY <2>5, <3>1
  <2>7. LevelStart < level_top
    <3>1. SUFFICES ASSUME LevelStart = level_top PROVE FALSE
      BY <2>5
    <3>2. A[level_top - 1] < level_top
      BY <1>2, <2>5, <3>1
    <3> QED BY <1>2, <3>2
  <2> QED BY <2>5, <2>6, <2>7
<1> QED BY <1>1, <1>2

\* When the tree is built, its root is node n-2, a level of its own.
LEMMA TreeBuiltLevels == ASSUME IInv, Parents, TreeBuilt PROVE Levels'
<1>1. SUFFICES ASSUME n > 1 PROVE Levels'
  <2>1. n' = n
    BY DEF TreeBuilt, n
  <2> QED BY <1>1, <2>1 DEF Levels
<1>2. /\ n \in Nat /\ DOMAIN A = 0 .. n - 1 /\ leaf \in Nat /\ root \in Nat /\ next \in Nat
      /\ pass \in {0, 1} /\ (pass = 1 => next < n - 1)
      /\ next <= leaf /\ leaf <= n /\ leaf + root = 2 * next + pass
      /\ \A j \in 0 .. root - 1 : A[j] \in j + 1 .. next
      /\ next >= n - 1
  BY DEF TreeBuilt, IInv, ArrayOK, InPlace
<1>3. /\ Rising(A, root) /\ (pass = 0 /\ next > 0 => root < next)
      /\ \A j \in 0 .. root - 1 : A[j] = next => pass = 1 /\ j = root - 1
  BY DEF Parents, TreeBuilt
<1>4. pass = 0 /\ next = n - 1 /\ root = n - 2
  BY <1>1, <1>2, <1>3
<1>5. /\ A' = A /\ n' = n /\ heap' = heap /\ level_top' = n - 2 /\ depth' = 1 /\ i' = n
      /\ total_nodes_at_level' = 2
  BY DEF TreeBuilt, TreeTop, n
<1>6. PICK t \in [0 .. 1 -> 0 .. n - 1] : t[0] = n - 1 /\ t[1] = n - 2
  <2> DEFINE r == [d \in 0 .. 1 |-> IF d = 0 THEN n - 1 ELSE n - 2]
  <2>1. r \in [0 .. 1 -> 0 .. n - 1] /\ r[0] = n - 1 /\ r[1] = n - 2
    BY <1>1, <1>2
  <2> QED BY <2>1
<1>8. Left(t, 1) = n /\ Room(t, 0) = 1
  <2>1. 1 - 1 = 0 /\ 0 + 1 = 1
    OBVIOUS
  <2>2. Left(t, 1) = 2 * (n - 1) - (n - 2) /\ Room(t, 0) = (n - 1) - (n - 2)
    BY <1>6, <2>1 DEF Left, Room
  <2> QED BY <2>2, <1>2
<1>7. Shape(t, 1)'
  <2>1. \A d, e \in 1 .. 1 : d <= e => Left(t, e) <= Left(t, d)
    BY <1>2, <1>8
  <2>2. \A d \in 1 .. 1 - 1 : FALSE
    OBVIOUS
  <2> QED BY <1>5, <1>6, <2>1, <2>2 DEF Shape
<1>9. \A j \in 0 .. n - 3 : A[j] \in j + 1 .. n - 2
  <2> TAKE j \in 0 .. n - 3
  <2>1. j \in 0 .. root - 1 /\ A[j] \in j + 1 .. next /\ A[j] # next
    BY <1>2, <1>3, <1>4
  <2>2. A[j] \in j + 1 .. n - 1 /\ A[j] # n - 1 /\ n \in Nat /\ j \in Nat
    BY <2>1, <1>2, <1>4
  <2> QED BY <2>2
<1>10. LevelsAt(t)'
  <2>1. (n - 2) - 1 = n - 3 /\ 1 - 1 = 0
    BY <1>2
  <2>2. \A j \in 0 .. t[1] - 1 : A[j] \in j + 1 .. t[0] - 1
    <3>1. t[1] - 1 = n - 3 /\ t[0] - 1 = n - 2
      BY <1>6, <1>2
    <3> QED BY <1>9, <3>1
  <2>3. \A j \in n .. n - 1 : FALSE
    BY <1>2
  <2>4. Rising(A, t[1])
    BY <1>3, <1>4, <1>6
  <2>5. \A j \in 0 .. t[1] - 1 : A'[j] \in j + 1 .. t[0] - 1
    BY <1>5, <2>2
  <2>6. Rising(A', t[1])
    BY <1>5, <2>4
  <2>7. \A j \in i' .. n' - 1 : FALSE
    BY <1>5, <2>3
  <2>8. Shape(t, depth)' /\ i' = Left(t, 1) /\ total_nodes_at_level' = 2 * Room(t, 0)
    BY <1>5, <1>7, <1>8 DEF Shape
  <2>9. level_top' = t[1] /\ depth' - 1 = 0 /\ depth' = 1
    BY <1>5, <1>6
  <2> QED BY <2>5, <2>6, <2>7, <2>8, <2>9 DEF LevelsAt
<1>11. heap
  BY DEF TreeBuilt, Parents
<1> QED BY <1>2, <1>5, <1>6, <1>10, <1>11 DEF Levels

\* A further level: its internal nodes are what the level above has as parents,
\* the rest of it are leaves, whose lengths go where no parent is left.
LEMMA LevelLevels == ASSUME n \in Nat, Levels, Level PROVE Levels'
<1>1. SUFFICES ASSUME n > 1 PROVE Levels'
  <2>1. n' = n
    BY DEF Level, n
  <2> QED BY <1>1, <2>1 DEF Levels
<1>2. hpc = "levels" /\ hpc' = "levels" /\ n' = n /\ depth' = depth + 1 /\ level_top' = LevelStart
  BY DEF Level, n
<1>3. PICK t \in [0 .. depth -> 0 .. n - 1] : LevelsAt(t)
  BY <1>1, <1>2 DEF Levels
<1>4. heap /\ depth \in Nat /\ depth > 0 /\ DOMAIN A = 0 .. n - 1
  BY <1>1, <1>2 DEF Levels
<1>D. PICK D \in Nat : D = depth /\ D > 0
  BY <1>4
<1>5. /\ t[D] \in 0 .. n - 1 /\ t[D - 1] \in 0 .. n - 1 /\ level_top = t[D]
      /\ i = Left(t, D) /\ total_nodes_at_level = 2 * Room(t, D - 1)
      /\ Rising(A, t[D]) /\ \A j \in 0 .. t[D] - 1 : A[j] \in j + 1 .. t[D - 1] - 1
  <2>1. D \in 0 .. depth /\ D - 1 \in 0 .. depth
    BY <1>D
  <2> QED BY <1>3, <1>D, <2>1 DEF LevelsAt
<1>6. Left(t, D) = 2 * t[D - 1] - t[D] /\ Room(t, D - 1) = t[D - 1] - t[D]
  <2>1. (D - 1) + 1 = D
    BY <1>D
  <2> QED BY <2>1 DEF Left, Room
<1>k. PICK k \in 0 .. t[D] : k = LevelStart
  <2>1. level_top \in Nat /\ \A j \in 0 .. level_top - 1 : A[j] \in Int /\ A[j] >= j + 1
    BY <1>5
  <2> QED BY <1>5, <2>1, LevelStartFacts
<1>7. /\ k \in 0 .. t[D] /\ (t[D] > 0 => k < t[D]) /\ (k > 0 => A[k - 1] < t[D])
      /\ \A j \in k .. t[D] - 1 : A[j] >= t[D]
  <2>1. level_top \in Nat /\ \A j \in 0 .. level_top - 1 : A[j] \in Int /\ A[j] >= j + 1
    BY <1>5
  <2> QED BY <1>5, <1>k, <2>1, LevelStartFacts
<1>8. t[D] <= t[D - 1] /\ t[D] - k <= 2 * (t[D - 1] - t[D])
  <2>1. t[D] <= t[D - 1]
    <3>1. CASE D = 1
      <4>1. t[0] = n - 1 /\ t[1] = n - 2 /\ D - 1 = 0
        BY <3>1, <1>3 DEF LevelsAt, Shape
      <4> QED BY <4>1, <3>1
    <3>2. CASE D > 1
      <4>1. D - 1 \in 1 .. D - 1 /\ (D - 1) + 1 = D
        BY <1>D, <3>2
      <4> QED BY <1>3, <1>D, <4>1 DEF LevelsAt, Shape
    <3> QED BY <1>D, <3>1, <3>2
  <2>2. \A j \in k .. t[D] - 1 : A[j] \in t[D] .. t[D - 1] - 1
    BY <1>5, <1>7
  <2>3. t[D] \in Nat /\ t[D - 1] \in Nat /\ k \in 0 .. t[D]
    BY <1>5
  <2>4. t[D] - k <= 2 * (t[D - 1] - t[D])
    BY <2>1, <2>2, <2>3, <1>5, TwoChildren
  <2> QED BY <2>1, <2>4
<1>num. /\ t[D] \in Nat /\ t[D - 1] \in Nat /\ k \in Nat /\ k <= t[D] /\ n \in Nat
        /\ t[D] <= t[D - 1] /\ t[D] - k <= 2 * (t[D - 1] - t[D])
        /\ Left(t, D) = 2 * t[D - 1] - t[D]
  BY <1>5, <1>6, <1>7, <1>8
<1>9. PICK u \in [0 .. D + 1 -> 0 .. n - 1] : u[D + 1] = k /\ \A d \in 0 .. D : u[d] = t[d]
  <2> DEFINE r == [d \in 0 .. D + 1 |-> IF d = D + 1 THEN k ELSE t[d]]
  <2>1. r \in [0 .. D + 1 -> 0 .. n - 1]
    <3> SUFFICES ASSUME NEW d \in 0 .. D + 1 PROVE r[d] \in 0 .. n - 1
      OBVIOUS
    <3>1. CASE d = D + 1
      BY <3>1, <1>5, <1>7
    <3>2. CASE d # D + 1
      <4>1. d \in 0 .. depth
        BY <3>2, <1>D
      <4> QED BY <3>2, <4>1
    <3> QED BY <3>1, <3>2
  <2>2. r[D + 1] = k
    BY <1>D
  <2>3. \A d \in 0 .. D : r[d] = t[d]
    BY <1>D
  <2> QED BY <2>1, <2>2, <2>3
<1>10. /\ \A d \in 0 .. D - 1 : Room(u, d) = Room(t, d)
       /\ \A d \in 1 .. D : Left(u, d) = Left(t, d)
       /\ Room(u, D) = t[D] - k /\ Left(u, D + 1) = 2 * t[D] - k
  <2>1. ASSUME NEW d \in 0 .. D - 1 PROVE Room(u, d) = Room(t, d)
    <3>1. d \in 0 .. D /\ d + 1 \in 0 .. D
      BY <1>D
    <3> QED BY <3>1, <1>9 DEF Room
  <2>2. ASSUME NEW d \in 1 .. D PROVE Left(u, d) = Left(t, d)
    <3>1. d \in 0 .. D /\ d - 1 \in 0 .. D
      BY <1>D
    <3> QED BY <3>1, <1>9 DEF Left
  <2>3. D \in 0 .. D /\ (D + 1) - 1 = D
    BY <1>D
  <2>4. Room(u, D) = t[D] - k /\ Left(u, D + 1) = 2 * t[D] - k
    BY <2>3, <1>9 DEF Room, Left
  <2> QED BY <2>1, <2>2, <2>4
<1>11. Left(u, D + 1) <= Left(u, D) /\ Left(u, D) <= n
  <2>1. Left(t, 1) = n
    <3>1. t[0] = n - 1 /\ t[1] = n - 2 /\ 1 - 1 = 0
      BY <1>3 DEF LevelsAt, Shape
    <3>2. Left(t, 1) = 2 * (n - 1) - (n - 2)
      BY <3>1 DEF Left
    <3> QED BY <3>2
  <2>2. Left(t, D) <= Left(t, 1)
    <3>1. D \in 1 .. depth /\ 1 \in 1 .. depth /\ 1 <= D
      BY <1>D
    <3> QED BY <1>3, <1>D, <3>1 DEF LevelsAt, Shape
  <2>3. Left(u, D) = Left(t, D)
    BY <1>10, <1>D
  <2>4. Left(t, D) \in Int
    BY <1>5, <1>6
  <2>5. Left(u, D + 1) = 2 * t[D] - k
    BY <1>10
  <2>6. \A a, b, c \in Nat : c <= b /\ b - c <= 2 * (a - b) => 2 * b - c <= 2 * a - b
    OBVIOUS
  <2>7. 2 * t[D] - k <= 2 * t[D - 1] - t[D]
    BY <2>6, <1>num
  <2> QED BY <2>1, <2>2, <2>3, <2>5, <2>7, <1>num
<1>12. Shape(u, D + 1)
  <2>1. u[0] = n - 1 /\ u[1] = n - 2
    <3>1. 0 \in 0 .. D /\ 1 \in 0 .. D
      BY <1>D
    <3> QED BY <3>1, <1>3, <1>9 DEF LevelsAt, Shape
  <2>2. ASSUME NEW d \in 1 .. D
        PROVE  /\ u[d + 1] <= u[d] /\ (u[d] > 0 => u[d + 1] < u[d])
               /\ Room(u, d) <= 2 * Room(u, d - 1)
    <3>1. CASE d = D
      <4>1. u[D + 1] = k /\ u[D] = t[D] /\ Room(u, D) = t[D] - k
        BY <1>9, <1>10, <1>D
      <4>2. Room(u, D - 1) = t[D - 1] - t[D]
        <5>1. D - 1 \in 0 .. D - 1
          BY <1>D
        <5> QED BY <5>1, <1>6, <1>10
      <4> QED BY <3>1, <4>1, <4>2, <1>5, <1>7, <1>8
    <3>2. CASE d < D
      <4>1. d \in 1 .. D - 1 /\ d + 1 \in 0 .. D /\ d - 1 \in 0 .. D - 1 /\ d \in 0 .. D
        BY <3>2, <1>D
      <4>2. u[d] = t[d] /\ u[d + 1] = t[d + 1] /\ Room(u, d) = Room(t, d)
            /\ Room(u, d - 1) = Room(t, d - 1)
        <5>1. d \in 0 .. D - 1
          BY <4>1
        <5> QED BY <4>1, <5>1, <1>9, <1>10
      <4>3. /\ t[d + 1] <= t[d] /\ (t[d] > 0 => t[d + 1] < t[d])
            /\ Room(t, d) <= 2 * Room(t, d - 1)
        BY <4>1, <1>3, <1>D DEF LevelsAt, Shape
      <4> QED BY <4>2, <4>3
    <3> QED BY <3>1, <3>2, <1>D
  <2>3. ASSUME NEW d \in 1 .. D + 1, NEW e \in 1 .. D + 1, d <= e
        PROVE  Left(u, e) <= Left(u, d)
    <3>1. CASE e = D + 1 /\ d = D + 1
      BY <3>1, <1>5, <1>7, <1>10
    <3>2. CASE e = D + 1 /\ d \in 1 .. D
      <4>1. Left(t, D) <= Left(t, d)
        <5>1. d \in 1 .. depth /\ D \in 1 .. depth /\ d <= D
          BY <3>2, <1>D
        <5> QED BY <5>1, <1>3, <1>D DEF LevelsAt, Shape
      <4>2. Left(t, d) \in Int
        <5>1. d \in 0 .. depth /\ d - 1 \in 0 .. depth
          BY <3>2, <1>D
        <5>2. t[d] \in 0 .. n - 1 /\ t[d - 1] \in 0 .. n - 1
          BY <5>1
        <5> QED BY <5>2 DEF Left
      <4>3. Left(u, D) = Left(t, D) /\ Left(u, d) = Left(t, d)
        BY <3>2, <1>D, <1>10
      <4>4. Left(u, D + 1) <= Left(u, D) /\ Left(u, D + 1) = 2 * t[D] - k
        BY <1>10, <1>11
      <4>5. Left(t, D) \in Int /\ 2 * t[D] - k \in Int
        <5>1. \A a, b \in Nat : 2 * a - b \in Int
          OBVIOUS
        <5> QED BY <5>1, <1>num
      <4>6. Left(u, e) = 2 * t[D] - k /\ Left(u, d) = Left(t, d) /\ 2 * t[D] - k <= Left(t, D)
        BY <4>3, <4>4, <3>2
      <4> QED BY <4>1, <4>2, <4>5, <4>6
    <3>3. CASE e \in 1 .. D
      <4>1. d \in 1 .. D /\ d \in 1 .. depth /\ e \in 1 .. depth
        BY <3>3, <2>3, <1>D
      <4>2. Left(t, e) <= Left(t, d)
        BY <4>1, <2>3, <1>3 DEF LevelsAt, Shape
      <4> QED BY <4>1, <4>2, <3>3, <1>10
    <3>4. \A b \in 1 .. D + 1 : b = D + 1 \/ b \in 1 .. D
      BY <1>D
    <3> QED BY <3>1, <3>2, <3>3, <3>4
  <2>4. (D + 1) - 1 = D
    BY <1>D
  <2> QED BY <1>9, <2>1, <2>2, <2>3, <2>4 DEF Shape
<1>l. PICK leaves \in Int : leaves = total_nodes_at_level - (level_top - k)
  <2>1. \A a, b, c \in Nat : 2 * (a - b) - (b - c) \in Int
    OBVIOUS
  <2>2. total_nodes_at_level - (level_top - k) = 2 * (t[D - 1] - t[D]) - (t[D] - k)
    BY <1>5, <1>6, Zenon
  <2>3. total_nodes_at_level - (level_top - k) \in Int
    BY <2>1, <2>2, <1>num, Zenon
  <2> QED BY <2>3
<1>13. /\ i - leaves = Left(u, D + 1) /\ leaves \in Nat /\ i >= leaves
       /\ i - leaves \in Nat /\ i - leaves >= k /\ i <= n /\ i \in Nat
  <2>1. i = 2 * t[D - 1] - t[D] /\ i = Left(u, D)
    BY <1>5, <1>6, <1>10, <1>D
  <2>2. leaves = 2 * (t[D - 1] - t[D]) - (t[D] - k)
    BY <1>l, <1>5, <1>6
  <2>3. Left(u, D + 1) = 2 * t[D] - k /\ Left(u, D) <= n
    BY <1>10, <1>11
  <2>4. \A a, b, c \in Nat : c <= b /\ b <= a /\ b - c <= 2 * (a - b) =>
           LET l == 2 * (a - b) - (b - c)
               e == 2 * a - b
           IN  /\ e - l = 2 * b - c /\ l \in Nat /\ e >= l /\ e - l \in Nat /\ e - l >= c
               /\ e \in Nat
    OBVIOUS
  <2>5. i \in Nat /\ i - leaves = 2 * t[D] - k /\ leaves \in Nat /\ i >= leaves
        /\ i - leaves \in Nat /\ i - leaves >= k
    <3>1. LET l == 2 * (t[D - 1] - t[D]) - (t[D] - k)
              e == 2 * t[D - 1] - t[D]
          IN  /\ e - l = 2 * t[D] - k /\ l \in Nat /\ e >= l /\ e - l \in Nat /\ e - l >= k
              /\ e \in Nat
      BY <2>4, <1>num
    <3> QED BY <3>1, <2>1, <2>2
  <2> QED BY <2>1, <2>3, <2>5
<1>14. /\ A' = [j \in DOMAIN A |-> IF j \in i - leaves .. i - 1 THEN D ELSE A[j]]
       /\ heap' = (heap /\ i >= leaves) /\ i' = i - leaves
       /\ total_nodes_at_level' = (level_top - k) * 2
  BY <1>D, <1>k, <1>l DEF Level
<1>below. \A x, y \in Nat : x <= y =>
            /\ \A j \in 0 .. x - 1 : /\ j \in 0 .. y - 1 /\ x - 1 \in 0 .. y - 1
                                     /\ j <= x - 1 /\ x > 0
            /\ \A j \in 0 .. x - 3 : j \in 0 .. y - 3 /\ j \in 0 .. x - 1 /\ j + 2 \in 0 .. x - 1
  OBVIOUS
<1>15. \A j \in 0 .. k - 1 : A'[j] = A[j]
  <2> TAKE j \in 0 .. k - 1
  <2>1. \A x, y, z, v \in Nat : x <= y /\ x <= v =>
           \A l \in 0 .. x - 1 : l \in 0 .. v - 1 /\ ~ (l \in y .. z - 1)
    OBVIOUS
  <2>2. k <= n
    <3>1. \A x, y \in Nat : \A z \in 0 .. y - 1 : x <= z => x <= y
      OBVIOUS
    <3> QED BY <3>1, <1>5, <1>num, Zenon
  <2>3. j \in 0 .. n - 1 /\ ~ (j \in i - leaves .. i - 1)
    <3>1. \A x, y \in Nat : y >= x => x <= y
      OBVIOUS
    <3>2. k <= i - leaves
      BY <3>1, <1>13, <1>num, Zenon
    <3>3. PICK lo \in Nat : lo = i - leaves
      BY <1>13, Zenon
    <3>4. k <= lo
      BY <3>2, <3>3, Zenon
    <3>5. k \in Nat /\ n \in Nat /\ i \in Nat
      BY <1>13, <1>num, Zenon
    <3>6. \A l \in 0 .. k - 1 : l \in 0 .. n - 1 /\ ~ (l \in lo .. i - 1)
      BY <2>1, <2>2, <3>4, <3>5
    <3> QED BY <3>3, <3>6, Zenon
  <2> QED BY <2>3, <1>4, <1>14
<1>16. \A j \in 0 .. k - 1 : A'[j] \in j + 1 .. t[D] - 1
  <2> TAKE j \in 0 .. k - 1
  <2>1. /\ j \in 0 .. t[D] - 1 /\ k - 1 \in 0 .. t[D] - 1 /\ j <= k - 1 /\ k > 0
        /\ j \in 0 .. k - 1
    BY <1>below, <1>num, Zenon
  <2>2. A[j] <= A[k - 1]
    BY <1>5, <2>1 DEF Rising
  <2>3. A[j] \in j + 1 .. t[D - 1] - 1 /\ A[k - 1] \in Int /\ A[k - 1] < t[D]
    BY <1>5, <1>7, <2>1
  <2>4. A'[j] = A[j]
    BY <1>15, <2>1
  <2>5. t[D] \in Nat /\ j \in Nat /\ t[D - 1] \in Nat
    BY <1>num
  <2>6. A[j] \in Int /\ j + 1 <= A[j] /\ A[j] <= t[D] - 1
    <3>1. A[j] \in Int /\ j + 1 <= A[j]
      BY <2>3, <2>5
    <3>2. \A a, b, c \in Int : a <= b /\ b < c => a <= c - 1
      OBVIOUS
    <3>3. t[D] \in Int /\ A[k - 1] \in Int /\ A[k - 1] < t[D]
      BY <2>3, <2>5
    <3>4. A[j] <= t[D] - 1
      BY <3>1, <3>2, <3>3, <2>2, Zenon
    <3> QED BY <3>1, <3>4
  <2> QED BY <2>4, <2>5, <2>6
<1>17. Rising(A', k)
  <2>1. \A j, l \in 0 .. k - 1 : j <= l => A'[j] <= A'[l]
    <3> SUFFICES ASSUME NEW j \in 0 .. k - 1, NEW l \in 0 .. k - 1, j <= l
                 PROVE  A'[j] <= A'[l]
      OBVIOUS
    <3>1. j \in 0 .. t[D] - 1 /\ l \in 0 .. t[D] - 1
      BY <1>below, <1>num, Zenon
    <3> QED BY <3>1, <1>5, <1>15 DEF Rising
  <2>2. \A j \in 0 .. k - 3 : A'[j] < A'[j + 2]
    <3> TAKE j \in 0 .. k - 3
    <3>1. j \in 0 .. t[D] - 3 /\ j \in 0 .. k - 1 /\ j + 2 \in 0 .. k - 1
      BY <1>below, <1>num, Zenon
    <3> QED BY <3>1, <1>5, <1>15 DEF Rising
  <2> QED BY <2>1, <2>2 DEF Rising
<1>18. ASSUME NEW j \in i' .. n - 1
       PROVE  A'[j] \in 1 .. D /\ Left(u, A'[j] + 1) <= j /\ j < Left(u, A'[j])
  <2>1. CASE j \in i - leaves .. i - 1
    <3>1. \A x, y, z \in Nat : \A l \in x .. y - 1 : y <= z => l \in 0 .. z - 1 /\ l < y /\ x <= l
      OBVIOUS
    <3>2. j \in 0 .. n - 1 /\ j < i /\ i - leaves <= j
      BY <2>1, <3>1, <1>13, <1>num, Zenon
    <3>3. A'[j] = D
      BY <2>1, <3>2, <1>4, <1>14
    <3>4. A'[j] = D /\ j < Left(t, D) /\ Left(u, D + 1) <= j
      BY <3>2, <3>3, <1>5, <1>13, Zenon
    <3> QED BY <3>4, <1>D, <1>10
  <2>2. CASE j \in i .. n - 1
    <3>1. A'[j] = A[j]
      BY <2>2, <1>4, <1>13, <1>14
    <3>2. A[j] \in 1 .. D - 1 /\ Left(t, A[j] + 1) <= j /\ j < Left(t, A[j])
      BY <2>2, <1>3, <1>D DEF LevelsAt
    <3>3. A[j] \in 1 .. D /\ A[j] + 1 \in 1 .. D
      <4>1. A[j] \in 1 .. D - 1
        BY <3>2
      <4>2. \A x \in 1 .. D - 1 : x \in 1 .. D /\ x + 1 \in 1 .. D
        BY <1>D
      <4> QED BY <4>1, <4>2, Zenon
    <3> QED BY <3>1, <3>2, <3>3, <1>10
  <2> QED BY <2>1, <2>2, <1>13, <1>14
<1>19. LevelsAt(u)'
  <2>1. (D + 1) - 1 = D /\ depth' = D + 1 /\ D \in 0 .. D
    BY <1>2, <1>D
  <2>2. total_nodes_at_level' = 2 * Room(u, D)
    BY <1>5, <1>7, <1>10, <1>14
  <2>3. Shape(u, depth)'
    BY <1>2, <2>1, <1>12 DEF Shape
  <2>5. u[D + 1] = k /\ u[D] = t[D]
    BY <1>9, <2>1
  <2>6. i' = Left(u, D + 1)
    BY <1>13, <1>14
  <2>7. \A j \in 0 .. u[D + 1] - 1 : A'[j] \in j + 1 .. u[D] - 1
    BY <1>16, <2>5
  <2>8. Rising(A', u[D + 1])
    BY <1>17, <2>5
  <2>9. level_top' = u[D + 1]
    BY <1>2, <1>k, <2>5
  <2>10. \A j \in i' .. n' - 1 :
           A'[j] \in 1 .. D /\ Left(u, A'[j] + 1) <= j /\ j < Left(u, A'[j])
    BY <1>18, <1>2
  <2> QED BY <2>1, <2>2, <2>3, <2>6, <2>7, <2>8, <2>9, <2>10 DEF LevelsAt
<1>20. u \in [0 .. depth' -> 0 .. n' - 1] /\ depth' \in Nat \ {0} /\ DOMAIN A' = 0 .. n' - 1
  BY <1>2, <1>4, <1>D, <1>14
<1>21. heap'
  BY <1>4, <1>13, <1>14
<1> QED BY <1>19, <1>20, <1>21 DEF Levels

-----------------------------------------------------------------------------
(* The canonical codes. *)

\* Code a comes before code b and is no prefix of it.
Before(a, b) ==
    \E p \in 1 .. Len(a) :
        p <= Len(b) /\ a[p] = 0 /\ b[p] = 1 /\ \A q \in 1 .. p - 1 : a[q] = b[q]

\* w[b] strings of b bits are greater than the first b bits of c.
Chain(w, c) == w[0] = 0 /\ \A b \in 1 .. Len(c) : w[b] = 2 * w[b - 1] + (1 - c[b])

\* v codes as long as c are greater than c.
Free(c, v) == \E w \in [0 .. Len(c) -> Nat] : Chain(w, c) /\ w[Len(c)] = v

Bits == Seq({0, 1})

\* Of codes one before the other none is a prefix of the other.
LEMMA BeforeNoPrefix ==
    ASSUME NEW a \in Bits, NEW b \in Bits, Before(a, b)
    PROVE  ~ IsPrefix(a, b) /\ ~ IsPrefix(b, a)
<1>1. PICK p \in 1 .. Len(a) : p <= Len(b) /\ a[p] = 0 /\ b[p] = 1
  BY DEF Before
<1>2. p \in 1 .. Len(b)
  BY <1>1 DEF Bits
<1>3. SubSeq(a, 1, Len(a))[p] = 0 /\ SubSeq(b, 1, Len(b))[p] = 1
  BY <1>1, <1>2 DEF Bits
<1>4. Len(a) <= Len(b) => SubSeq(b, 1, Len(a))[p] = 1
  BY <1>1, <1>2 DEF Bits
<1>5. Len(b) <= Len(a) => SubSeq(a, 1, Len(b))[p] = 0
  BY <1>1, <1>2 DEF Bits
<1>6. 0 # 1
  OBVIOUS
<1>7. ~ IsPrefix(a, b)
  BY <1>3, <1>4, <1>6, Zenon DEF IsPrefix
<1>8. ~ IsPrefix(b, a)
  BY <1>3, <1>5, <1>6, Zenon DEF IsPrefix
<1> QED BY <1>7, <1>8

LEMMA BeforeTransitive ==
    ASSUME NEW a \in Bits, NEW b \in Bits, NEW c \in Bits, Before(a, b), Before(b, c)
    PROVE  Before(a, c)
<1>1. PICK p \in 1 .. Len(a) : p <= Len(b) /\ a[p] = 0 /\ b[p] = 1 /\ \A q \in 1 .. p - 1 : a[q] = b[q]
  BY DEF Before
<1>2. PICK r \in 1 .. Len(b) : r <= Len(c) /\ b[r] = 0 /\ c[r] = 1 /\ \A q \in 1 .. r - 1 : b[q] = c[q]
  BY DEF Before
<1>3. p # r
  BY <1>1, <1>2
<1>4. CASE p < r
  <2>1. p <= Len(c) /\ c[p] = 1
    BY <1>1, <1>2, <1>4 DEF Bits
  <2>2. \A q \in 1 .. p - 1 : a[q] = c[q]
    <3> TAKE q \in 1 .. p - 1
    <3>1. q \in 1 .. r - 1
      BY <1>4
    <3> QED BY <3>1, <1>1, <1>2
  <2> QED BY <2>1, <2>2, <1>1 DEF Before
<1>5. CASE r < p
  <2>1. r \in 1 .. Len(a) /\ a[r] = 0
    BY <1>1, <1>2, <1>5
  <2>2. \A q \in 1 .. r - 1 : a[q] = c[q]
    <3> TAKE q \in 1 .. r - 1
    <3>1. q \in 1 .. p - 1
      BY <1>5
    <3> QED BY <3>1, <1>1, <1>2
  <2> QED BY <2>1, <2>2, <1>2 DEF Before
<1> QED BY <1>3, <1>4, <1>5

\* Where a greater string exists for the first bits, one exists for more bits.
LEMMA ChainGrows ==
    ASSUME NEW c \in Bits, NEW w \in [0 .. Len(c) -> Nat], Chain(w, c),
           NEW z \in 0 .. Len(c), w[z] >= 1
    PROVE  \A b \in z .. Len(c) : w[b] >= 1
<1> DEFINE Bad == {b \in Nat : b >= z /\ b <= Len(c) /\ w[b] = 0}
<1>1. Len(c) \in Nat /\ \A b \in 1 .. Len(c) : c[b] \in {0, 1}
  BY DEF Bits
<1>2. Bad = {}
  <2>1. SUFFICES ASSUME Bad # {} PROVE FALSE
    OBVIOUS
  <2>2. PICK b \in Bad : \A k \in Bad : b <= k
    BY <2>1, Least
  <2>3. b \in Nat /\ b >= z /\ b <= Len(c) /\ w[b] = 0
    BY <2>2
  <2>4. b # z
    BY <2>3
  <2>5. PICK e \in Nat : b = e + 1
    BY <2>3, <2>4, <1>1
  <2>6. e >= z /\ e <= Len(c) /\ e \in 0 .. Len(c) /\ e \notin Bad
    BY <2>2, <2>3, <2>4, <2>5, <1>1
  <2>7. w[e] \in Nat /\ w[e] # 0
    BY <2>5, <2>6
  <2>8. b \in 1 .. Len(c) /\ b - 1 = e
    BY <2>3, <2>5, <1>1
  <2>9. w[b] = 2 * w[e] + (1 - c[b]) /\ c[b] \in {0, 1}
    BY <2>8, <1>1 DEF Chain
  <2> QED BY <2>3, <2>7, <2>9
<1>3. SUFFICES ASSUME NEW b \in z .. Len(c) PROVE w[b] >= 1
  OBVIOUS
<1>4. b \in Nat /\ b \in 0 .. Len(c) /\ b >= z /\ b <= Len(c) /\ w[b] \in Nat
  BY <1>1
<1>5. w[b] # 0
  BY <1>2, <1>4
<1> QED BY <1>4, <1>5

\* A code with no greater one is all ones.
LEMMA NoneGreater ==
    ASSUME NEW c \in Bits, Free(c, 0)
    PROVE  \A b \in 1 .. Len(c) : c[b] = 1
<1>1. PICK w \in [0 .. Len(c) -> Nat] : Chain(w, c) /\ w[Len(c)] = 0
  BY DEF Free
<1>2. SUFFICES ASSUME NEW b \in 1 .. Len(c), c[b] # 1 PROVE FALSE
  OBVIOUS
<1>3. c[b] = 0 /\ Len(c) \in Nat
  BY <1>2 DEF Bits
<1>4. b \in 0 .. Len(c) /\ b - 1 \in 0 .. Len(c) /\ Len(c) \in b .. Len(c)
  BY <1>3
<1>5. w[b] = 2 * w[b - 1] + (1 - 0) /\ w[b - 1] \in Nat
  BY <1>1, <1>3, <1>4 DEF Chain
<1>6. w[b] >= 1
  BY <1>5
<1>7. w[Len(c)] >= 1
  BY <1>1, <1>4, <1>6, ChainGrows
<1> QED BY <1>1, <1>7

\* Where there is a greater code, addBinary finds a 0 and returns the next one.
LEMMA AddOneNext ==
    ASSUME NEW c \in Bits, NEW v \in Nat, v >= 1, Free(c, v)
    PROVE  /\ addOne(c) \in Bits /\ Len(addOne(c)) = Len(c)
           /\ Free(addOne(c), v - 1)
           /\ Before(c, addOne(c))
<1>1. PICK w \in [0 .. Len(c) -> Nat] : Chain(w, c) /\ w[Len(c)] = v
  BY DEF Free
<1> DEFINE N == Len(c)
<1>2. N \in Nat /\ DOMAIN c = 1 .. N /\ \A b \in 1 .. N : c[b] \in {0, 1}
  BY DEF Bits
<1> DEFINE Ones == {k \in Nat : k <= N /\ \A l \in k + 1 .. N : c[l] = 1}
<1>3. PICK z \in Ones : \A k \in Ones : z <= k
  <2>1. N \in Ones
    BY <1>2
  <2> QED BY <2>1, Least
<1>4. z \in 0 .. N /\ \A l \in z + 1 .. N : c[l] = 1
  BY <1>2, <1>3
<1>5. z # 0
  <2>1. SUFFICES ASSUME z = 0 PROVE FALSE
    OBVIOUS
  <2> DEFINE Some == {b \in Nat : b <= N /\ w[b] >= 1}
  <2>2. N \in Some
    BY <1>1, <1>2
  <2>3. PICK b \in Some : \A k \in Some : b <= k
    BY <2>2, Least
  <2>4. b \in Nat /\ b <= N /\ w[b] >= 1
    BY <2>3
  <2>5. b # 0
    BY <2>4, <1>1 DEF Chain
  <2>6. PICK e \in Nat : b = e + 1
    BY <2>4, <2>5
  <2>7. e \notin Some /\ e \in 0 .. N /\ b \in 1 .. N /\ b - 1 = e
    BY <2>3, <2>4, <2>6, <1>2
  <2>8. w[e] \in Nat /\ w[e] = 0
    BY <2>6, <2>7, <1>2
  <2>9. c[b] = 1
    BY <2>1, <2>7, <1>4
  <2>10. w[b] = 2 * w[e] + (1 - c[b])
    BY <2>7, <1>1 DEF Chain
  <2> QED BY <2>4, <2>8, <2>9, <2>10
<1>6. z \in 1 .. N /\ c[z] = 0
  <2>1. z \in 1 .. N
    BY <1>4, <1>5
  <2>2. PICK y \in Nat : z = y + 1
    BY <2>1
  <2>3. y \notin Ones /\ y <= N
    <3>1. y \in Ones => z <= y
      BY <1>3
    <3> QED BY <3>1, <1>2, <2>1, <2>2
  <2>4. c[z] # 1
    <3>1. SUFFICES ASSUME c[z] = 1 PROVE y \in Ones
      BY <2>3
    <3>2. \A l \in y + 1 .. N : c[l] = 1
      BY <3>1, <1>4, <2>1, <2>2
    <3> QED BY <2>3, <3>2
  <2> QED BY <2>1, <2>4, <1>2
<1> HIDE DEF Ones
<1> DEFINE d == [k \in DOMAIN c |-> IF k < z THEN c[k] ELSE IF k = z THEN 1 ELSE 0]
<1>7. addOne(c) = d
  <2> DEFINE ones == {k \in DOMAIN c : \A l \in k .. Len(c) : c[l] = 1}
  <2>1. ones = z + 1 .. N
    <3>1. \A k \in z + 1 .. N : k \in ones
      BY <1>2, <1>4, <1>6
    <3>2. ASSUME NEW k \in ones PROVE k \in z + 1 .. N
      <4>1. k \in 1 .. N /\ \A l \in k .. N : c[l] = 1
        BY <1>2
      <4>2. k <= z => c[z] = 1
        BY <4>1, <1>6
      <4> QED BY <4>1, <4>2, <1>6
    <3> QED BY <3>1, <3>2
  <2>2. Cardinality(z + 1 .. N) = N - z
    <3>1. z + 1 \in Int /\ N \in Int
      BY <1>2, <1>6
    <3>2. Cardinality(z + 1 .. N) = IF z + 1 > N THEN 0 ELSE N - (z + 1) + 1
      BY <3>1, FS_Interval
    <3> QED BY <3>2, <1>2, <1>6
  <2> HIDE DEF ones
  <2>3. Len(c) - Cardinality(ones) = z /\ z # 0
    <3>1. Cardinality(ones) = N - z
      BY <2>1, <2>2
    <3> QED BY <3>1, <1>2, <1>6
  <2>4. addOne(c) = LET at == Len(c) - Cardinality(ones) IN
                    IF at = 0 THEN <<1>> \o Zeros(Len(c))
                    ELSE [k \in DOMAIN c |-> IF k < at THEN c[k] ELSE IF k = at THEN 1 ELSE 0]
    BY DEF addOne, ones
  <2> QED BY <2>3, <2>4
<1>8. d \in Bits /\ Len(d) = N
  <2>1. d \in [1 .. N -> {0, 1}]
    BY <1>2
  <2> QED BY <2>1, <1>2 DEF Bits
<1>9. /\ \A k \in 1 .. z - 1 : d[k] = c[k]
      /\ d[z] = 1
      /\ \A k \in z + 1 .. N : d[k] = 0
  BY <1>2, <1>6
<1> HIDE DEF d
<1>10. Before(c, d)
  BY <1>2, <1>6, <1>8, <1>9 DEF Before
<1>11. \A b \in z .. N : w[b] >= 1
  <2>1. z \in 0 .. N /\ z - 1 \in 0 .. N
    BY <1>2, <1>6
  <2>2. w[z] = 2 * w[z - 1] + (1 - 0) /\ w[z - 1] \in Nat
    BY <1>1, <1>6, <2>1 DEF Chain
  <2>3. w[z] >= 1
    BY <2>2
  <2> QED BY <2>1, <2>3, <1>1, ChainGrows
<1> DEFINE x == [b \in 0 .. N |-> IF b < z THEN w[b] ELSE w[b] - 1]
<1>12. x \in [0 .. N -> Nat]
  <2> SUFFICES ASSUME NEW b \in 0 .. N PROVE x[b] \in Nat
    OBVIOUS
  <2>1. w[b] \in Nat /\ (b >= z => w[b] >= 1)
    BY <1>11, <1>2, <1>6
  <2> QED BY <2>1, <1>2, <1>6
<1>13. Chain(x, d)
  <2>1. x[0] = 0
    BY <1>1, <1>2, <1>6 DEF Chain
  <2>2. ASSUME NEW b \in 1 .. N PROVE x[b] = 2 * x[b - 1] + (1 - d[b])
    <3>1. /\ b \in 0 .. N /\ b - 1 \in 0 .. N /\ w[b] \in Nat /\ w[b - 1] \in Nat
          /\ w[b] = 2 * w[b - 1] + (1 - c[b]) /\ c[b] \in {0, 1}
      BY <1>1, <1>2 DEF Chain
    <3>2. CASE b < z
      <4>1. x[b] = w[b] /\ x[b - 1] = w[b - 1] /\ d[b] = c[b]
        BY <3>1, <3>2, <1>6, <1>9
      <4> QED BY <3>1, <4>1
    <3>3. CASE b = z
      <4>1. x[b] = w[b] - 1 /\ x[b - 1] = w[b - 1] /\ d[b] = 1 /\ c[b] = 0
        BY <3>1, <3>3, <1>6, <1>9
      <4> QED BY <3>1, <4>1
    <3>4. CASE b > z
      <4>1. x[b] = w[b] - 1 /\ x[b - 1] = w[b - 1] - 1 /\ d[b] = 0 /\ c[b] = 1
        BY <3>1, <3>4, <1>4, <1>6, <1>9
      <4> QED BY <3>1, <4>1
    <3> QED BY <3>2, <3>3, <3>4, <1>6
  <2> QED BY <2>1, <2>2, <1>8 DEF Chain
<1>14. x[N] = v - 1
  BY <1>1, <1>2, <1>6
<1> HIDE DEF x
<1>15. Free(d, v - 1)
  BY <1>8, <1>12, <1>13, <1>14 DEF Free
<1> QED BY <1>7, <1>8, <1>10, <1>15

\* From one level to the next the characters left lose the level's leaves.
LEMMA LeavesOfLevel ==
    ASSUME n \in Nat, n > 1, NEW D \in Nat, NEW t \in [0 .. D -> 0 .. n - 1], Shape(t, D),
           NEW d \in 1 .. D - 1
    PROVE  /\ Room(t, d) \in Int /\ Room(t, d - 1) \in Int
           /\ Left(t, d) \in Int /\ Left(t, d + 1) \in Int
           /\ Room(t, d) = 2 * Room(t, d - 1) + Left(t, d + 1) - Left(t, d)
           /\ Room(t, d) >= 0
           /\ Left(t, d + 1) >= 1 => Room(t, d) >= 1
<1>1. PICK a \in Nat, b \in Nat, c \in Nat : a = t[d - 1] /\ b = t[d] /\ c = t[d + 1]
  <2>1. d - 1 \in 0 .. D /\ d \in 0 .. D /\ d + 1 \in 0 .. D
    OBVIOUS
  <2>2. \A e \in 0 .. D : t[e] \in Nat
    OBVIOUS
  <2> QED BY <2>1, <2>2
<1>2. c <= b /\ (b > 0 => c < b)
  BY <1>1 DEF Shape
<1>3. (d - 1) + 1 = d /\ (d + 1) - 1 = d
  OBVIOUS
<1>4. Room(t, d) = b - c /\ Room(t, d - 1) = a - b /\ Left(t, d) = 2 * a - b
      /\ Left(t, d + 1) = 2 * b - c
  BY <1>1, <1>3 DEF Room, Left
<1>5. \A x, y, z \in Nat : z <= y /\ (y > 0 => z < y) =>
         /\ y - z \in Int /\ x - y \in Int /\ 2 * x - y \in Int /\ 2 * y - z \in Int
         /\ y - z = 2 * (x - y) + (2 * y - z) - (2 * x - y)
         /\ y - z >= 0
         /\ 2 * y - z >= 1 => y - z >= 1
  OBVIOUS
<1>6. /\ b - c \in Int /\ a - b \in Int /\ 2 * a - b \in Int /\ 2 * b - c \in Int
      /\ b - c = 2 * (a - b) + (2 * b - c) - (2 * a - b)
      /\ b - c >= 0
      /\ 2 * b - c >= 1 => b - c >= 1
  BY <1>2, <1>5, Zenon
<1> QED BY <1>4, <1>6, Zenon

\* Padding a code with zeros: where no level up to the new length has a leaf,
\* each level has twice the room of the one above.
LEMMA PadFree ==
    ASSUME n \in Nat, n > 1, NEW D \in Nat, NEW t \in [0 .. D -> 0 .. n - 1], Shape(t, D),
           NEW c \in Bits, NEW m \in Nat, m >= 1, NEW e \in Len(c) + 1 .. D - 1,
           \A b \in Len(c) + 1 .. e : Left(t, b) = m,
           Free(c, Room(t, Len(c)) - 1)
    PROVE  /\ c \o Zeros(e - Len(c)) \in Bits /\ Len(c \o Zeros(e - Len(c))) = e
           /\ Free(c \o Zeros(e - Len(c)), Room(t, e) + m - Left(t, e + 1) - 1)
<1> DEFINE N == Len(c)
           z == c \o Zeros(e - N)
<1>1. N \in Nat /\ e \in Nat /\ N < e /\ e <= D - 1
  BY DEF Bits
<1>2. Zeros(e - N) \in Bits /\ Len(Zeros(e - N)) = e - N
      /\ \A b \in 1 .. e - N : Zeros(e - N)[b] = 0
  <2>1. e - N \in Nat
    BY <1>1
  <2>2. Zeros(e - N) \in [1 .. e - N -> {0, 1}]
    BY DEF Zeros
  <2> QED BY <2>1, <2>2 DEF Bits, Zeros
<1>3. z \in Bits /\ Len(z) = e /\ (\A b \in 1 .. N : z[b] = c[b]) /\ \A b \in N + 1 .. e : z[b] = 0
  <2>1. z \in Bits /\ Len(z) = e
    BY <1>1, <1>2 DEF Bits
  <2>2. \A b \in 1 .. N : z[b] = c[b]
    BY <1>1, <1>2 DEF Bits
  <2>3. ASSUME NEW b \in N + 1 .. e PROVE z[b] = 0
    <3>1. b - N \in 1 .. e - N /\ b \in 1 .. N + (e - N) /\ ~ (b <= N)
      BY <1>1
    <3>2. z[b] = Zeros(e - N)[b - N]
      BY <3>1, <1>1, <1>2 DEF Bits
    <3> QED BY <3>1, <3>2, <1>2
  <2> QED BY <2>1, <2>2, <2>3
<1> HIDE DEF z
<1>4. PICK w \in [0 .. N -> Nat] : Chain(w, c) /\ w[N] = Room(t, N) - 1
  BY DEF Free
<1>5. Left(t, e + 1) \in Int /\ Left(t, e + 1) <= m
  <2>1. e \in 1 .. D - 1 /\ e \in 1 .. D /\ e + 1 \in 1 .. D /\ e <= e + 1 /\ e \in N + 1 .. e
    BY <1>1
  <2>2. Left(t, e + 1) <= Left(t, e) /\ Left(t, e + 1) \in Int
    BY <2>1, LeavesOfLevel DEF Shape
  <2> QED BY <2>1, <2>2
\* The room of the levels before e.
<1>6. ASSUME NEW b \in N + 1 .. e - 1
      PROVE  /\ Room(t, b) \in Int /\ Room(t, b) >= 1
             /\ Room(t, b) = 2 * Room(t, b - 1)
  <2>1. b \in 1 .. D - 1 /\ b \in N + 1 .. e /\ b + 1 \in N + 1 .. e
    BY <1>1
  <2>2. Left(t, b) = m /\ Left(t, b + 1) = m
    BY <2>1
  <2>3. /\ Room(t, b) \in Int /\ Room(t, b - 1) \in Int
        /\ Room(t, b) = 2 * Room(t, b - 1) + Left(t, b + 1) - Left(t, b)
        /\ Left(t, b + 1) >= 1 => Room(t, b) >= 1
    BY <2>1, LeavesOfLevel
  <2>4. \A r, s, k \in Int : s = 2 * r + k - k => s = 2 * r
    OBVIOUS
  <2>5. Room(t, b) = 2 * Room(t, b - 1) + m - m /\ Room(t, b) >= 1 /\ m \in Int
    BY <2>2, <2>3
  <2>6. Room(t, b) = 2 * Room(t, b - 1)
    BY <2>3, <2>4, <2>5, Zenon
  <2> QED BY <2>3, <2>5, <2>6, Zenon
<1>7. /\ Room(t, e) \in Int /\ Room(t, e) >= 0 /\ Room(t, e - 1) \in Int
      /\ Room(t, e) + m - Left(t, e + 1) - 1 = 2 * (Room(t, e - 1) - 1) + 1
  <2>1. e \in 1 .. D - 1 /\ e \in N + 1 .. e
    BY <1>1
  <2>2. /\ Room(t, e) \in Int /\ Room(t, e - 1) \in Int /\ Room(t, e) >= 0
        /\ Room(t, e) = 2 * Room(t, e - 1) + Left(t, e + 1) - Left(t, e)
    BY <2>1, LeavesOfLevel
  <2>3. Left(t, e) = m
    BY <2>1
  <2>4. Room(t, e) = 2 * Room(t, e - 1) + Left(t, e + 1) - m
    BY <2>2, <2>3
  <2>5. PICK r \in Int : r = Room(t, e - 1)
    BY <2>2
  <2>6. PICK l \in Int : l = Left(t, e + 1)
    BY <1>5
  <2>7. Room(t, e) = 2 * r + l - m
    BY <2>4, <2>5, <2>6
  <2>8. Room(t, e) + m - l - 1 = 2 * (r - 1) + 1
    BY <2>2, <2>7
  <2> QED BY <2>2, <2>5, <2>6, <2>8
<1> DEFINE V == Room(t, e) + m - Left(t, e + 1) - 1
           x == [b \in 0 .. e |-> IF b <= N THEN w[b] ELSE IF b < e THEN Room(t, b) - 1 ELSE V]
<1>8. Room(t, e - 1) >= 1
  <2>1. CASE e - 1 = N
    <3>1. w[N] \in Nat
      BY <1>1
    <3> QED BY <2>1, <3>1, <1>4, <1>7
  <2>2. CASE e - 1 # N
    <3>1. e - 1 \in N + 1 .. e - 1
      BY <2>2, <1>1
    <3> QED BY <3>1, <1>6
  <2> QED BY <2>1, <2>2
<1>9. V \in Nat
  <2>1. \A r \in Int : r >= 1 => 2 * (r - 1) + 1 \in Nat
    OBVIOUS
  <2> QED BY <2>1, <1>7, <1>8
<1> HIDE DEF V
<1>10. x \in [0 .. e -> Nat]
  <2> SUFFICES ASSUME NEW b \in 0 .. e PROVE x[b] \in Nat
    OBVIOUS
  <2>1. CASE b <= N
    <3>1. b \in 0 .. N /\ x[b] = w[b]
      BY <2>1, <1>1
    <3> QED BY <3>1, <1>1, <1>4
  <2>2. CASE b > N /\ b < e
    <3>1. b \in N + 1 .. e - 1
      BY <2>2, <1>1
    <3>2. Room(t, b) - 1 \in Nat
      <4>1. \A r \in Int : r >= 1 => r - 1 \in Nat
        OBVIOUS
      <4> QED BY <3>1, <4>1, <1>6
    <3> QED BY <2>2, <3>2, <1>1
  <2>3. CASE b = e
    BY <2>3, <1>1, <1>9
  <2> QED BY <2>1, <2>2, <2>3, <1>1
<1>11. /\ \A b \in 0 .. N : x[b] = w[b]
       /\ \A b \in N + 1 .. e - 1 : x[b] = Room(t, b) - 1
       /\ x[e] = V
  BY <1>1
<1> HIDE DEF x
<1>12. \A b \in N .. e - 1 : x[b] = Room(t, b) - 1
  BY <1>1, <1>4, <1>11
<1>13. Chain(x, z)
  <2>1. x[0] = 0
    BY <1>1, <1>4, <1>11 DEF Chain
  <2>2. ASSUME NEW b \in 1 .. e PROVE x[b] = 2 * x[b - 1] + (1 - z[b])
    <3>1. CASE b <= N
      <4>1. b \in 1 .. N /\ b \in 0 .. N /\ b - 1 \in 0 .. N
        BY <3>1, <1>1
      <4>2. w[b] = 2 * w[b - 1] + (1 - c[b])
        BY <4>1, <1>4 DEF Chain
      <4> QED BY <4>1, <4>2, <1>3, <1>11
    <3>2. CASE b > N /\ b < e
      <4>1. b \in N + 1 .. e - 1 /\ b \in N .. e - 1 /\ b - 1 \in N .. e - 1 /\ b \in N + 1 .. e
        BY <3>2, <1>1
      <4>2. x[b] = Room(t, b) - 1 /\ x[b - 1] = Room(t, b - 1) - 1 /\ z[b] = 0
        BY <4>1, <1>3, <1>12
      <4>3. Room(t, b) \in Int /\ Room(t, b) = 2 * Room(t, b - 1)
        BY <4>1, <1>6
      <4>4. Room(t, b - 1) \in Int
        <5>1. b \in 1 .. D - 1
          BY <3>2, <1>1
        <5>2. \A d \in 1 .. D - 1 : Room(t, d - 1) \in Int
          BY LeavesOfLevel
        <5> QED BY <5>1, <5>2, Zenon
      <4> QED BY <4>2, <4>3, <4>4
    <3>3. CASE b = e
      <4>1. e - 1 \in N .. e - 1 /\ e \in N + 1 .. e
        BY <1>1
      <4>2. x[e - 1] = Room(t, e - 1) - 1 /\ z[e] = 0 /\ x[e] = V
        BY <4>1, <1>3, <1>11, <1>12
      <4>3. V = 2 * (Room(t, e - 1) - 1) + 1
        BY <1>7 DEF V
      <4> QED BY <3>3, <4>2, <4>3, <1>7
    <3> QED BY <3>1, <3>2, <3>3, <1>1
  <2> QED BY <2>1, <2>2, <1>3 DEF Chain
<1>14. Free(z, V)
  BY <1>3, <1>10, <1>11, <1>13 DEF Free
<1> QED BY <1>3, <1>14 DEF V, z

\* Every element is the length of a code, the shortest first, and the last code
\* made has one greater code for every character left and every internal node.
CodesAt(t) ==
    /\ Shape(t, depth) /\ t[depth - 1] = 0
    /\ \A j \in 0 .. n - 1 :
          A[j] \in 1 .. depth - 1 /\ Left(t, A[j] + 1) <= n - 1 - j /\ n - 1 - j < Left(t, A[j])
    /\ LET L == Len(huffmanCodes)
           d == A[L - 1]
       IN  Free(huffmanCodes[L], Room(t, d) + (n - L) - Left(t, d + 1))

Coding ==
    hpc \in {"codes", "coded"} /\ n > 1 =>
        /\ heap
        /\ depth \in Nat
        /\ DOMAIN A = 0 .. n - 1
        /\ huffmanCodes \in Seq(Bits)
        /\ Len(huffmanCodes) \in 1 .. n
        /\ hpc = "coded" => Len(huffmanCodes) = n
        /\ \A k \in 1 .. Len(huffmanCodes) : Len(huffmanCodes[k]) = A[k - 1]
        /\ \A j, k \in 1 .. Len(huffmanCodes) : j < k => Before(huffmanCodes[j], huffmanCodes[k])
        /\ \E t \in [0 .. depth -> 0 .. n - 1] : CodesAt(t)

LEMMA FirstCodeCoding == ASSUME n \in Nat, Levels, FirstCode PROVE Coding'
<1>1. SUFFICES ASSUME n > 1 PROVE Coding'
  <2>1. n' = n
    BY DEF FirstCode, n
  <2> QED BY <1>1, <2>1 DEF Coding
<1>2. /\ hpc = "levels" /\ i <= 0 /\ hpc' = "codes" /\ n' = n /\ heap' = heap /\ depth' = depth
      /\ A' = reverseVector(A) /\ huffmanCodes' = <<Zeros(A[n - 1])>>
  BY DEF FirstCode, levelVars, n
<1>3. PICK t \in [0 .. depth -> 0 .. n - 1] : LevelsAt(t)
  BY <1>1, <1>2 DEF Levels
<1>4. heap /\ depth \in Nat /\ depth > 0 /\ DOMAIN A = 0 .. n - 1
  BY <1>1, <1>2 DEF Levels
<1>D. PICK D \in Nat : D = depth /\ D > 0
  BY <1>4
<1>5. Shape(t, D) /\ i = Left(t, D) /\ t \in [0 .. D -> 0 .. n - 1]
  BY <1>3, <1>D DEF LevelsAt
<1>6. Left(t, 1) = n /\ Room(t, 0) = 1
  <2>1. t[0] = n - 1 /\ t[1] = n - 2 /\ 1 - 1 = 0 /\ 0 + 1 = 1
    BY <1>5 DEF Shape
  <2>2. Left(t, 1) = 2 * (n - 1) - (n - 2) /\ Room(t, 0) = (n - 1) - (n - 2)
    BY <2>1 DEF Left, Room
  <2> QED BY <2>2
<1>7. D > 1
  <2>1. D = 1 => Left(t, 1) <= 0
    BY <1>2, <1>5
  <2> QED BY <2>1, <1>1, <1>6, <1>D
<1>8. t[D - 1] = 0
  <2>1. PICK a \in Nat, b \in Nat : a = t[D - 1] /\ b = t[D]
    <3>1. D - 1 \in 0 .. D /\ D \in 0 .. D
      BY <1>D
    <3>2. \A e \in 0 .. D : t[e] \in Nat
      <4> TAKE e \in 0 .. D
      <4>1. t[e] \in 0 .. n - 1
        BY <1>5
      <4> QED BY <4>1
    <3> QED BY <3>1, <3>2
  <2>2. b <= a
    <3>1. D - 1 \in 1 .. D - 1 /\ (D - 1) + 1 = D
      BY <1>7
    <3> QED BY <2>1, <3>1, <1>5 DEF Shape
  <2>3. 2 * a - b <= 0
    BY <2>1, <1>2, <1>5 DEF Left
  <2> QED BY <2>1, <2>2, <2>3
<1>9. \A j \in 0 .. n - 1 : A[j] \in 1 .. D - 1 /\ Left(t, A[j] + 1) <= j /\ j < Left(t, A[j])
  <2> TAKE j \in 0 .. n - 1
  <2>1. j \in i .. n - 1
    <3>1. i \in Int
      <4>1. t[D] \in 0 .. n - 1 /\ t[D - 1] \in 0 .. n - 1
        BY <1>D, <1>5
      <4> QED BY <4>1, <1>5 DEF Left
    <3> QED BY <3>1, <1>2
  <2> QED BY <2>1, <1>3, <1>D DEF LevelsAt
<1>10. /\ DOMAIN A' = 0 .. n - 1
       /\ \A j \in 0 .. n - 1 : n - 1 - j \in 0 .. n - 1 /\ A'[j] = A[n - 1 - j]
  BY <1>2, <1>4 DEF reverseVector
<1>11. \A j \in 0 .. n - 1 : /\ A'[j] \in 1 .. D - 1
                             /\ Left(t, A'[j] + 1) <= n - 1 - j /\ n - 1 - j < Left(t, A'[j])
  <2> TAKE j \in 0 .. n - 1
  <2> QED BY <1>9, <1>10
<1>12. PICK e \in 1 .. D - 1 : e = A[n - 1] /\ Left(t, e + 1) <= n - 1 /\ n - 1 < Left(t, e)
  <2>1. n - 1 \in 0 .. n - 1
    BY <1>1
  <2> QED BY <2>1, <1>9
<1>13. A'[0] = e
  <2>1. 0 \in 0 .. n - 1 /\ n - 1 - 0 = n - 1
    BY <1>1
  <2> QED BY <2>1, <1>10, <1>12
<1>14. \A b \in 1 .. e : Left(t, b) = n
  <2> TAKE b \in 1 .. e
  <2>1. b \in 1 .. D - 1 /\ e \in 1 .. D /\ b \in 1 .. D /\ 1 \in 1 .. D /\ 1 <= b /\ b <= e
    OBVIOUS
  <2>2. Left(t, b) <= Left(t, 1) /\ Left(t, e) <= Left(t, b)
    BY <2>1, <1>5 DEF Shape
  <2>3. Left(t, b) \in Int /\ Left(t, e) \in Int
    BY <2>1, <1>1, <1>5, LeavesOfLevel
  <2> QED BY <2>2, <2>3, <1>6, <1>12
<1> DEFINE c == Zeros(e)
           V == Room(t, e) + n - Left(t, e + 1) - 1
<1>15. c \in Bits /\ Len(c) = e /\ Free(c, V)
  <2>1. <<>> \in Bits /\ Len(<<>>) = 0 /\ Room(t, 0) - 1 = 0
    BY <1>6 DEF Bits
  <2>2. Free(<<>>, 0)
    <3> DEFINE w == [b \in 0 .. 0 |-> 0]
    <3>1. w \in [0 .. 0 -> Nat] /\ w[0] = 0
      OBVIOUS
    <3>2. Chain(w, <<>>)
      BY <2>1, <3>1 DEF Chain
    <3> QED BY <2>1, <3>1, <3>2 DEF Free
  <2>3. 0 + 1 = 1 /\ e - 0 = e
    OBVIOUS
  <2>4. \A b \in Len(<<>>) + 1 .. e : Left(t, b) = n
    BY <1>14, <2>1, <2>3
  <2>5. e \in Len(<<>>) + 1 .. D - 1 /\ n >= 1
    BY <1>1, <2>1
  <2>6. Free(<<>>, Room(t, Len(<<>>)) - 1)
    BY <2>1, <2>2
  <2>7. /\ <<>> \o Zeros(e - Len(<<>>)) \in Bits /\ Len(<<>> \o Zeros(e - Len(<<>>))) = e
        /\ Free(<<>> \o Zeros(e - Len(<<>>)), V)
    BY <2>1, <2>4, <2>5, <2>6, <1>1, <1>5, PadFree
  <2>8. <<>> \o Zeros(e - Len(<<>>)) = c
    <3>1. c \in Seq({0, 1})
      <4>1. c \in [1 .. e -> {0, 1}]
        BY DEF Zeros
      <4> QED BY <4>1
    <3> QED BY <3>1, <2>1, <2>3
  <2> QED BY <2>7, <2>8
<1>16. huffmanCodes' = <<c>>
  BY <1>2, <1>12
<1> HIDE DEF c
<1>17. /\ huffmanCodes' \in Seq(Bits) /\ Len(huffmanCodes') = 1 /\ huffmanCodes'[1] = c
  BY <1>15, <1>16
<1>18. Free(c, Room(t, A'[1 - 1]) + (n - 1) - Left(t, A'[1 - 1] + 1))
  <2>1. Room(t, e) \in Int /\ Left(t, e + 1) \in Int
    BY <1>1, <1>5, LeavesOfLevel
  <2>2. \A r, l \in Int : r + n - l - 1 = r + (n - 1) - l
    OBVIOUS
  <2>3. V = Room(t, e) + (n - 1) - Left(t, e + 1)
    BY <2>1, <2>2
  <2> HIDE DEF V
  <2>4. 1 - 1 = 0
    OBVIOUS
  <2> QED BY <2>3, <2>4, <1>13, <1>15
<1>19. CodesAt(t)'
  <2>1. Shape(t, depth)' /\ t[depth' - 1] = 0
    BY <1>2, <1>5, <1>8, <1>D DEF Shape
  <2>2. \A j \in 0 .. n' - 1 : /\ A'[j] \in 1 .. depth' - 1
                               /\ Left(t, A'[j] + 1) <= n' - 1 - j /\ n' - 1 - j < Left(t, A'[j])
    BY <1>2, <1>11, <1>D
  <2>3. LET L == Len(huffmanCodes')
            d == A'[L - 1]
        IN  Free(huffmanCodes'[L], Room(t, d) + (n' - L) - Left(t, d + 1))
    BY <1>2, <1>17, <1>18
  <2> QED BY <2>1, <2>2, <2>3 DEF CodesAt
<1>20. /\ heap' /\ depth' \in Nat /\ DOMAIN A' = 0 .. n' - 1 /\ t \in [0 .. depth' -> 0 .. n' - 1]
       /\ 1 \in 1 .. n' /\ hpc' # "coded"
  BY <1>1, <1>2, <1>4, <1>10
<1>21. /\ \A k \in 1 .. Len(huffmanCodes') : Len(huffmanCodes'[k]) = A'[k - 1]
       /\ \A j, k \in 1 .. Len(huffmanCodes') : ~ (j < k)
  <2>1. \A k \in 1 .. 1 : k = 1 /\ k - 1 = 0
    OBVIOUS
  <2> QED BY <2>1, <1>13, <1>15, <1>17
<1> QED BY <1>17, <1>19, <1>20, <1>21 DEF Coding

\* The next code: where the length grows, every greater code of the old length
\* stands for an internal node, and none of the lengths between has a leaf.
LEMMA PushCodeCoding == ASSUME n \in Nat, Coding, PushCode PROVE Coding'
<1>1. SUFFICES ASSUME n > 1 PROVE Coding'
  <2>1. n' = n
    BY DEF PushCode, n
  <2> QED BY <1>1, <2>1 DEF Coding
<1>2. hpc = "codes" /\ n' = n /\ heap' = heap /\ depth' = depth /\ A' = A
  BY DEF PushCode, levelVars, n
<1>3. /\ heap /\ depth \in Nat /\ DOMAIN A = 0 .. n - 1
      /\ huffmanCodes \in Seq(Bits) /\ Len(huffmanCodes) \in 1 .. n
      /\ \A k \in 1 .. Len(huffmanCodes) : Len(huffmanCodes[k]) = A[k - 1]
      /\ \A j, k \in 1 .. Len(huffmanCodes) : j < k => Before(huffmanCodes[j], huffmanCodes[k])
  BY <1>1, <1>2 DEF Coding
<1>4. PICK t \in [0 .. depth -> 0 .. n - 1] : CodesAt(t)
  BY <1>1, <1>2 DEF Coding
<1>5. CASE Len(huffmanCodes) = n
  <2>1. hpc' = "coded" /\ huffmanCodes' = huffmanCodes
    BY <1>5 DEF PushCode
  <2>2. CodesAt(t)'
    BY <1>2, <1>4, <2>1 DEF CodesAt, Shape
  <2> QED BY <1>2, <1>3, <1>5, <2>1, <2>2 DEF Coding
<1>6. CASE Len(huffmanCodes) # n
  <2>L. PICK L \in Nat : L = Len(huffmanCodes) /\ L >= 1 /\ L < n
    BY <1>3, <1>6
  <2>D. PICK D \in Nat : D = depth
    BY <1>3
  <2>1. /\ Shape(t, D) /\ t \in [0 .. D -> 0 .. n - 1]
        /\ \A j \in 0 .. n - 1 :
             A[j] \in 1 .. D - 1 /\ Left(t, A[j] + 1) <= n - 1 - j /\ n - 1 - j < Left(t, A[j])
    BY <1>4, <2>D DEF CodesAt
  <2>2. PICK d \in 1 .. D - 1 : d = A[L - 1] /\ Left(t, d + 1) <= n - L /\ n - L < Left(t, d)
    <3>1. L - 1 \in 0 .. n - 1 /\ n - 1 - (L - 1) = n - L
      BY <2>L
    <3> QED BY <3>1, <2>1
  <2>3. PICK e \in 1 .. D - 1 :
           e = A[L] /\ Left(t, e + 1) <= n - L - 1 /\ n - L - 1 < Left(t, e)
    <3>1. L \in 0 .. n - 1 /\ n - 1 - L = n - L - 1
      BY <2>L
    <3> QED BY <3>1, <2>1
  <2>m. PICK m \in Nat : m = n - L /\ m >= 1 /\ m - 1 = n - (L + 1) /\ m - 1 = n - L - 1
    BY <2>L
  <2>4. /\ Room(t, d) \in Int /\ Room(t, d) >= 0 /\ Left(t, d) \in Int /\ Left(t, d + 1) \in Int
        /\ Room(t, e) \in Int /\ Left(t, e) \in Int /\ Left(t, e + 1) \in Int
        /\ Left(t, d + 1) >= 1 => Room(t, d) >= 1
    BY <1>1, <2>1, LeavesOfLevel
  <2>5. d <= e
    <3>1. SUFFICES ASSUME e < d PROVE FALSE
      OBVIOUS
    <3>2. e + 1 \in 1 .. D /\ d \in 1 .. D /\ e + 1 <= d
      BY <3>1
    <3>3. Left(t, d) <= Left(t, e + 1)
      BY <3>2, <2>1 DEF Shape
    <3>4. \A x, y, z \in Int : ~ (x <= y /\ y <= z - 1 /\ z < x)
      OBVIOUS
    <3> QED BY <3>3, <3>4, <2>2, <2>3, <2>4, <2>m
  <2> DEFINE c == huffmanCodes[L]
             v == Room(t, d) + m - Left(t, d + 1)
  <2>6. c \in Bits /\ Len(c) = d /\ Free(c, v)
    <3>1. L \in 1 .. Len(huffmanCodes) /\ n - L = m
      BY <2>L, <2>m
    <3>2. Free(c, Room(t, d) + (n - L) - Left(t, d + 1))
      BY <1>4, <2>L, <2>2 DEF CodesAt
    <3> QED BY <3>1, <3>2, <1>3, <2>2
\* There is a greater code of the old length.
  <2>7. v \in Nat /\ v >= 1
    <3>1. \A r, l \in Int : r >= 0 /\ l <= m /\ (l >= 1 => r >= 1) =>
            r + m - l \in Nat /\ r + m - l >= 1
      BY <2>m
    <3>2. Left(t, d + 1) <= m
      BY <2>2, <2>m
    <3> QED BY <3>1, <3>2, <2>4
  <2> HIDE DEF v, c
  <2>8. /\ addOne(c) \in Bits /\ Len(addOne(c)) = d /\ Free(addOne(c), v - 1)
        /\ Before(c, addOne(c))
    BY <2>6, <2>7, AddOneNext
  <2> DEFINE z == padTo(addOne(c), e)
  <2>9. /\ z \in Bits /\ Len(z) = e /\ Before(c, z)
        /\ Free(z, Room(t, e) + (m - 1) - Left(t, e + 1))
    <3>1. CASE d = e
      <4>1. Zeros(0) = <<>>
        <5>1. Zeros(0) = [b \in 1 .. 0 |-> 0]
          BY DEF Zeros
        <5> QED BY <5>1
      <4>2. z = addOne(c) \o Zeros(0)
        BY <3>1, <2>8 DEF padTo
      <4>3. z = addOne(c)
        BY <4>1, <4>2, <2>8 DEF Bits
      <4>4. \A r, l \in Int : r + m - l - 1 = r + (m - 1) - l
        OBVIOUS
      <4>5. v - 1 = Room(t, e) + (m - 1) - Left(t, e + 1)
        BY <3>1, <4>4, <2>4 DEF v
      <4> QED BY <3>1, <4>3, <4>5, <2>8
    <3>2. CASE d < e
      <4>1. z = addOne(c) \o Zeros(e - Len(addOne(c)))
        BY <3>2, <2>8 DEF padTo
      <4>2. ASSUME NEW b \in d + 1 .. e PROVE Left(t, b) = m
        <5>1. b \in 1 .. D - 1 /\ b \in 1 .. D /\ d + 1 \in 1 .. D /\ e \in 1 .. D
              /\ d + 1 <= b /\ b <= e
          BY <3>2
        <5>2. Left(t, b) <= Left(t, d + 1) /\ Left(t, e) <= Left(t, b) /\ Left(t, b) \in Int
          BY <5>1, <1>1, <2>1, LeavesOfLevel DEF Shape
        <5>3. \A x, y, a \in Int : a <= x /\ y <= a /\ x <= m /\ m - 1 < y => a = m
          OBVIOUS
        <5>4. Left(t, d + 1) <= m /\ m - 1 < Left(t, e)
          BY <2>2, <2>3, <2>m
        <5> QED BY <5>2, <5>3, <5>4, <2>4
      <4>3. Left(t, d + 1) = m
        <5>1. d + 1 \in d + 1 .. e
          BY <3>2
        <5> QED BY <4>2, <5>1
      <4>4. v - 1 = Room(t, d) - 1
        <5>1. \A r \in Int : r + m - m - 1 = r - 1
          OBVIOUS
        <5> QED BY <4>3, <5>1, <2>4 DEF v
      <4>5. /\ addOne(c) \in Bits /\ e \in Len(addOne(c)) + 1 .. D - 1
            /\ \A b \in Len(addOne(c)) + 1 .. e : Left(t, b) = m
            /\ Free(addOne(c), Room(t, Len(addOne(c))) - 1)
        BY <3>2, <4>2, <4>4, <2>8
      <4>6. /\ z \in Bits /\ Len(z) = e
            /\ Free(z, Room(t, e) + m - Left(t, e + 1) - 1)
        <5>1. PICK a \in Bits : a = addOne(c)
          BY <2>8
        <5>2. /\ a \o Zeros(e - Len(a)) \in Bits /\ Len(a \o Zeros(e - Len(a))) = e
              /\ Free(a \o Zeros(e - Len(a)), Room(t, e) + m - Left(t, e + 1) - 1)
          <6>1. /\ e \in Len(a) + 1 .. D - 1 /\ \A b \in Len(a) + 1 .. e : Left(t, b) = m
                /\ Free(a, Room(t, Len(a)) - 1)
            BY <4>5, <5>1
          <6>2. Shape(t, D) /\ t \in [0 .. D -> 0 .. n - 1] /\ m >= 1
            BY <2>1, <2>m
          <6> QED BY <6>1, <6>2, <1>1, PadFree
        <5> QED BY <4>1, <5>1, <5>2
      <4>7. \A r, l \in Int : r + m - l - 1 = r + (m - 1) - l
        OBVIOUS
      <4>8. Room(t, e) + m - Left(t, e + 1) - 1 = Room(t, e) + (m - 1) - Left(t, e + 1)
        BY <4>7, <2>4
      <4>9. Before(c, z)
        <5>1. PICK p \in 1 .. Len(c) : /\ p <= Len(addOne(c)) /\ c[p] = 0 /\ addOne(c)[p] = 1
                                       /\ \A q \in 1 .. p - 1 : c[q] = addOne(c)[q]
          BY <2>8 DEF Before
        <5>2. \A b \in 1 .. d : z[b] = addOne(c)[b]
          <6>1. Zeros(e - Len(addOne(c))) \in Seq({0, 1})
            <7>1. Zeros(e - d) \in [1 .. e - d -> {0, 1}] /\ e - d \in Nat
              BY <3>2 DEF Zeros
            <7> QED BY <7>1, <2>8
          <6> QED BY <4>1, <6>1, <2>8 DEF Bits
        <5>3. p \in 1 .. d /\ (\A q \in 1 .. p - 1 : q \in 1 .. d) /\ p <= Len(z)
          BY <5>1, <4>6, <2>6, <3>2
        <5>4. z[p] = 1 /\ \A q \in 1 .. p - 1 : c[q] = z[q]
          BY <5>1, <5>2, <5>3, <2>8
        <5> HIDE DEF z
        <5> QED BY <5>1, <5>3, <5>4 DEF Before
      <4> QED BY <4>6, <4>8, <4>9
    <3> QED BY <3>1, <3>2, <2>5
  <2> HIDE DEF z
  <2>10. hpc' = "codes" /\ huffmanCodes' = Append(huffmanCodes, z)
    <3>1. Last(huffmanCodes) = c
      BY <2>L DEF Last, c
    <3>2. NextCode(Last(huffmanCodes), A[Len(huffmanCodes)]) = z
      BY <3>1, <2>L, <2>3 DEF NextCode, z
    <3>3. Len(huffmanCodes) < n
      BY <2>L
    <3> QED BY <3>2, <3>3, <1>2 DEF PushCode
  <2>11. /\ huffmanCodes' \in Seq(Bits) /\ Len(huffmanCodes') = L + 1 /\ huffmanCodes'[L + 1] = z
         /\ \A k \in 1 .. L : huffmanCodes'[k] = huffmanCodes[k]
    BY <1>3, <2>L, <2>9, <2>10
  <2>12. \A k \in 1 .. L + 1 : Len(huffmanCodes'[k]) = A[k - 1]
    <3>1. \A k \in 1 .. L : Len(huffmanCodes'[k]) = A[k - 1]
      BY <1>3, <2>L, <2>11
    <3>2. Len(huffmanCodes'[L + 1]) = A[(L + 1) - 1]
      BY <2>3, <2>9, <2>11
    <3>3. \A k \in 1 .. L + 1 : k \in 1 .. L \/ k = L + 1
      OBVIOUS
    <3> QED BY <3>1, <3>2, <3>3
  <2>13. ASSUME NEW j \in 1 .. L + 1, NEW k \in 1 .. L + 1, j < k
         PROVE  Before(huffmanCodes'[j], huffmanCodes'[k])
    <3>1. CASE k \in 1 .. L
      <4>1. j \in 1 .. L
        BY <3>1, <2>13
      <4> QED BY <4>1, <3>1, <1>3, <2>L, <2>11, <2>13
    <3>2. CASE k = L + 1
      <4>1. j \in 1 .. L /\ L \in 1 .. L
        BY <3>2, <2>13, <2>L
      <4>2. huffmanCodes[j] \in Bits
        BY <4>1, <1>3, <2>L
      <4>3. j = L => Before(huffmanCodes[j], z)
        BY <2>9 DEF c
      <4>4. j # L => Before(huffmanCodes[j], z)
        <5>1. j # L => Before(huffmanCodes[j], c)
          BY <4>1, <1>3, <2>L DEF c
        <5> QED BY <5>1, <4>2, <2>6, <2>9, BeforeTransitive
      <4> QED BY <3>2, <4>1, <4>3, <4>4, <2>11
    <3>3. k \in 1 .. L \/ k = L + 1
      OBVIOUS
    <3> QED BY <3>1, <3>2, <3>3
  <2>14. Free(z, Room(t, A'[(L + 1) - 1]) + (n - (L + 1)) - Left(t, A'[(L + 1) - 1] + 1))
    <3>1. (L + 1) - 1 = L /\ n - (L + 1) = m - 1 /\ A'[L] = e
      BY <1>2, <2>3, <2>m
    <3> QED BY <3>1, <2>9
  <2>15. CodesAt(t)'
    <3>1. Shape(t, depth)' /\ t[depth' - 1] = 0
      BY <1>2, <1>4 DEF CodesAt, Shape
    <3>2. \A j \in 0 .. n' - 1 : /\ A'[j] \in 1 .. depth' - 1
                                 /\ Left(t, A'[j] + 1) <= n' - 1 - j /\ n' - 1 - j < Left(t, A'[j])
      BY <1>2, <2>1, <2>D
    <3>3. LET K == Len(huffmanCodes')
              b == A'[K - 1]
          IN  Free(huffmanCodes'[K], Room(t, b) + (n' - K) - Left(t, b + 1))
      BY <1>2, <2>11, <2>14
    <3> QED BY <3>1, <3>2, <3>3 DEF CodesAt
  <2>16. L + 1 \in 1 .. n /\ t \in [0 .. depth' -> 0 .. n' - 1]
    BY <1>2, <2>L
  <2> QED BY <1>2, <1>3, <2>10, <2>11, <2>12, <2>13, <2>15, <2>16 DEF Coding
<1> QED BY <1>5, <1>6

\* The code table is complete: the last code has no greater one.
LEMMA CodingComplete == ASSUME n \in Nat, Coding PROVE PrefixFree
<1>1. SUFFICES ASSUME hpc = "coded", n > 1 PROVE PrefixFree
  BY DEF PrefixFree
<1>2. /\ heap /\ huffmanCodes \in Seq(Bits) /\ Len(huffmanCodes) = n
      /\ \A k \in 1 .. n : Len(huffmanCodes[k]) = A[k - 1]
      /\ \A j, k \in 1 .. n : j < k => Before(huffmanCodes[j], huffmanCodes[k])
  BY <1>1 DEF Coding
<1>3. PICK t \in [0 .. depth -> 0 .. n - 1] : CodesAt(t)
  BY <1>1 DEF Coding
<1>4. depth \in Nat
  BY <1>1 DEF Coding
<1>5. \A j \in 1 .. n : huffmanCodes[j] \in Bits
  BY <1>2
<1>6. ASSUME NEW j \in 1 .. n, NEW k \in 1 .. n, j # k
      PROVE  ~ IsPrefix(huffmanCodes[j], huffmanCodes[k])
  <2>1. j < k \/ k < j
    BY <1>6
  <2> QED BY <2>1, <1>2, <1>5, BeforeNoPrefix
<1>7. PICK d \in 1 .. depth - 1 : d = A[n - 1] /\ Left(t, d + 1) <= 0 /\ 0 < Left(t, d)
  <2>1. n - 1 \in 0 .. n - 1 /\ n - 1 - (n - 1) = 0
    BY <1>1
  <2> QED BY <2>1, <1>3 DEF CodesAt
<1> DEFINE v == Room(t, d) + 0 - Left(t, d + 1)
<1>8. Free(huffmanCodes[n], v)
  <2>1. n - n = 0
    OBVIOUS
  <2> QED BY <2>1, <1>2, <1>3, <1>7 DEF CodesAt
<1>9. v = 0
  <2>1. v \in Nat
    <3>1. PICK w \in [0 .. Len(huffmanCodes[n]) -> Nat] : w[Len(huffmanCodes[n])] = v
      BY <1>8 DEF Free
    <3>2. Len(huffmanCodes[n]) \in 0 .. Len(huffmanCodes[n])
      <4>1. n \in 1 .. n
        BY <1>1
      <4>2. huffmanCodes[n] \in Bits
        BY <1>5, <4>1
      <4> QED BY <4>2 DEF Bits
    <3> QED BY <3>1, <3>2
  <2>2. PICK b \in Nat, c \in Nat : b = t[d] /\ c = t[d + 1]
    <3>1. d \in 0 .. depth /\ d + 1 \in 0 .. depth
      BY <1>4
    <3>2. \A e \in 0 .. depth : t[e] \in Nat
      OBVIOUS
    <3> QED BY <3>1, <3>2
  <2>3. Room(t, d) = b - c /\ Left(t, d + 1) = 2 * b - c
    <3>1. (d + 1) - 1 = d
      OBVIOUS
    <3> QED BY <2>2, <3>1 DEF Room, Left
  <2>4. v = (b - c) + 0 - (2 * b - c)
    BY <2>3
  <2> HIDE DEF v
  <2> QED BY <2>1, <2>4
<1> HIDE DEF v
<1>10. \A b \in 1 .. A[n - 1] : huffmanCodes[n][b] = 1
  <2>1. n \in 1 .. n
    BY <1>1
  <2>2. Len(huffmanCodes[n]) = A[n - 1] /\ huffmanCodes[n] \in Bits
    BY <1>2, <1>5, <2>1
  <2> QED BY <2>2, <1>8, <1>9, NoneGreater
<1> QED BY <1>2, <1>6, <1>10 DEF PrefixFree

CInv == IInv /\ Parents /\ Levels /\ Coding

\* Only the loops change what the others are about.
LEMMA HuffmanFrame ==
    ASSUME CInv, [Next]_cvars, ~ TakeRoot, ~ TakeLeaf, ~ TreeBuilt, ~ Level, ~ FirstCode, ~ PushCode
    PROVE  Parents' /\ Levels' /\ Coding'
<1>1. \/ hpc' = "crash" /\ freq' = freq
      \/ UNCHANGED hvars
  BY DEF Next, HuffmanStep, EmptyCrashes, GetCodes, Deflate, combineBinaryFiles,
         separateBinaryFile, decodeBinaryFileToMap, inflateOpens, inflate, hvars, cvars
<1>2. CASE hpc' = "crash"
  BY <1>2 DEF Parents, Levels, Coding
<1>3. CASE UNCHANGED hvars
  <2>1. n' = n
    BY <1>3 DEF hvars, n
  <2>2. Parents'
    BY <1>3, <2>1 DEF CInv, hvars, treeVars, levelVars, Parents, Rising
  <2>3. Levels'
    BY <1>3, <2>1 DEF CInv, hvars, treeVars, levelVars, Levels, LevelsAt, Shape, Rising
  <2>4. Coding'
    BY <1>3, <2>1 DEF CInv, hvars, treeVars, levelVars, Coding, CodesAt, Shape
  <2> QED BY <2>2, <2>3, <2>4
<1> QED BY <1>1, <1>2, <1>3

LEMMA InitCInv == Init => CInv
<1> SUFFICES ASSUME Init PROVE CInv
  OBVIOUS
<1>1. hpc = "tree" /\ root = 0 /\ next = 0 /\ heap
  BY DEF Init, HuffmanInit
<1>2. Parents
  BY <1>1 DEF Parents, Rising
<1>3. Levels /\ Coding
  BY <1>1 DEF Levels, Coding
<1> QED BY InitInv, <1>2, <1>3 DEF CInv

LEMMA StepCInv == ASSUME CInv, [Next]_cvars PROVE CInv'
<1>1. IInv'
  BY TakeRootInv, TakeLeafInv, LaterInv DEF CInv
<1>2. n \in Nat
  BY DEF CInv, IInv, ArrayOK
<1>3. CASE TakeRoot
  <2>1. hpc' = "tree"
    BY <1>3 DEF TakeRoot
  <2> QED BY <1>1, <1>3, <2>1, TakeRootParents DEF CInv, Levels, Coding
<1>4. CASE TakeLeaf
  <2>1. hpc' = "tree"
    BY <1>4 DEF TakeLeaf
  <2> QED BY <1>1, <1>4, <2>1, TakeLeafParents DEF CInv, Levels, Coding
<1>5. CASE TreeBuilt
  <2>1. hpc' = "levels"
    BY <1>5 DEF TreeBuilt
  <2> QED BY <1>1, <1>5, <2>1, TreeBuiltLevels DEF CInv, Parents, Coding
<1>6. CASE Level
  <2>1. hpc' = "levels"
    BY <1>6 DEF Level
  <2> QED BY <1>1, <1>2, <1>6, <2>1, LevelLevels DEF CInv, Parents, Coding
<1>7. CASE FirstCode
  <2>1. hpc' = "codes"
    BY <1>7 DEF FirstCode
  <2> QED BY <1>1, <1>2, <1>7, <2>1, FirstCodeCoding DEF CInv, Parents, Levels
<1>8. CASE PushCode
  <2>1. hpc' \in {"codes", "coded"}
    BY <1>8 DEF PushCode
  <2> QED BY <1>1, <1>2, <1>8, <2>1, PushCodeCoding DEF CInv, Parents, Levels
<1>9. CASE ~ TakeRoot /\ ~ TakeLeaf /\ ~ TreeBuilt /\ ~ Level /\ ~ FirstCode /\ ~ PushCode
  BY <1>1, <1>9, HuffmanFrame DEF CInv
<1> QED BY <1>3, <1>4, <1>5, <1>6, <1>7, <1>8, <1>9

\* For every file of two or more different characters the codes made are a
\* prefix code that uses up the whole code space, of the lengths the second
\* loop has left in the array, and nothing is written outside of it.
THEOREM CodesPrefixFree == Spec => []PrefixFree
<1>1. CInv => PrefixFree
  BY CodingComplete DEF CInv, IInv, ArrayOK
<1> QED BY InitCInv, StepCInv, <1>1, PTL DEF Spec

---------------------------------------------------------------------------
(* The orders of the containers.                                           *)

\* A function on 1 .. N is a sequence.
LEMMA FcnSeq ==
    ASSUME NEW S, NEW N \in Nat, NEW s \in [1 .. N -> S]
    PROVE  s \in Seq(S) /\ Len(s) = N /\ DOMAIN s = 1 .. N
  OBVIOUS

\* How many elements of S come before c in the order R.
RankIn(S, R, c) == Cardinality({d \in S : <<d, c>> \in R})

\* The order R numbers the elements of S.
Ranked(S, R) ==
    /\ \A c \in S : RankIn(S, R, c) \in 0 .. Cardinality(S) - 1
    /\ \A c, d \in S : <<c, d>> \in R => RankIn(S, R, c) < RankIn(S, R, d)
    /\ \A c, d \in S : RankIn(S, R, c) = RankIn(S, R, d) => c = d
    /\ \A k \in 1 .. Cardinality(S) : \E c \in S : RankIn(S, R, c) = k - 1

\* The elements of a finite set can be numbered along a total order.
LEMMA Ranks ==
    ASSUME NEW S, IsFiniteSet(S), NEW R,
           \A c \in S : <<c, c>> \notin R,
           \A c, d \in S : c # d => <<c, d>> \in R \/ <<d, c>> \in R,
           \A c, d, e \in S : <<c, d>> \in R /\ <<d, e>> \in R => <<c, e>> \in R
    PROVE  Ranked(S, R)
<1> DEFINE below(c) == {d \in S : <<d, c>> \in R}
           rank(c) == Cardinality(below(c))
           N == Cardinality(S)
<1>1. N \in Nat
  BY FS_CardinalityType
<1>2. \A c \in S : IsFiniteSet(below(c)) /\ rank(c) \in 0 .. N - 1
  <2> SUFFICES ASSUME NEW c \in S PROVE IsFiniteSet(below(c)) /\ rank(c) \in 0 .. N - 1
    OBVIOUS
  <2>1. below(c) \in SUBSET S /\ below(c) # S
    OBVIOUS
  <2>2. /\ IsFiniteSet(below(c)) /\ rank(c) <= N /\ rank(c) # N
    BY <2>1, FS_Subset, Zenon
  <2>3. rank(c) \in Nat
    BY <2>2, FS_CardinalityType
  <2> HIDE DEF rank
  <2>4. rank(c) \in 0 .. N - 1
    BY <1>1, <2>2, <2>3
  <2> QED BY <2>2, <2>4
<1>nat. \A c \in S : rank(c) \in Nat
  <2>1. \A x \in 0 .. N - 1 : x \in Nat
    BY <1>1
  <2> QED BY <1>2, <2>1, Zenon
<1>3. \A c, d \in S : <<c, d>> \in R => rank(c) < rank(d)
  <2> SUFFICES ASSUME NEW c \in S, NEW d \in S, <<c, d>> \in R PROVE rank(c) < rank(d)
    OBVIOUS
  <2>1. below(c) \in SUBSET below(d)
    OBVIOUS
  <2>2. c \in below(d) /\ c \notin below(c)
    OBVIOUS
  <2>3. rank(c) <= rank(d) /\ rank(c) # rank(d)
    BY <1>2, <2>1, <2>2, FS_Subset, Zenon
  <2> HIDE DEF rank
  <2> QED BY <2>3, <1>nat
<1>4. \A c, d \in S : rank(c) = rank(d) => c = d
  <2> SUFFICES ASSUME NEW c \in S, NEW d \in S, rank(c) = rank(d), c # d PROVE FALSE
    OBVIOUS
  <2> HIDE DEF rank
  <2>1. rank(c) < rank(d) \/ rank(d) < rank(c)
    BY <1>3, Zenon
  <2> QED BY <2>1, <1>nat
<1>5. \A k \in 1 .. N : \E c \in S : rank(c) = k - 1
  <2> HIDE DEF rank
  <2> DEFINE f == [c \in S |-> rank(c)]
             T == 0 .. N - 1
  <2>1. f \in Injection(S, T)
    BY <1>2, <1>4 DEF Injection, IsInjective
  <2>2. IsFiniteSet(T) /\ Cardinality(T) = N
    <3>1. 0 \in Int /\ N - 1 \in Int
      BY <1>1
    <3>2. IsFiniteSet(T) /\ Cardinality(T) = IF 0 > N - 1 THEN 0 ELSE (N - 1) - 0 + 1
      BY <3>1, FS_Interval, Zenon
    <3> QED BY <3>2, <1>1
  <2>3. f \in Surjection(S, T)
    BY <2>1, <2>2, FS_Injection, Zenon
  <2>4. \A k \in T : \E c \in S : f[c] = k
    BY <2>3 DEF Surjection
  <2> SUFFICES ASSUME NEW k \in 1 .. N PROVE \E c \in S : rank(c) = k - 1
    OBVIOUS
  <2>5. k - 1 \in T
    BY <1>1
  <2> QED BY <2>4, <2>5
<1>6. \A c \in S : RankIn(S, R, c) = rank(c)
  BY DEF RankIn
<1> HIDE DEF rank
<1>7. \A c \in S : RankIn(S, R, c) \in 0 .. N - 1
  BY <1>2, <1>6, Zenon
<1>8. \A c, d \in S : <<c, d>> \in R => RankIn(S, R, c) < RankIn(S, R, d)
  BY <1>3, <1>6
<1>9. \A c, d \in S : RankIn(S, R, c) = RankIn(S, R, d) => c = d
  BY <1>4, <1>6, Zenon
<1>10. \A k \in 1 .. N : \E c \in S : RankIn(S, R, c) = k - 1
  BY <1>5, <1>6, Zenon
<1> QED BY <1>7, <1>8, <1>9, <1>10, Zenon DEF Ranked

\* s has every element of S, once.
Lists(s, S) ==
    /\ s \in Seq(S) /\ Len(s) = Cardinality(S) /\ DOMAIN s = 1 .. Cardinality(S)
    /\ \A j, k \in DOMAIN s : s[j] = s[k] => j = k
    /\ \A c \in S : \E k \in DOMAIN s : s[k] = c

\* Choosing by rank lists a set in its order.
LEMMA ListedInOrder ==
    ASSUME NEW S, IsFiniteSet(S), NEW R,
           \A c \in S : <<c, c>> \notin R,
           \A c, d \in S : c # d => <<c, d>> \in R \/ <<d, c>> \in R,
           \A c, d, e \in S : <<c, d>> \in R /\ <<d, e>> \in R => <<c, e>> \in R,
           NEW s, s = [k \in 1 .. Cardinality(S) |-> s[k]],
           \A k \in 1 .. Cardinality(S) :
              (\E c \in S : RankIn(S, R, c) = k - 1) => s[k] \in S /\ RankIn(S, R, s[k]) = k - 1
    PROVE  /\ Lists(s, S)
           /\ \A j, k \in DOMAIN s : j < k => <<s[j], s[k]>> \in R
<1> DEFINE N == Cardinality(S)
<1>1. /\ N \in Nat
      /\ \A c \in S : RankIn(S, R, c) \in 0 .. N - 1
      /\ \A c, d \in S : <<c, d>> \in R => RankIn(S, R, c) < RankIn(S, R, d)
      /\ \A c, d \in S : RankIn(S, R, c) = RankIn(S, R, d) => c = d
      /\ \A k \in 1 .. N : \E c \in S : RankIn(S, R, c) = k - 1
  <2>1. Cardinality(S) \in Nat
    BY FS_CardinalityType
  <2>2. Ranked(S, R)
    BY Ranks
  <2> QED BY <2>1, <2>2 DEF Ranked
<1>N. N \in Nat
  BY <1>1
<1>2. s = [k \in 1 .. N |-> s[k]]
  BY Zenon
<1>3. \A k \in 1 .. N : s[k] \in S /\ RankIn(S, R, s[k]) = k - 1
  BY <1>1
<1> HIDE DEF N
<1>4. DOMAIN s = 1 .. N /\ s \in [1 .. N -> S]
  BY <1>2, <1>3
<1>5. s \in Seq(S) /\ Len(s) = N
  BY <1>N, <1>4, FcnSeq, Zenon
<1>6. \A j, k \in 1 .. N : s[j] = s[k] => j = k
  <2> SUFFICES ASSUME NEW j \in 1 .. N, NEW k \in 1 .. N, s[j] = s[k] PROVE j = k
    OBVIOUS
  <2>1. j - 1 = k - 1
    BY <1>3, Zenon
  <2> QED BY <2>1, <1>1
<1>7. \A c \in S : \E k \in 1 .. N : s[k] = c
  <2> SUFFICES ASSUME NEW c \in S PROVE \E k \in 1 .. N : s[k] = c
    OBVIOUS
  <2> DEFINE r == RankIn(S, R, c)
  <2>1. r \in 0 .. N - 1
    BY <1>1
  <2> HIDE DEF r
  <2>2. r + 1 \in 1 .. N /\ (r + 1) - 1 = r
    BY <1>1, <2>1
  <2>3. s[r + 1] \in S /\ RankIn(S, R, s[r + 1]) = r
    BY <1>3, <2>2, Zenon
  <2>4. s[r + 1] = c
    BY <1>1, <2>3, Zenon DEF r
  <2> QED BY <2>2, <2>4
<1>8. \A j, k \in 1 .. N : j < k => <<s[j], s[k]>> \in R
  <2> SUFFICES ASSUME NEW j \in 1 .. N, NEW k \in 1 .. N, j < k PROVE <<s[j], s[k]>> \in R
    OBVIOUS
  <2>1. s[j] \in S /\ s[k] \in S /\ RankIn(S, R, s[j]) = j - 1 /\ RankIn(S, R, s[k]) = k - 1
    BY <1>3, Zenon
  <2>2. s[j] # s[k]
    <3>1. j # k
      BY <1>N
    <3> QED BY <3>1, <1>6
  <2>3. <<s[j], s[k]>> \in R \/ <<s[k], s[j]>> \in R
    BY <2>1, <2>2, Zenon
  <2>4. ~ (<<s[k], s[j]>> \in R)
    <3>1. <<s[k], s[j]>> \in R => RankIn(S, R, s[k]) < RankIn(S, R, s[j])
      BY <1>1, <2>1
    <3>2. <<s[k], s[j]>> \in R => k - 1 < j - 1
      BY <3>1, <2>1
    <3> QED BY <3>2, <1>N
  <2> QED BY <2>3, <2>4
<1> QED BY <1>4, <1>5, <1>6, <1>7, <1>8 DEF Lists, N

\* char's order is a total one.
LEMMA CharsOrdered ==
    /\ \A c \in 0 .. 255 : ~ CharLess(c, c)
    /\ \A c, d \in 0 .. 255 : c # d => CharLess(c, d) \/ CharLess(d, c)
    /\ \A c, d, e \in 0 .. 255 : CharLess(c, d) /\ CharLess(d, e) => CharLess(c, e)
<1>1. \A c \in 0 .. 255 : Signed(c) \in Int
  BY DEF Signed
<1>2. \A c, d \in 0 .. 255 : Signed(c) = Signed(d) => c = d
  <2> SUFFICES ASSUME NEW c \in 0 .. 255, NEW d \in 0 .. 255,
                      (IF c > 127 THEN c - 256 ELSE c) = (IF d > 127 THEN d - 256 ELSE d)
               PROVE  c = d
    BY DEF Signed
  <2>1. CASE c > 127 /\ d > 127
    BY <2>1
  <2>2. CASE c > 127 /\ ~ (d > 127)
    BY <2>2
  <2>3. CASE ~ (c > 127) /\ d > 127
    BY <2>3
  <2>4. CASE ~ (c > 127) /\ ~ (d > 127)
    BY <2>4
  <2> QED BY <2>1, <2>2, <2>3, <2>4
<1>3. \A c, d \in 0 .. 255 : CharLess(c, d) <=> Signed(c) < Signed(d)
  BY DEF CharLess
<1>4. \A c, d, e \in 0 .. 255 : CharLess(c, d) /\ CharLess(d, e) => CharLess(c, e)
  <2> TAKE c, d, e \in 0 .. 255
  <2>1. Signed(c) \in Int /\ Signed(d) \in Int /\ Signed(e) \in Int
    BY <1>1
  <2> QED BY <2>1 DEF CharLess
<1>5. \A c, d \in 0 .. 255 : c # d => CharLess(c, d) \/ CharLess(d, c)
  <2> TAKE c, d \in 0 .. 255
  <2>1. Signed(c) \in Int /\ Signed(d) \in Int /\ (Signed(c) = Signed(d) => c = d)
    BY <1>1, <1>2
  <2> QED BY <2>1 DEF CharLess
<1>6. \A c \in 0 .. 255 : ~ CharLess(c, c)
  <2> TAKE c \in 0 .. 255
  <2>1. Signed(c) \in Int
    BY <1>1
  <2> QED BY <2>1 DEF CharLess
<1> QED BY <1>4, <1>5, <1>6

LEMMA Characters ==
    ASSUME NEW t \in Seq(0 .. 255)
    PROVE  /\ IsFiniteSet(ToSet(t)) /\ ToSet(t) \in SUBSET (0 .. 255)
           /\ Cardinality(ToSet(t)) \in Nat
           /\ frequency(t) \in [ToSet(t) -> Nat \ {0}]
<1>1. /\ IsFiniteSet(ToSet(t)) /\ Cardinality(ToSet(t)) \in Nat
  BY CharactersFinite
<1>2. DOMAIN t = 1 .. Len(t) /\ Len(t) \in Nat
  BY LenProperties
<1>0. \A k \in 1 .. Len(t) : t[k] \in 0 .. 255
  BY ElementOfSeq
<1>3. ToSet(t) \in SUBSET (0 .. 255)
  <2>1. \A c \in ToSet(t) : \E k \in 1 .. Len(t) : c = t[k]
    BY <1>2 DEF ToSet
  <2>2. \A c \in ToSet(t) : c \in 0 .. 255
    <3> TAKE c \in ToSet(t)
    <3>1. PICK k \in 1 .. Len(t) : c = t[k]
      BY <2>1
    <3> QED BY <1>0, <3>1
  <2> QED BY <2>2, Zenon
<1>4. ASSUME NEW c \in ToSet(t)
      PROVE  Cardinality({k \in DOMAIN t : t[k] = c}) \in Nat \ {0}
  <2> DEFINE P == {k \in DOMAIN t : t[k] = c}
  <2>1. IsFiniteSet(DOMAIN t)
    <3>1. 1 \in Int /\ Len(t) \in Int
      BY <1>2
    <3> QED BY <3>1, <1>2, FS_Interval, Zenon
  <2>2. IsFiniteSet(P)
    <3>1. P \in SUBSET (DOMAIN t)
      OBVIOUS
    <3> QED BY <2>1, <3>1, FS_Subset, Zenon
  <2>3. P # {}
    BY DEF ToSet
  <2>4. Cardinality(P) \in Nat /\ Cardinality(P) # 0
    BY <2>2, <2>3, FS_CardinalityType, FS_EmptySet, Zenon
  <2> QED BY <2>4
<1>5. frequency(t) \in [ToSet(t) -> Nat \ {0}]
  BY <1>4 DEF frequency
<1> QED BY <1>1, <1>3, <1>5

\* char's order lists a set of characters.
LEMMA CharactersListed ==
    ASSUME NEW S \in SUBSET (0 .. 255)
    PROVE  IsFiniteSet(S) /\ Lists(Ordered(S, CharLess), S)
<1> DEFINE R == {p \in S \X S : CharLess(p[1], p[2])}
           s == Ordered(S, CharLess)
<1>0. IsFiniteSet(S)
  <2>1. 0 \in Int /\ 255 \in Int
    OBVIOUS
  <2>2. IsFiniteSet(0 .. 255)
    BY <2>1, FS_Interval, Zenon
  <2> QED BY <2>2, FS_Subset, Zenon
<1>1. \A c, d \in S : <<c, d>> \in R <=> CharLess(c, d)
  OBVIOUS
<1> HIDE DEF R
<1>2. /\ \A c \in S : <<c, c>> \notin R
      /\ \A c, d \in S : c # d => <<c, d>> \in R \/ <<d, c>> \in R
      /\ \A c, d, e \in S : <<c, d>> \in R /\ <<d, e>> \in R => <<c, e>> \in R
  <2>1. \A c \in S : c \in 0 .. 255
    OBVIOUS
  <2> QED BY <1>1, <2>1, CharsOrdered, ZenonT(60)
<1>3. s = [k \in 1 .. Cardinality(S) |->
              CHOOSE c \in S : Cardinality({d \in S : CharLess(d, c)}) = k - 1]
  BY DEF Ordered
<1> HIDE DEF s
<1>4. \A c \in S : RankIn(S, R, c) = Cardinality({d \in S : CharLess(d, c)})
  <2> SUFFICES ASSUME NEW c \in S PROVE RankIn(S, R, c) = Cardinality({d \in S : CharLess(d, c)})
    OBVIOUS
  <2>1. {d \in S : <<d, c>> \in R} = {d \in S : CharLess(d, c)}
    BY <1>1
  <2> QED BY <2>1 DEF RankIn
<1>5. \A k \in 1 .. Cardinality(S) :
         (\E c \in S : RankIn(S, R, c) = k - 1) => s[k] \in S /\ RankIn(S, R, s[k]) = k - 1
  <2> SUFFICES ASSUME NEW k \in 1 .. Cardinality(S), NEW c \in S, RankIn(S, R, c) = k - 1
               PROVE  s[k] \in S /\ RankIn(S, R, s[k]) = k - 1
    OBVIOUS
  <2> DEFINE P(e) == Cardinality({d \in S : CharLess(d, e)}) = k - 1
  <2>1. s[k] = CHOOSE e \in S : P(e)
    BY <1>3
  <2>2. P(c)
    BY <1>4
  <2> HIDE DEF P
  <2>3. s[k] \in S /\ P(s[k])
    BY <2>1, <2>2, Zenon
  <2> QED BY <2>3, <1>4 DEF P
<1>6. s = [k \in 1 .. Cardinality(S) |-> s[k]]
  <2> DEFINE pick(k) == CHOOSE c \in S : Cardinality({d \in S : CharLess(d, c)}) = k - 1
  <2>1. s = [k \in 1 .. Cardinality(S) |-> pick(k)]
    BY <1>3
  <2> HIDE DEF pick
  <2> QED BY <2>1
<1>7. Lists(s, S)
  BY <1>0, <1>2, <1>5, <1>6, ListedInOrder, Zenon
<1> QED BY <1>0, <1>7 DEF s

\* The order of the multimap of frequencies.
Rarer(f, c, d) == f[c] < f[d] \/ (f[c] = f[d] /\ CharLess(c, d))

LEMMA RarerOrdered ==
    ASSUME NEW S \in SUBSET (0 .. 255), NEW f \in [S -> Nat]
    PROVE  /\ \A c \in S : ~ Rarer(f, c, c)
           /\ \A c, d \in S : c # d => Rarer(f, c, d) \/ Rarer(f, d, c)
           /\ \A c, d, e \in S : Rarer(f, c, d) /\ Rarer(f, d, e) => Rarer(f, c, e)
<1>1. \A c \in S : c \in 0 .. 255 /\ f[c] \in Nat
  OBVIOUS
<1>2. \A c \in S : ~ Rarer(f, c, c)
  <2> TAKE c \in S
  <2>1. f[c] \in Nat /\ ~ CharLess(c, c)
    BY <1>1, CharsOrdered
  <2> QED BY <2>1 DEF Rarer
<1>3. \A c, d \in S : c # d => Rarer(f, c, d) \/ Rarer(f, d, c)
  <2> SUFFICES ASSUME NEW c \in S, NEW d \in S, c # d PROVE Rarer(f, c, d) \/ Rarer(f, d, c)
    OBVIOUS
  <2>1. f[c] < f[d] \/ f[d] < f[c] \/ f[c] = f[d]
    BY <1>1
  <2>2. CharLess(c, d) \/ CharLess(d, c)
    BY <1>1, CharsOrdered
  <2> QED BY <2>1, <2>2 DEF Rarer
<1>4. \A c, d, e \in S : Rarer(f, c, d) /\ Rarer(f, d, e) => Rarer(f, c, e)
  <2> SUFFICES ASSUME NEW c \in S, NEW d \in S, NEW e \in S, Rarer(f, c, d), Rarer(f, d, e)
               PROVE  Rarer(f, c, e)
    OBVIOUS
  <2>1. f[c] \in Nat /\ f[d] \in Nat /\ f[e] \in Nat
    BY <1>1
  <2>2. CharLess(c, d) /\ CharLess(d, e) => CharLess(c, e)
    <3>1. c \in 0 .. 255 /\ d \in 0 .. 255 /\ e \in 0 .. 255
      OBVIOUS
    <3>2. \A x, y, z \in 0 .. 255 : CharLess(x, y) /\ CharLess(y, z) => CharLess(x, z)
      BY CharsOrdered
    <3> HIDE DEF CharLess
    <3> QED BY <3>1, <3>2, Zenon
  <2> QED BY <2>1, <2>2 DEF Rarer
<1> QED BY <1>2, <1>3, <1>4

\* charAccordingToFreq has every character, the rarer before the more frequent.
LEMMA CharactersByFrequency ==
    ASSUME NEW t \in Seq(0 .. 255)
    PROVE  /\ Lists(charAccordingToFreq(t), ToSet(t))
           /\ \A j, k \in DOMAIN charAccordingToFreq(t) : j < k =>
                 frequency(t)[charAccordingToFreq(t)[j]] <= frequency(t)[charAccordingToFreq(t)[k]]
<1> DEFINE S == ToSet(t)
           f == frequency(t)
           s == charAccordingToFreq(t)
           R == {p \in S \X S : Rarer(f, p[1], p[2])}
<1>0. IsFiniteSet(S) /\ S \in SUBSET (0 .. 255) /\ f \in [S -> Nat \ {0}]
  BY Characters
<1>3. s = [k \in 1 .. Cardinality(S) |->
              CHOOSE c \in S : Cardinality({d \in S : Rarer(f, d, c)}) = k - 1]
  BY DEF charAccordingToFreq, Ordered, Rarer
<1> HIDE DEF s, f, S
<1>1. \A c, d \in S : <<c, d>> \in R <=> Rarer(f, c, d)
  OBVIOUS
<1> HIDE DEF R
<1>2. /\ \A c \in S : <<c, c>> \notin R
      /\ \A c, d \in S : c # d => <<c, d>> \in R \/ <<d, c>> \in R
      /\ \A c, d, e \in S : <<c, d>> \in R /\ <<d, e>> \in R => <<c, e>> \in R
  <2>1. f \in [S -> Nat]
    BY <1>0
  <2>2. /\ \A c \in S : ~ Rarer(f, c, c)
        /\ \A c, d \in S : c # d => Rarer(f, c, d) \/ Rarer(f, d, c)
        /\ \A c, d, e \in S : Rarer(f, c, d) /\ Rarer(f, d, e) => Rarer(f, c, e)
    BY <1>0, <2>1, RarerOrdered
  <2> QED BY <1>1, <2>2, Zenon
<1>4. \A c \in S : RankIn(S, R, c) = Cardinality({d \in S : Rarer(f, d, c)})
  <2> SUFFICES ASSUME NEW c \in S PROVE RankIn(S, R, c) = Cardinality({d \in S : Rarer(f, d, c)})
    OBVIOUS
  <2>1. {d \in S : <<d, c>> \in R} = {d \in S : Rarer(f, d, c)}
    BY <1>1
  <2> QED BY <2>1 DEF RankIn
<1>5. \A k \in 1 .. Cardinality(S) :
         (\E c \in S : RankIn(S, R, c) = k - 1) => s[k] \in S /\ RankIn(S, R, s[k]) = k - 1
  <2> SUFFICES ASSUME NEW k \in 1 .. Cardinality(S), NEW c \in S, RankIn(S, R, c) = k - 1
               PROVE  s[k] \in S /\ RankIn(S, R, s[k]) = k - 1
    OBVIOUS
  <2> DEFINE P(e) == Cardinality({d \in S : Rarer(f, d, e)}) = k - 1
  <2>1. s[k] = CHOOSE e \in S : P(e)
    BY <1>3
  <2>2. P(c)
    BY <1>4
  <2> HIDE DEF P
  <2>3. s[k] \in S /\ P(s[k])
    BY <2>1, <2>2, Zenon
  <2> QED BY <2>3, <1>4 DEF P
<1>6. s = [k \in 1 .. Cardinality(S) |-> s[k]]
  <2> DEFINE pick(k) == CHOOSE c \in S : Cardinality({d \in S : Rarer(f, d, c)}) = k - 1
  <2>1. s = [k \in 1 .. Cardinality(S) |-> pick(k)]
    BY <1>3
  <2> HIDE DEF pick
  <2> QED BY <2>1
<1>7. Lists(s, S) /\ \A j, k \in DOMAIN s : j < k => <<s[j], s[k]>> \in R
  BY <1>0, <1>2, <1>5, <1>6, ListedInOrder, Zenon
<1>8. ASSUME NEW j \in DOMAIN s, NEW k \in DOMAIN s, j < k PROVE f[s[j]] <= f[s[k]]
  <2>1. s[j] \in S /\ s[k] \in S
    BY <1>7 DEF Lists
  <2>2. Rarer(f, s[j], s[k])
    BY <1>1, <1>7, <1>8, <2>1
  <2>3. f[s[j]] \in Nat /\ f[s[k]] \in Nat
    BY <1>0, <2>1
  <2> QED BY <2>2, <2>3 DEF Rarer
<1>9. Lists(s, S) /\ \A j, k \in DOMAIN s : j < k => f[s[j]] <= f[s[k]]
  BY <1>7, <1>8
<1> QED BY <1>9 DEF s, f, S

---------------------------------------------------------------------------
(* The frequencies.                                                        *)

\* G has the sums of the first elements of f.
Sums(G, f, m) == G[0] = 0 /\ \A k \in 0 .. m - 1 : G[k + 1] = G[k] + f[k]

\* The frequencies do not decrease and add up to the length of the file.
LEMMA FrequenciesAddUp ==
    ASSUME NEW t \in Seq(0 .. 255), freq = frequencyIncreasing(t)
    PROVE  /\ n \in Nat /\ n = Cardinality(ToSet(t))
           /\ freq \in [0 .. n - 1 -> Nat \ {0}]
           /\ \A j, k \in 0 .. n - 1 : j <= k => freq[j] <= freq[k]
           /\ \E G \in [0 .. n -> Nat] : Sums(G, freq, n) /\ G[n] = Len(t)
<1> DEFINE S == ToSet(t)
           B == charAccordingToFreq(t)
           f == frequency(t)
           N == Cardinality(S)
<1>1. N \in Nat /\ f \in [S -> Nat \ {0}] /\ S \in SUBSET (0 .. 255)
  BY Characters
<1>2. Lists(B, S) /\ \A j, k \in DOMAIN B : j < k => f[B[j]] <= f[B[k]]
  BY CharactersByFrequency
<1>3. \A c \in S : f[c] = Cardinality({p \in DOMAIN t : t[p] = c})
  BY DEF frequency
<1>4. \A p \in DOMAIN t : t[p] \in S
  BY DEF ToSet
<1>5. DOMAIN t = 1 .. Len(t) /\ Len(t) \in Nat
  BY LenProperties
<1>6. freq = [j \in 0 .. Len(B) - 1 |-> f[B[j + 1]]]
  BY DEF frequencyIncreasing
<1>7. n = N
  <2>1. n \in Nat /\ DOMAIN freq = 0 .. n - 1
    BY ArrayPassed
  <2>2. DOMAIN freq = 0 .. N - 1
    BY <1>2, <1>6 DEF Lists
  <2>3. n = Cardinality(0 .. N - 1)
    BY <2>2 DEF n
  <2>4. 0 \in Int /\ N - 1 \in Int
    BY <1>1
  <2>5. Cardinality(0 .. N - 1) = IF 0 > N - 1 THEN 0 ELSE (N - 1) - 0 + 1
    BY <2>4, FS_Interval, Zenon
  <2> QED BY <1>1, <2>3, <2>5
<1> HIDE DEF N, S, B, f
<1>B. /\ DOMAIN B = 1 .. N /\ Len(B) = N
      /\ \A l \in 1 .. N : B[l] \in S
      /\ \A j, k \in 1 .. N : B[j] = B[k] => j = k
      /\ \A c \in S : \E l \in 1 .. N : B[l] = c
      /\ \A j, k \in 1 .. N : j < k => f[B[j]] <= f[B[k]]
  <2>1. B \in Seq(S) /\ Len(B) = N /\ DOMAIN B = 1 .. N
    BY <1>2 DEF Lists, N
  <2>2. \A l \in 1 .. N : B[l] \in S
    BY <2>1
  <2> QED BY <1>2, <2>1, <2>2 DEF Lists, N
<1>8. \A j \in 0 .. N - 1 : j + 1 \in 1 .. N /\ freq[j] = f[B[j + 1]] /\ B[j + 1] \in S
  <2> TAKE j \in 0 .. N - 1
  <2>1. j + 1 \in 1 .. N
    BY <1>1
  <2> QED BY <2>1, <1>B, <1>6
<1>9. freq \in [0 .. N - 1 -> Nat \ {0}]
  <2>1. \A j \in 0 .. N - 1 : freq[j] \in Nat \ {0}
    BY <1>1, <1>8
  <2> QED BY <1>6, <1>B, <2>1
<1>10. ASSUME NEW j \in 0 .. N - 1, NEW k \in 0 .. N - 1, j <= k PROVE freq[j] <= freq[k]
  <2>1. CASE j = k
    BY <2>1, <1>9
  <2>2. CASE j < k
    <3>1. j + 1 \in 1 .. N /\ k + 1 \in 1 .. N /\ j + 1 < k + 1
      BY <1>1, <2>2
    <3> QED BY <3>1, <1>B, <1>8, SMTT(40)
  <2> QED BY <2>1, <2>2, <1>10, <1>1
<1> DEFINE P(k) == {p \in DOMAIN t : \E l \in 1 .. k : B[l] = t[p]}
           G == [k \in 0 .. N |-> Cardinality(P(k))]
<1>11. \A k \in 0 .. N : IsFiniteSet(P(k)) /\ Cardinality(P(k)) \in Nat
  <2> TAKE k \in 0 .. N
  <2>1. 1 \in Int /\ Len(t) \in Int
    BY <1>5
  <2>2. IsFiniteSet(DOMAIN t)
    BY <1>5, <2>1, FS_Interval, Zenon
  <2>3. P(k) \in SUBSET (DOMAIN t)
    OBVIOUS
  <2> QED BY <2>2, <2>3, FS_Subset, FS_CardinalityType, Zenon
<1>12. G \in [0 .. N -> Nat]
  BY <1>11
<1>13. G[0] = 0
  <2>1. P(0) = {}
    OBVIOUS
  <2>2. 0 \in 0 .. N
    BY <1>1
  <2> QED BY <2>1, <2>2, FS_EmptySet
<1>14. ASSUME NEW k \in 0 .. N - 1 PROVE G[k + 1] = G[k] + freq[k]
  <2> DEFINE Q == {p \in DOMAIN t : t[p] = B[k + 1]}
  <2>1. k \in 0 .. N /\ k + 1 \in 0 .. N /\ k + 1 \in 1 .. N
    BY <1>1
  <2>2. P(k + 1) = P(k) \cup Q
    <3>1. \A l : l \in 1 .. k + 1 <=> l \in 1 .. k \/ l = k + 1
      BY <1>1
    <3> QED BY <3>1
  <2>3. P(k) \cap Q = {}
    <3>1. SUFFICES ASSUME NEW p \in P(k), p \in Q PROVE FALSE
      OBVIOUS
    <3>2. PICK l \in 1 .. k : B[l] = t[p]
      OBVIOUS
    <3>3. l \in 1 .. N /\ l # k + 1
      BY <1>1
    <3>4. B[l] = B[k + 1]
      BY <3>1, <3>2
    <3> QED BY <3>3, <3>4, <2>1, <1>B
  <2>4. IsFiniteSet(P(k)) /\ IsFiniteSet(Q) /\ Cardinality(P(k)) \in Nat /\ Cardinality(Q) \in Nat
    <3>1. Q \in SUBSET P(k + 1)
      BY <2>2
    <3>2. IsFiniteSet(Q)
      BY <3>1, <1>11, <2>1, FS_Subset
    <3>3. Cardinality(Q) \in Nat
      BY <3>2, FS_CardinalityType
    <3> QED BY <3>2, <3>3, <2>1, <1>11
  <2>5. Cardinality(P(k) \cup Q) = Cardinality(P(k)) + Cardinality(Q) - Cardinality(P(k) \cap Q)
    BY <2>4, FS_Union
  <2>6. Cardinality(P(k + 1)) = Cardinality(P(k)) + Cardinality(Q)
    <3>1. Cardinality(P(k) \cap Q) = 0
      BY <2>3, FS_EmptySet
    <3> DEFINE u == P(k + 1)
               v == P(k)
    <3>2. u = v \cup Q /\ Cardinality(v) \in Nat /\ Cardinality(Q) \in Nat
      BY <2>2, <2>4
    <3>3. Cardinality(v \cup Q) = Cardinality(v) + Cardinality(Q) - 0
      BY <2>5, <3>1, Zenon
    <3> HIDE DEF u, v, Q
    <3>4. Cardinality(u) = Cardinality(v) + Cardinality(Q)
      BY <3>2, <3>3
    <3> QED BY <3>4 DEF u, v
  <2>7. Cardinality(Q) = freq[k]
    BY <1>3, <1>8
  <2>8. G[k + 1] = Cardinality(P(k + 1)) /\ G[k] = Cardinality(P(k))
    BY <2>1
  <2> HIDE DEF P, Q, G
  <2> QED BY <2>6, <2>7, <2>8
<1>15. G[N] = Len(t)
  <2>1. N \in 0 .. N
    BY <1>1
  <2>2. P(N) = DOMAIN t
    <3>1. \A p \in DOMAIN t : \E l \in 1 .. N : B[l] = t[p]
      BY <1>4, <1>B
    <3> QED BY <3>1
  <2>3. 1 \in Int /\ Len(t) \in Int
    BY <1>5
  <2>4. Cardinality(1 .. Len(t)) = IF 1 > Len(t) THEN 0 ELSE Len(t) - 1 + 1
    BY <2>3, FS_Interval, Zenon
  <2>5. G[N] = Cardinality(1 .. Len(t))
    BY <2>1, <2>2, <1>5
  <2> HIDE DEF G, P
  <2> QED BY <2>4, <2>5, <1>5
<1> HIDE DEF G
<1>16. \E H \in [0 .. N -> Nat] : Sums(H, freq, N) /\ H[N] = Len(t)
  BY <1>12, <1>13, <1>14, <1>15 DEF Sums
<1> QED BY <1>1, <1>7, <1>9, <1>10, <1>16 DEF N, S

\* What of the file the array is made from.
Passed ==
    /\ text \in Seq(0 .. 255) /\ Len(text) <= INT_MAX
    /\ freq = frequencyIncreasing(text)

\* A set that has 0 and with a number below N the next one has all up to N.
LEMMA UpTo ==
    ASSUME NEW N \in Nat, NEW S, 0 \in S, \A k \in 0 .. N - 1 : k \in S => k + 1 \in S
    PROVE  \A k \in 0 .. N : k \in S
<1> DEFINE Out == {k \in 0 .. N : k \notin S}
<1>1. Out = {}
  <2>1. SUFFICES ASSUME Out # {} PROVE FALSE
    OBVIOUS
  <2>2. Out \in SUBSET Nat
    OBVIOUS
  <2>3. PICK m \in Out : \A k \in Out : m <= k
    BY <2>1, <2>2, Least
  <2>4. m \in 0 .. N /\ m \notin S /\ m # 0
    BY <2>3
  <2>5. m - 1 \in 0 .. N - 1 /\ m - 1 \in 0 .. N /\ (m - 1) + 1 = m /\ ~ (m <= m - 1)
    BY <2>4
  <2>6. m - 1 \in S
    BY <2>3, <2>5
  <2>7. m \in S
    BY <2>5, <2>6
  <2> QED BY <2>4, <2>7
<1> QED BY <1>1

---------------------------------------------------------------------------
(* Sums and powers of two.                                                 *)

LEMMA SumsExist ==
    ASSUME NEW N \in Nat, NEW f \in [0 .. N - 1 -> Int]
    PROVE  \E g \in [0 .. N -> Int] : Sums(g, f, N)
<1> DEFINE S == {k \in 0 .. N : \E g \in [0 .. k -> Int] : Sums(g, f, k)}
<1>1. 0 \in S
  <2> DEFINE g == [k \in 0 .. 0 |-> 0]
  <2>1. g \in [0 .. 0 -> Int] /\ g[0] = 0
    OBVIOUS
  <2> HIDE DEF g
  <2>2. Sums(g, f, 0)
    BY <2>1 DEF Sums
  <2> QED BY <2>1, <2>2
<1>2. ASSUME NEW k \in 0 .. N - 1, k \in S PROVE k + 1 \in S
  <2>1. PICK g \in [0 .. k -> Int] : Sums(g, f, k)
    BY <1>2
  <2> DEFINE h == [l \in 0 .. k + 1 |-> IF l = k + 1 THEN g[k] + f[k] ELSE g[l]]
  <2>2. g[k] + f[k] \in Int /\ \A l \in 0 .. k : g[l] \in Int
    OBVIOUS
  <2>3. h \in [0 .. k + 1 -> Int]
    <3>1. \A l \in 0 .. k + 1 : l = k + 1 \/ l \in 0 .. k
      OBVIOUS
    <3> QED BY <2>2, <3>1
  <2>4. h[k + 1] = g[k] + f[k] /\ \A l \in 0 .. k : h[l] = g[l]
    OBVIOUS
  <2> HIDE DEF h
  <2>5. h[0] = 0
    BY <2>1, <2>4 DEF Sums
  <2>6. ASSUME NEW l \in 0 .. (k + 1) - 1 PROVE h[l + 1] = h[l] + f[l]
    <3>1. l \in 0 .. k /\ k \in 0 .. k
      OBVIOUS
    <3>2. CASE l = k
      BY <2>4, <3>1, <3>2
    <3>3. CASE l # k
      <4>1. l \in 0 .. k - 1 /\ l + 1 \in 0 .. k
        BY <3>3
      <4>2. g[l + 1] = g[l] + f[l]
        BY <4>1, <2>1 DEF Sums
      <4> QED BY <3>1, <4>1, <4>2, <2>4
    <3> QED BY <3>2, <3>3
  <2>7. Sums(h, f, k + 1)
    BY <2>5, <2>6 DEF Sums
  <2> QED BY <2>3, <2>7
<1> HIDE DEF S
<1>3. N \in S
  <2>1. \A k \in 0 .. N : k \in S
    BY <1>1, <1>2, UpTo
  <2> QED BY <2>1
<1> QED BY <1>3 DEF S

LEMMA SumsUnique ==
    ASSUME NEW N \in Nat, NEW f \in [0 .. N - 1 -> Int], NEW g \in [0 .. N -> Int], Sums(g, f, N),
           NEW m \in 0 .. N, NEW h, Sums(h, f, m)
    PROVE  h[m] = g[m]
<1> DEFINE S == {k \in 0 .. m : h[k] = g[k]}
<1>1. 0 \in S
  BY DEF Sums
<1>2. ASSUME NEW k \in 0 .. m - 1, k \in S PROVE k + 1 \in S
  <2>1. k \in 0 .. N - 1 /\ h[k] = g[k] /\ k + 1 \in 0 .. m
    BY <1>2
  <2>2. h[k + 1] = h[k] + f[k] /\ g[k + 1] = g[k] + f[k]
    BY <2>1 DEF Sums
  <2> QED BY <2>1, <2>2
<1> HIDE DEF S
<1>m. m \in Nat
  OBVIOUS
<1>3. \A k \in 0 .. m : k \in S
  BY <1>1, <1>2, <1>m, UpTo
<1>4. m \in S
  BY <1>3
<1> QED BY <1>4 DEF S

LEMMA Totals ==
    ASSUME NEW N \in Nat, NEW f \in [0 .. N - 1 -> Int], NEW g \in [0 .. N -> Int], Sums(g, f, N),
           NEW m \in 0 .. N
    PROVE  Total(f, m) = g[m]
<1> DEFINE R(s) == s = [k \in 0 .. m |-> IF k = 0 THEN 0 ELSE s[k - 1] + f[k - 1]]
<1> DEFINE h == [k \in 0 .. m |-> g[k]]
<1>1. R(h)
  <2>1. ASSUME NEW k \in 0 .. m PROVE h[k] = IF k = 0 THEN 0 ELSE h[k - 1] + f[k - 1]
    <3>1. CASE k = 0
      BY <3>1 DEF Sums
    <3>2. CASE k # 0
      <4>1. k - 1 \in 0 .. N - 1 /\ k - 1 \in 0 .. m /\ (k - 1) + 1 = k
        BY <3>2
      <4>2. g[(k - 1) + 1] = g[k - 1] + f[k - 1]
        BY <4>1 DEF Sums
      <4> QED BY <3>2, <4>1, <4>2
    <3> QED BY <3>1, <3>2
  <2>2. h = [k \in 0 .. m |-> h[k]]
    OBVIOUS
  <2> HIDE DEF h
  <2> QED BY <2>1, <2>2
<1> DEFINE c == CHOOSE s : R(s)
<1>2. R(c)
  <2> HIDE DEF R, h
  <2> QED BY <1>1, Zenon
<1>3. Total(f, m) = c[m]
  BY DEF Total
<1> HIDE DEF c
<1>4. Sums(c, f, m)
  <2>1. c[0] = 0
    BY <1>2
  <2>2. ASSUME NEW k \in 0 .. m - 1 PROVE c[k + 1] = c[k] + f[k]
    <3>1. k + 1 \in 0 .. m /\ k + 1 # 0 /\ (k + 1) - 1 = k
      OBVIOUS
    <3> QED BY <1>2, <3>1
  <2> HIDE DEF R
  <2> QED BY <2>1, <2>2 DEF Sums
<1> QED BY <1>3, <1>4, SumsUnique

\* The sum of all of f.
LEMMA TotalFacts ==
    ASSUME NEW N \in Nat, NEW f \in [0 .. N - 1 -> Int]
    PROVE  /\ Total(f, 0) = 0
           /\ \A k \in 0 .. N - 1 : Total(f, k + 1) = Total(f, k) + f[k]
           /\ \A k \in 0 .. N : Total(f, k) \in Int
<1>1. PICK g \in [0 .. N -> Int] : Sums(g, f, N)
  BY SumsExist
<1>2. \A m \in 0 .. N : Total(f, m) = g[m]
  BY <1>1, Totals
<1>3. 0 \in 0 .. N /\ \A k \in 0 .. N - 1 : k \in 0 .. N /\ k + 1 \in 0 .. N
  OBVIOUS
<1>4. \A k \in 0 .. N : g[k] \in Int
  OBVIOUS
<1> QED BY <1>1, <1>2, <1>3, <1>4 DEF Sums

Power == Powers(n)

LEMMA PowerFacts ==
    ASSUME n \in Nat
    PROVE  /\ Power \in [0 .. n -> Nat \ {0}] /\ Power[0] = 1
           /\ \A k \in 0 .. n - 1 : Power[k + 1] = 2 * Power[k]
<1>0. PICK N \in Nat : N = n
  OBVIOUS
<1> DEFINE R(p, m) == p = [k \in 0 .. m |-> IF k = 0 THEN 1 ELSE 2 * p[k - 1]]
           S == {k \in 0 .. N : \E p \in [0 .. k -> Nat \ {0}] : R(p, k)}
<1>1. 0 \in S
  <2> DEFINE p == [k \in 0 .. 0 |-> 1]
  <2>1. p \in [0 .. 0 -> Nat \ {0}] /\ R(p, 0)
    OBVIOUS
  <2> HIDE DEF p, R
  <2> QED BY <2>1
<1>2. ASSUME NEW k \in 0 .. N - 1, k \in S PROVE k + 1 \in S
  <2>1. PICK p \in [0 .. k -> Nat \ {0}] : R(p, k)
    BY <1>2
  <2> DEFINE q == [l \in 0 .. k + 1 |-> IF l = k + 1 THEN 2 * p[k] ELSE p[l]]
  <2>2. 2 * p[k] \in Nat \ {0} /\ \A l \in 0 .. k : p[l] \in Nat \ {0}
    <3>1. p[k] \in Nat \ {0}
      OBVIOUS
    <3> QED BY <3>1
  <2>3. q \in [0 .. k + 1 -> Nat \ {0}]
    <3>1. \A l \in 0 .. k + 1 : l = k + 1 \/ l \in 0 .. k
      OBVIOUS
    <3> QED BY <2>2, <3>1
  <2>4. q[k + 1] = 2 * p[k] /\ \A l \in 0 .. k : q[l] = p[l]
    OBVIOUS
  <2>5. q = [l \in 0 .. k + 1 |-> q[l]]
    OBVIOUS
  <2> HIDE DEF q
  <2>6. \A l \in 0 .. k : p[l] = IF l = 0 THEN 1 ELSE 2 * p[l - 1]
    BY <2>1
  <2>7. \A l \in 0 .. k + 1 : q[l] = IF l = 0 THEN 1 ELSE 2 * q[l - 1]
    <3> TAKE l \in 0 .. k + 1
    <3>1. CASE l = k + 1
      <4>1. l # 0 /\ l - 1 = k /\ k \in 0 .. k
        BY <3>1
      <4> QED BY <3>1, <4>1, <2>4
    <3>2. CASE l # k + 1
      <4>1. l \in 0 .. k /\ (l # 0 => l - 1 \in 0 .. k)
        BY <3>2
      <4> QED BY <4>1, <2>4, <2>6
    <3> QED BY <3>1, <3>2
  <2>8. R(q, k + 1)
    BY <2>5, <2>7
  <2> HIDE DEF R
  <2> QED BY <2>3, <2>8
<1>3. \E p \in [0 .. N -> Nat \ {0}] : R(p, N)
  <2> HIDE DEF R
  <2> HIDE DEF S
  <2>1. \A k \in 0 .. N : k \in S
    BY <1>1, <1>2, UpTo
  <2>2. N \in S
    BY <2>1
  <2> QED BY <2>2 DEF S
<1>4. PICK p \in [0 .. N -> Nat \ {0}] : R(p, N)
  BY <1>3
<1> DEFINE c == CHOOSE q : R(q, N)
<1>5. R(c, N)
  <2> HIDE DEF R
  <2> QED BY <1>4, Zenon
<1>6. Power = c
  BY <1>0 DEF Power, Powers
<1> HIDE DEF c
<1>7. \A k \in 0 .. N : c[k] = IF k = 0 THEN 1 ELSE 2 * c[k - 1]
  BY <1>5
<1>8. DOMAIN c = 0 .. N /\ c = [k \in 0 .. N |-> c[k]]
  BY <1>5
<1> HIDE DEF R
<1> DEFINE G == {k \in 0 .. N : c[k] \in Nat \ {0}}
<1>9. 0 \in G
  BY <1>7
<1>10. ASSUME NEW k \in 0 .. N - 1, k \in G PROVE k + 1 \in G
  <2>1. k + 1 \in 0 .. N /\ k + 1 # 0 /\ (k + 1) - 1 = k /\ c[k] \in Nat \ {0}
    BY <1>10
  <2>2. c[k + 1] = 2 * c[k]
    BY <2>1, <1>7
  <2> QED BY <2>1, <2>2
<1> HIDE DEF G
<1>11. \A k \in 0 .. N : k \in G
  BY <1>9, <1>10, UpTo
<1>12. c \in [0 .. N -> Nat \ {0}]
  BY <1>8, <1>11 DEF G
<1>13. \A k \in 0 .. N - 1 : c[k + 1] = 2 * c[k]
  <2> TAKE k \in 0 .. N - 1
  <2>1. k + 1 \in 0 .. N /\ k + 1 # 0 /\ (k + 1) - 1 = k
    OBVIOUS
  <2> QED BY <2>1, <1>7
<1>14. c[0] = 1
  BY <1>7
<1> QED BY <1>0, <1>6, <1>12, <1>13, <1>14

\* Sums of functions that differ in one element, in two, in three.
LEMMA SumPoint ==
    ASSUME NEW N \in Nat, NEW f \in [0 .. N - 1 -> Int], NEW g \in [0 .. N - 1 -> Int],
           NEW a \in 0 .. N - 1, \A j \in 0 .. N - 1 : j # a => g[j] = f[j]
    PROVE  Total(g, N) = Total(f, N) + (g[a] - f[a])
<1> DEFINE S == {k \in 0 .. N : Total(g, k) = Total(f, k) + (IF k > a THEN g[a] - f[a] ELSE 0)}
<1>1. /\ Total(f, 0) = 0 /\ Total(g, 0) = 0
      /\ \A k \in 0 .. N - 1 : Total(f, k + 1) = Total(f, k) + f[k]
      /\ \A k \in 0 .. N - 1 : Total(g, k + 1) = Total(g, k) + g[k]
      /\ \A k \in 0 .. N : Total(f, k) \in Int /\ Total(g, k) \in Int
  BY TotalFacts
<1>2. 0 \in S
  BY <1>1
<1>3. ASSUME NEW k \in 0 .. N - 1, k \in S PROVE k + 1 \in S
  <2>0. /\ k \in 0 .. N /\ Total(f, k) \in Int /\ Total(g, k) \in Int
        /\ f[k] \in Int /\ g[k] \in Int
    BY <1>1
  <2>1. PICK x, y, u, v \in Int : x = Total(f, k) /\ y = Total(g, k) /\ u = f[k] /\ v = g[k]
    BY <2>0, Zenon
  <2>2. PICK z \in Int : z = g[a] - f[a]
    OBVIOUS
  <2>3. y = x + (IF k > a THEN z ELSE 0)
    BY <2>1, <2>2, <1>3
  <2>4. Total(f, k + 1) = x + u /\ Total(g, k + 1) = y + v
    BY <2>1, <1>1
  <2>5. k + 1 \in 0 .. N /\ (k # a => v = u) /\ (k = a => v - u = z)
    <3>1. k # a => v = u
      BY <2>1, Zenon
    <3>2. k = a => v - u = z
      BY <2>1, <2>2, Zenon
    <3>3. k + 1 \in 0 .. N
      OBVIOUS
    <3> QED BY <3>1, <3>2, <3>3
  <2>6. Total(g, k + 1) = Total(f, k + 1) + (IF k + 1 > a THEN z ELSE 0)
    <3>1. CASE k = a
      BY <3>1, <2>3, <2>4, <2>5
    <3>2. CASE k # a
      BY <3>2, <2>3, <2>4, <2>5
    <3> QED BY <3>1, <3>2
  <2> QED BY <2>2, <2>5, <2>6
<1> HIDE DEF S
<1>4. \A k \in 0 .. N : k \in S
  BY <1>2, <1>3, UpTo
<1>5. N \in S /\ N > a
  BY <1>4
<1> QED BY <1>5 DEF S

LEMMA SumTwo ==
    ASSUME NEW N \in Nat, NEW f \in [0 .. N - 1 -> Int], NEW g \in [0 .. N - 1 -> Int],
           NEW a \in 0 .. N - 1, NEW b \in 0 .. N - 1, a # b,
           \A j \in 0 .. N - 1 : j # a /\ j # b => g[j] = f[j]
    PROVE  Total(g, N) = Total(f, N) + (g[a] - f[a]) + (g[b] - f[b])
<1> DEFINE h == [f EXCEPT ![a] = g[a]]
<1>1. /\ h \in [0 .. N - 1 -> Int] /\ h[a] = g[a] /\ h[b] = f[b]
      /\ \A j \in 0 .. N - 1 : j # a => h[j] = f[j]
      /\ \A j \in 0 .. N - 1 : j # b => g[j] = h[j]
  OBVIOUS
<1> HIDE DEF h
<1>2. Total(h, N) = Total(f, N) + (h[a] - f[a])
  BY <1>1, SumPoint
<1>3. Total(g, N) = Total(h, N) + (g[b] - h[b])
  BY <1>1, SumPoint
<1>4. N \in 0 .. N /\ Total(f, N) \in Int
  BY TotalFacts
<1> QED BY <1>1, <1>2, <1>3, <1>4

ThreeDiffer(N, f, g, a, b, c) ==
    /\ N \in Nat /\ f \in [0 .. N - 1 -> Int] /\ g \in [0 .. N - 1 -> Int]
    /\ a \in 0 .. N - 1 /\ b \in 0 .. N - 1 /\ c \in 0 .. N - 1 /\ a # b /\ a # c /\ b # c
    /\ \A j \in 0 .. N - 1 : j # a /\ j # b /\ j # c => g[j] = f[j]

LEMMA SumThree ==
    ASSUME NEW N, NEW f, NEW g, NEW a, NEW b, NEW c, ThreeDiffer(N, f, g, a, b, c)
    PROVE  Total(g, N) = Total(f, N) + (g[a] - f[a]) + (g[b] - f[b]) + (g[c] - f[c])
<1>0. /\ N \in Nat /\ f \in [0 .. N - 1 -> Int] /\ g \in [0 .. N - 1 -> Int]
      /\ a \in 0 .. N - 1 /\ b \in 0 .. N - 1 /\ c \in 0 .. N - 1 /\ a # b /\ a # c /\ b # c
      /\ \A j \in 0 .. N - 1 : j # a /\ j # b /\ j # c => g[j] = f[j]
  BY DEF ThreeDiffer
<1> DEFINE h == [f EXCEPT ![a] = g[a]]
<1>1. /\ h \in [0 .. N - 1 -> Int] /\ h[a] = g[a] /\ h[b] = f[b] /\ h[c] = f[c]
      /\ \A j \in 0 .. N - 1 : j # a => h[j] = f[j]
      /\ \A j \in 0 .. N - 1 : j # b /\ j # c => g[j] = h[j]
  BY <1>0
<1> HIDE DEF h
<1>2. Total(h, N) = Total(f, N) + (h[a] - f[a])
  BY <1>0, <1>1, SumPoint
<1>3. Total(g, N) = Total(h, N) + (g[b] - h[b]) + (g[c] - h[c])
  BY <1>0, <1>1, SumTwo
<1>4. N \in 0 .. N /\ Total(f, N) \in Int
  BY <1>0, TotalFacts
<1> QED BY <1>0, <1>1, <1>2, <1>3, <1>4

\* A sum of numbers is not less than two of them.
LEMMA SumNat ==
    ASSUME NEW N \in Nat, NEW f \in [0 .. N - 1 -> Nat]
    PROVE  /\ Total(f, N) \in Nat
           /\ \A a, b \in 0 .. N - 1 : a # b => f[a] + f[b] <= Total(f, N)
<1>1. ASSUME NEW g \in [0 .. N - 1 -> Nat] PROVE Total(g, N) \in Nat
  <2>0. g \in [0 .. N - 1 -> Int] /\ \A k \in 0 .. N - 1 : g[k] \in Nat
    OBVIOUS
  <2>1. /\ Total(g, 0) = 0
        /\ \A k \in 0 .. N - 1 : Total(g, k + 1) = Total(g, k) + g[k]
    BY <2>0, TotalFacts
  <2> DEFINE S == {k \in 0 .. N : Total(g, k) \in Nat}
  <2>2. 0 \in S
    BY <2>1
  <2>3. ASSUME NEW k \in 0 .. N - 1, k \in S PROVE k + 1 \in S
    BY <2>0, <2>1, <2>3
  <2> HIDE DEF S
  <2>4. \A k \in 0 .. N : k \in S
    BY <2>2, <2>3, UpTo
  <2>5. N \in S
    BY <2>4
  <2> QED BY <2>5 DEF S
<1>2. ASSUME NEW a \in 0 .. N - 1, NEW b \in 0 .. N - 1, a # b PROVE f[a] + f[b] <= Total(f, N)
  <2> DEFINE g == [f EXCEPT ![a] = 0, ![b] = 0]
  <2>1. /\ g \in [0 .. N - 1 -> Nat] /\ g \in [0 .. N - 1 -> Int] /\ f \in [0 .. N - 1 -> Int]
        /\ g[a] = 0 /\ g[b] = 0 /\ f[a] \in Nat /\ f[b] \in Nat
        /\ \A j \in 0 .. N - 1 : j # a /\ j # b => f[j] = g[j]
    BY <1>2
  <2> HIDE DEF g
  <2>2. Total(f, N) = Total(g, N) + (f[a] - g[a]) + (f[b] - g[b])
    BY <2>1, <1>2, SumTwo
  <2>3. Total(g, N) \in Nat
    BY <2>1, <1>1
  <2>4. PICK x, y \in Nat : x = f[a] /\ y = f[b]
    BY <2>1
  <2>5. Total(f, N) = Total(g, N) + (x - 0) + (y - 0)
    BY <2>1, <2>2, <2>4, Zenon
  <2>6. x + y <= Total(f, N)
    BY <2>3, <2>5
  <2> QED BY <2>4, <2>6
<1> QED BY <1>1, <1>2

LEMMA SumMultiple ==
    ASSUME NEW N \in Nat, NEW D \in Int, NEW z \in [0 .. N - 1 -> Int],
           NEW f \in [0 .. N - 1 -> Int], \A j \in 0 .. N - 1 : f[j] = D * z[j]
    PROVE  Total(z, N) \in Int /\ Total(f, N) = D * Total(z, N)
<1>1. /\ Total(f, 0) = 0 /\ Total(z, 0) = 0
      /\ \A k \in 0 .. N - 1 : Total(f, k + 1) = Total(f, k) + f[k]
      /\ \A k \in 0 .. N - 1 : Total(z, k + 1) = Total(z, k) + z[k]
      /\ \A k \in 0 .. N : Total(f, k) \in Int /\ Total(z, k) \in Int
  BY TotalFacts
<1> DEFINE S == {k \in 0 .. N : Total(f, k) = D * Total(z, k)}
<1>2. 0 \in S
  BY <1>1
<1>3. ASSUME NEW k \in 0 .. N - 1, k \in S PROVE k + 1 \in S
  <2>0. k \in 0 .. N /\ Total(z, k) \in Int /\ z[k] \in Int
    <3>1. k \in 0 .. N /\ z[k] \in Int
      OBVIOUS
    <3> QED BY <3>1, <1>1
  <2>1. PICK y, v \in Int : y = Total(z, k) /\ v = z[k]
    BY <2>0, Zenon
  <2>2. Total(f, k + 1) = D * y + D * v /\ Total(z, k + 1) = y + v
    BY <1>1, <1>3, <2>1
  <2>3. D * y + D * v = D * (y + v) /\ k + 1 \in 0 .. N
    OBVIOUS
  <2> QED BY <2>2, <2>3
<1> HIDE DEF S
<1>4. \A k \in 0 .. N : k \in S
  BY <1>2, <1>3, UpTo
<1>5. N \in S /\ N \in 0 .. N
  BY <1>4
<1> QED BY <1>1, <1>5 DEF S

\* Powers of two multiply by adding the exponents.
LEMMA PowersMultiply ==
    ASSUME n \in Nat, NEW a \in 0 .. n, NEW b \in 0 .. n - a
    PROVE  Power[a + b] = Power[a] * Power[b]
<1>1. /\ Power \in [0 .. n -> Nat \ {0}] /\ Power[0] = 1
      /\ \A k \in 0 .. n - 1 : Power[k + 1] = 2 * Power[k]
  BY PowerFacts
<1>2. PICK P, N : P = Power /\ N = n /\ N \in Nat
  OBVIOUS
<1> DEFINE S == {k \in 0 .. N - a : P[a + k] = P[a] * P[k]}
<1>3. /\ \A k \in 0 .. N : P[k] \in Int
      /\ P[0] = 1 /\ \A k \in 0 .. N - 1 : P[k + 1] = 2 * P[k]
  BY <1>1, <1>2
<1>4. 0 \in S
  <2>1. PICK x \in Int : x = P[a]
    BY <1>2, <1>3
  <2> QED BY <2>1, <1>2, <1>3
<1>5. ASSUME NEW k \in 0 .. (N - a) - 1, k \in S PROVE k + 1 \in S
  <2>1. /\ k \in 0 .. N - 1 /\ a + k \in 0 .. N - 1 /\ a + (k + 1) = (a + k) + 1
        /\ k + 1 \in 0 .. N - a /\ k \in 0 .. N /\ a \in 0 .. N
    BY <1>2
  <2>2. PICK x, y \in Int : x = P[a] /\ y = P[k]
    BY <2>1, <1>3
  <2>3. P[a + k] = x * y
    BY <2>2, <1>5
  <2>4. P[(a + k) + 1] = 2 * (x * y) /\ P[k + 1] = 2 * y
    BY <2>1, <2>2, <2>3, <1>3
  <2>5. 2 * (x * y) = x * (2 * y)
    OBVIOUS
  <2> QED BY <2>1, <2>2, <2>4, <2>5
<1>6. N - a \in Nat
  BY <1>2
<1> HIDE DEF S
<1>7. \A k \in 0 .. N - a : k \in S
  BY <1>4, <1>5, <1>6, UpTo
<1>8. b \in S
  BY <1>2, <1>7
<1> QED BY <1>2, <1>8 DEF S

---------------------------------------------------------------------------
(* No code uses fewer bits.  The nodes in the order in which the first     *)
(* loop takes them, the root last: merge x takes the nodes 2x and 2x + 1.  *)

Nodes == 2 * n - 1

\* V[t] is the weight of node t; b[t] is 0 for a leaf, and x + 1 for the node
\* that merge x builds.
Merged(V, b) ==
    /\ V \in [0 .. Nodes - 1 -> Nat] /\ b \in [0 .. Nodes - 1 -> 0 .. n - 1]
    /\ \A s, t \in 0 .. Nodes - 1 : s <= t => V[s] <= V[t]
    /\ \A x \in 0 .. n - 2 : \E t \in 2 * x + 2 .. Nodes - 1 :
          /\ V[t] = V[2 * x] + V[2 * x + 1]
          /\ \A s \in 0 .. Nodes - 1 : b[s] = x + 1 <=> s = t

\* The nodes without a parent before merge x, lengths for them that Kraft's
\* inequality admits, and the bits these use.
Waiting(b, x, t) == t >= 2 * x /\ b[t] <= x
Space(b, x, m) == [t \in 0 .. Nodes - 1 |-> IF Waiting(b, x, t) THEN Power[n - m[t]] ELSE 0]
Used(V, b, x, m) == [t \in 0 .. Nodes - 1 |-> IF Waiting(b, x, t) THEN V[t] * m[t] ELSE 0]
Fitting(b, x, m) ==
    m \in [0 .. Nodes - 1 -> 0 .. n] /\ Total(Space(b, x, m), Nodes) <= Power[n]
Spent(V, b, x, m) == Total(Used(V, b, x, m), Nodes)

\* Of lengths that cost the same, the earlier nodes should have the larger.
Ordering(m) == [t \in 0 .. Nodes - 1 |-> (t + 1) * m[t]]

LEMMA NatIsInt ==
    ASSUME NEW N, NEW f \in [0 .. N - 1 -> Nat]
    PROVE  f \in [0 .. N - 1 -> Int]
<1>1. \A k \in 0 .. N - 1 : f[k] \in Nat
  OBVIOUS
<1> QED BY <1>1

\* What a change of two elements changes.
Alike(f, g, a, b) == \A j \in 0 .. Nodes - 1 : j # a /\ j # b => g[j] = f[j]

LEMMA TwoChanged ==
    ASSUME n \in Nat, n > 1, NEW f \in [0 .. Nodes - 1 -> Nat], NEW g \in [0 .. Nodes - 1 -> Nat],
           NEW a \in 0 .. Nodes - 1, NEW b \in 0 .. Nodes - 1, a # b, Alike(f, g, a, b)
    PROVE  /\ Total(f, Nodes) \in Nat /\ Total(g, Nodes) \in Nat
           /\ Total(g, Nodes) + f[a] + f[b] = Total(f, Nodes) + g[a] + g[b]
<1>1. Nodes \in Nat
  BY DEF Nodes
<1>2. f \in [0 .. Nodes - 1 -> Int] /\ g \in [0 .. Nodes - 1 -> Int]
  BY NatIsInt
<1>3. Total(g, Nodes) = Total(f, Nodes) + (g[a] - f[a]) + (g[b] - f[b])
  BY <1>1, <1>2, SumTwo DEF Alike
<1>4. Total(f, Nodes) \in Nat /\ Total(g, Nodes) \in Nat
  BY <1>1, SumNat
<1>5. PICK p, q, r, s \in Nat : p = f[a] /\ q = f[b] /\ r = g[a] /\ s = g[b]
  OBVIOUS
<1>6. PICK x, y \in Nat : x = Total(f, Nodes) /\ y = Total(g, Nodes)
  BY <1>4
<1>7. y = x + (r - p) + (s - q)
  BY <1>3, <1>5, <1>6
<1>8. y + p + q = x + r + s
  BY <1>7
<1> QED BY <1>4, <1>5, <1>6, <1>8

LEMMA SumTypes ==
    ASSUME n \in Nat, n > 1, NEW V, NEW b, Merged(V, b), NEW x, NEW m \in [0 .. Nodes - 1 -> 0 .. n]
    PROVE  /\ Nodes \in Nat
           /\ Space(b, x, m) \in [0 .. Nodes - 1 -> Nat]
           /\ Used(V, b, x, m) \in [0 .. Nodes - 1 -> Nat]
           /\ Ordering(m) \in [0 .. Nodes - 1 -> Nat]
           /\ Spent(V, b, x, m) \in Nat /\ Total(Ordering(m), Nodes) \in Nat
           /\ Total(Space(b, x, m), Nodes) \in Nat
<1>1. Nodes \in Nat
  BY DEF Nodes
<1>2. \A t \in 0 .. Nodes - 1 : V[t] \in Nat /\ m[t] \in 0 .. n /\ m[t] \in Nat /\ n - m[t] \in 0 .. n
  BY DEF Merged
<1>3. \A k \in 0 .. n : Power[k] \in Nat
  BY PowerFacts
<1>4. \A t \in 0 .. Nodes - 1 : Power[n - m[t]] \in Nat
  BY <1>2, <1>3
<1>5. Space(b, x, m) \in [0 .. Nodes - 1 -> Nat]
  BY <1>4 DEF Space
<1>6. \A t \in 0 .. Nodes - 1 : V[t] * m[t] \in Nat /\ (t + 1) * m[t] \in Nat
  <2>1. \A y, z \in Nat : y * z \in Nat
    OBVIOUS
  <2>2. \A t \in 0 .. Nodes - 1 : t + 1 \in Nat
    OBVIOUS
  <2> QED BY <2>1, <2>2, <1>2, Zenon
<1>7. Used(V, b, x, m) \in [0 .. Nodes - 1 -> Nat]
  BY <1>6 DEF Used
<1>8. Ordering(m) \in [0 .. Nodes - 1 -> Nat]
  BY <1>6 DEF Ordering
<1> QED BY <1>1, <1>5, <1>7, <1>8, SumNat DEF Spent

\* The heavier of two gets the smaller factor.
LEMMA Rearranged ==
    ASSUME NEW y \in Nat, NEW z \in Nat, NEW p \in Nat, NEW q \in Nat, y <= z, p < q
    PROVE  /\ y * q + z * p <= y * p + z * q
           /\ y < z => y * q + z * p < y * p + z * q
<1>1. PICK d, e \in Nat : q = p + d /\ z = y + e /\ d >= 1
  <2>1. q - p \in Nat /\ z - y \in Nat /\ q = p + (q - p) /\ z = y + (z - y) /\ q - p >= 1
    OBVIOUS
  <2> QED BY <2>1
<1>2. y * q = y * p + y * d /\ z * p = y * p + e * p /\ z * q = y * p + y * d + e * p + e * d
  BY <1>1
<1>3. PICK u, v, w, k \in Nat : u = y * p /\ v = y * d /\ w = e * p /\ k = e * d
  OBVIOUS
<1>4. e >= 1 => k >= 1
  BY <1>1, <1>3
<1>5. y < z => e >= 1
  BY <1>1
<1> QED BY <1>2, <1>3, <1>4, <1>5

\* Two nodes exchange their lengths, the heavier one gets the smaller.
LEMMA Exchange ==
    ASSUME n \in Nat, n > 1, NEW V, NEW b, Merged(V, b), NEW x, NEW m, Fitting(b, x, m),
           NEW s \in 0 .. Nodes - 1, NEW t \in 0 .. Nodes - 1, s < t,
           Waiting(b, x, s), Waiting(b, x, t), m[s] < m[t]
    PROVE  \E w : /\ Fitting(b, x, w) /\ Spent(V, b, x, w) <= Spent(V, b, x, m)
                  /\ Total(Ordering(w), Nodes) < Total(Ordering(m), Nodes)
<1>0. m \in [0 .. Nodes - 1 -> 0 .. n] /\ Total(Space(b, x, m), Nodes) <= Power[n]
  BY DEF Fitting
<1>1. PICK p, q \in Nat : p = m[s] /\ q = m[t] /\ p < q /\ p \in 0 .. n /\ q \in 0 .. n
  BY <1>0
<1> DEFINE w == [m EXCEPT ![s] = q, ![t] = p]
<1>2. /\ w \in [0 .. Nodes - 1 -> 0 .. n] /\ w[s] = q /\ w[t] = p
      /\ \A j \in 0 .. Nodes - 1 : j # s /\ j # t => w[j] = m[j]
  BY <1>0, <1>1
<1> HIDE DEF w
<1>3. /\ Nodes \in Nat
      /\ Space(b, x, m) \in [0 .. Nodes - 1 -> Nat] /\ Space(b, x, w) \in [0 .. Nodes - 1 -> Nat]
      /\ Used(V, b, x, m) \in [0 .. Nodes - 1 -> Nat] /\ Used(V, b, x, w) \in [0 .. Nodes - 1 -> Nat]
      /\ Ordering(m) \in [0 .. Nodes - 1 -> Nat] /\ Ordering(w) \in [0 .. Nodes - 1 -> Nat]
      /\ Spent(V, b, x, m) \in Nat /\ Total(Ordering(m), Nodes) \in Nat
      /\ Total(Space(b, x, m), Nodes) \in Nat
  BY <1>0, <1>2, SumTypes
<1>s. s # t
  OBVIOUS
<1>4. Total(Space(b, x, w), Nodes) = Total(Space(b, x, m), Nodes)
  <2>1. PICK f, g : f = Space(b, x, m) /\ g = Space(b, x, w)
    OBVIOUS
  <2>2. f \in [0 .. Nodes - 1 -> Nat] /\ g \in [0 .. Nodes - 1 -> Nat]
    BY <1>3, <2>1
  <2>3. f[s] = g[t] /\ f[t] = g[s]
    BY <2>1, <1>1, <1>2 DEF Space
  <2>4. Alike(f, g, s, t)
    BY <2>1, <1>2 DEF Space, Alike
  <2>5. PICK u, v \in Nat : u = f[s] /\ v = f[t]
    BY <2>2
  <2>6. u = g[t] /\ v = g[s]
    BY <2>3, <2>5
  <2>7. /\ Total(f, Nodes) \in Nat /\ Total(g, Nodes) \in Nat
        /\ Total(g, Nodes) + f[s] + f[t] = Total(f, Nodes) + g[s] + g[t]
    BY <2>2, <2>4, <1>s, TwoChanged
  <2>8. Total(g, Nodes) + u + v = Total(f, Nodes) + v + u
    BY <2>5, <2>6, <2>7
  <2>9. Total(g, Nodes) = Total(f, Nodes)
    BY <2>7, <2>8
  <2> QED BY <2>1, <2>9
<1>5. Fitting(b, x, w)
  BY <1>0, <1>2, <1>4 DEF Fitting
<1>6. Spent(V, b, x, w) <= Spent(V, b, x, m)
  <2>1. PICK f, g : f = Used(V, b, x, m) /\ g = Used(V, b, x, w)
    OBVIOUS
  <2>2. f \in [0 .. Nodes - 1 -> Nat] /\ g \in [0 .. Nodes - 1 -> Nat]
    BY <1>3, <2>1
  <2>3. PICK y, z \in Nat : y = V[s] /\ z = V[t] /\ y <= z
    BY DEF Merged
  <2>4. f[s] = y * p /\ g[s] = y * q /\ f[t] = z * q /\ g[t] = z * p
    BY <2>1, <2>3, <1>1, <1>2 DEF Used
  <2>5. Alike(f, g, s, t)
    BY <2>1, <1>2 DEF Used, Alike
  <2>6. PICK u, v, u1, v1 \in Nat : u = y * p /\ v = z * q /\ u1 = y * q /\ v1 = z * p
    OBVIOUS
  <2>7. /\ Total(f, Nodes) \in Nat /\ Total(g, Nodes) \in Nat
        /\ Total(g, Nodes) + f[s] + f[t] = Total(f, Nodes) + g[s] + g[t]
    BY <2>2, <2>5, <1>s, TwoChanged
  <2>8. u1 + v1 <= u + v
    BY <2>3, <2>6, <1>1, Rearranged
  <2>9. Total(g, Nodes) + u + v = Total(f, Nodes) + u1 + v1
    BY <2>4, <2>6, <2>7
  <2>10. Total(g, Nodes) <= Total(f, Nodes)
    BY <2>7, <2>8, <2>9
  <2> QED BY <2>1, <2>10 DEF Spent
<1>7. Total(Ordering(w), Nodes) < Total(Ordering(m), Nodes)
  <2>1. PICK f, g : f = Ordering(m) /\ g = Ordering(w)
    OBVIOUS
  <2>2. f \in [0 .. Nodes - 1 -> Nat] /\ g \in [0 .. Nodes - 1 -> Nat]
    BY <1>3, <2>1
  <2>3. PICK y, z \in Nat : y = s + 1 /\ z = t + 1 /\ y < z
    OBVIOUS
  <2>4. f[s] = y * p /\ g[s] = y * q /\ f[t] = z * q /\ g[t] = z * p
    BY <2>1, <2>3, <1>1, <1>2 DEF Ordering
  <2>5. Alike(f, g, s, t)
    BY <2>1, <1>2 DEF Ordering, Alike
  <2>6. PICK u, v, u1, v1 \in Nat : u = y * p /\ v = z * q /\ u1 = y * q /\ v1 = z * p
    OBVIOUS
  <2>7. /\ Total(f, Nodes) \in Nat /\ Total(g, Nodes) \in Nat
        /\ Total(g, Nodes) + f[s] + f[t] = Total(f, Nodes) + g[s] + g[t]
    BY <2>2, <2>5, <1>s, TwoChanged
  <2>8. u1 + v1 < u + v
    BY <2>3, <2>6, <1>1, Rearranged
  <2>9. Total(g, Nodes) + u + v = Total(f, Nodes) + u1 + v1
    BY <2>4, <2>6, <2>7
  <2>10. Total(g, Nodes) < Total(f, Nodes)
    BY <2>7, <2>8, <2>9
  <2> QED BY <2>1, <2>10
<1> QED BY <1>5, <1>6, <1>7

\* When no other waiting node has a code as long, it can be one bit shorter.
LEMMA Shorten ==
    ASSUME n \in Nat, n > 1, NEW V, NEW b, Merged(V, b), NEW x, NEW m, Fitting(b, x, m),
           NEW s \in 0 .. Nodes - 1, Waiting(b, x, s), m[s] >= 1,
           \A t \in 0 .. Nodes - 1 : Waiting(b, x, t) /\ t # s => m[t] < m[s]
    PROVE  \E w : /\ Fitting(b, x, w) /\ Spent(V, b, x, w) <= Spent(V, b, x, m)
                  /\ Total(Ordering(w), Nodes) < Total(Ordering(m), Nodes)
<1>0. /\ m \in [0 .. Nodes - 1 -> 0 .. n] /\ Total(Space(b, x, m), Nodes) <= Power[n]
      /\ Nodes \in Nat
  BY DEF Fitting, Nodes
<1>1. PICK L \in Nat : L = m[s] /\ L >= 1 /\ L \in 1 .. n /\ L - 1 \in 0 .. n /\ n - L + 1 \in 1 .. n
  <2>1. m[s] \in 0 .. n
    BY <1>0
  <2> QED BY <2>1
<1> DEFINE w == [m EXCEPT ![s] = L - 1]
<1>2. /\ w \in [0 .. Nodes - 1 -> 0 .. n] /\ w[s] = L - 1
      /\ \A j \in 0 .. Nodes - 1 : j # s => w[j] = m[j]
  BY <1>0, <1>1
<1> HIDE DEF w
<1>3. /\ Space(b, x, m) \in [0 .. Nodes - 1 -> Nat] /\ Space(b, x, w) \in [0 .. Nodes - 1 -> Nat]
      /\ Used(V, b, x, m) \in [0 .. Nodes - 1 -> Nat] /\ Used(V, b, x, w) \in [0 .. Nodes - 1 -> Nat]
      /\ Ordering(m) \in [0 .. Nodes - 1 -> Nat] /\ Ordering(w) \in [0 .. Nodes - 1 -> Nat]
  BY <1>0, <1>2, SumTypes
<1>4. Power \in [0 .. n -> Nat \ {0}] /\ \A k \in 0 .. n - 1 : Power[k + 1] = 2 * Power[k]
  BY PowerFacts
\* Without s what is used is a multiple of D.
<1>5. PICK D, E, P \in Nat : /\ D = Power[n - L + 1] /\ E = Power[n - L] /\ P = Power[n]
                             /\ E >= 1 /\ E < D
  <2>1. n - L + 1 \in 0 .. n /\ n - L \in 0 .. n - 1 /\ n \in 0 .. n /\ n - L \in 0 .. n
    BY <1>1
  <2>2. Power[n - L + 1] \in Nat \ {0} /\ Power[n - L] \in Nat \ {0} /\ Power[n] \in Nat \ {0}
    BY <2>1, <1>4
  <2>3. Power[n - L + 1] = 2 * Power[n - L]
    BY <2>1, <1>4
  <2> QED BY <2>2, <2>3
<1>6. PICK Q \in Nat : P = D * Q
  <2>1. n - L + 1 \in 0 .. n /\ L - 1 \in 0 .. n - (n - L + 1) /\ (n - L + 1) + (L - 1) = n
    BY <1>1
  <2>2. Power[(n - L + 1) + (L - 1)] = Power[n - L + 1] * Power[L - 1]
    BY <2>1, PowersMultiply
  <2>3. Power[L - 1] \in Nat
    BY <1>1, <1>4
  <2> QED BY <2>1, <2>2, <2>3, <1>5
<1> DEFINE f == [t \in 0 .. Nodes - 1 |-> IF t = s THEN 0 ELSE Space(b, x, m)[t]]
<1>7. f \in [0 .. Nodes - 1 -> Nat] /\ f[s] = 0 /\ \A t \in 0 .. Nodes - 1 : t # s => f[t] = Space(b, x, m)[t]
  BY <1>3
<1>8. \A t \in 0 .. Nodes - 1 : \E z \in Nat : f[t] = D * z
  <2> TAKE t \in 0 .. Nodes - 1
  <2> HIDE DEF f
  <2>1. CASE t # s /\ Waiting(b, x, t)
    <3>1. PICK l \in Nat : l = m[t] /\ l < L /\ l \in 0 .. n
      BY <1>0, <1>1, <2>1
    <3>2. n - L + 1 \in 0 .. n /\ (L - 1) - l \in 0 .. n - (n - L + 1) /\ (L - 1) - l \in 0 .. n
          /\ (n - L + 1) + ((L - 1) - l) = n - l
      BY <1>1, <3>1
    <3>3. Power[(n - L + 1) + ((L - 1) - l)] = Power[n - L + 1] * Power[(L - 1) - l]
      BY <3>2, PowersMultiply
    <3>4. f[t] = Power[n - l]
      BY <2>1, <3>1, <1>7 DEF Space
    <3>5. Power[(L - 1) - l] \in Nat
      BY <3>2, <1>4
    <3> QED BY <3>2, <3>3, <3>4, <3>5, <1>5
  <2>2. CASE t = s \/ ~ Waiting(b, x, t)
    <3>1. f[t] = 0
      BY <2>2, <1>7 DEF Space
    <3>2. D * 0 = 0
      OBVIOUS
    <3> QED BY <3>1, <3>2
  <2> QED BY <2>1, <2>2
<1> HIDE DEF f
<1>9. PICK Z \in Nat : Total(f, Nodes) = D * Z
  <2> DEFINE z == [t \in 0 .. Nodes - 1 |-> CHOOSE y \in Nat : f[t] = D * y]
  <2>1. \A t \in 0 .. Nodes - 1 : (CHOOSE y \in Nat : f[t] = D * y) \in Nat
                                  /\ f[t] = D * (CHOOSE y \in Nat : f[t] = D * y)
    BY <1>8
  <2>2. z \in [0 .. Nodes - 1 -> Nat] /\ \A t \in 0 .. Nodes - 1 : f[t] = D * z[t]
    BY <2>1
  <2> HIDE DEF z
  <2>3. z \in [0 .. Nodes - 1 -> Int] /\ f \in [0 .. Nodes - 1 -> Int] /\ D \in Int
    BY <2>2, <1>7, NatIsInt
  <2>4. Total(f, Nodes) = D * Total(z, Nodes)
    BY <2>2, <2>3, <1>0, SumMultiple
  <2>5. Total(z, Nodes) \in Nat
    BY <2>2, <1>0, SumNat
  <2> QED BY <2>4, <2>5
<1>10. Total(Space(b, x, m), Nodes) = D * Z + E
  <2>1. PICK g : g = Space(b, x, m)
    OBVIOUS
  <2>2. f \in [0 .. Nodes - 1 -> Int] /\ g \in [0 .. Nodes - 1 -> Int]
    BY <1>3, <1>7, <2>1, NatIsInt
  <2>3. \A j \in 0 .. Nodes - 1 : j # s => g[j] = f[j]
    BY <2>1, <1>7
  <2>4. Total(g, Nodes) = Total(f, Nodes) + (g[s] - f[s])
    BY <2>2, <2>3, <1>0, SumPoint
  <2>5. g[s] = E
    BY <2>1, <1>1, <1>5 DEF Space
  <2>6. D * Z \in Int
    OBVIOUS
  <2> QED BY <2>1, <2>4, <2>5, <2>6, <1>7, <1>9
<1>11. Total(Space(b, x, w), Nodes) = D * Z + D
  <2>1. PICK g : g = Space(b, x, w)
    OBVIOUS
  <2>2. f \in [0 .. Nodes - 1 -> Int] /\ g \in [0 .. Nodes - 1 -> Int]
    BY <1>3, <1>7, <2>1, NatIsInt
  <2>3. \A j \in 0 .. Nodes - 1 : j # s => g[j] = f[j]
    BY <2>1, <1>2, <1>7 DEF Space
  <2>4. Total(g, Nodes) = Total(f, Nodes) + (g[s] - f[s])
    BY <2>2, <2>3, <1>0, SumPoint
  <2>5. g[s] = D
    <3>1. n - (L - 1) = n - L + 1
      OBVIOUS
    <3> QED BY <3>1, <2>1, <1>2, <1>5 DEF Space
  <2>6. D * Z \in Int
    OBVIOUS
  <2> QED BY <2>1, <2>4, <2>5, <2>6, <1>7, <1>9
<1>12. D * Z + D <= P
  <2>1. D * Z + E <= D * Q
    BY <1>0, <1>5, <1>6, <1>10
  <2>2. Z < Q
    <3>1. SUFFICES ASSUME Q <= Z PROVE FALSE
      OBVIOUS
    <3>2. PICK d \in Nat : Z = Q + d
      <4>1. Z - Q \in Nat /\ Z = Q + (Z - Q)
        BY <3>1
      <4> QED BY <4>1
    <3>3. D * Z = D * Q + D * d
      BY <3>2
    <3>4. D * Q \in Nat /\ D * d \in Nat
      OBVIOUS
    <3> QED BY <3>3, <3>4, <2>1, <1>5
  <2>3. PICK d \in Nat : Q = (Z + 1) + d
    <3>1. Q - (Z + 1) \in Nat /\ Q = (Z + 1) + (Q - (Z + 1))
      BY <2>2
    <3> QED BY <3>1
  <2>4. D * Q = (D * Z + D) + D * d /\ D * d \in Nat /\ D * Z \in Nat
    BY <2>3
  <2> QED BY <2>4, <1>6
<1>13. Fitting(b, x, w)
  BY <1>2, <1>5, <1>11, <1>12 DEF Fitting
<1>14. Spent(V, b, x, w) <= Spent(V, b, x, m)
  <2>1. PICK g, h : g = Used(V, b, x, m) /\ h = Used(V, b, x, w)
    OBVIOUS
  <2>2. g \in [0 .. Nodes - 1 -> Int] /\ h \in [0 .. Nodes - 1 -> Int]
    BY <1>3, <2>1, NatIsInt
  <2>3. \A j \in 0 .. Nodes - 1 : j # s => h[j] = g[j]
    BY <2>1, <1>2 DEF Used
  <2>4. Total(h, Nodes) = Total(g, Nodes) + (h[s] - g[s])
    BY <2>2, <2>3, <1>0, SumPoint
  <2>5. PICK y \in Nat : y = V[s]
    BY DEF Merged
  <2>6. g[s] = y * L /\ h[s] = y * (L - 1)
    BY <2>1, <2>5, <1>1, <1>2 DEF Used
  <2>7. y * (L - 1) = y * L - y /\ y * L \in Nat
    OBVIOUS
  <2>8. Total(g, Nodes) \in Nat
    BY <2>1, <1>0, SumTypes DEF Spent
  <2>9. PICK u, v, k \in Int : u = g[s] /\ v = h[s] /\ v <= u /\ k = Total(g, Nodes)
    <3>1. g[s] \in Int /\ h[s] \in Int /\ h[s] <= g[s]
      BY <2>6, <2>7
    <3> QED BY <3>1, <2>8
  <2>10. Total(h, Nodes) = k + (v - u)
    BY <2>4, <2>9
  <2>11. Total(h, Nodes) <= Total(g, Nodes)
    BY <2>9, <2>10
  <2> QED BY <2>1, <2>11 DEF Spent
<1>15. Total(Ordering(w), Nodes) < Total(Ordering(m), Nodes)
  <2>1. PICK g, h : g = Ordering(m) /\ h = Ordering(w)
    OBVIOUS
  <2>2. g \in [0 .. Nodes - 1 -> Int] /\ h \in [0 .. Nodes - 1 -> Int]
    BY <1>3, <2>1, NatIsInt
  <2>3. \A j \in 0 .. Nodes - 1 : j # s => h[j] = g[j]
    BY <2>1, <1>2 DEF Ordering
  <2>4. Total(h, Nodes) = Total(g, Nodes) + (h[s] - g[s])
    BY <2>2, <2>3, <1>0, SumPoint
  <2>5. PICK y \in Nat : y = s + 1 /\ y >= 1
    OBVIOUS
  <2>6. g[s] = y * L /\ h[s] = y * (L - 1)
    BY <2>1, <2>5, <1>1, <1>2 DEF Ordering
  <2>7. y * (L - 1) = y * L - y /\ y * L \in Nat
    OBVIOUS
  <2>8. Total(g, Nodes) \in Nat
    BY <2>1, <1>0, SumTypes
  <2>9. PICK u, v, k \in Int : u = g[s] /\ v = h[s] /\ v < u /\ k = Total(g, Nodes)
    <3>1. g[s] \in Int /\ h[s] \in Int /\ h[s] < g[s]
      BY <2>5, <2>6, <2>7
    <3> QED BY <3>1, <2>8
  <2>10. Total(h, Nodes) = k + (v - u)
    BY <2>4, <2>9
  <2>11. Total(h, Nodes) < Total(g, Nodes)
    BY <2>9, <2>10
  <2> QED BY <2>1, <2>11
<1> QED BY <1>13, <1>14, <1>15

\* Of lengths as good, those with the least ordering give the next two nodes
\* to be merged the same length.
LEMMA MergedAlike ==
    ASSUME n \in Nat, n > 1, NEW V, NEW b, Merged(V, b), NEW x \in 0 .. n - 2,
           NEW m, Fitting(b, x, m)
    PROVE  \E w : /\ Fitting(b, x, w) /\ Spent(V, b, x, w) <= Spent(V, b, x, m)
                  /\ w[2 * x] >= 1 /\ w[2 * x] = w[2 * x + 1]
<1>0. /\ m \in [0 .. Nodes - 1 -> 0 .. n] /\ Nodes \in Nat
      /\ 2 * x \in 0 .. Nodes - 1 /\ 2 * x + 1 \in 0 .. Nodes - 1 /\ 2 * x # 2 * x + 1
  BY DEF Fitting, Nodes
<1> DEFINE Good(w) == Fitting(b, x, w) /\ Spent(V, b, x, w) <= Spent(V, b, x, m)
           S == {k \in Nat : \E w : Good(w) /\ Total(Ordering(w), Nodes) = k}
<1>1. \E k \in S : \A l \in S : k <= l
  <2>1. Total(Ordering(m), Nodes) \in Nat /\ Spent(V, b, x, m) \in Nat
    BY <1>0, SumTypes
  <2>2. Good(m)
    BY <2>1
  <2> HIDE DEF Good
  <2>3. S \in SUBSET Nat /\ S # {}
    BY <2>1, <2>2
  <2> HIDE DEF S
  <2> QED BY <2>3, Least
<1>2. PICK k \in S : \A l \in S : k <= l
  BY <1>1
<1>3. PICK w : Good(w) /\ Total(Ordering(w), Nodes) = k
  BY <1>2
<1>4. /\ w \in [0 .. Nodes - 1 -> 0 .. n] /\ Total(Space(b, x, w), Nodes) <= Power[n]
      /\ Spent(V, b, x, w) \in Nat /\ Spent(V, b, x, m) \in Nat
  <2>1. w \in [0 .. Nodes - 1 -> 0 .. n] /\ Total(Space(b, x, w), Nodes) <= Power[n]
    BY <1>3 DEF Fitting
  <2> QED BY <2>1, <1>0, SumTypes
<1>5. ASSUME NEW v, Fitting(b, x, v), Spent(V, b, x, v) <= Spent(V, b, x, w),
             Total(Ordering(v), Nodes) < Total(Ordering(w), Nodes)
      PROVE  FALSE
  <2>1. v \in [0 .. Nodes - 1 -> 0 .. n]
    BY <1>5 DEF Fitting
  <2>2. Total(Ordering(v), Nodes) \in Nat /\ Spent(V, b, x, v) \in Nat
    BY <2>1, SumTypes
  <2>3. Good(v)
    BY <2>2, <1>3, <1>4, <1>5
  <2>4. Total(Ordering(v), Nodes) \in S
    BY <2>2, <2>3
  <2>5. k \in Nat /\ k <= Total(Ordering(v), Nodes)
    BY <2>4, <1>2
  <2> QED BY <2>2, <2>5, <1>3, <1>5
<1>F. Fitting(b, x, w)
  BY <1>3
<1>6. \A s, t \in 0 .. Nodes - 1 : s < t /\ Waiting(b, x, s) /\ Waiting(b, x, t) => w[t] <= w[s]
  <2> TAKE s, t \in 0 .. Nodes - 1
  <2> SUFFICES ASSUME s < t, Waiting(b, x, s), Waiting(b, x, t), ~ (w[t] <= w[s]) PROVE FALSE
    OBVIOUS
  <2> HIDE DEF S, Good
  <2>1. w[s] \in 0 .. n /\ w[t] \in 0 .. n
    BY <1>4
  <2>2. w[s] < w[t]
    BY <2>1
  <2>3. \E v : /\ Fitting(b, x, v) /\ Spent(V, b, x, v) <= Spent(V, b, x, w)
               /\ Total(Ordering(v), Nodes) < Total(Ordering(w), Nodes)
    BY <2>2, <1>F, Exchange
  <2> QED BY <2>3, <1>5
<1>7. Waiting(b, x, 2 * x) /\ Waiting(b, x, 2 * x + 1)
  <2>1. \A t \in 0 .. Nodes - 1 : b[t] \in 0 .. n - 1
    BY DEF Merged
  <2>2. ASSUME NEW t \in 0 .. Nodes - 1, t = 2 * x \/ t = 2 * x + 1 PROVE b[t] <= x
    <3>1. SUFFICES ASSUME b[t] > x PROVE FALSE
      BY <2>1
    <3>2. PICK y \in 0 .. n - 2 : b[t] = y + 1 /\ y >= x
      <4>1. b[t] - 1 \in 0 .. n - 2 /\ b[t] = (b[t] - 1) + 1 /\ b[t] - 1 >= x
        BY <2>1, <3>1
      <4> QED BY <4>1
    <3>3. PICK u \in 2 * y + 2 .. Nodes - 1 : \A s \in 0 .. Nodes - 1 : b[s] = y + 1 <=> s = u
      BY DEF Merged
    <3>4. t = u
      BY <3>2, <3>3
    <3> QED BY <3>2, <3>4, <2>2
  <2> QED BY <2>2, <1>0 DEF Waiting
<1>8. PICK p, q \in Nat : p = w[2 * x] /\ q = w[2 * x + 1] /\ q <= p /\ p \in 0 .. n /\ q \in 0 .. n
  <2>1. w[2 * x] \in 0 .. n /\ w[2 * x + 1] \in 0 .. n
    BY <1>0, <1>4
  <2>2. 2 * x < 2 * x + 1
    OBVIOUS
  <2>3. w[2 * x + 1] <= w[2 * x]
    BY <2>2, <1>0, <1>6, <1>7
  <2> QED BY <2>1, <2>3
<1>9. p >= 1
  <2>1. SUFFICES ASSUME p = 0 PROVE FALSE
    BY <1>8
  <2>2. Power \in [0 .. n -> Nat \ {0}]
    BY PowerFacts
  <2>3. PICK P \in Nat : P = Power[n] /\ P >= 1
    BY <2>2
  <2>4. PICK f : f = Space(b, x, w)
    OBVIOUS
  <2>5. f[2 * x] = P /\ f[2 * x + 1] = P
    <3>1. q = 0 /\ n - 0 = n
      BY <2>1, <1>8
    <3> QED BY <3>1, <2>1, <2>3, <2>4, <1>0, <1>7, <1>8 DEF Space
  <2>6. f \in [0 .. Nodes - 1 -> Nat]
    BY <2>4, <1>4, SumTypes
  <2>7. f[2 * x] + f[2 * x + 1] <= Total(f, Nodes) /\ Total(f, Nodes) \in Nat
    BY <2>6, <1>0, SumNat
  <2>8. P + P <= Total(f, Nodes)
    BY <2>5, <2>7
  <2>9. Total(f, Nodes) <= P
    BY <2>3, <2>4, <1>4
  <2> QED BY <2>3, <2>7, <2>8, <2>9
<1>10. p = q
  <2> SUFFICES ASSUME p # q PROVE FALSE
    OBVIOUS
  <2>1. \A t \in 0 .. Nodes - 1 : Waiting(b, x, t) /\ t # 2 * x => w[t] < w[2 * x]
    <3> TAKE t \in 0 .. Nodes - 1
    <3> SUFFICES ASSUME Waiting(b, x, t), t # 2 * x PROVE w[t] < w[2 * x]
      OBVIOUS
    <3>1. w[t] \in 0 .. n /\ q < p
      <4>1. w[t] \in 0 .. n
        BY <1>4
      <4>2. q < p
        BY <1>8
      <4> QED BY <4>1, <4>2
    <3>2. t = 2 * x + 1 \/ t > 2 * x + 1
      BY DEF Waiting
    <3>3. w[t] <= q
      <4>1. CASE t = 2 * x + 1
        BY <4>1, <1>8
      <4>2. CASE t > 2 * x + 1
        BY <4>2, <1>0, <1>6, <1>7, <1>8
      <4> QED BY <4>1, <4>2, <3>2
    <3> QED BY <3>1, <3>3, <1>8
  <2>2. w[2 * x] >= 1
    BY <1>8, <1>9
  <2> HIDE DEF S, Good
  <2>3. \E v : /\ Fitting(b, x, v) /\ Spent(V, b, x, v) <= Spent(V, b, x, w)
               /\ Total(Ordering(v), Nodes) < Total(Ordering(w), Nodes)
    BY <2>1, <2>2, <1>0, <1>7, <1>F, Shorten
  <2> QED BY <2>3, <1>5
<1> QED BY <1>3, <1>8, <1>9, <1>10

\* Lengths for the nodes before merge x give lengths for those after it.
LEMMA AfterMerge ==
    ASSUME n \in Nat, n > 1, NEW V, NEW b, Merged(V, b), NEW x \in 0 .. n - 2,
           NEW m, Fitting(b, x, m), m[2 * x] >= 1, m[2 * x] = m[2 * x + 1]
    PROVE  \E w : /\ Fitting(b, x + 1, w)
                  /\ Spent(V, b, x, m) = Spent(V, b, x + 1, w) + V[2 * x] + V[2 * x + 1]
<1>0. /\ m \in [0 .. Nodes - 1 -> 0 .. n] /\ Nodes \in Nat /\ Total(Space(b, x, m), Nodes) <= Power[n]
      /\ 2 * x \in 0 .. Nodes - 1 /\ 2 * x + 1 \in 0 .. Nodes - 1 /\ 2 * x # 2 * x + 1
  <2>1. m \in [0 .. Nodes - 1 -> 0 .. n] /\ Total(Space(b, x, m), Nodes) <= Power[n]
    BY DEF Fitting
  <2>2. /\ Nodes \in Nat /\ 2 * x \in 0 .. Nodes - 1 /\ 2 * x + 1 \in 0 .. Nodes - 1
        /\ 2 * x # 2 * x + 1
    BY DEF Nodes
  <2> QED BY <2>1, <2>2
<1>1. PICK L \in 1 .. n : L = m[2 * x] /\ L = m[2 * x + 1]
  <2>1. m[2 * x] \in 0 .. n
    BY <1>0
  <2> QED BY <2>1
<1>2. PICK u \in 2 * x + 2 .. Nodes - 1 :
         V[u] = V[2 * x] + V[2 * x + 1] /\ \A s \in 0 .. Nodes - 1 : b[s] = x + 1 <=> s = u
  BY DEF Merged
<1>3. u \in 0 .. Nodes - 1 /\ 2 * x # u /\ 2 * x + 1 # u /\ u >= 2 * (x + 1) /\ b[u] = x + 1
  BY <1>0, <1>2
<1>4. \A t \in 0 .. Nodes - 1 : b[t] \in 0 .. n - 1
  BY DEF Merged
<1>5. \A t \in 0 .. Nodes - 1 : t # 2 * x /\ t # 2 * x + 1 /\ t # u =>
         (Waiting(b, x + 1, t) <=> Waiting(b, x, t))
  <2> TAKE t \in 0 .. Nodes - 1
  <2> SUFFICES ASSUME t # 2 * x, t # 2 * x + 1, t # u
               PROVE  Waiting(b, x + 1, t) <=> Waiting(b, x, t)
    OBVIOUS
  <2>1. b[t] # x + 1 /\ b[t] \in 0 .. n - 1
    BY <1>2, <1>4
  <2>2. t >= 2 * (x + 1) <=> t >= 2 * x
    OBVIOUS
  <2>3. b[t] <= x + 1 <=> b[t] <= x
    BY <2>1
  <2> QED BY <2>2, <2>3 DEF Waiting
<1>6. /\ Waiting(b, x + 1, u) /\ ~ Waiting(b, x, u)
      /\ ~ Waiting(b, x + 1, 2 * x) /\ ~ Waiting(b, x + 1, 2 * x + 1)
  BY <1>3 DEF Waiting
<1>7. Waiting(b, x, 2 * x) /\ Waiting(b, x, 2 * x + 1)
  <2>2. ASSUME NEW t \in 0 .. Nodes - 1, t = 2 * x \/ t = 2 * x + 1 PROVE b[t] <= x
    <3>1. SUFFICES ASSUME b[t] > x PROVE FALSE
      BY <1>4
    <3>2. PICK y \in 0 .. n - 2 : b[t] = y + 1 /\ y >= x
      <4>1. b[t] - 1 \in 0 .. n - 2 /\ b[t] = (b[t] - 1) + 1 /\ b[t] - 1 >= x
        BY <1>4, <3>1
      <4> QED BY <4>1
    <3>3. PICK r \in 2 * y + 2 .. Nodes - 1 : \A s \in 0 .. Nodes - 1 : b[s] = y + 1 <=> s = r
      BY DEF Merged
    <3>4. t = r
      BY <3>2, <3>3
    <3> QED BY <3>2, <3>4, <2>2
  <2> QED BY <2>2, <1>0 DEF Waiting
<1> DEFINE w == [m EXCEPT ![u] = L - 1]
<1>8. /\ w \in [0 .. Nodes - 1 -> 0 .. n] /\ w[u] = L - 1
      /\ \A j \in 0 .. Nodes - 1 : j # u => w[j] = m[j]
  <2>1. L - 1 \in 0 .. n
    OBVIOUS
  <2>2. u \in 0 .. Nodes - 1
    BY <1>3
  <2>3. m \in [0 .. Nodes - 1 -> 0 .. n]
    BY <1>0, <1>1
  <2> QED BY <2>1, <2>2, <2>3
<1> HIDE DEF w
<1>9. Total(Space(b, x + 1, w), Nodes) = Total(Space(b, x, m), Nodes)
  <2>1. PICK f, g : f = Space(b, x, m) /\ g = Space(b, x + 1, w)
    OBVIOUS
  <2>2. f \in [0 .. Nodes - 1 -> Nat] /\ g \in [0 .. Nodes - 1 -> Nat]
    BY <2>1, <1>0, <1>8, SumTypes
  <2>3. f \in [0 .. Nodes - 1 -> Int] /\ g \in [0 .. Nodes - 1 -> Int]
    BY <2>2, NatIsInt
  <2>4. \A j \in 0 .. Nodes - 1 : j # 2 * x /\ j # 2 * x + 1 /\ j # u => g[j] = f[j]
    BY <2>1, <1>5, <1>8 DEF Space
  <2>5. Total(g, Nodes) = Total(f, Nodes) + (g[2 * x] - f[2 * x])
                          + (g[2 * x + 1] - f[2 * x + 1]) + (g[u] - f[u])
    <3>1. ThreeDiffer(Nodes, f, g, 2 * x, 2 * x + 1, u)
      BY <2>3, <2>4, <1>0, <1>3 DEF ThreeDiffer
    <3> QED BY <3>1, SumThree
  <2>6. PICK D, E \in Nat : E = Power[n - L] /\ D = Power[n - L + 1] /\ D = 2 * E
    <3>1. n - L \in 0 .. n - 1 /\ n - L \in 0 .. n
      OBVIOUS
    <3>2. /\ Power \in [0 .. n -> Nat \ {0}]
          /\ \A k \in 0 .. n - 1 : Power[k + 1] = 2 * Power[k]
      BY PowerFacts
    <3>3. Power[n - L] \in Nat
      BY <3>1, <3>2
    <3>4. Power[n - L + 1] = 2 * Power[n - L]
      BY <3>1, <3>2
    <3> QED BY <3>3, <3>4
  <2>7. g[2 * x] = 0 /\ g[2 * x + 1] = 0 /\ f[u] = 0
    BY <2>1, <1>0, <1>3, <1>6 DEF Space
  <2>8. f[2 * x] = E /\ f[2 * x + 1] = E
    BY <2>1, <2>6, <1>0, <1>1, <1>7 DEF Space
  <2>9. g[u] = D
    <3>1. n - (L - 1) = n - L + 1
      OBVIOUS
    <3> QED BY <3>1, <2>1, <2>6, <1>3, <1>6, <1>8 DEF Space
  <2>10. Total(f, Nodes) \in Nat
    BY <2>2, <1>0, SumNat
  <2>11. Total(g, Nodes) = Total(f, Nodes) + (0 - E) + (0 - E) + (D - 0)
    BY <2>5, <2>7, <2>8, <2>9
  <2> QED BY <2>1, <2>6, <2>10, <2>11
<1>10. Fitting(b, x + 1, w)
  BY <1>0, <1>8, <1>9 DEF Fitting
<1>11. Spent(V, b, x, m) = Spent(V, b, x + 1, w) + V[2 * x] + V[2 * x + 1]
  <2>1. PICK f, g : f = Used(V, b, x, m) /\ g = Used(V, b, x + 1, w)
    OBVIOUS
  <2>2. f \in [0 .. Nodes - 1 -> Nat] /\ g \in [0 .. Nodes - 1 -> Nat]
    BY <2>1, <1>0, <1>8, SumTypes
  <2>3. f \in [0 .. Nodes - 1 -> Int] /\ g \in [0 .. Nodes - 1 -> Int]
    BY <2>2, NatIsInt
  <2>4. \A j \in 0 .. Nodes - 1 : j # 2 * x /\ j # 2 * x + 1 /\ j # u => g[j] = f[j]
    BY <2>1, <1>5, <1>8 DEF Used
  <2>5. Total(g, Nodes) = Total(f, Nodes) + (g[2 * x] - f[2 * x])
                          + (g[2 * x + 1] - f[2 * x + 1]) + (g[u] - f[u])
    <3>1. ThreeDiffer(Nodes, f, g, 2 * x, 2 * x + 1, u)
      BY <2>3, <2>4, <1>0, <1>3 DEF ThreeDiffer
    <3> QED BY <3>1, SumThree
  <2>6. PICK y, z \in Nat : y = V[2 * x] /\ z = V[2 * x + 1] /\ V[u] = y + z
    BY <1>0, <1>2 DEF Merged
  <2>7. g[2 * x] = 0 /\ g[2 * x + 1] = 0 /\ f[u] = 0
    BY <2>1, <1>0, <1>3, <1>6 DEF Used
  <2>8. f[2 * x] = y * L /\ f[2 * x + 1] = z * L
    BY <2>1, <2>6, <1>0, <1>1, <1>7 DEF Used
  <2>9. g[u] = (y + z) * (L - 1)
    BY <2>1, <2>6, <1>3, <1>6, <1>8 DEF Used
  <2>10. (y + z) * (L - 1) = y * L + z * L - y - z
    OBVIOUS
  <2>11. PICK k, l \in Nat : k = y * L /\ l = z * L
    <3>1. y * L \in Nat /\ z * L \in Nat
      OBVIOUS
    <3> QED BY <3>1
  <2>12. Total(f, Nodes) \in Nat
    BY <2>2, <1>0, SumNat
  <2>13. Total(g, Nodes) = Total(f, Nodes) + (0 - k) + (0 - l) + ((k + l - y - z) - 0)
    BY <2>5, <2>7, <2>8, <2>9, <2>10, <2>11
  <2>14. Total(f, Nodes) = Total(g, Nodes) + y + z
    BY <2>12, <2>13
  <2> QED BY <2>1, <2>6, <2>14 DEF Spent
<1> QED BY <1>10, <1>11

\* H[x] is the weight of what the first x merges take.
MergeSums(V, H) == H[0] = 0 /\ \A x \in 0 .. n - 2 : H[x + 1] = H[x] + V[2 * x] + V[2 * x + 1]

\* No lengths that Kraft's inequality admits cost less than the merges.
LEMMA MergesCost ==
    ASSUME n \in Nat, n > 1, NEW V, NEW b, Merged(V, b), NEW H \in [0 .. n - 1 -> Nat], MergeSums(V, H),
           NEW m, Fitting(b, 0, m)
    PROVE  H[n - 1] <= Spent(V, b, 0, m)
<1>0. PICK N \in Nat : n = N + 1 /\ N >= 1
  <2>1. n - 1 \in Nat /\ n = (n - 1) + 1
    OBVIOUS
  <2> QED BY <2>1
<1> DEFINE Claim(x) == \A w : Fitting(b, x, w) => H[N] <= Spent(V, b, x, w) + H[x]
           S == {k \in 0 .. N : Claim(N - k)}
<1>1. \A x \in 0 .. N : H[x] \in Nat
  BY <1>0
<1>2. \A x : \A w : Fitting(b, x, w) => Spent(V, b, x, w) \in Nat
  <2> SUFFICES ASSUME NEW x, NEW w, Fitting(b, x, w) PROVE Spent(V, b, x, w) \in Nat
    OBVIOUS
  <2>1. w \in [0 .. Nodes - 1 -> 0 .. n]
    BY DEF Fitting
  <2> QED BY <2>1, SumTypes
<1>3. 0 \in S
  <2>1. Claim(N)
    <3> SUFFICES ASSUME NEW w, Fitting(b, N, w) PROVE H[N] <= Spent(V, b, N, w) + H[N]
      OBVIOUS
    <3>1. Spent(V, b, N, w) \in Nat
      BY <1>2
    <3>2. H[N] \in Nat
      BY <1>1
    <3> QED BY <3>1, <3>2
  <2> HIDE DEF Claim
  <2>2. N - 0 = N
    OBVIOUS
  <2> QED BY <2>1, <2>2
<1>4. ASSUME NEW x \in 0 .. N - 1, Claim(x + 1) PROVE Claim(x)
  <2> SUFFICES ASSUME NEW w, Fitting(b, x, w) PROVE H[N] <= Spent(V, b, x, w) + H[x]
    OBVIOUS
  <2>0. x \in 0 .. n - 2
    BY <1>0
  <2>1. PICK v : /\ Fitting(b, x, v) /\ Spent(V, b, x, v) <= Spent(V, b, x, w)
                 /\ v[2 * x] >= 1 /\ v[2 * x] = v[2 * x + 1]
    BY <2>0, MergedAlike
  <2>2. PICK u : /\ Fitting(b, x + 1, u)
                 /\ Spent(V, b, x, v) = Spent(V, b, x + 1, u) + V[2 * x] + V[2 * x + 1]
    BY <2>0, <2>1, AfterMerge
  <2>3. H[N] <= Spent(V, b, x + 1, u) + H[x + 1]
    BY <2>2, <1>4
  <2>4. PICK y, z \in Nat : y = V[2 * x] /\ z = V[2 * x + 1]
    <3>1. 2 * x \in 0 .. Nodes - 1 /\ 2 * x + 1 \in 0 .. Nodes - 1
      BY <2>0 DEF Nodes
    <3> QED BY <3>1 DEF Merged
  <2>5. H[x + 1] = H[x] + y + z
    BY <2>0, <2>4 DEF MergeSums
  <2>6. PICK p, q, r \in Nat : p = Spent(V, b, x, w) /\ q = Spent(V, b, x, v) /\ r = Spent(V, b, x + 1, u)
    BY <2>1, <2>2, <1>2
  <2>7. PICK h \in Nat : h = H[x]
    BY <1>1
  <2>8. q <= p /\ q = r + y + z
    BY <2>1, <2>2, <2>4, <2>6
  <2>9. H[N] <= r + (h + y + z)
    BY <2>3, <2>5, <2>6, <2>7
  <2>10. H[N] \in Nat
    BY <1>1
  <2>11. H[N] <= p + h
    BY <2>8, <2>9, <2>10
  <2> QED BY <2>6, <2>7, <2>11
<1>5. ASSUME NEW k \in 0 .. N - 1, k \in S PROVE k + 1 \in S
  <2>1. N - (k + 1) \in 0 .. N - 1 /\ (N - (k + 1)) + 1 = N - k /\ k + 1 \in 0 .. N
    OBVIOUS
  <2> HIDE DEF Claim
  <2>2. Claim(N - k)
    BY <1>5
  <2>3. Claim(N - (k + 1))
    BY <2>1, <2>2, <1>4
  <2> QED BY <2>1, <2>3
<1> HIDE DEF S
<1>6. \A k \in 0 .. N : k \in S
  BY <1>3, <1>5, UpTo
<1>7. Claim(0)
  <2> HIDE DEF Claim
  <2>1. N \in S /\ N - N = 0
    BY <1>6
  <2> QED BY <2>1 DEF S
<1>8. H[N] <= Spent(V, b, 0, m) + H[0]
  BY <1>7
<1>9. H[0] = 0 /\ Spent(V, b, 0, m) \in Nat /\ n - 1 = N /\ H[N] \in Nat
  BY <1>0, <1>1, <1>2 DEF MergeSums
<1> QED BY <1>8, <1>9

---------------------------------------------------------------------------
(* The first loop takes the nodes in such an order.                        *)

\* Node t is leaf t - c[t] or, when c[t] weights were taken before it, weight
\* c[t].
Node(V, b, c, t) ==
    \/ /\ b[t] = 0 /\ c[t + 1] = c[t]
       /\ c[t] <= t /\ t - c[t] < n /\ V[t] = freq[t - c[t]]
    \/ /\ b[t] = c[t] + 1 /\ c[t + 1] = c[t] + 1
       /\ 2 * c[t] + 2 <= t /\ V[t] = V[2 * c[t]] + V[2 * c[t] + 1]

\* The first T nodes.
Order(V, b, c, T) ==
    /\ V \in [0 .. 2 * n -> Nat] /\ b \in [0 .. 2 * n -> Nat] /\ c \in [0 .. 2 * n -> Nat]
    /\ c[0] = 0
    /\ \A t \in 0 .. T - 1 : Node(V, b, c, t) /\ b[t] <= c[T]
    /\ \A s, t \in 0 .. T - 1 : s <= t => V[s] <= V[t]

\* Weight k is among them, and P is the merge that took it.
Placed(b, T, k, P) ==
    \E t \in 0 .. T - 1 : /\ b[t] = k + 1 /\ \A s \in 0 .. T - 1 : b[s] = k + 1 => s = t
                          /\ 2 * P <= t /\ t <= 2 * P + 1

\* What of the loop's state the nodes taken explain.
Explained(V, b, c, T) ==
    /\ Order(V, b, c, T) /\ c[T] = root
    /\ \A k \in 0 .. root - 1 : Placed(b, T, k, A[k])
    /\ \A t \in 0 .. T - 1 : /\ \A j \in leaf .. n - 1 : V[t] <= freq[j]
                             /\ \A k \in root .. next - 1 : V[t] <= A[k]
    /\ \A k \in root .. next - 1 : A[k] = V[2 * k] + V[2 * k + 1]
    /\ pass = 1 => sum = V[T - 1]

History == hpc = "tree" => \E V, b, c : Explained(V, b, c, leaf + root)

\* The next node has the weight v; it is a leaf (g is 0) or an internal one.
NextNode(V, c, T, v, g) ==
    /\ v \in Nat /\ g \in {0, 1}
    /\ \A t \in 0 .. T - 1 : V[t] <= v
    /\ g = 0 => c[T] <= T /\ T - c[T] < n /\ v = freq[T - c[T]]
    /\ g = 1 => 2 * c[T] + 2 <= T /\ v = V[2 * c[T]] + V[2 * c[T] + 1]

\* V2, b2 and c2 are V, b and c with that node.
WithNode(V, b, c, T, v, g, V2, b2, c2) ==
    /\ V2[T] = v /\ b2[T] = (IF g = 1 THEN c[T] + 1 ELSE 0) /\ c2[T + 1] = c[T] + g
    /\ \A t \in 0 .. T - 1 : V2[t] = V[t] /\ b2[t] = b[t]
    /\ \A t \in 0 .. T : c2[t] = c[t]

LEMMA NodeAdded ==
    ASSUME n \in Nat, NEW V, NEW b, NEW c, NEW T \in 0 .. 2 * n - 1, Order(V, b, c, T),
           NEW v, NEW g, NextNode(V, c, T, v, g)
    PROVE  \E V2, b2, c2 : Order(V2, b2, c2, T + 1) /\ WithNode(V, b, c, T, v, g, V2, b2, c2)
<1>0. PICK q \in Nat : q = c[T] /\ T \in Nat /\ T \in 0 .. 2 * n /\ T + 1 \in 0 .. 2 * n
  BY DEF Order
<1>1. PICK p \in Nat : p = IF g = 1 THEN q + 1 ELSE 0
  BY <1>0
<1>2. v \in Nat /\ g \in {0, 1} /\ q + g \in Nat
  BY <1>0 DEF NextNode
<1>3. /\ V \in [0 .. 2 * n -> Nat] /\ b \in [0 .. 2 * n -> Nat] /\ c \in [0 .. 2 * n -> Nat]
      /\ c[0] = 0
      /\ \A t \in 0 .. T - 1 : Node(V, b, c, t) /\ b[t] <= q
      /\ \A s, t \in 0 .. T - 1 : s <= t => V[s] <= V[t]
  BY <1>0 DEF Order
<1> DEFINE V2 == [V EXCEPT ![T] = v]
           b2 == [b EXCEPT ![T] = p]
           c2 == [c EXCEPT ![T + 1] = q + g]
<1>4. /\ V2 \in [0 .. 2 * n -> Nat] /\ b2 \in [0 .. 2 * n -> Nat] /\ c2 \in [0 .. 2 * n -> Nat]
      /\ V2[T] = v /\ b2[T] = p /\ c2[T + 1] = q + g
      /\ \A t \in 0 .. T - 1 : V2[t] = V[t] /\ b2[t] = b[t]
      /\ \A t \in 0 .. T : c2[t] = c[t]
  <2>1. \A t \in 0 .. T - 1 : t # T /\ t \in 0 .. 2 * n
    BY <1>0
  <2>2. \A t \in 0 .. T : t # T + 1 /\ t \in 0 .. 2 * n
    BY <1>0
  <2>3. V2 \in [0 .. 2 * n -> Nat] /\ V2[T] = v /\ \A t \in 0 .. T - 1 : V2[t] = V[t]
    BY <2>1, <1>0, <1>2, <1>3
  <2>4. b2 \in [0 .. 2 * n -> Nat] /\ b2[T] = p /\ \A t \in 0 .. T - 1 : b2[t] = b[t]
    BY <2>1, <1>0, <1>1, <1>3
  <2>5. /\ c2 \in [0 .. 2 * n -> Nat] /\ c2[T + 1] = q + g
        /\ \A t \in 0 .. T : c2[t] = c[t]
    BY <2>2, <1>0, <1>2, <1>3
  <2> HIDE DEF V2, b2, c2
  <2> QED BY <2>3, <2>4, <2>5
<1> HIDE DEF V2, b2, c2
<1>5. WithNode(V, b, c, T, v, g, V2, b2, c2)
  BY <1>0, <1>1, <1>4 DEF WithNode
<1>6. c2[0] = 0
  BY <1>0, <1>3, <1>4
<1>7. ASSUME NEW t \in 0 .. T PROVE Node(V2, b2, c2, t) /\ b2[t] <= q + g
  <2>1. CASE t = T
    <3>1. c2[t] = q /\ c2[t + 1] = q + g /\ b2[t] = p /\ V2[t] = v
      BY <2>1, <1>0, <1>4
    <3>2. CASE g = 0
      <4>1. q <= T /\ T - q < n /\ v = freq[T - q]
        BY <3>2, <1>0 DEF NextNode
      <4> QED BY <2>1, <3>1, <3>2, <4>1, <1>1 DEF Node
    <3>3. CASE g = 1
      <4>1. 2 * q + 2 <= T /\ v = V[2 * q] + V[2 * q + 1]
        BY <3>3, <1>0 DEF NextNode
      <4>2. V2[2 * q] = V[2 * q] /\ V2[2 * q + 1] = V[2 * q + 1]
        <5>1. 2 * q \in 0 .. T - 1 /\ 2 * q + 1 \in 0 .. T - 1
          BY <4>1, <1>0
        <5> QED BY <5>1, <1>4
      <4> QED BY <2>1, <3>1, <3>3, <4>1, <4>2, <1>1 DEF Node
    <3> QED BY <3>2, <3>3, <1>2
  <2>2. CASE t # T
    <3>1. t \in 0 .. T - 1 /\ t \in 0 .. T /\ t + 1 \in 0 .. T
      BY <2>2, <1>0
    <3>2. c2[t] = c[t] /\ c2[t + 1] = c[t + 1] /\ b2[t] = b[t] /\ V2[t] = V[t]
      BY <3>1, <1>4
    <3>3. Node(V, b, c, t) /\ b[t] <= q
      BY <3>1, <1>3
    <3>4. PICK r \in Nat : r = c[t]
      <4>1. t \in 0 .. 2 * n
        BY <1>0
      <4> QED BY <4>1, <1>3
    <3>5. 2 * r + 2 <= t => V2[2 * r] = V[2 * r] /\ V2[2 * r + 1] = V[2 * r + 1]
      <4> SUFFICES ASSUME 2 * r + 2 <= t PROVE V2[2 * r] = V[2 * r] /\ V2[2 * r + 1] = V[2 * r + 1]
        OBVIOUS
      <4>1. 2 * r \in 0 .. T - 1 /\ 2 * r + 1 \in 0 .. T - 1
        BY <3>1
      <4> QED BY <4>1, <1>4
    <3>6. Node(V2, b2, c2, t)
      BY <3>2, <3>3, <3>4, <3>5 DEF Node
    <3>7. b[t] \in Nat
      BY <1>3
    <3> QED BY <3>2, <3>3, <3>6, <3>7, <1>2
  <2> QED BY <2>1, <2>2
<1>8. ASSUME NEW s \in 0 .. T, NEW t \in 0 .. T, s <= t PROVE V2[s] <= V2[t]
  <2>1. CASE t = T /\ s # T
    <3>1. s \in 0 .. T - 1
      BY <2>1, <1>0
    <3> QED BY <2>1, <3>1, <1>4 DEF NextNode
  <2>2. CASE s = T
    <3>1. t = T
      BY <2>2, <1>0, <1>8
    <3> QED BY <2>2, <3>1, <1>2, <1>4
  <2>3. CASE s # T /\ t # T
    <3>1. s \in 0 .. T - 1 /\ t \in 0 .. T - 1
      BY <2>3, <1>0
    <3> QED BY <3>1, <1>3, <1>4, <1>8
  <2> QED BY <2>1, <2>2, <2>3
<1>9. Order(V2, b2, c2, T + 1)
  <2>1. (T + 1) - 1 = T
    BY <1>0
  <2> QED BY <2>1, <1>4, <1>6, <1>7, <1>8 DEF Order
<1> QED BY <1>5, <1>9

\* Either step takes the node that the order continues with.
Takes(V, c, T, v, g) ==
    /\ NextNode(V, c, T, v, g)
    /\ leaf' \in Nat /\ leaf' >= leaf /\ root' = root + g /\ leaf' + root' = T + 1
    /\ \A j \in leaf' .. n - 1 : v <= freq[j]
    /\ \A k \in root' .. next - 1 : v <= A[k] /\ A'[k] = A[k]
    /\ \A k \in 0 .. root - 1 : A'[k] = A[k]
    /\ g = 1 => A'[root] = next
    /\ \/ pass = 0 /\ pass' = 1 /\ next' = next /\ sum' = v
       \/ pass = 1 /\ pass' = 0 /\ next' = next + 1 /\ A'[next] = sum + v

LEMMA RootTaken ==
    ASSUME IInv, Passed, TakeRoot, NEW V, NEW b, NEW c, Explained(V, b, c, leaf + root)
    PROVE  \E v, g : Takes(V, c, leaf + root, v, g)
<1>1. /\ hpc = "tree" /\ next < n - 1 /\ TakesRoot /\ root < next
      /\ root' = root + 1 /\ leaf' = leaf
  BY Taken DEF TakeRoot
<1>2. /\ n \in Nat /\ DOMAIN A = 0 .. n - 1
      /\ leaf \in Nat /\ root \in Nat /\ next \in Nat /\ pass \in {0, 1}
      /\ next <= leaf /\ leaf <= n /\ leaf + root = 2 * next + pass
      /\ \A j \in leaf .. n - 1 : A[j] = freq[j]
  BY <1>1 DEF IInv, ArrayOK, InPlace
<1>3. /\ freq \in [0 .. n - 1 -> Nat \ {0}]
      /\ \A j, k \in 0 .. n - 1 : j <= k => freq[j] <= freq[k]
  BY FrequenciesAddUp DEF Passed
<1> DEFINE T == leaf + root
<1>4. /\ V \in [0 .. 2 * n -> Nat] /\ c[T] = root
      /\ \A s, t \in 0 .. T - 1 : s <= t => V[s] <= V[t]
      /\ \A t \in 0 .. T - 1 : \A k \in root .. next - 1 : V[t] <= A[k]
      /\ \A k \in root .. next - 1 : A[k] = V[2 * k] + V[2 * k + 1]
  BY DEF Explained, Order
<1>5. /\ T \in Nat /\ T = 2 * next + pass /\ T <= 2 * n - 2
      /\ root \in root .. next - 1
  BY <1>1, <1>2
<1> HIDE DEF T
<1>6. \A k \in root .. next - 1 : /\ 2 * k \in 0 .. T - 1 /\ 2 * k + 1 \in 0 .. T - 1
                                  /\ 2 * k \in 0 .. 2 * n /\ 2 * k + 1 \in 0 .. 2 * n
  BY <1>2, <1>5
<1>7. PICK v \in Nat : v = A[root] /\ v = V[2 * root] + V[2 * root + 1]
  <2>1. V[2 * root] \in Nat /\ V[2 * root + 1] \in Nat
    BY <1>4, <1>5, <1>6
  <2>2. A[root] = V[2 * root] + V[2 * root + 1]
    BY <1>4, <1>5, Zenon
  <2>3. \A a, d \in Nat : a + d \in Nat
    OBVIOUS
  <2> QED BY <2>1, <2>2, <2>3
<1>8. NextNode(V, c, T, v, 1)
  <2>1. \A t \in 0 .. T - 1 : V[t] <= v
    BY <1>4, <1>5, <1>7
  <2>2. 2 * root + 2 <= T
    BY <1>1, <1>2, <1>5
  <2> QED BY <2>1, <2>2, <1>4, <1>7 DEF NextNode
<1>9. \A j \in leaf .. n - 1 : v <= freq[j]
  <2> TAKE j \in leaf .. n - 1
  <2>1. leaf < n /\ leaf \in leaf .. n - 1 /\ leaf \in 0 .. n - 1 /\ j \in 0 .. n - 1 /\ leaf <= j
    BY <1>2
  <2>2. A[root] < A[leaf]
    BY <2>1, <1>1, <1>2 DEF TakesRoot
  <2>3. freq[leaf] <= freq[j] /\ A[leaf] = freq[leaf] /\ freq[leaf] \in Nat /\ freq[j] \in Nat
    BY <2>1, <1>2, <1>3
  <2> QED BY <2>2, <2>3, <1>7
<1>10. \A k \in root + 1 .. next - 1 : v <= A[k]
  <2> TAKE k \in root + 1 .. next - 1
  <2>1. k \in root .. next - 1 /\ 2 * root <= 2 * k /\ 2 * root + 1 <= 2 * k + 1
    BY <1>2
  <2>2. V[2 * root] <= V[2 * k] /\ V[2 * root + 1] <= V[2 * k + 1]
    BY <2>1, <1>4, <1>5, <1>6
  <2>3. PICK p, q, r, s \in Nat : /\ p = V[2 * root] /\ q = V[2 * root + 1]
                                  /\ r = V[2 * k] /\ s = V[2 * k + 1]
    BY <2>1, <1>4, <1>5, <1>6
  <2>4. A[k] = r + s /\ v = p + q /\ p <= r /\ q <= s
    BY <2>1, <2>2, <2>3, <1>4, <1>7
  <2> QED BY <2>3, <2>4
<1>11. CASE pass = 0
  <2>1. A' = [A EXCEPT ![root] = next] /\ next' = next /\ pass' = 1 /\ sum' = v
    BY <1>7, <1>11 DEF TakeRoot, Combine
  <2>2. /\ A'[root] = next
        /\ \A k \in root + 1 .. next - 1 : A'[k] = A[k]
        /\ \A k \in 0 .. root - 1 : A'[k] = A[k]
    BY <2>1, <1>1, <1>2
  <2>3. Takes(V, c, T, v, 1)
    BY <2>1, <2>2, <1>1, <1>2, <1>8, <1>9, <1>10, <1>11 DEF Takes, T
  <2> QED BY <2>3 DEF T
<1>12. CASE pass = 1
  <2>1. /\ A' = [A EXCEPT ![root] = next, ![next] = sum + v]
        /\ next' = next + 1 /\ pass' = 0
    BY <1>7, <1>12 DEF TakeRoot, Combine
  <2>2. /\ A'[root] = next /\ A'[next] = sum + v
        /\ \A k \in root + 1 .. next - 1 : A'[k] = A[k]
        /\ \A k \in 0 .. root - 1 : A'[k] = A[k]
    BY <2>1, <1>1, <1>2
  <2>3. Takes(V, c, T, v, 1)
    BY <2>1, <2>2, <1>1, <1>2, <1>8, <1>9, <1>10, <1>12 DEF Takes, T
  <2> QED BY <2>3 DEF T
<1> QED BY <1>2, <1>11, <1>12

LEMMA LeafTaken ==
    ASSUME IInv, Passed, TakeLeaf, NEW V, NEW b, NEW c, Explained(V, b, c, leaf + root)
    PROVE  \E v, g : Takes(V, c, leaf + root, v, g)
<1>1. /\ hpc = "tree" /\ next < n - 1 /\ ~ TakesRoot /\ leaf < n
      /\ root' = root /\ leaf' = leaf + 1
  BY Taken DEF TakeLeaf
<1>2. /\ n \in Nat /\ DOMAIN A = 0 .. n - 1
      /\ leaf \in Nat /\ root \in Nat /\ next \in Nat /\ pass \in {0, 1}
      /\ root <= next /\ next <= leaf /\ leaf + root = 2 * next + pass
      /\ \A j \in leaf .. n - 1 : A[j] = freq[j]
  BY <1>1 DEF IInv, ArrayOK, InPlace
<1>3. /\ freq \in [0 .. n - 1 -> Nat \ {0}]
      /\ \A j, k \in 0 .. n - 1 : j <= k => freq[j] <= freq[k]
  BY FrequenciesAddUp DEF Passed
<1> DEFINE T == leaf + root
<1>4. /\ V \in [0 .. 2 * n -> Nat] /\ c[T] = root
      /\ \A s, t \in 0 .. T - 1 : s <= t => V[s] <= V[t]
      /\ \A t \in 0 .. T - 1 : \A j \in leaf .. n - 1 : V[t] <= freq[j]
      /\ \A k \in root .. next - 1 : A[k] = V[2 * k] + V[2 * k + 1]
  BY DEF Explained, Order
<1>5. /\ T \in Nat /\ T = 2 * next + pass /\ T <= 2 * n - 2
      /\ leaf \in leaf .. n - 1 /\ leaf \in 0 .. n - 1 /\ T - root = leaf /\ root <= T
  BY <1>1, <1>2
<1> HIDE DEF T
<1>6. \A k \in root .. next - 1 : /\ 2 * k \in 0 .. T - 1 /\ 2 * k + 1 \in 0 .. T - 1
                                  /\ 2 * k \in 0 .. 2 * n /\ 2 * k + 1 \in 0 .. 2 * n
  <2> TAKE k \in root .. next - 1
  <2>1. k \in Nat /\ k + 1 <= next
    BY <1>2
  <2>2. 2 * k + 2 <= T /\ T \in Nat /\ T <= 2 * n /\ n \in Nat
    BY <2>1, <1>2, <1>5
  <2> QED BY <2>1, <2>2
<1>7. PICK v \in Nat : v = A[leaf] /\ v = freq[leaf]
  BY <1>2, <1>3, <1>5
<1>8. NextNode(V, c, T, v, 0)
  <2>1. \A t \in 0 .. T - 1 : V[t] <= v
    BY <1>4, <1>5, <1>7
  <2> QED BY <2>1, <1>1, <1>4, <1>5, <1>7 DEF NextNode
<1>9. \A j \in leaf + 1 .. n - 1 : v <= freq[j]
  <2> TAKE j \in leaf + 1 .. n - 1
  <2>1. j \in 0 .. n - 1 /\ leaf <= j
    BY <1>2
  <2> QED BY <2>1, <1>3, <1>5, <1>7
<1>10. \A k \in root .. next - 1 : v <= A[k]
  <2> TAKE k \in root .. next - 1
  <2>0. root < next /\ root \in root .. next - 1
    BY <1>2
  <2>1. k \in root .. next - 1 /\ 2 * root <= 2 * k /\ 2 * root + 1 <= 2 * k + 1
    BY <1>2
  <2>2. V[2 * root] <= V[2 * k] /\ V[2 * root + 1] <= V[2 * k + 1]
    BY <2>0, <2>1, <1>4, <1>6
  <2>3. PICK p, q, r, s \in Nat : /\ p = V[2 * root] /\ q = V[2 * root + 1]
                                  /\ r = V[2 * k] /\ s = V[2 * k + 1]
    BY <2>0, <2>1, <1>4, <1>6
  <2>4. A[k] = r + s /\ A[root] = p + q /\ p <= r /\ q <= s
    BY <2>0, <2>1, <2>2, <2>3, <1>4
  <2>5. ~ (A[root] < A[leaf])
    BY <2>0, <1>1 DEF TakesRoot
  <2>6. ~ (p + q < v)
    BY <2>4, <2>5, <1>7
  <2> QED BY <2>3, <2>4, <2>6
<1>11. PICK B : B = IF leaf > next THEN [A EXCEPT ![leaf] = 0] ELSE A
  OBVIOUS
<1>12. /\ DOMAIN B = 0 .. n - 1
       /\ \A k \in 0 .. next - 1 : B[k] = A[k]
  BY <1>2, <1>11
<1>13. CASE pass = 0
  <2>1. A' = B /\ next' = next /\ pass' = 1 /\ sum' = v
    BY <1>7, <1>11, <1>13 DEF TakeLeaf, Combine
  <2>2. /\ \A k \in root .. next - 1 : A'[k] = A[k]
        /\ \A k \in 0 .. root - 1 : A'[k] = A[k]
    BY <2>1, <1>2, <1>12
  <2>3. Takes(V, c, T, v, 0)
    BY <2>1, <2>2, <1>1, <1>2, <1>8, <1>9, <1>10, <1>13 DEF Takes, T
  <2> QED BY <2>3 DEF T
<1>14. CASE pass = 1
  <2>1. A' = [B EXCEPT ![next] = sum + v] /\ next' = next + 1 /\ pass' = 0
    BY <1>7, <1>11, <1>14 DEF TakeLeaf, Combine
  <2>2. /\ A'[next] = sum + v
        /\ \A k \in root .. next - 1 : A'[k] = A[k]
        /\ \A k \in 0 .. root - 1 : A'[k] = A[k]
    BY <2>1, <1>1, <1>2, <1>12
  <2>3. Takes(V, c, T, v, 0)
    BY <2>1, <2>2, <1>1, <1>2, <1>8, <1>9, <1>10, <1>14 DEF Takes, T
  <2> QED BY <2>3 DEF T
<1> QED BY <1>2, <1>13, <1>14

LEMMA OrderKept ==
    ASSUME NEW V, NEW b, NEW c, NEW T, Order(V, b, c, T), n' = n, freq' = freq
    PROVE  Order(V, b, c, T)'
<1>1. \A t \in 0 .. T - 1 : Node(V, b, c, t)'
  BY DEF Order, Node
<1> QED BY <1>1 DEF Order

LEMMA TakeHistory ==
    ASSUME IInv, Passed, History, TakeRoot \/ TakeLeaf
    PROVE  History'
<1>1. hpc = "tree" /\ next < n - 1 /\ n' = n /\ freq' = freq
  BY DEF TakeRoot, TakeLeaf, n
<1>2. /\ n \in Nat
      /\ leaf \in Nat /\ root \in Nat /\ next \in Nat /\ pass \in {0, 1}
      /\ root <= next /\ leaf + root = 2 * next + pass
  BY <1>1 DEF IInv, ArrayOK, InPlace
<1>3. PICK V, b, c : Explained(V, b, c, leaf + root)
  BY <1>1 DEF History
<1>4. \E v, g : Takes(V, c, leaf + root, v, g)
  BY <1>3, RootTaken, LeafTaken
<1>5. PICK T \in Nat : T = leaf + root /\ T = 2 * next + pass /\ T \in 0 .. 2 * n - 1
  BY <1>1, <1>2
<1>6. PICK v, g : Takes(V, c, T, v, g)
  BY <1>4, <1>5
<1>7. /\ NextNode(V, c, T, v, g) /\ v \in Nat /\ g \in {0, 1}
      /\ leaf' \in Nat /\ leaf' >= leaf /\ root' = root + g /\ leaf' + root' = T + 1
      /\ \A j \in leaf' .. n - 1 : v <= freq[j]
      /\ \A k \in root' .. next - 1 : v <= A[k] /\ A'[k] = A[k]
      /\ \A k \in 0 .. root - 1 : A'[k] = A[k]
      /\ g = 1 => A'[root] = next
  BY <1>6 DEF Takes, NextNode
<1>8. \/ pass = 0 /\ pass' = 1 /\ next' = next /\ sum' = v
      \/ pass = 1 /\ pass' = 0 /\ next' = next + 1 /\ A'[next] = sum + v
  BY <1>6 DEF Takes
<1>9. /\ Order(V, b, c, T) /\ c[T] = root
      /\ \A k \in 0 .. root - 1 : Placed(b, T, k, A[k])
      /\ \A t \in 0 .. T - 1 : /\ \A j \in leaf .. n - 1 : V[t] <= freq[j]
                               /\ \A k \in root .. next - 1 : V[t] <= A[k]
      /\ \A k \in root .. next - 1 : A[k] = V[2 * k] + V[2 * k + 1]
      /\ pass = 1 => sum = V[T - 1]
  BY <1>3, <1>5 DEF Explained
<1>10. PICK V2, b2, c2 : Order(V2, b2, c2, T + 1) /\ WithNode(V, b, c, T, v, g, V2, b2, c2)
  BY <1>2, <1>5, <1>7, <1>9, NodeAdded
<1>11. /\ V2[T] = v /\ b2[T] = (IF g = 1 THEN root + 1 ELSE 0) /\ c2[T + 1] = root + g
       /\ \A t \in 0 .. T - 1 : V2[t] = V[t] /\ b2[t] = b[t]
  BY <1>9, <1>10 DEF WithNode
<1>12. \A t \in 0 .. T - 1 : V[t] \in Nat /\ b[t] <= root /\ b[t] \in Nat /\ V[t] <= v
  <2>1. \A t \in 0 .. T - 1 : t \in 0 .. 2 * n
    BY <1>2, <1>5
  <2>2. V \in [0 .. 2 * n -> Nat] /\ b \in [0 .. 2 * n -> Nat] /\ \A t \in 0 .. T - 1 : b[t] <= c[T]
    BY <1>9 DEF Order
  <2> QED BY <2>1, <2>2, <1>7, <1>9 DEF NextNode
<1>13. Order(V2, b2, c2, T + 1)'
  BY <1>1, <1>10, OrderKept
<1>14. ASSUME NEW k \in 0 .. root' - 1 PROVE Placed(b2, T + 1, k, A'[k])
  <2>1. CASE k \in 0 .. root - 1
    <3>1. PICK t \in 0 .. T - 1 : /\ b[t] = k + 1 /\ \A s \in 0 .. T - 1 : b[s] = k + 1 => s = t
                                  /\ 2 * A[k] <= t /\ t <= 2 * A[k] + 1
      BY <2>1, <1>9 DEF Placed
    <3>2. b2[t] = k + 1 /\ t \in 0 .. (T + 1) - 1 /\ A'[k] = A[k]
      BY <2>1, <3>1, <1>5, <1>7, <1>11
    <3>3. b2[T] # k + 1
      BY <2>1, <1>2, <1>11
    <3>4. \A s \in 0 .. (T + 1) - 1 : b2[s] = k + 1 => s = t
      <4> TAKE s \in 0 .. (T + 1) - 1
      <4>1. s = T \/ s \in 0 .. T - 1
        BY <1>5
      <4> QED BY <4>1, <3>1, <3>3, <1>11
    <3> QED BY <3>1, <3>2, <3>4 DEF Placed
  <2>2. CASE k \notin 0 .. root - 1
    <3>1. g = 1 /\ k = root
      BY <2>2, <1>2, <1>7
    <3>2. b2[T] = k + 1 /\ A'[k] = next /\ T \in 0 .. (T + 1) - 1
      BY <3>1, <1>5, <1>7, <1>11
    <3>3. \A s \in 0 .. (T + 1) - 1 : b2[s] = k + 1 => s = T
      <4> TAKE s \in 0 .. (T + 1) - 1
      <4>1. s = T \/ s \in 0 .. T - 1
        BY <1>5
      <4>2. s \in 0 .. T - 1 => b2[s] # k + 1
        BY <3>1, <1>2, <1>11, <1>12
      <4> QED BY <4>1, <4>2
    <3>4. 2 * next <= T /\ T <= 2 * next + 1
      BY <1>2, <1>5
    <3> QED BY <3>2, <3>3, <3>4 DEF Placed
  <2> QED BY <2>1, <2>2
<1>15. \A t \in 0 .. T : V2[t] \in Nat /\ V2[t] <= v
  <2> TAKE t \in 0 .. T
  <2>1. t = T \/ t \in 0 .. T - 1
    BY <1>5
  <2> QED BY <2>1, <1>7, <1>11, <1>12
<1>16. ASSUME NEW j \in leaf' .. n - 1, NEW t \in 0 .. T PROVE V2[t] <= freq[j]
  <2>1. t = T \/ t \in 0 .. T - 1
    BY <1>5
  <2>2. j \in leaf .. n - 1
    BY <1>2, <1>7
  <2> QED BY <2>1, <2>2, <1>7, <1>9, <1>11
<1>17. ASSUME NEW k \in root' .. next' - 1
       PROVE  A'[k] = V2[2 * k] + V2[2 * k + 1] /\ \A t \in 0 .. T : V2[t] <= A'[k]
  <2>1. CASE k \in root' .. next - 1
    <3>1. k \in root .. next - 1 /\ 2 * k \in 0 .. T - 1 /\ 2 * k + 1 \in 0 .. T - 1
      <4>1. k \in Nat /\ root <= k /\ k + 1 <= next
        BY <2>1, <1>2, <1>7
      <4> QED BY <4>1, <1>2, <1>5
    <3>2. A'[k] = A[k] /\ v <= A[k] /\ A[k] = V2[2 * k] + V2[2 * k + 1]
      BY <2>1, <3>1, <1>7, <1>9, <1>11
    <3>3. \A t \in 0 .. T : V2[t] <= A[k]
      <4> TAKE t \in 0 .. T
      <4>1. t = T \/ t \in 0 .. T - 1
        BY <1>5
      <4> QED BY <4>1, <3>1, <3>2, <1>9, <1>11
    <3> QED BY <3>2, <3>3
  <2>2. CASE k \notin root' .. next - 1
    <3>1. pass = 1 /\ k = next
      BY <2>2, <1>2, <1>7, <1>8
    <3>2. T - 1 = 2 * k /\ T = 2 * k + 1 /\ T - 1 \in 0 .. T - 1
      BY <3>1, <1>2, <1>5
    <3>3. A'[k] = sum + v /\ sum = V[T - 1] /\ V[T - 1] \in Nat
      BY <3>1, <3>2, <1>8, <1>9, <1>12
    <3>4. V2[2 * k] = V[T - 1] /\ V2[2 * k + 1] = v
      BY <3>2, <1>11
    <3>5. A'[k] = V2[2 * k] + V2[2 * k + 1]
      BY <3>3, <3>4
    <3>6. PICK u \in Nat : A'[k] = u + v
      BY <3>3
    <3>7. \A t \in 0 .. T : V2[t] <= A'[k]
      BY <3>6, <1>7, <1>15
    <3> QED BY <3>5, <3>7
  <2> QED BY <2>1, <2>2
<1>18. pass' = 1 => sum' = V2[(T + 1) - 1]
  <2>1. (T + 1) - 1 = T
    BY <1>5
  <2> QED BY <2>1, <1>8, <1>11
<1>19. Explained(V2, b2, c2, T + 1)'
  <2>1. (T + 1) - 1 = T
    BY <1>5
  <2> QED BY <2>1, <1>1, <1>7, <1>11, <1>13, <1>14, <1>16, <1>17, <1>18 DEF Explained, Placed
<1>20. leaf' + root' = T + 1
  BY <1>7
<1> QED BY <1>19, <1>20 DEF History, Explained

LEMMA InitHistory == ASSUME n \in Nat, Init PROVE History
<1>0. /\ hpc = "tree" /\ A = freq
      /\ leaf = 0 /\ root = 0 /\ next = 0 /\ pass = 0
  BY DEF Init, HuffmanInit
<1> DEFINE z == [t \in 0 .. 2 * n |-> 0]
<1>1. z \in [0 .. 2 * n -> Nat] /\ z[0] = 0
  OBVIOUS
<1> HIDE DEF z
<1>2. Order(z, z, z, 0)
  BY <1>1 DEF Order
<1>3. Explained(z, z, z, 0)
  BY <1>0, <1>1, <1>2 DEF Explained
<1> QED BY <1>0, <1>3 DEF History

---------------------------------------------------------------------------
(* What the order says of the tree, once it is built.                      *)

\* All nodes, P[k] the merge that takes weight k; the root's would be the
\* next one.
Tree(V, b, c, P) ==
    /\ Order(V, b, c, Nodes) /\ c[Nodes] = n - 1
    /\ \A k \in 0 .. n - 2 : Placed(b, Nodes, k, P[k])

LEMMA TreeBuiltOrder ==
    ASSUME IInv, Parents, History, TreeBuilt, n > 1
    PROVE  \E V, b, c, P : Tree(V, b, c, P) /\ P[n - 2] = n - 1 /\ \A k \in 0 .. n - 3 : P[k] = A[k]
<1>1. /\ n \in Nat /\ leaf \in Nat /\ root \in Nat /\ next \in Nat /\ pass \in {0, 1}
      /\ (pass = 1 => next < n - 1) /\ next >= n - 1
      /\ next <= leaf /\ leaf <= n /\ leaf + root = 2 * next + pass
  BY DEF TreeBuilt, IInv, ArrayOK, InPlace
<1>2. pass = 0 /\ next > 0 => root < next
  BY DEF Parents, TreeBuilt
<1>3. pass = 0 /\ next = n - 1 /\ root = n - 2 /\ leaf = n
  BY <1>1, <1>2
<1>4. PICK V, b, c : Explained(V, b, c, leaf + root)
  BY DEF History, TreeBuilt
<1>5. PICK T \in Nat : T = leaf + root /\ T = 2 * n - 2 /\ T + 1 = Nodes /\ T \in 0 .. 2 * n - 1
  BY <1>1, <1>3 DEF Nodes
<1>6. /\ Order(V, b, c, T) /\ c[T] = n - 2
      /\ \A k \in 0 .. n - 3 : Placed(b, T, k, A[k])
      /\ \A t \in 0 .. T - 1 : V[t] <= A[n - 2]
      /\ A[n - 2] = V[2 * (n - 2)] + V[2 * (n - 2) + 1]
  <2>1. n - 2 \in root .. next - 1 /\ root - 1 = n - 3
    BY <1>1, <1>3
  <2> QED BY <2>1, <1>3, <1>4, <1>5 DEF Explained
<1>7. PICK v \in Nat : v = A[n - 2]
  <2>1. 2 * (n - 2) \in 0 .. 2 * n /\ 2 * (n - 2) + 1 \in 0 .. 2 * n
    BY <1>1
  <2>2. V[2 * (n - 2)] \in Nat /\ V[2 * (n - 2) + 1] \in Nat
    BY <2>1, <1>6 DEF Order
  <2> QED BY <2>2, <1>6
<1>8. NextNode(V, c, T, v, 1)
  <2>1. 2 * (n - 2) + 2 <= T
    BY <1>1, <1>5
  <2> QED BY <2>1, <1>6, <1>7 DEF NextNode
<1>9. PICK V2, b2, c2 : Order(V2, b2, c2, T + 1) /\ WithNode(V, b, c, T, v, 1, V2, b2, c2)
  BY <1>1, <1>5, <1>6, <1>8, NodeAdded
<1>10. /\ b2[T] = n - 1 /\ c2[T + 1] = n - 1 /\ \A t \in 0 .. T - 1 : b2[t] = b[t]
  BY <1>1, <1>6, <1>9 DEF WithNode
<1>11. \A t \in 0 .. T - 1 : b[t] \in Nat /\ b[t] <= n - 2
  <2>1. \A t \in 0 .. T - 1 : t \in 0 .. 2 * n
    BY <1>1, <1>5
  <2> QED BY <2>1, <1>6 DEF Order
<1> DEFINE P == [k \in 0 .. n - 2 |-> IF k = n - 2 THEN n - 1 ELSE A[k]]
<1>12. P[n - 2] = n - 1 /\ \A k \in 0 .. n - 3 : P[k] = A[k]
  BY <1>1
<1> HIDE DEF P
<1>13. ASSUME NEW k \in 0 .. n - 2 PROVE Placed(b2, T + 1, k, P[k])
  <2>1. CASE k = n - 2
    <3>1. k + 1 = n - 1 /\ T \in 0 .. (T + 1) - 1 /\ 2 * (n - 1) <= T /\ T <= 2 * (n - 1) + 1
      BY <2>1, <1>1, <1>5
    <3>2. \A s \in 0 .. (T + 1) - 1 : b2[s] = n - 1 => s = T
      <4> TAKE s \in 0 .. (T + 1) - 1
      <4>1. s = T \/ s \in 0 .. T - 1
        BY <1>5
      <4>2. s \in 0 .. T - 1 => b2[s] # n - 1
        BY <1>1, <1>10, <1>11
      <4> QED BY <4>1, <4>2
    <3> QED BY <2>1, <3>1, <3>2, <1>10, <1>12 DEF Placed
  <2>2. CASE k # n - 2
    <3>0. k \in 0 .. n - 3 /\ k + 1 # n - 1
      BY <2>2, <1>1
    <3>1. PICK t \in 0 .. T - 1 : /\ b[t] = k + 1 /\ \A s \in 0 .. T - 1 : b[s] = k + 1 => s = t
                                  /\ 2 * A[k] <= t /\ t <= 2 * A[k] + 1
      BY <3>0, <1>6 DEF Placed
    <3>2. b2[t] = k + 1 /\ t \in 0 .. (T + 1) - 1 /\ P[k] = A[k]
      BY <3>0, <3>1, <1>5, <1>10, <1>12
    <3>3. \A s \in 0 .. (T + 1) - 1 : b2[s] = k + 1 => s = t
      <4> TAKE s \in 0 .. (T + 1) - 1
      <4>1. s = T \/ s \in 0 .. T - 1
        BY <1>5
      <4> QED BY <4>1, <3>0, <3>1, <1>10
    <3> QED BY <3>1, <3>2, <3>3 DEF Placed
  <2> QED BY <2>1, <2>2
<1>14. Tree(V2, b2, c2, P)
  BY <1>5, <1>9, <1>10, <1>13 DEF Tree
<1> QED BY <1>12, <1>14

\* The weights and the leaves among the first nodes.
LEMMA TreeCounts ==
    ASSUME n \in Nat, n > 1, NEW V, NEW b, NEW c, NEW P, Tree(V, b, c, P)
    PROVE  /\ \A t \in 0 .. Nodes : c[t] \in 0 .. n - 1 /\ 2 * c[t] <= t
           /\ \A s, t \in 0 .. Nodes : s <= t => c[s] <= c[t] /\ s - c[s] <= t - c[t]
           /\ \A t \in 0 .. Nodes : t - c[t] \in 0 .. n
<1>1. PICK N \in Nat : N = Nodes /\ N = 2 * n - 1
  BY DEF Nodes
<1>2. /\ c \in [0 .. 2 * n -> Nat] /\ c[0] = 0 /\ c[N] = n - 1
      /\ \A t \in 0 .. N - 1 : Node(V, b, c, t)
  BY <1>1 DEF Tree, Order
<1>3. \A t \in 0 .. N : c[t] \in Nat
  <2>1. \A t \in 0 .. N : t \in 0 .. 2 * n
    BY <1>1
  <2> QED BY <2>1, <1>2
<1>4. \A t \in 0 .. N - 1 : c[t + 1] = c[t] \/ (c[t + 1] = c[t] + 1 /\ 2 * c[t] + 2 <= t)
  BY <1>2 DEF Node
<1> DEFINE S == {k \in 0 .. N : /\ 2 * c[k] <= k
                                /\ \A s \in 0 .. k : c[s] <= c[k] /\ s - c[s] <= k - c[k]}
<1>5. 0 \in S
  BY <1>2
<1>6. ASSUME NEW k \in 0 .. N - 1, k \in S PROVE k + 1 \in S
  <2>1. k \in 0 .. N /\ k + 1 \in 0 .. N
    BY <1>6
  <2>2. PICK p, q \in Nat : p = c[k] /\ q = c[k + 1]
    BY <2>1, <1>3
  <2>3. 2 * p <= k /\ (q = p \/ (q = p + 1 /\ 2 * p + 2 <= k))
    BY <2>2, <1>4, <1>6
  <2>4. ASSUME NEW s \in 0 .. k + 1 PROVE c[s] <= q /\ s - c[s] <= (k + 1) - q
    <3>1. CASE s = k + 1
      BY <3>1, <2>2
    <3>2. CASE s # k + 1
      <4>1. s \in 0 .. k /\ s \in 0 .. N
        BY <3>2
      <4>2. PICK r \in Nat : r = c[s]
        BY <4>1, <1>3
      <4>3. r <= p /\ s - r <= k - p
        BY <4>1, <4>2, <2>2, <1>6
      <4> QED BY <4>2, <4>3, <2>3
    <3> QED BY <3>1, <3>2
  <2>5. 2 * q <= k + 1
    BY <2>3
  <2> QED BY <2>1, <2>2, <2>4, <2>5
<1> HIDE DEF S
<1>7. \A k \in 0 .. N : k \in S
  BY <1>5, <1>6, UpTo
<1>8. \A t \in 0 .. N : 2 * c[t] <= t /\ \A s \in 0 .. t : c[s] <= c[t] /\ s - c[s] <= t - c[t]
  BY <1>7 DEF S
<1>9. \A t \in 0 .. N : c[t] <= n - 1 /\ t - c[t] <= N - (n - 1)
  <2> TAKE t \in 0 .. N
  <2>1. t \in 0 .. N /\ N \in 0 .. N
    OBVIOUS
  <2> QED BY <2>1, <1>2, <1>8
<1>10. ASSUME NEW t \in 0 .. N PROVE c[t] \in 0 .. n - 1 /\ t - c[t] \in 0 .. n
  <2>1. PICK r \in Nat : r = c[t]
    BY <1>3
  <2>2. 2 * r <= t /\ r <= n - 1 /\ t - r <= N - (n - 1)
    BY <2>1, <1>8, <1>9
  <2> QED BY <2>1, <2>2, <1>1
<1>11. ASSUME NEW s \in 0 .. N, NEW t \in 0 .. N, s <= t
       PROVE  c[s] <= c[t] /\ s - c[s] <= t - c[t]
  <2>1. s \in 0 .. t
    BY <1>11
  <2> QED BY <2>1, <1>8
<1> QED BY <1>1, <1>8, <1>10, <1>11

\* f has the elements of h for the leaves and those of w for the others.
SplitInto(b, c, f, h, w) ==
    /\ h \in [0 .. n - 1 -> Int] /\ w \in [0 .. n - 2 -> Int] /\ f \in [0 .. Nodes - 1 -> Int]
    /\ \A t \in 0 .. Nodes - 1 : f[t] = IF b[t] = 0 THEN h[t - c[t]] ELSE w[c[t]]

LEMMA NodeSums ==
    ASSUME n \in Nat, n > 1, NEW V, NEW b, NEW c, NEW P, Tree(V, b, c, P),
           NEW f, NEW h, NEW w, SplitInto(b, c, f, h, w)
    PROVE  \A t \in 0 .. Nodes : Total(f, t) = Total(h, t - c[t]) + Total(w, c[t])
<1>0. h \in [0 .. n - 1 -> Int] /\ w \in [0 .. n - 2 -> Int] /\ f \in [0 .. Nodes - 1 -> Int]
  BY DEF SplitInto
<1>1. PICK N \in Nat : N = Nodes /\ N = 2 * n - 1
  BY DEF Nodes
<1>2. /\ c[0] = 0 /\ c[N] = n - 1 /\ \A t \in 0 .. N - 1 : Node(V, b, c, t)
  BY <1>1 DEF Tree, Order
<1>3. \A t \in 0 .. N : c[t] \in 0 .. n - 1 /\ t - c[t] \in 0 .. n
  BY <1>1, TreeCounts
<1>4. /\ Total(f, 0) = 0 /\ Total(h, 0) = 0 /\ Total(w, 0) = 0
      /\ \A k \in 0 .. N - 1 : Total(f, k + 1) = Total(f, k) + f[k]
      /\ \A k \in 0 .. n - 1 : Total(h, k + 1) = Total(h, k) + h[k]
      /\ \A k \in 0 .. n - 2 : Total(w, k + 1) = Total(w, k) + w[k]
      /\ \A k \in 0 .. n : Total(h, k) \in Int
      /\ \A k \in 0 .. n - 1 : Total(w, k) \in Int
  <2>1. n - 1 \in Nat /\ (n - 1) - 1 = n - 2 /\ w \in [0 .. (n - 1) - 1 -> Int]
    BY <1>0
  <2>2. /\ Total(w, 0) = 0
        /\ \A k \in 0 .. (n - 1) - 1 : Total(w, k + 1) = Total(w, k) + w[k]
        /\ \A k \in 0 .. n - 1 : Total(w, k) \in Int
    BY <2>1, TotalFacts
  <2>3. /\ Total(h, 0) = 0
        /\ \A k \in 0 .. n - 1 : Total(h, k + 1) = Total(h, k) + h[k]
        /\ \A k \in 0 .. n : Total(h, k) \in Int
    BY <1>0, TotalFacts
  <2>4. f \in [0 .. N - 1 -> Int]
    BY <1>0, <1>1
  <2>5. /\ Total(f, 0) = 0
        /\ \A k \in 0 .. N - 1 : Total(f, k + 1) = Total(f, k) + f[k]
    BY <2>4, TotalFacts
  <2> QED BY <2>1, <2>2, <2>3, <2>5
<1> DEFINE S == {k \in 0 .. N : Total(f, k) = Total(h, k - c[k]) + Total(w, c[k])}
<1>5. 0 \in S
  <2>1. 0 - 0 = 0 /\ 0 + 0 = 0 /\ 0 \in 0 .. N
    OBVIOUS
  <2>2. Total(f, 0) = Total(h, 0 - c[0]) + Total(w, c[0])
    BY <2>1, <1>2, <1>4
  <2> QED BY <2>1, <2>2
<1>6. ASSUME NEW t \in 0 .. N - 1, t \in S PROVE t + 1 \in S
  <2>1. t \in 0 .. N /\ t + 1 \in 0 .. N
    OBVIOUS
  <2>2. PICK p, q \in 0 .. n - 1 : p = c[t] /\ q = c[t + 1]
    BY <2>1, <1>3
  <2>3. t - p \in 0 .. n /\ (t + 1) - q \in 0 .. n
    BY <2>1, <2>2, <1>3
  <2>4. PICK x, y \in Int : x = Total(h, t - p) /\ y = Total(w, p)
    BY <2>3, <1>4
  <2>5. Total(f, t) = x + y
    BY <2>2, <2>4, <1>6
  <2>6. Total(f, t + 1) = x + y + f[t]
    BY <2>5, <1>4
  <2>7. Node(V, b, c, t) /\ f[t] = IF b[t] = 0 THEN h[t - p] ELSE w[p]
    BY <2>2, <1>1, <1>2 DEF SplitInto
  <2>n. (b[t] = 0 /\ q = p) \/ (b[t] = p + 1 /\ q = p + 1)
    <3>1. (b[t] = 0 /\ c[t + 1] = c[t]) \/ (b[t] = c[t] + 1 /\ c[t + 1] = c[t] + 1)
      BY <2>7, Zenon DEF Node
    <3> QED BY <3>1, <2>2, Zenon
  <2>8. CASE b[t] = 0
    <3>1. q = p /\ (t + 1) - p = (t - p) + 1
      <4>1. b[t] # p + 1
        BY <2>8
      <4> QED BY <4>1, <2>n
    <3>2. t - p \in 0 .. n - 1
      BY <3>1, <2>3
    <3>3. Total(h, (t - p) + 1) = x + h[t - p]
      BY <3>2, <2>4, <1>4
    <3>4. h[t - p] \in Int
      BY <3>2, <1>0
    <3>5. Total(f, t + 1) = Total(h, (t + 1) - q) + Total(w, q)
      <4>1. Total(h, (t + 1) - q) = x + h[t - p] /\ Total(w, q) = y /\ f[t] = h[t - p]
        BY <3>1, <3>3, <2>4, <2>7, <2>8
      <4>2. PICK z \in Int : z = h[t - p]
        BY <3>4
      <4>3. Total(f, t + 1) = x + y + z /\ Total(h, (t + 1) - q) = x + z
        BY <4>1, <4>2, <2>6
      <4>4. x + y + z = (x + z) + y
        OBVIOUS
      <4> QED BY <4>1, <4>3, <4>4
    <3> QED BY <3>5, <2>1, <2>2
  <2>9. CASE b[t] # 0
    <3>1. q = p + 1 /\ (t + 1) - q = t - p /\ p \in 0 .. n - 2
      <4>1. q = p + 1
        BY <2>n, <2>9
      <4> QED BY <4>1
    <3>2. Total(w, p + 1) = y + w[p] /\ w[p] \in Int
      BY <3>1, <2>4, <1>0, <1>4
    <3>3. Total(f, t + 1) = Total(h, (t + 1) - q) + Total(w, q)
      <4>1. Total(h, (t + 1) - q) = x /\ Total(w, q) = y + w[p] /\ f[t] = w[p]
        BY <3>1, <3>2, <2>4, <2>7, <2>9
      <4>2. PICK z \in Int : z = w[p]
        BY <3>2
      <4>3. Total(f, t + 1) = x + y + z /\ Total(w, q) = y + z
        BY <4>1, <4>2, <2>6
      <4>4. x + y + z = x + (y + z)
        OBVIOUS
      <4> QED BY <4>1, <4>3, <4>4
    <3> QED BY <3>3, <2>1, <2>2
  <2> QED BY <2>8, <2>9
<1> HIDE DEF S
<1>7. \A k \in 0 .. N : k \in S
  BY <1>5, <1>6, UpTo
<1> QED BY <1>1, <1>7 DEF S

\* The weights that the merges make.
Made(V) == [k \in 0 .. n - 2 |-> V[2 * k] + V[2 * k + 1]]
NodesOf(V) == [t \in 0 .. Nodes - 1 |-> V[t]]

LEMMA PairSums ==
    ASSUME n \in Nat, n > 1, NEW V \in [0 .. 2 * n -> Nat]
    PROVE  /\ NodesOf(V) \in [0 .. Nodes - 1 -> Nat] /\ Made(V) \in [0 .. n - 2 -> Nat]
           /\ \A y \in 0 .. n - 1 : /\ Total(NodesOf(V), 2 * y) = Total(Made(V), y)
                                    /\ Total(Made(V), y) \in Nat
           /\ \A y \in 0 .. n - 2 :
                 Total(Made(V), y + 1) = Total(Made(V), y) + V[2 * y] + V[2 * y + 1]
<1>1. PICK M, N \in Nat : M = n - 1 /\ N = Nodes /\ N = 2 * M + 1 /\ M - 1 = n - 2 /\ N - 1 < 2 * n
  BY DEF Nodes
<1>2. PICK f, w : f = NodesOf(V) /\ w = Made(V)
  OBVIOUS
<1>3. \A t \in 0 .. 2 * n : V[t] \in Nat
  OBVIOUS
<1>4. f \in [0 .. N - 1 -> Nat] /\ \A t \in 0 .. N - 1 : f[t] = V[t]
  <2>1. \A t \in 0 .. N - 1 : t \in 0 .. 2 * n
    BY <1>1
  <2> QED BY <2>1, <1>1, <1>2, <1>3 DEF NodesOf
<1>5. w \in [0 .. M - 1 -> Nat] /\ \A k \in 0 .. M - 1 : w[k] = V[2 * k] + V[2 * k + 1]
  <2>1. \A k \in 0 .. M - 1 : 2 * k \in 0 .. 2 * n /\ 2 * k + 1 \in 0 .. 2 * n
    BY <1>1
  <2>2. \A k \in 0 .. M - 1 : V[2 * k] + V[2 * k + 1] \in Nat
    BY <2>1, <1>3
  <2> QED BY <2>2, <1>1, <1>2 DEF Made
<1>6. f \in [0 .. N - 1 -> Int] /\ w \in [0 .. M - 1 -> Int]
  BY <1>4, <1>5, NatIsInt
<1>7. /\ Total(f, 0) = 0 /\ \A k \in 0 .. N - 1 : Total(f, k + 1) = Total(f, k) + f[k]
      /\ \A k \in 0 .. N : Total(f, k) \in Int
  BY <1>6, TotalFacts
<1>8. /\ Total(w, 0) = 0 /\ \A k \in 0 .. M - 1 : Total(w, k + 1) = Total(w, k) + w[k]
      /\ \A k \in 0 .. M : Total(w, k) \in Int
  BY <1>6, TotalFacts
<1> DEFINE S == {y \in 0 .. M : Total(f, 2 * y) = Total(w, y) /\ Total(w, y) \in Nat}
<1>9. 0 \in S
  BY <1>7, <1>8
<1>10. ASSUME NEW y \in 0 .. M - 1 PROVE Total(w, y + 1) = Total(w, y) + V[2 * y] + V[2 * y + 1]
  <2>1. PICK u, v \in Nat : u = V[2 * y] /\ v = V[2 * y + 1]
    <3>1. 2 * y \in 0 .. 2 * n /\ 2 * y + 1 \in 0 .. 2 * n
      BY <1>1
    <3> QED BY <3>1, <1>3
  <2>2. Total(w, y + 1) = Total(w, y) + (u + v)
    BY <2>1, <1>5, <1>8
  <2>3. y \in 0 .. M
    OBVIOUS
  <2>4. PICK x \in Int : x = Total(w, y)
    BY <2>3, <1>8
  <2>5. x + (u + v) = x + u + v
    OBVIOUS
  <2> QED BY <2>1, <2>2, <2>4, <2>5
<1>11. ASSUME NEW y \in 0 .. M - 1, y \in S PROVE y + 1 \in S
  <2>0. 2 * y \in 0 .. N - 1 /\ 2 * y + 1 \in 0 .. N - 1 /\ 2 * (y + 1) = (2 * y + 1) + 1
    BY <1>1
  <2>1. PICK u, v \in Nat : u = V[2 * y] /\ v = V[2 * y + 1] /\ u = f[2 * y] /\ v = f[2 * y + 1]
    BY <2>0, <1>4
  <2>2. Total(f, (2 * y + 1) + 1) = Total(f, 2 * y) + u + v
    BY <2>0, <2>1, <1>7
  <2>3. PICK x \in Nat : x = Total(w, y) /\ x = Total(f, 2 * y)
    BY <1>11
  <2>4. Total(w, y + 1) = x + u + v
    BY <2>1, <2>3, <1>10
  <2>5. Total(f, 2 * (y + 1)) = x + u + v
    BY <2>0, <2>2, <2>3
  <2> QED BY <2>4, <2>5
<1> HIDE DEF S
<1>12. \A y \in 0 .. M : y \in S
  BY <1>9, <1>11, UpTo
<1>13. \A y \in 0 .. M : Total(f, 2 * y) = Total(w, y) /\ Total(w, y) \in Nat
  BY <1>12 DEF S
<1> QED BY <1>1, <1>2, <1>4, <1>5, <1>10, <1>13

LEMMA NodeOrLeaf ==
    ASSUME n \in Nat, n > 1, NEW V, NEW b, NEW c, NEW P, Tree(V, b, c, P), NEW t \in 0 .. Nodes - 1
    PROVE  \/ b[t] = 0 /\ t - c[t] \in 0 .. n - 1 /\ V[t] = freq[t - c[t]]
           \/ /\ b[t] # 0 /\ b[t] = c[t] + 1 /\ c[t] \in 0 .. n - 2 /\ 2 * c[t] + 2 <= t
              /\ V[t] = V[2 * c[t]] + V[2 * c[t] + 1] /\ c[t + 1] = c[t] + 1
<1>1. Node(V, b, c, t) /\ t \in 0 .. Nodes /\ t + 1 \in 0 .. Nodes
  BY DEF Tree, Order, Nodes
<1>2. PICK p, q \in 0 .. n - 1 : p = c[t] /\ q = c[t + 1] /\ t - p \in 0 .. n
  BY <1>1, TreeCounts
<1>3. \/ b[t] = 0 /\ t - p < n /\ V[t] = freq[t - p]
      \/ b[t] = p + 1 /\ q = p + 1 /\ 2 * p + 2 <= t /\ V[t] = V[2 * p] + V[2 * p + 1]
  BY <1>1, <1>2 DEF Node
<1>4. p + 1 # 0 /\ (q = p + 1 => p \in 0 .. n - 2) /\ (t - p < n => t - p \in 0 .. n - 1)
  BY <1>2
<1> QED BY <1>2, <1>3, <1>4

LEMMA TreeMerged ==
    ASSUME n \in Nat, n > 1, NEW V, NEW b, NEW c, NEW P, Tree(V, b, c, P)
    PROVE  Merged(NodesOf(V), NodesOf(b))
<1>1. PICK N \in Nat : N = Nodes /\ N = 2 * n - 1 /\ N - 1 < 2 * n
  BY DEF Nodes
<1>2. /\ V \in [0 .. 2 * n -> Nat] /\ b \in [0 .. 2 * n -> Nat] /\ c[N] = n - 1
      /\ \A t \in 0 .. N - 1 : b[t] <= c[N]
      /\ \A s, t \in 0 .. N - 1 : s <= t => V[s] <= V[t]
  BY <1>1 DEF Tree, Order
<1>3. \A t \in 0 .. N - 1 : t \in 0 .. 2 * n
  BY <1>1
<1>4. NodesOf(V) \in [0 .. N - 1 -> Nat] /\ NodesOf(b) \in [0 .. N - 1 -> 0 .. n - 1]
  <2>1. \A t \in 0 .. N - 1 : V[t] \in Nat /\ b[t] \in Nat /\ b[t] <= n - 1
    BY <1>2, <1>3
  <2>2. \A t \in 0 .. N - 1 : b[t] \in 0 .. n - 1
    BY <2>1
  <2> QED BY <2>1, <2>2, <1>1 DEF NodesOf
<1>5. \A t \in 0 .. N - 1 : NodesOf(V)[t] = V[t] /\ NodesOf(b)[t] = b[t]
  BY <1>1 DEF NodesOf
<1>6. ASSUME NEW x \in 0 .. n - 2
      PROVE  \E t \in 2 * x + 2 .. N - 1 :
                /\ NodesOf(V)[t] = NodesOf(V)[2 * x] + NodesOf(V)[2 * x + 1]
                /\ \A s \in 0 .. N - 1 : NodesOf(b)[s] = x + 1 <=> s = t
  <2>1. PICK t \in 0 .. N - 1 : b[t] = x + 1 /\ \A s \in 0 .. N - 1 : b[s] = x + 1 => s = t
    BY <1>1 DEF Tree, Placed
  <2>2. /\ b[t] # 0 /\ b[t] = c[t] + 1 /\ c[t] \in 0 .. n - 2 /\ 2 * c[t] + 2 <= t
        /\ V[t] = V[2 * c[t]] + V[2 * c[t] + 1]
    <3>1. b[t] # 0
      BY <2>1
    <3> QED BY <3>1, <1>1, NodeOrLeaf
  <2>3. c[t] = x
    BY <2>1, <2>2
  <2>4. t \in 2 * x + 2 .. N - 1 /\ 2 * x \in 0 .. N - 1 /\ 2 * x + 1 \in 0 .. N - 1
    BY <2>2, <2>3
  <2>5. V[t] = V[2 * x] + V[2 * x + 1]
    BY <2>2, <2>3
  <2> QED BY <2>1, <2>4, <2>5, <1>5
<1>7. PICK U, B : U = NodesOf(V) /\ B = NodesOf(b)
  OBVIOUS
<1>8. U \in [0 .. N - 1 -> Nat] /\ B \in [0 .. N - 1 -> 0 .. n - 1]
  BY <1>4, <1>7
<1>9. \A s, t \in 0 .. N - 1 : s <= t => U[s] <= U[t]
  BY <1>2, <1>5, <1>7
<1>10. \A x \in 0 .. n - 2 : \E t \in 2 * x + 2 .. N - 1 :
          /\ U[t] = U[2 * x] + U[2 * x + 1]
          /\ \A s \in 0 .. N - 1 : B[s] = x + 1 <=> s = t
  BY <1>6, <1>7, Zenon
<1>11. Merged(U, B)
  BY <1>1, <1>8, <1>9, <1>10 DEF Merged
<1> QED BY <1>7, <1>11

\* The frequencies of the leaves and the weights taken before merge y add up
\* to the weights that the merges before it have made.
LEMMA TreeSums ==
    ASSUME n \in Nat, n > 1, freq \in [0 .. n - 1 -> Nat], NEW V, NEW b, NEW c, NEW P, Tree(V, b, c, P)
    PROVE  \A y \in 0 .. n - 1 :
              /\ c[2 * y] \in 0 .. n - 1 /\ 2 * y - c[2 * y] \in 0 .. n
              /\ Total(freq, 2 * y - c[2 * y]) + Total(Made(V), c[2 * y]) = Total(Made(V), y)
<1>1. /\ V \in [0 .. 2 * n -> Nat]
      /\ NodesOf(V) \in [0 .. Nodes - 1 -> Nat] /\ Made(V) \in [0 .. n - 2 -> Nat]
      /\ \A y \in 0 .. n - 1 : Total(NodesOf(V), 2 * y) = Total(Made(V), y)
  <2>1. V \in [0 .. 2 * n -> Nat]
    BY DEF Tree, Order
  <2> QED BY <2>1, PairSums
<1>2. /\ NodesOf(V) \in [0 .. Nodes - 1 -> Int] /\ freq \in [0 .. n - 1 -> Int]
      /\ Made(V) \in [0 .. n - 2 -> Int]
  <2>1. \A k \in 0 .. n - 2 : Made(V)[k] \in Nat
    BY <1>1
  <2>2. Made(V) \in [0 .. n - 2 -> Int]
    BY <2>1, <1>1
  <2> QED BY <2>2, <1>1, NatIsInt
<1>3. SplitInto(b, c, NodesOf(V), freq, Made(V))
  <2> SUFFICES ASSUME NEW t \in 0 .. Nodes - 1
               PROVE  NodesOf(V)[t] = IF b[t] = 0 THEN freq[t - c[t]] ELSE Made(V)[c[t]]
    BY <1>2 DEF SplitInto
  <2>1. NodesOf(V)[t] = V[t]
    BY DEF NodesOf
  <2>2. c[t] \in 0 .. n - 2 => Made(V)[c[t]] = V[2 * c[t]] + V[2 * c[t] + 1]
    BY DEF Made
  <2> QED BY <2>1, <2>2, NodeOrLeaf
<1>4. \A t \in 0 .. Nodes :
         Total(NodesOf(V), t) = Total(freq, t - c[t]) + Total(Made(V), c[t])
  BY <1>3, NodeSums
<1>5. \A y \in 0 .. n - 1 : 2 * y \in 0 .. Nodes
  BY DEF Nodes
<1>6. \A t \in 0 .. Nodes : c[t] \in 0 .. n - 1 /\ t - c[t] \in 0 .. n
  BY TreeCounts
<1> QED BY <1>1, <1>4, <1>5, <1>6

\* No code costs less than what the merges make.
LEMMA TreeCost ==
    ASSUME n \in Nat, n > 1, freq \in [0 .. n - 1 -> Nat], NEW V, NEW b, NEW c, NEW P, Tree(V, b, c, P),
           NEW lens \in [0 .. n - 1 -> 1 .. n - 1], Kraft(lens)
    PROVE  Total(Made(V), n - 1) <= Cost(lens)
<1>1. /\ Nodes \in Nat /\ Nodes \in 0 .. Nodes /\ c[Nodes] = n - 1 /\ Nodes - (n - 1) = n
  BY DEF Nodes, Tree
<1>2. \A t \in 0 .. Nodes - 1 : \/ b[t] = 0 /\ t - c[t] \in 0 .. n - 1 /\ V[t] = freq[t - c[t]]
                                \/ b[t] # 0
  BY NodeOrLeaf
<1> DEFINE m == [t \in 0 .. Nodes - 1 |-> IF b[t] = 0 THEN lens[t - c[t]] ELSE 0]
           z == [k \in 0 .. n - 2 |-> 0]
           K == [j \in 0 .. n - 1 |-> Power[n - lens[j]]]
           F == [j \in 0 .. n - 1 |-> freq[j] * lens[j]]
           B == NodesOf(b)
           U == NodesOf(V)
<1>3. \A j \in 0 .. n - 1 : lens[j] \in 0 .. n /\ lens[j] \in Nat /\ n - lens[j] \in 0 .. n
  <2> TAKE j \in 0 .. n - 1
  <2>1. PICK l \in 1 .. n - 1 : l = lens[j]
    OBVIOUS
  <2>2. l \in 0 .. n /\ l \in Nat /\ n - l \in 0 .. n
    OBVIOUS
  <2> QED BY <2>1, <2>2
<1>4. /\ m \in [0 .. Nodes - 1 -> 0 .. n]
      /\ \A t \in 0 .. Nodes - 1 : m[t] = IF b[t] = 0 THEN lens[t - c[t]] ELSE 0
  <2>1. \A t \in 0 .. Nodes - 1 : (IF b[t] = 0 THEN lens[t - c[t]] ELSE 0) \in 0 .. n
    <3>1. 0 \in 0 .. n
      OBVIOUS
    <3> QED BY <3>1, <1>2, <1>3, Zenon
  <2> QED BY <2>1
<1>5. K \in [0 .. n - 1 -> Int] /\ F \in [0 .. n - 1 -> Int] /\ z \in [0 .. n - 2 -> Int]
  <2>1. \A k \in 0 .. n : Power[k] \in Int
    <3>1. PICK Q : Q = Power
      OBVIOUS
    <3>2. Q \in [0 .. n -> Nat \ {0}]
      BY <3>1, PowerFacts
    <3>3. \A k \in 0 .. n : Q[k] \in Int
      <4> HIDE DEF m, z, K, F, B, U
      <4> QED BY <3>2
    <3> QED BY <3>1, <3>3
  <2>2. \A j \in 0 .. n - 1 : Power[n - lens[j]] \in Int
    BY <2>1, <1>3
  <2>3. \A j \in 0 .. n - 1 : freq[j] * lens[j] \in Int
    <3>1. \A x, y \in Nat : x * y \in Int
      OBVIOUS
    <3>2. \A j \in 0 .. n - 1 : freq[j] \in Nat
      OBVIOUS
    <3> QED BY <3>1, <3>2, <1>3
  <2>4. K \in [0 .. n - 1 -> Int]
    BY <2>2
  <2>5. F \in [0 .. n - 1 -> Int]
    BY <2>3
  <2>6. z \in [0 .. n - 2 -> Int]
    OBVIOUS
  <2> HIDE DEF m, z, K, F, B, U
  <2> QED BY <2>4, <2>5, <2>6
<1>6. Total(z, n - 1) = 0
  <2>1. PICK N \in Nat : N = n - 1 /\ n - 2 = N - 1
    OBVIOUS
  <2>2. z \in [0 .. N - 1 -> Int] /\ 0 \in Int /\ \A j \in 0 .. N - 1 : z[j] = 0 * z[j]
    BY <2>1
  <2> HIDE DEF z
  <2>3. Total(z, N) \in Int /\ Total(z, N) = 0 * Total(z, N)
    BY <2>2, SumMultiple
  <2>4. \A x \in Int : x = 0 * x => x = 0
    OBVIOUS
  <2> QED BY <2>1, <2>3, <2>4
<1>7. Total(K, n) <= Power[n] /\ Cost(lens) = Total(F, n)
  BY DEF Kraft, Cost, Power
<1>8. \A t \in 0 .. Nodes - 1 : B[t] = b[t] /\ U[t] = V[t]
  BY DEF NodesOf
<1>9. \A j \in 0 .. n - 1 : K[j] = Power[n - lens[j]] /\ F[j] = freq[j] * lens[j]
  OBVIOUS
<1>10. \A k \in 0 .. n - 2 : z[k] = 0
  OBVIOUS
<1>11. Merged(U, B)
  BY TreeMerged
<1> HIDE DEF m, z, K, F, B, U
<1>12. \A t \in 0 .. Nodes - 1 : Waiting(B, 0, t) <=> b[t] = 0
  <2> TAKE t \in 0 .. Nodes - 1
  <2>1. B \in [0 .. Nodes - 1 -> 0 .. n - 1]
    BY <1>11, Zenon DEF Merged
  <2>2. B[t] \in 0 .. n - 1
    BY <2>1
  <2>3. PICK p \in Nat : p = B[t]
    BY <2>2
  <2>4. t \in Nat
    BY <1>1
  <2>5. t >= 2 * 0
    BY <2>4
  <2>6. (p <= 0 => p = 0) /\ (p = 0 => p <= 0)
    BY <2>3, SMTT(30)
  <2> QED BY <2>3, <2>5, <2>6, <1>8 DEF Waiting
<1>13. \A t \in 0 .. Nodes - 1 : b[t] # 0 => c[t] \in 0 .. n - 2
  BY NodeOrLeaf
<1>16. /\ Space(B, 0, m) \in [0 .. Nodes - 1 -> Int] /\ Used(U, B, 0, m) \in [0 .. Nodes - 1 -> Int]
  <2>1. Space(B, 0, m) \in [0 .. Nodes - 1 -> Nat] /\ Used(U, B, 0, m) \in [0 .. Nodes - 1 -> Nat]
    BY <1>4, <1>11, SumTypes
  <2> QED BY <2>1, NatIsInt
<1>14. SplitInto(b, c, Space(B, 0, m), K, z)
  <2> SUFFICES ASSUME NEW t \in 0 .. Nodes - 1
               PROVE  Space(B, 0, m)[t] = IF b[t] = 0 THEN K[t - c[t]] ELSE z[c[t]]
    BY <1>5, <1>16 DEF SplitInto
  <2>1. Space(B, 0, m)[t] = IF b[t] = 0 THEN Power[n - m[t]] ELSE 0
    BY <1>12 DEF Space
  <2> QED BY <2>1, <1>2, <1>4, <1>9, <1>10, <1>13
<1>15. SplitInto(b, c, Used(U, B, 0, m), F, z)
  <2> SUFFICES ASSUME NEW t \in 0 .. Nodes - 1
               PROVE  Used(U, B, 0, m)[t] = IF b[t] = 0 THEN F[t - c[t]] ELSE z[c[t]]
    BY <1>5, <1>16 DEF SplitInto
  <2>1. Used(U, B, 0, m)[t] = IF b[t] = 0 THEN V[t] * m[t] ELSE 0
    BY <1>8, <1>12 DEF Used
  <2>2. b[t] = 0 => V[t] * m[t] = F[t - c[t]]
    BY <1>2, <1>4, <1>9
  <2> QED BY <2>1, <2>2, <1>10, <1>13
<1>17. /\ Total(K, n) \in Int /\ Total(F, n) \in Int
  <2>1. n \in 0 .. n
    OBVIOUS
  <2> QED BY <2>1, <1>5, TotalFacts
<1>18. Total(Space(B, 0, m), Nodes) = Total(K, n)
  <2>0. \A t \in 0 .. Nodes : Total(Space(B, 0, m), t) = Total(K, t - c[t]) + Total(z, c[t])
    BY <1>14, NodeSums
  <2>1. Total(Space(B, 0, m), Nodes) = Total(K, Nodes - c[Nodes]) + Total(z, c[Nodes])
    BY <2>0, <1>1
  <2>2. Total(K, Nodes - c[Nodes]) = Total(K, n)
    BY <1>1, Zenon
  <2>3. Total(z, c[Nodes]) = 0
    BY <1>1, <1>6, Zenon
  <2>4. PICK x \in Int : x = Total(K, n)
    BY <1>17
  <2>5. x + 0 = x
    OBVIOUS
  <2> QED BY <2>1, <2>2, <2>3, <2>4, <2>5
<1>19. Spent(U, B, 0, m) = Total(F, n)
  <2>0. \A t \in 0 .. Nodes : Total(Used(U, B, 0, m), t) = Total(F, t - c[t]) + Total(z, c[t])
    BY <1>15, NodeSums
  <2>1. Total(Used(U, B, 0, m), Nodes) = Total(F, Nodes - c[Nodes]) + Total(z, c[Nodes])
    BY <2>0, <1>1
  <2>2. Total(F, Nodes - c[Nodes]) = Total(F, n)
    BY <1>1, Zenon
  <2>3. Total(z, c[Nodes]) = 0
    BY <1>1, <1>6, Zenon
  <2>4. PICK x \in Int : x = Total(F, n)
    BY <1>17
  <2>5. x + 0 = x
    OBVIOUS
  <2> QED BY <2>1, <2>2, <2>3, <2>4, <2>5 DEF Spent
<1>20. Fitting(B, 0, m)
  BY <1>4, <1>7, <1>18 DEF Fitting
<1>21. /\ V \in [0 .. 2 * n -> Nat]
       /\ \A y \in 0 .. n - 1 : Total(Made(V), y) \in Nat
       /\ \A y \in 0 .. n - 2 : Total(Made(V), y + 1) = Total(Made(V), y) + V[2 * y] + V[2 * y + 1]
  <2>1. V \in [0 .. 2 * n -> Nat]
    BY DEF Tree, Order
  <2> QED BY <2>1, PairSums
<1> DEFINE H == [y \in 0 .. n - 1 |-> Total(Made(V), y)]
<1>22. H \in [0 .. n - 1 -> Nat] /\ \A y \in 0 .. n - 1 : H[y] = Total(Made(V), y)
  BY <1>21
<1>23. Total(Made(V), 0) = 0
  <2>1. PICK N \in Nat : N = n - 1 /\ n - 2 = N - 1
    OBVIOUS
  <2>2. Made(V) \in [0 .. n - 2 -> Nat]
    BY <1>21, PairSums
  <2>3. Made(V) \in [0 .. N - 1 -> Int]
    BY <2>1, <2>2, NatIsInt
  <2> QED BY <2>1, <2>3, TotalFacts
<1> HIDE DEF H
<1>24. MergeSums(U, H)
  <2>1. H[0] = 0
    BY <1>22, <1>23
  <2>2. ASSUME NEW y \in 0 .. n - 2 PROVE H[y + 1] = H[y] + U[2 * y] + U[2 * y + 1]
    <3>1. y \in 0 .. n - 1 /\ y + 1 \in 0 .. n - 1 /\ 2 * y \in 0 .. Nodes - 1 /\ 2 * y + 1 \in 0 .. Nodes - 1
      BY DEF Nodes
    <3> QED BY <3>1, <1>8, <1>21, <1>22
  <2> QED BY <2>1, <2>2 DEF MergeSums
<1>25. H[n - 1] <= Spent(U, B, 0, m)
  BY <1>11, <1>20, <1>22, <1>24, MergesCost
<1>26. n - 1 \in 0 .. n - 1
  OBVIOUS
<1> QED BY <1>7, <1>19, <1>22, <1>25, <1>26

---------------------------------------------------------------------------
(* The second loop gives the nodes the lengths of that tree.               *)

\* When the first m codes are one bit longer.
LEMMA CostGrows ==
    ASSUME n \in Nat, freq \in [0 .. n - 1 -> Nat], NEW l \in [0 .. n - 1 -> Int],
           NEW k \in [0 .. n - 1 -> Int], NEW m \in 0 .. n,
           \A j \in 0 .. n - 1 : k[j] = IF j < m THEN l[j] + 1 ELSE l[j]
    PROVE  Cost(l) \in Int /\ Total(freq, m) \in Int /\ Cost(k) = Cost(l) + Total(freq, m)
<1>1. PICK N \in Nat : N = n /\ m \in 0 .. N
  OBVIOUS
<1> DEFINE F == [j \in 0 .. N - 1 |-> freq[j] * l[j]]
           G == [j \in 0 .. N - 1 |-> freq[j] * k[j]]
<1>2. \A j \in 0 .. N - 1 : freq[j] \in Nat /\ l[j] \in Int /\ k[j] \in Int
  BY <1>1
<1>3. /\ F \in [0 .. N - 1 -> Int] /\ G \in [0 .. N - 1 -> Int]
      /\ freq \in [0 .. N - 1 -> Int]
  <2>1. \A x \in Nat : \A y \in Int : x * y \in Int
    OBVIOUS
  <2>2. \A j \in 0 .. N - 1 : freq[j] * l[j] \in Int /\ freq[j] * k[j] \in Int
    BY <2>1, <1>2, Zenon
  <2>3. freq \in [0 .. N - 1 -> Int]
    BY <1>1, NatIsInt
  <2> QED BY <2>2, <2>3
<1>4. Cost(l) = Total(F, N) /\ Cost(k) = Total(G, N)
  BY <1>1 DEF Cost
<1>5. \A j \in 0 .. N - 1 : F[j] = freq[j] * l[j] /\ G[j] = freq[j] * k[j]
  OBVIOUS
<1> HIDE DEF F, G
<1>6. /\ Total(F, 0) = 0 /\ Total(G, 0) = 0 /\ Total(freq, 0) = 0
      /\ \A j \in 0 .. N - 1 : /\ Total(F, j + 1) = Total(F, j) + F[j]
                               /\ Total(G, j + 1) = Total(G, j) + G[j]
                               /\ Total(freq, j + 1) = Total(freq, j) + freq[j]
      /\ \A j \in 0 .. N : Total(F, j) \in Int /\ Total(freq, j) \in Int
  BY <1>3, TotalFacts
<1> DEFINE S == {j \in 0 .. N : Total(G, j) = Total(F, j) + Total(freq, IF j < m THEN j ELSE m)}
<1>7. 0 \in S
  <2>1. (IF 0 < m THEN 0 ELSE m) = 0
    OBVIOUS
  <2> QED BY <2>1, <1>6
<1>8. ASSUME NEW j \in 0 .. N - 1, j \in S PROVE j + 1 \in S
  <2>1. j \in 0 .. N /\ j + 1 \in 0 .. N
    OBVIOUS
  <2>2. PICK p, q \in Int : p = freq[j] /\ q = l[j]
    BY <1>2
  <2>3. PICK x \in Int : x = Total(F, j)
    BY <2>1, <1>6
  <2>4. Total(F, j + 1) = x + p * q
    BY <2>2, <2>3, <1>5, <1>6
  <2>5. CASE j < m
    <3>1. (IF j < m THEN j ELSE m) = j /\ (IF j + 1 < m THEN j + 1 ELSE m) = j + 1
      BY <2>5
    <3>2. PICK y \in Int : y = Total(freq, j)
      BY <2>1, <1>6
    <3>3. Total(G, j) = x + y
      BY <3>1, <3>2, <2>3, <1>8
    <3>4. k[j] = q + 1
      BY <2>2, <2>5, <1>1
    <3>5. Total(G, j + 1) = (x + y) + p * (q + 1)
      BY <3>3, <3>4, <2>2, <1>5, <1>6
    <3>6. p * (q + 1) = p * q + p /\ p * q \in Int
      OBVIOUS
    <3>7. Total(freq, j + 1) = y + p
      BY <3>2, <2>2, <1>6
    <3>8. Total(G, j + 1) = Total(F, j + 1) + Total(freq, j + 1)
      BY <3>5, <3>6, <3>7, <2>4
    <3> QED BY <3>1, <3>8, <2>1
  <2>6. CASE ~ (j < m)
    <3>1. (IF j < m THEN j ELSE m) = m /\ (IF j + 1 < m THEN j + 1 ELSE m) = m
      BY <2>6
    <3>2. PICK y \in Int : y = Total(freq, m)
      BY <1>1, <1>6
    <3>3. Total(G, j) = x + y
      BY <3>1, <3>2, <2>3, <1>8
    <3>4. k[j] = q
      BY <2>2, <2>6, <1>1
    <3>5. Total(G, j + 1) = (x + y) + p * q
      BY <3>3, <3>4, <2>2, <1>5, <1>6
    <3>6. p * q \in Int
      OBVIOUS
    <3>8. Total(G, j + 1) = Total(F, j + 1) + Total(freq, m)
      BY <3>2, <3>5, <3>6, <2>4
    <3> QED BY <3>1, <3>8, <2>1
  <2> QED BY <2>5, <2>6
<1> HIDE DEF S
<1>9. \A j \in 0 .. N : j \in S
  BY <1>7, <1>8, UpTo
<1>10. N \in S /\ N \in 0 .. N
  BY <1>9
<1>11. Total(G, N) = Total(F, N) + Total(freq, IF N < m THEN N ELSE m)
  BY <1>10 DEF S
<1>12. (IF N < m THEN N ELSE m) = m
  BY <1>1
<1> QED BY <1>1, <1>4, <1>6, <1>10, <1>11, <1>12

\* The weights H that the merges have made, and the weights q taken before a
\* merge.
HeightsAt(H, q) ==
    /\ H \in [0 .. n - 1 -> Nat] /\ q \in [0 .. n - 1 -> Nat] /\ H[0] = 0 /\ q[0] = 0
    /\ \A y \in 0 .. n - 1 : /\ q[y] <= y /\ 2 * y - q[y] <= n
                             /\ Total(freq, 2 * y - q[y]) + H[q[y]] = H[y]
    /\ \A y, z \in 0 .. n - 1 : y <= z => 2 * y - q[y] <= 2 * z - q[z]
    /\ \A lens \in [0 .. n - 1 -> 1 .. n - 1] : Kraft(lens) => H[n - 1] <= Cost(lens)

\* The weights still to be looked at are those taken before merge x, and the
\* others have made the bits of the codes up to this level.
HeightsReached(H, q, x) ==
    /\ x \in 0 .. n - 1 /\ level_top = q[x] /\ i = 2 * x - level_top
    /\ total_nodes_at_level = 2 * (x - level_top)
    /\ \A k \in 0 .. level_top - 1, y \in 0 .. n - 1 : A[k] < y <=> k < q[y]
    /\ Cost([j \in 0 .. n - 1 |-> IF j >= i THEN A[j] ELSE depth]) + H[level_top] = H[n - 1]

Heights ==
    hpc = "levels" /\ n > 1 => \E H, q, x : HeightsAt(H, q) /\ HeightsReached(H, q, x)

LEMMA TreeHeights ==
    ASSUME n \in Nat, n > 1, freq \in [0 .. n - 1 -> Nat], NEW V, NEW b, NEW c, NEW P, Tree(V, b, c, P)
    PROVE  HeightsAt([y \in 0 .. n - 1 |-> Total(Made(V), y)], [y \in 0 .. n - 1 |-> c[2 * y]])
<1>1. \A y \in 0 .. n - 1 : 2 * y \in 0 .. Nodes
  BY DEF Nodes
<1>2. /\ \A t \in 0 .. Nodes : c[t] \in 0 .. n - 1 /\ 2 * c[t] <= t /\ t - c[t] \in 0 .. n
      /\ \A s, t \in 0 .. Nodes : s <= t => c[s] <= c[t] /\ s - c[s] <= t - c[t]
  BY TreeCounts
<1> DEFINE H == [y \in 0 .. n - 1 |-> Total(Made(V), y)]
           q == [y \in 0 .. n - 1 |-> c[2 * y]]
<1>3. \A y \in 0 .. n - 1 : q[y] = c[2 * y] /\ H[y] = Total(Made(V), y)
  OBVIOUS
<1>4. H \in [0 .. n - 1 -> Nat] /\ q \in [0 .. n - 1 -> Nat]
  <2>1. V \in [0 .. 2 * n -> Nat]
    BY DEF Tree, Order
  <2>2. \A y \in 0 .. n - 1 : Total(Made(V), y) \in Nat
    BY <2>1, PairSums
  <2>3. \A y \in 0 .. n - 1 : c[2 * y] \in Nat
    BY <1>1, <1>2
  <2> QED BY <2>2, <2>3
<1> HIDE DEF H, q
<1>5. H[0] = 0 /\ q[0] = 0
  <2>1. PICK N \in Nat : N = n - 1 /\ n - 2 = N - 1
    OBVIOUS
  <2>2. V \in [0 .. 2 * n -> Nat] /\ c[0] = 0
    BY DEF Tree, Order
  <2>3. Made(V) \in [0 .. n - 2 -> Nat]
    BY <2>2, PairSums
  <2>4. Made(V) \in [0 .. N - 1 -> Int]
    BY <2>1, <2>3, NatIsInt
  <2>5. Total(Made(V), 0) = 0
    BY <2>1, <2>4, TotalFacts
  <2>6. 0 \in 0 .. n - 1 /\ 2 * 0 = 0
    OBVIOUS
  <2> QED BY <2>2, <2>5, <2>6, <1>3
<1>6. ASSUME NEW y \in 0 .. n - 1
      PROVE  /\ q[y] <= y /\ 2 * y - q[y] <= n
             /\ Total(freq, 2 * y - q[y]) + H[q[y]] = H[y]
  <2>1. q[y] = c[2 * y] /\ c[2 * y] \in 0 .. n - 1 /\ 2 * c[2 * y] <= 2 * y /\ 2 * y - c[2 * y] \in 0 .. n
    BY <1>1, <1>2, <1>3
  <2>2. H[q[y]] = Total(Made(V), c[2 * y]) /\ H[y] = Total(Made(V), y)
    BY <2>1, <1>3
  <2>3. Total(freq, 2 * y - c[2 * y]) + Total(Made(V), c[2 * y]) = Total(Made(V), y)
    BY TreeSums
  <2>4. PICK p \in Nat : p = c[2 * y]
    BY <2>1
  <2>5. p <= y /\ 2 * y - p <= n
    <3>1. 2 * p <= 2 * y /\ 2 * y - p \in 0 .. n
      BY <2>1, <2>4, Zenon
    <3>2. 2 * y - p <= n
      BY <3>1
    <3>3. y \in Int
      OBVIOUS
    <3> QED BY <3>1, <3>2, <3>3
  <2> QED BY <2>1, <2>2, <2>3, <2>4, <2>5
<1>7. ASSUME NEW y \in 0 .. n - 1, NEW z \in 0 .. n - 1, y <= z
      PROVE  2 * y - q[y] <= 2 * z - q[z]
  <2>1. 2 * y <= 2 * z
    BY <1>7
  <2> QED BY <2>1, <1>1, <1>2, <1>3
<1>8. \A lens \in [0 .. n - 1 -> 1 .. n - 1] : Kraft(lens) => H[n - 1] <= Cost(lens)
  <2> SUFFICES ASSUME NEW lens \in [0 .. n - 1 -> 1 .. n - 1], Kraft(lens) PROVE H[n - 1] <= Cost(lens)
    OBVIOUS
  <2>1. Total(Made(V), n - 1) <= Cost(lens)
    BY TreeCost
  <2>2. n - 1 \in 0 .. n - 1
    OBVIOUS
  <2> QED BY <2>1, <2>2, <1>3
<1>9. HeightsAt(H, q)
  BY <1>4, <1>5, <1>6, <1>7, <1>8 DEF HeightsAt
<1> QED BY <1>9 DEF H, q

LEMMA HeightsKept ==
    ASSUME NEW H, NEW q, HeightsAt(H, q), n' = n, freq' = freq
    PROVE  HeightsAt(H, q)'
<1>1. \A lens : (Kraft(lens)' <=> Kraft(lens)) /\ Cost(lens)' = Cost(lens)
  BY DEF Kraft, Cost
<1> QED BY <1>1 DEF HeightsAt

LEMMA TakenBefore ==
    ASSUME n \in Nat, n > 1, NEW V, NEW b, NEW c, NEW P, Tree(V, b, c, P),
           NEW k \in 0 .. n - 2, P[k] \in Nat, NEW y \in 0 .. n - 1
    PROVE  P[k] < y <=> k < c[2 * y]
<1>1. PICK t \in 0 .. Nodes - 1 : b[t] = k + 1 /\ 2 * P[k] <= t /\ t <= 2 * P[k] + 1
  BY DEF Tree, Placed
<1>2. c[t] = k /\ c[t + 1] = k + 1
  <2>1. b[t] # 0
    BY <1>1
  <2>2. b[t] = c[t] + 1 /\ c[t] \in 0 .. n - 2 /\ c[t + 1] = c[t] + 1
    BY <2>1, NodeOrLeaf
  <2>3. PICK r \in Nat : r = c[t]
    BY <2>2
  <2>4. \A u \in Nat : k + 1 = u + 1 => u = k
    OBVIOUS
  <2>5. k + 1 = r + 1 /\ c[t + 1] = r + 1
    BY <2>2, <2>3, <1>1, Zenon
  <2>6. r = k
    BY <2>4, <2>5
  <2> QED BY <2>3, <2>5, <2>6
<1>3. 2 * y \in 0 .. Nodes /\ t \in 0 .. Nodes /\ t + 1 \in 0 .. Nodes
  BY DEF Nodes
<1>4. PICK r \in Nat : r = c[2 * y]
  <2>1. c[2 * y] \in 0 .. n - 1
    BY <1>3, TreeCounts
  <2> QED BY <2>1
<1>5. \A s, u \in 0 .. Nodes : s <= u => c[s] <= c[u]
  BY TreeCounts
<1>6. CASE t < 2 * y
  <2>1. t + 1 <= 2 * y
    BY <1>3, <1>6
  <2>2. k + 1 <= r
    BY <2>1, <1>2, <1>3, <1>4, <1>5
  <2>3. P[k] < y
    BY <1>1, <1>6
  <2> QED BY <2>2, <2>3, <1>4
<1>7. CASE ~ (t < 2 * y)
  <2>1. 2 * y <= t
    BY <1>3, <1>7
  <2>2. r <= k
    BY <2>1, <1>2, <1>3, <1>4, <1>5
  <2>3. ~ (P[k] < y)
    BY <1>1, <1>7
  <2> QED BY <2>2, <2>3, <1>4
<1> QED BY <1>6, <1>7

LEMMA NatFrequencies == ASSUME Passed PROVE n \in Nat /\ freq \in [0 .. n - 1 -> Nat]
<1>1. n \in Nat /\ freq \in [0 .. n - 1 -> Nat \ {0}]
  BY FrequenciesAddUp DEF Passed
<1>2. \A j \in 0 .. n - 1 : freq[j] \in Nat
  BY <1>1
<1> QED BY <1>1, <1>2

LEMMA TreeBuiltHeights == ASSUME IInv, Parents, Passed, History, TreeBuilt PROVE Heights'
<1>1. SUFFICES ASSUME n > 1 PROVE Heights'
  <2>1. n' = n
    BY DEF TreeBuilt, n
  <2> QED BY <1>1, <2>1 DEF Heights
<1>2. /\ A' = A /\ n' = n /\ freq' = freq /\ hpc' = "levels" /\ level_top' = n - 2 /\ depth' = 1
      /\ i' = n /\ total_nodes_at_level' = 2
  BY DEF TreeBuilt, TreeTop, n
<1>3. n \in Nat /\ freq \in [0 .. n - 1 -> Nat]
  BY NatFrequencies
<1>4. PICK V, b, c, P : Tree(V, b, c, P) /\ P[n - 2] = n - 1 /\ \A k \in 0 .. n - 3 : P[k] = A[k]
  BY <1>1, TreeBuiltOrder
<1>5. PICK H, q : /\ H = [y \in 0 .. n - 1 |-> Total(Made(V), y)]
                  /\ q = [y \in 0 .. n - 1 |-> c[2 * y]]
  OBVIOUS
<1>6. HeightsAt(H, q)
  BY <1>1, <1>3, <1>4, <1>5, TreeHeights
<1>7. q[n - 1] = n - 2
  <2>1. n - 2 \in 0 .. n - 2 /\ n - 1 \in 0 .. n - 1 /\ n - 1 \in Nat
    BY <1>1, <1>3
  <2>2. PICK t \in 0 .. Nodes - 1 : b[t] = (n - 2) + 1 /\ 2 * (n - 1) <= t
    BY <2>1, <1>4 DEF Tree, Placed
  <2>3. t = 2 * (n - 1) /\ b[t] # 0
    BY <2>2, <1>1, <1>3 DEF Nodes
  <2>4. b[t] = c[t] + 1 /\ c[t] \in 0 .. n - 2
    BY <2>3, <1>1, <1>3, <1>4, NodeOrLeaf
  <2>5. c[t] = n - 2
    BY <2>2, <2>4, <1>3
  <2> QED BY <2>1, <2>3, <2>5, <1>5
<1>8. \A k \in 0 .. n - 3 : A[k] \in Nat
  <2>1. \A k \in 0 .. root - 1 : A[k] \in Nat
    <3>1. next \in Nat /\ root \in Nat /\ \A k \in 0 .. root - 1 : A[k] \in k + 1 .. next
      BY DEF IInv, ArrayOK, InPlace, TreeBuilt
    <3> QED BY <3>1
  <2>2. root \in Nat /\ root >= n - 2
    <3>1. /\ leaf \in Nat /\ root \in Nat /\ next \in Nat /\ pass \in {0, 1} /\ next >= n - 1
          /\ leaf <= n /\ leaf + root = 2 * next + pass
      BY DEF IInv, ArrayOK, InPlace, TreeBuilt
    <3> QED BY <3>1, <1>3
  <2> QED BY <2>1, <2>2, <1>3
<1>9. ASSUME NEW k \in 0 .. n - 3, NEW y \in 0 .. n - 1 PROVE A[k] < y <=> k < q[y]
  <2>1. k \in 0 .. n - 2 /\ P[k] = A[k] /\ P[k] \in Nat
    BY <1>3, <1>4, <1>8
  <2>2. P[k] < y <=> k < c[2 * y]
    BY <2>1, <1>1, <1>3, <1>4, TakenBefore
  <2> QED BY <2>1, <2>2, <1>5
<1>10. Total(freq, n) + H[n - 2] = H[n - 1]
  <2>1. n - 1 \in 0 .. n - 1 /\ 2 * (n - 1) - (n - 2) = n
    BY <1>1, <1>3
  <2>2. Total(freq, 2 * (n - 1) - q[n - 1]) + H[q[n - 1]] = H[n - 1]
    BY <2>1, <1>6 DEF HeightsAt
  <2> QED BY <2>1, <2>2, <1>7
<1>11. Cost([j \in 0 .. n - 1 |-> IF j >= i' THEN A'[j] ELSE depth']) = Total(freq, n)
  <2>1. PICK l : l = [j \in 0 .. n - 1 |-> IF j >= i' THEN A'[j] ELSE depth']
    OBVIOUS
  <2>2. \A j \in 0 .. n - 1 : l[j] = 1
    BY <2>1, <1>2, <1>3
  <2>3. [j \in 0 .. n - 1 |-> freq[j] * l[j]] = freq
    <3>1. \A j \in 0 .. n - 1 : freq[j] * l[j] = freq[j]
      <4>1. \A x \in Nat : x * 1 = x
        OBVIOUS
      <4>2. \A j \in 0 .. n - 1 : freq[j] \in Nat
        BY <1>3
      <4> QED BY <4>1, <4>2, <2>2
    <3>2. freq = [j \in 0 .. n - 1 |-> freq[j]]
      BY <1>3
    <3> QED BY <3>1, <3>2
  <2> QED BY <2>1, <2>3 DEF Cost
<1>12. HeightsReached(H, q, n - 1)'
  <2>1. n - 1 \in 0 .. n' - 1 /\ level_top' = q[n - 1] /\ i' = 2 * (n - 1) - level_top'
    BY <1>1, <1>2, <1>3, <1>7
  <2>2. total_nodes_at_level' = 2 * ((n - 1) - level_top')
    BY <1>2, <1>3
  <2>3. \A k \in 0 .. level_top' - 1, y \in 0 .. n' - 1 : A'[k] < y <=> k < q[y]
    <3>1. (n - 2) - 1 = n - 3
      BY <1>3
    <3> QED BY <3>1, <1>2, <1>9
  <2>4. Cost([j \in 0 .. n - 1 |-> IF j >= i THEN A[j] ELSE depth])' + H[level_top'] = H[n' - 1]
    <3>1. PICK l : l = [j \in 0 .. n - 1 |-> IF j >= i' THEN A'[j] ELSE depth']
      OBVIOUS
    <3>2. [j \in 0 .. n - 1 |-> IF j >= i THEN A[j] ELSE depth]' = l
      BY <3>1, <1>2
    <3>3. Cost([j \in 0 .. n - 1 |-> IF j >= i THEN A[j] ELSE depth])' = Cost(l)
      <4>1. freq' = freq /\ n' = n
        BY <1>2
      <4> HIDE DEF n
      <4> QED BY <3>2, <4>1 DEF Cost
    <3>4. Cost(l) = Total(freq, n)
      BY <3>1, <1>11
    <3> QED BY <3>3, <3>4, <1>2, <1>10
  <2>5. n' - 1 = n - 1
    BY <1>2
  <2> QED BY <2>1, <2>2, <2>3, <2>4, <2>5 DEF HeightsReached
<1>13. HeightsAt(H, q)'
  BY <1>2, <1>6, HeightsKept
<1> QED BY <1>2, <1>12, <1>13 DEF Heights

LEMMA LevelHeights == ASSUME Levels, Passed, Heights, Level PROVE Heights'
<1>1. SUFFICES ASSUME n > 1 PROVE Heights'
  <2>1. n' = n
    BY DEF Level, n
  <2> QED BY <1>1, <2>1 DEF Heights
<1>2. /\ hpc = "levels" /\ hpc' = "levels" /\ n' = n /\ freq' = freq /\ depth' = depth + 1
      /\ level_top' = LevelStart
  BY DEF Level, n
<1>3. n \in Nat /\ freq \in [0 .. n - 1 -> Nat]
  BY NatFrequencies
<1>4. PICK H, q, x : HeightsAt(H, q) /\ HeightsReached(H, q, x)
  BY <1>1, <1>2 DEF Heights
<1>5. /\ DOMAIN A = 0 .. n - 1 /\ depth \in Nat /\ level_top \in 0 .. n - 1
      /\ \A j \in 0 .. level_top - 1 : A[j] \in Int /\ A[j] >= j + 1
      /\ \A j \in i .. n - 1 : A[j] \in Int
  <2>1. PICK t \in [0 .. depth -> 0 .. n - 1] : LevelsAt(t)
    BY <1>1, <1>2 DEF Levels
  <2>2. DOMAIN A = 0 .. n - 1 /\ depth \in Nat /\ depth > 0
    BY <1>1, <1>2 DEF Levels
  <2>3. PICK D \in Nat : D = depth /\ D > 0
    BY <2>2
  <2>4. /\ t[D] \in 0 .. n - 1 /\ t[D - 1] \in 0 .. n - 1 /\ level_top = t[D]
        /\ \A j \in 0 .. t[D] - 1 : A[j] \in j + 1 .. t[D - 1] - 1
        /\ \A j \in i .. n - 1 : A[j] \in 1 .. D - 1
    <3>1. D \in 0 .. depth /\ D - 1 \in 0 .. depth
      BY <2>3
    <3> QED BY <2>1, <2>3, <3>1 DEF LevelsAt
  <2>5. \A j \in i .. n - 1 : A[j] \in Int
    BY <2>4
  <2>6. \A j \in 0 .. level_top - 1 : A[j] \in Int /\ A[j] >= j + 1
    BY <2>4
  <2> QED BY <2>2, <2>4, <2>5, <2>6
<1>6. PICK L \in 0 .. n - 1, X \in 0 .. n - 1 : L = level_top /\ X = x
  BY <1>4, <1>5 DEF HeightsReached
<1>7. PICK k \in 0 .. L : /\ k = LevelStart /\ (k > 0 => A[k - 1] < L)
                          /\ \A j \in k .. L - 1 : A[j] >= L
  <2>1. level_top \in Nat
    BY <1>5
  <2> QED BY <2>1, <1>5, <1>6, LevelStartFacts
<1>8. /\ q[X] = L /\ i = 2 * X - L /\ total_nodes_at_level = 2 * (X - L)
      /\ \A j \in 0 .. L - 1, y \in 0 .. n - 1 : A[j] < y <=> j < q[y]
      /\ Cost([j \in 0 .. n - 1 |-> IF j >= i THEN A[j] ELSE depth]) + H[L] = H[n - 1]
  BY <1>4, <1>6 DEF HeightsReached
<1>9. /\ H \in [0 .. n - 1 -> Nat]
      /\ \A y \in 0 .. n - 1 : q[y] \in Nat /\ q[y] <= y /\ 2 * y - q[y] <= n
      /\ \A y \in 0 .. n - 1 : Total(freq, 2 * y - q[y]) + H[q[y]] = H[y]
      /\ \A y, z \in 0 .. n - 1 : y <= z => 2 * y - q[y] <= 2 * z - q[z]
  BY <1>4 DEF HeightsAt
<1>10. q[L] = k
  <2>1. PICK r \in Nat : r = q[L] /\ r <= L
    BY <1>9
  <2>2. CASE k > r
    <3>1. k - 1 \in 0 .. L - 1 /\ A[k - 1] < L
      BY <2>1, <2>2, <1>7
    <3>2. k - 1 < r
      BY <3>1, <2>1, <1>8
    <3> QED BY <3>2, <2>1, <2>2
  <2>3. CASE k < r
    <3>1. k \in 0 .. L - 1 /\ k \in k .. L - 1
      BY <2>1, <2>3
    <3>2. A[k] >= L /\ A[k] \in Int
      BY <3>1, <1>5, <1>6, <1>7
    <3>3. A[k] < L
      BY <3>1, <2>1, <2>3, <1>8
    <3> QED BY <3>2, <3>3
  <2> QED BY <2>1, <2>2, <2>3
<1>11. /\ L <= X /\ 2 * L - k <= 2 * X - L /\ 2 * L - k <= n /\ 2 * L - k >= L /\ 2 * X - L <= n
  <2>1. L <= X /\ 2 * X - L <= n
    BY <1>8, <1>9
  <2>2. 2 * L - k <= 2 * X - L /\ 2 * L - k <= n
    BY <2>1, <1>8, <1>9, <1>10
  <2> QED BY <2>1, <2>2
<1>12. PICK m \in 0 .. n, s \in 0 .. n : m = 2 * L - k /\ s = i /\ m <= s /\ k <= m
  <2>1. 2 * L - k \in 0 .. n /\ 2 * X - L \in 0 .. n /\ k <= 2 * L - k
    BY <1>3, <1>11
  <2> QED BY <2>1, <1>8, <1>11
<1>13. /\ A' = [j \in DOMAIN A |-> IF j \in m .. s - 1 THEN depth ELSE A[j]]
       /\ i' = m /\ total_nodes_at_level' = 2 * (L - k)
  <2>1. PICK leaves \in Int : leaves = total_nodes_at_level - (level_top - LevelStart)
    BY <1>6, <1>7, <1>8
  <2>2. leaves = 2 * (X - L) - (L - k)
    BY <2>1, <1>6, <1>7, <1>8
  <2>3. s - leaves = m
    <3>1. s = 2 * X - L
      BY <1>8, <1>12
    <3> QED BY <3>1, <2>2, <1>12
  <2>4. /\ A' = [j \in DOMAIN A |-> IF j \in i - leaves .. i - 1 THEN depth ELSE A[j]]
        /\ i' = i - leaves /\ total_nodes_at_level' = (level_top - LevelStart) * 2
    BY <2>1 DEF Level
  <2>5. total_nodes_at_level' = 2 * (L - k)
    BY <2>4, <1>6, <1>7
  <2> QED BY <2>3, <2>4, <2>5, <1>12
<1>14. \A j \in 0 .. n - 1 : A'[j] = IF j \in m .. s - 1 THEN depth ELSE A[j]
  BY <1>5, <1>13
<1>15. ASSUME NEW j \in 0 .. k - 1, NEW y \in 0 .. n - 1 PROVE A'[j] < y <=> j < q[y]
  <2>1. j \in 0 .. L - 1 /\ j \in 0 .. n - 1 /\ ~ (j \in m .. s - 1)
    <3>1. j \in 0 .. L - 1 /\ j \in 0 .. n - 1
      BY <1>3
    <3>2. j < m
      BY <1>12
    <3> QED BY <3>1, <3>2
  <2>2. A'[j] = A[j]
    BY <2>1, <1>14
  <2>3. A[j] < y <=> j < q[y]
    BY <2>1, <1>8
  <2> QED BY <2>2, <2>3
<1>16. PICK l, g : /\ l = [j \in 0 .. n - 1 |-> IF j >= s THEN A[j] ELSE depth]
                   /\ g = [j \in 0 .. n - 1 |-> IF j >= m THEN A'[j] ELSE depth + 1]
  OBVIOUS
<1>17. l \in [0 .. n - 1 -> Int] /\ g \in [0 .. n - 1 -> Int]
       /\ \A j \in 0 .. n - 1 : g[j] = IF j < m THEN l[j] + 1 ELSE l[j]
  <2>1. \A j \in 0 .. n - 1 : j >= s => A[j] \in Int /\ A'[j] = A[j]
    <3> TAKE j \in 0 .. n - 1
    <3>1. j >= s => j \in i .. n - 1 /\ ~ (j \in m .. s - 1)
      BY <1>12
    <3> QED BY <3>1, <1>5, <1>14
  <2>2. \A j \in 0 .. n - 1 : l[j] = (IF j >= s THEN A[j] ELSE depth) /\ l[j] \in Int
    BY <2>1, <1>5, <1>16
  <2>3. ASSUME NEW j \in 0 .. n - 1 PROVE g[j] = IF j < m THEN l[j] + 1 ELSE l[j]
    <3>1. g[j] = IF j >= m THEN A'[j] ELSE depth + 1
      BY <1>16
    <3>2. CASE j < m
      BY <3>1, <3>2, <2>2, <1>12
    <3>3. CASE j >= m /\ j < s
      <4>1. j \in m .. s - 1
        BY <3>3
      <4> QED BY <3>1, <3>3, <4>1, <2>2, <1>14
    <3>4. CASE j >= s
      BY <3>1, <3>4, <2>1, <2>2, <1>12
    <3> QED BY <3>2, <3>3, <3>4
  <2>4. \A j \in 0 .. n - 1 : g[j] \in Int
    BY <2>2, <2>3
  <2>5. l = [j \in 0 .. n - 1 |-> l[j]] /\ g = [j \in 0 .. n - 1 |-> g[j]]
    BY <1>16
  <2> QED BY <2>2, <2>3, <2>4, <2>5
<1>18. Cost(l) \in Int /\ Total(freq, m) \in Int /\ Cost(g) = Cost(l) + Total(freq, m)
  BY <1>3, <1>17, CostGrows
<1>19. Cost(g) + H[k] = H[n - 1]
  <2>1. H[k] \in Nat /\ H[L] \in Nat /\ H[n - 1] \in Nat
    BY <1>3, <1>9
  <2>2. Total(freq, m) + H[k] = H[L]
    BY <1>9, <1>10, <1>12
  <2>3. Cost(l) + H[L] = H[n - 1]
    BY <1>8, <1>12, <1>16
  <2> QED BY <2>1, <2>2, <2>3, <1>18
<1>20. HeightsReached(H, q, L)'
  <2>1. L \in 0 .. n' - 1 /\ level_top' = q[L] /\ i' = 2 * L - level_top'
    BY <1>2, <1>7, <1>10, <1>12, <1>13
  <2>2. total_nodes_at_level' = 2 * (L - level_top')
    BY <1>2, <1>7, <1>13
  <2>3. \A j \in 0 .. level_top' - 1, y \in 0 .. n' - 1 : A'[j] < y <=> j < q[y]
    BY <1>2, <1>7, <1>15
  <2>4. Cost([j \in 0 .. n - 1 |-> IF j >= i THEN A[j] ELSE depth])' + H[level_top'] = H[n' - 1]
    <3>1. [j \in 0 .. n - 1 |-> IF j >= i THEN A[j] ELSE depth]' = g
      BY <1>2, <1>13, <1>16
    <3>2. Cost([j \in 0 .. n - 1 |-> IF j >= i THEN A[j] ELSE depth])' = Cost(g)
      <4>1. freq' = freq /\ n' = n
        BY <1>2
      <4> HIDE DEF n
      <4> QED BY <3>1, <4>1 DEF Cost
    <3> QED BY <3>2, <1>2, <1>7, <1>19
  <2> QED BY <2>1, <2>2, <2>3, <2>4 DEF HeightsReached
<1>21. HeightsAt(H, q)'
  BY <1>2, <1>4, HeightsKept
<1> QED BY <1>2, <1>20, <1>21 DEF Heights

\* The lengths left in the array cost the least.
Best ==
    hpc \in {"codes", "coded"} /\ n > 1 =>
        LET own == [j \in 0 .. n - 1 |-> A[n - 1 - j]] IN
        \A lens \in [0 .. n - 1 -> 1 .. n - 1] : Kraft(lens) => Cost(own) <= Cost(lens)

\* When all levels are done, no weight is left to be looked at.
LEMMA FirstCodeBest == ASSUME Levels, Passed, Heights, FirstCode PROVE Best'
<1>1. SUFFICES ASSUME n > 1 PROVE Best'
  <2>1. n' = n
    BY DEF FirstCode, n
  <2> QED BY <1>1, <2>1 DEF Best
<1>2. /\ hpc = "levels" /\ n' = n /\ freq' = freq /\ i <= 0 /\ A' = reverseVector(A)
  BY DEF FirstCode, n
<1>3. n \in Nat
  BY NatFrequencies
<1>4. PICK H, q, x : HeightsAt(H, q) /\ HeightsReached(H, q, x)
  BY <1>1, <1>2 DEF Heights
<1>5. x = 0 /\ level_top = 0 /\ i = 0
  <2>1. x \in 0 .. n - 1 /\ q[x] \in Nat /\ q[x] <= x /\ q[0] = 0
    BY <1>4 DEF HeightsAt, HeightsReached
  <2>2. level_top = q[x] /\ i = 2 * x - q[x]
    BY <1>4 DEF HeightsReached
  <2>3. 2 * x - q[x] <= 0
    BY <2>2, <1>2
  <2>4. x = 0
    BY <2>1, <2>3
  <2> QED BY <2>1, <2>2, <2>4
<1>6. DOMAIN A = 0 .. n - 1
  BY <1>1, <1>2 DEF Levels
<1>7. PICK own : own = [j \in 0 .. n - 1 |-> A[j]]
  OBVIOUS
<1>8. Cost(own) = H[n - 1]
  <2>1. Cost([j \in 0 .. n - 1 |-> IF j >= i THEN A[j] ELSE depth]) + H[0] = H[n - 1]
    BY <1>4, <1>5 DEF HeightsReached
  <2>2. [j \in 0 .. n - 1 |-> IF j >= i THEN A[j] ELSE depth] = own
    BY <1>5, <1>7
  <2>3. H[0] = 0 /\ H[n - 1] \in Nat
    BY <1>1, <1>3, <1>4 DEF HeightsAt
  <2>4. Cost(own) \in Int
    <3>1. \A j \in 0 .. n - 1 : A[j] \in Int
      <4>1. PICK t : \A j \in i .. n - 1 : A[j] \in 1 .. depth - 1 /\ Left(t, A[j] + 1) <= j
        BY <1>1, <1>2 DEF Levels, LevelsAt
      <4>2. \A j \in 0 .. n - 1 : A[j] \in 1 .. depth - 1
        BY <4>1, <1>5
      <4> QED BY <4>2
    <3>2. own \in [0 .. n - 1 -> Int] /\ 0 \in 0 .. n
      BY <3>1, <1>3, <1>7
    <3>3. \A j \in 0 .. n - 1 : own[j] = IF j < 0 THEN own[j] + 1 ELSE own[j]
      OBVIOUS
    <3>4. freq \in [0 .. n - 1 -> Nat]
      BY NatFrequencies
    <3> QED BY <3>2, <3>3, <3>4, <1>3, CostGrows
  <2>5. \A v \in Int : \A h \in Nat : v + 0 = h => v = h
    OBVIOUS
  <2>6. Cost(own) + 0 = H[n - 1]
    BY <2>1, <2>2, <2>3
  <2> QED BY <2>3, <2>4, <2>5, <2>6
<1>9. [j \in 0 .. n - 1 |-> A[n - 1 - j]]' = own
  <2>1. \A j \in 0 .. n - 1 : A'[n - 1 - j] = A[j]
    <3> TAKE j \in 0 .. n - 1
    <3>1. n - 1 - j \in 0 .. n - 1 /\ n - 1 - (n - 1 - j) = j
      BY <1>3
    <3> QED BY <3>1, <1>2, <1>6 DEF reverseVector
  <2> QED BY <2>1, <1>2, <1>7
<1>10. \A lens : Cost(lens)' = Cost(lens) /\ (Kraft(lens)' <=> Kraft(lens))
  BY <1>2 DEF Cost, Kraft
<1>11. \A lens \in [0 .. n - 1 -> 1 .. n - 1] : Kraft(lens) => H[n - 1] <= Cost(lens)
  BY <1>4 DEF HeightsAt
<1>12. Cost([j \in 0 .. n - 1 |-> A[n - 1 - j]])' = Cost(own)
  <2>1. freq' = freq /\ n' = n
    BY <1>2
  <2> HIDE DEF n
  <2> QED BY <2>1, <1>9 DEF Cost
<1>13. ASSUME NEW lens \in [0 .. n - 1 -> 1 .. n - 1], Kraft(lens)'
       PROVE  Cost([j \in 0 .. n - 1 |-> A[n - 1 - j]])' <= Cost(lens)'
  BY <1>8, <1>10, <1>11, <1>12, <1>13
<1> QED BY <1>2, <1>13 DEF Best

\* The codes do not change it any more.
LEMMA BestKept ==
    ASSUME Best, UNCHANGED <<freq, A>>, hpc' \in {"codes", "coded"} => hpc \in {"codes", "coded"}
    PROVE  Best'
<1>1. freq' = freq /\ A' = A /\ n' = n
  BY DEF n
<1>2. SUFFICES ASSUME hpc \in {"codes", "coded"}, n > 1,
                      NEW lens \in [0 .. n - 1 -> 1 .. n - 1], Kraft(lens)'
               PROVE  Cost([j \in 0 .. n - 1 |-> A[n - 1 - j]])' <= Cost(lens)'
  BY <1>1 DEF Best
<1>3. Kraft(lens) /\ Cost(lens)' = Cost(lens)
  <2> HIDE DEF n
  <2> QED BY <1>1, <1>2 DEF Cost, Kraft
<1>4. Cost([j \in 0 .. n - 1 |-> A[n - 1 - j]])' = Cost([j \in 0 .. n - 1 |-> A[n - 1 - j]])
  <2> HIDE DEF n
  <2> QED BY <1>1 DEF Cost
<1> QED BY <1>2, <1>3, <1>4 DEF Best

LEMMA HistoryKept == ASSUME History, UNCHANGED hvars PROVE History'
<1>1. n' = n /\ freq' = freq /\ A' = A /\ hpc' = hpc /\ leaf' = leaf /\ root' = root /\ next' = next
      /\ pass' = pass /\ sum' = sum
  BY DEF hvars, treeVars, n
<1>2. SUFFICES ASSUME NEW V, NEW b, NEW c, Explained(V, b, c, leaf + root)
               PROVE  Explained(V, b, c, leaf + root)'
  BY <1>1 DEF History
<1>3. Order(V, b, c, leaf + root)'
  <2> HIDE DEF n
  <2>1. \A t : Node(V, b, c, t)' <=> Node(V, b, c, t)
    BY <1>1 DEF Node
  <2> QED BY <2>1, <1>1, <1>2 DEF Explained, Order
<1>4. \A k \in 0 .. root' - 1 : Placed(b, (leaf + root)', k, A'[k])
  BY <1>1, <1>2 DEF Explained
<1> QED BY <1>1, <1>2, <1>3, <1>4 DEF Explained, Placed

LEMMA HeightsUnchanged == ASSUME Heights, UNCHANGED hvars PROVE Heights'
<1>1. n' = n /\ freq' = freq /\ A' = A /\ hpc' = hpc /\ i' = i /\ level_top' = level_top
      /\ depth' = depth /\ total_nodes_at_level' = total_nodes_at_level
  BY DEF hvars, levelVars, n
<1>2. SUFFICES ASSUME NEW H, NEW q, NEW x, HeightsAt(H, q), HeightsReached(H, q, x)
               PROVE  HeightsAt(H, q)' /\ HeightsReached(H, q, x)'
  BY <1>1 DEF Heights
<1>3. HeightsAt(H, q)'
  BY <1>1, <1>2, HeightsKept
<1>4. Cost([j \in 0 .. n - 1 |-> IF j >= i THEN A[j] ELSE depth])'
         = Cost([j \in 0 .. n - 1 |-> IF j >= i THEN A[j] ELSE depth])
  <2> HIDE DEF n
  <2> QED BY <1>1 DEF Cost
<1> QED BY <1>1, <1>2, <1>3, <1>4 DEF HeightsReached

\* What holds of the lengths in all three loops.
OInv == CInv /\ Passed /\ History /\ Heights /\ Best

LEMMA InitOInv == Init => OInv
<1> SUFFICES ASSUME Init PROVE OInv
  OBVIOUS
<1>1. Passed
  BY CompressionAssumption DEF Init, HuffmanInit, Passed
<1>2. hpc = "tree"
  BY DEF Init, HuffmanInit
<1> QED BY <1>1, <1>2, InitCInv, NatFrequencies, InitHistory DEF OInv, Heights, Best

LEMMA HuffmanOInv == ASSUME OInv, HuffmanStep PROVE History' /\ Heights' /\ Best'
<1>1. IInv /\ Parents /\ Levels /\ Passed /\ History /\ Heights /\ Best
  BY DEF OInv, CInv
<1>2. CASE TakeRoot \/ TakeLeaf
  <2>1. hpc' = "tree"
    BY <1>2 DEF TakeRoot, TakeLeaf
  <2> QED BY <1>1, <1>2, <2>1, TakeHistory DEF Heights, Best
<1>3. CASE TreeBuilt
  <2>1. hpc' = "levels"
    BY <1>3 DEF TreeBuilt
  <2> QED BY <1>1, <1>3, <2>1, TreeBuiltHeights DEF History, Best
<1>4. CASE Level
  <2>1. hpc' = "levels"
    BY <1>4 DEF Level
  <2> QED BY <1>1, <1>4, <2>1, LevelHeights DEF History, Best
<1>5. CASE FirstCode
  <2>1. hpc' = "codes"
    BY <1>5 DEF FirstCode
  <2> QED BY <1>1, <1>5, <2>1, FirstCodeBest DEF History, Heights
<1>6. CASE PushCode
  <2>1. hpc \in {"codes", "coded"} /\ hpc' \in {"codes", "coded"} /\ UNCHANGED <<freq, A>>
    BY <1>6 DEF PushCode
  <2> QED BY <1>1, <2>1, BestKept DEF History, Heights
<1>7. CASE EmptyCrashes
  <2>1. hpc' = "crash"
    BY <1>7 DEF EmptyCrashes
  <2> QED BY <2>1 DEF History, Heights, Best
<1> QED BY <1>2, <1>3, <1>4, <1>5, <1>6, <1>7 DEF HuffmanStep

LEMMA StepOInv == ASSUME OInv, [Next]_cvars PROVE OInv'
<1>1. CInv' /\ Passed'
  <2>1. text' = text /\ freq' = freq
    BY DEF Next, HuffmanStep, TakeRoot, TakeLeaf, TreeBuilt, Level, FirstCode, PushCode,
           EmptyCrashes, GetCodes, Deflate, combineBinaryFiles, separateBinaryFile,
           decodeBinaryFileToMap, inflateOpens, inflate, cvars, hvars
  <2> QED BY <2>1, StepCInv DEF OInv, Passed
<1>2. HuffmanStep \/ UNCHANGED hvars \/ hpc' = "crash"
  BY DEF Next, GetCodes, Deflate, combineBinaryFiles, separateBinaryFile, decodeBinaryFileToMap,
         inflateOpens, inflate, cvars
<1>3. CASE HuffmanStep
  BY <1>1, <1>3, HuffmanOInv DEF OInv
<1>4. CASE UNCHANGED hvars
  <2>1. UNCHANGED <<hpc, freq, A>>
    BY <1>4 DEF hvars
  <2>2. Best'
    BY <2>1, BestKept DEF OInv
  <2> QED BY <1>1, <1>4, <2>2, HistoryKept, HeightsUnchanged DEF OInv
<1>5. CASE hpc' = "crash"
  BY <1>1, <1>5 DEF OInv, History, Heights, Best
<1> QED BY <1>2, <1>3, <1>4, <1>5

\* For every file of two or more different characters the lengths that the
\* in-place loops compute are optimal: no lengths that fit a prefix code
\* (Kraft's inequality) make the file's codes shorter together.
THEOREM CodesOptimal == Spec => []Optimal
<1>1. OInv => Optimal
  BY DEF OInv, Best, Optimal
<1> QED BY InitOInv, StepOInv, <1>1, PTL DEF Spec
=============================================================================
